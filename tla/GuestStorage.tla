----------------------------- MODULE GuestStorage -----------------------------
(***************************************************************************)
(* Guests and the host functions they keep data with: storage_read,        *)
(* storage_write and net_http_get of os-agent/src/wasm_runtime.rs, called  *)
(* from os-syscall-bindings/src/lib.rs or by imports of the guest's own.   *)
(* Executions run in several processes; all of them share one directory,   *)
(* as every app is "default".  A host function runs to its end without its *)
(* guest, but files change under it: std::fs::write truncates a file and   *)
(* then writes from its beginning, and fs::read takes what is there.       *)
(*                                                                         *)
(* Memory is counted in cells of four bytes: the cell of a length, and one *)
(* for each part of a value.  A guest passes a pointer to a buffer, and    *)
(* for requests one to a buffer for errors; what lies behind them is the   *)
(* guest's own data, and the host is not told how long they are.           *)
(***************************************************************************)
EXTENDS Integers, Sequences, TLC

CONSTANTS Guests, StorageKeys,
          AppOf,       \* AppOf[g]: the app that g is an execution of
          Parts,       \* what values are made of
          Values,      \* what guests store, sequences of parts
          Bodies,      \* what servers answer, too
          Messages,    \* what errors of requests are described by, too
          MaxValue,    \* MAX_STORAGE_VALUE_SIZE
          MaxBody,     \* MAX_HTTP_RESPONSE_SIZE
          MemSize,     \* cells of a guest's memory
          Place, Room, \* where g's buffer begins, and its number of cells
          ErrorPlace, ErrorRoom, \* the same of its buffer for errors
          Imports,     \* Imports[g]: the host functions g's module imports
          Bound,       \* the guests that import them through the bindings
          MaxWrites    \* bound: writes in all

ASSUME StorageAssumption ==
  /\ Values \subseteq Seq(Parts) /\ Bodies \subseteq Seq(Parts) /\ Messages \subseteq Seq(Parts)
  /\ MaxValue \in Nat /\ MaxBody \in Nat /\ MemSize \in Nat
  /\ Place \in [Guests -> Nat \ {0}] /\ Room \in [Guests -> Nat]
  /\ ErrorPlace \in [Guests -> Nat \ {0}] /\ ErrorRoom \in [Guests -> Nat]

VARIABLES files,       \* the files of the storage directory
          guest,       \* where each guest is, and the result of its last call
          memory,      \* each guest's memory
          last, clean, \* history: the last value stored and by which app, and
                       \* whether its writing was neither joined by another
                       \* nor cut short
          writes

vars == <<files, guest, memory, last, clean, writes>>

Missing == <<"missing">>
Own == <<"own">>

NoKey == ""
Nobody == "nobody"

\* A call that ended with nothing, or with a value at a pointer.
NoResult == [pointer |-> 0, value |-> <<>>]
At(where, result) == [at |-> where, key |-> NoKey, value |-> <<>>, result |-> result]

Untouched == [i \in 1..MemSize |-> Own]

Init ==
  /\ files = [k \in StorageKeys |-> Missing]
  /\ guest = [g \in Guests |-> At("new", NoResult)]
  /\ memory = [g \in Guests |-> Untouched]
  /\ last = [k \in StorageKeys |-> [value |-> Missing, app |-> Nobody]]
  /\ clean = [k \in StorageKeys |-> TRUE]
  /\ writes = 0

Answer(g, result) == guest' = [guest EXCEPT ![g] = At("running", result)]

-------------------------------------------------------------------------------
\* Linking

\* Parameters and results as the host registers its functions ...
HostUi == [ui_render |-> <<"i32", "i32", "->", "i64">>,
           ui_update |-> <<"i64", "i32", "i32", "->">>]
HostTimers == [timer_set_interval |-> <<"i64", "i32", "i32", "->", "i64">>,
               timer_clear |-> <<"i64", "->", "i32">>]
HostStorage == [storage_read |-> <<"i32", "i32", "i32", "->", "i32">>,
                storage_write |-> <<"i32", "i32", "i32", "i32", "->", "i32">>]
HostNet == [net_http_get |-> <<"i32", "i32", "i32", "i32", "->", "i32">>]
HostNotify == [notify_send |-> <<"i32", "i32", "i32", "i32", "->", "i32">>]

\* ... and as the bindings declare them.
BindingTimers == [timer_set_interval |-> <<"i64", "i64", "->", "i64">>,
                  timer_clear |-> <<"i64", "->">>]
BindingStorage == [storage_read |-> <<"i32", "i32", "i32", "->", "i32">>,
                   storage_write |-> <<"i32", "i32", "i32", "i32", "->", "i32">>]
BindingNet == [net_http_get |-> <<"i32", "i32", "i32", "i32", "->", "i32">>]
BindingNotify == [notify_send |-> <<"i32", "i32", "i32", "i32", "->">>]
BindingUi == [ui_render |-> <<"i32", "i32", "->", "i64">>,
              ui_update |-> <<"i64", "i32", "i32", "->">>]

HostType == HostUi @@ HostTimers @@ HostStorage @@ HostNet @@ HostNotify
BindingType == BindingUi @@ BindingTimers @@ BindingStorage @@ BindingNet @@ BindingNotify

Links(g) == g \in Bound => \A f \in Imports[g] : BindingType[f] = HostType[f]

\* linker.instantiate refuses a module one of whose imports has another type.
Instantiate(g) ==
  /\ guest[g].at = "new"
  /\ guest' = [guest EXCEPT ![g] = At(IF Links(g) THEN "running" ELSE "ended", NoResult)]
  /\ UNCHANGED <<files, memory, last, clean, writes>>

-------------------------------------------------------------------------------
\* Reading

\* Fault: the value is ended with a mark, as strings are.
PutEnded(cells, at, value) ==
  [i \in DOMAIN cells |->
     IF i = at THEN <<"length", Len(value)>>
     ELSE IF i \in (at + 1)..(at + Len(value)) THEN <<"data", value[i - at]>>
     ELSE IF i = at + Len(value) + 1 THEN <<"end">>
     ELSE cells[i]]

\* The cells of a value.
Data(value) == [i \in DOMAIN value |-> <<"data", value[i]>>]

\* A length and a value are written at a pointer.
Put(cells, at, value) ==
  [i \in DOMAIN cells |->
     IF i = at THEN <<"length", Len(value)>>
     ELSE IF i \in (at + 1)..(at + Len(value)) THEN <<"data", value[i - at]>>
     ELSE cells[i]]

\* Fault: the pointer returned is that of the length.
CopiedWithLength(cells, at) == SubSeq(cells, at, at + cells[at][2] - 1)

\* The host returns the cell behind the length, and the guest copies as many.
Copied(cells, at) == SubSeq(cells, at + 1, at + cells[at][2])

Deliver(g, at, value) ==
  LET cells == Put(memory[g], at, value) IN
  /\ memory' = [memory EXCEPT ![g] = cells]
  /\ Answer(g, [pointer |-> at + 1, value |-> Copied(cells, at)])

Readable(g, k) == files[k] # Missing /\ Len(files[k]) <= MaxValue

\* storage_read: the length is written even if the value then does not fit.
StorageRead(g, k, at) ==
  /\ guest[g].at = "running" /\ "storage_read" \in Imports[g]
  /\ IF ~Readable(g, k) \/ at > MemSize
     THEN Answer(g, NoResult) /\ UNCHANGED memory
     ELSE IF at + Len(files[k]) > MemSize
     THEN /\ memory' = [memory EXCEPT ![g][at] = <<"length", Len(files[k])>>]
          /\ Answer(g, NoResult)
     ELSE Deliver(g, at, files[k])
  /\ UNCHANGED <<files, last, clean, writes>>

-------------------------------------------------------------------------------
\* Writing

Writers(k) == {g \in Guests : guest[g].at = "writing" /\ guest[g].key = k}

TooLarge(value) == Len(value) > MaxValue

\* Fault: the file is opened without truncating it.
OpenForUpdate(g, k, value) ==
  /\ guest[g].at = "running" /\ "storage_write" \in Imports[g]
  /\ writes < MaxWrites /\ ~TooLarge(value)
  /\ guest' = [guest EXCEPT ![g] = [At("writing", NoResult) EXCEPT !.key = k, !.value = value]]
  /\ files' = [files EXCEPT ![k] = IF @ = Missing THEN <<>> ELSE @]
  /\ clean' = [clean EXCEPT ![k] = (Writers(k) = {})]
  /\ writes' = writes + 1
  /\ UNCHANGED <<memory, last>>

\* storage_write up to the opened, now empty file.
OpenForWrite(g, k, value) ==
  /\ guest[g].at = "running" /\ "storage_write" \in Imports[g]
  /\ writes < MaxWrites /\ ~TooLarge(value)
  /\ guest' = [guest EXCEPT ![g] = [At("writing", NoResult) EXCEPT !.key = k, !.value = value]]
  /\ files' = [files EXCEPT ![k] = <<>>]
  /\ clean' = [clean EXCEPT ![k] = (Writers(k) = {})]
  /\ writes' = writes + 1
  /\ UNCHANGED <<memory, last>>

\* A value too large, or no directory or file to be had: 0, and nothing done.
WriteRefused(g) ==
  /\ guest[g].at = "running" /\ "storage_write" \in Imports[g]
  /\ Answer(g, NoResult)
  /\ UNCHANGED <<files, memory, last, clean, writes>>

\* Bytes written from the beginning of a file that may not be empty any more.
Over(content, value) == value \o SubSeq(content, Len(value) + 1, Len(content))

Fill(g) ==
  LET k == guest[g].key IN
  /\ guest[g].at = "writing"
  /\ files' = [files EXCEPT ![k] = Over(@, guest[g].value)]
  /\ last' = [last EXCEPT ![k] = [value |-> guest[g].value, app |-> AppOf[g]]]
  /\ Answer(g, [NoResult EXCEPT !.pointer = 1])
  /\ UNCHANGED <<memory, clean, writes>>

\* A part of the value was written when the disk was full.
FillFails(g) ==
  LET k == guest[g].key IN
  /\ guest[g].at = "writing"
  /\ \E n \in 0..(Len(guest[g].value) - 1) :
       files' = [files EXCEPT ![k] = Over(@, SubSeq(guest[g].value, 1, n))]
  /\ clean' = [clean EXCEPT ![k] = FALSE]
  /\ Answer(g, NoResult)
  /\ UNCHANGED <<memory, last, writes>>

-------------------------------------------------------------------------------
\* HTTP

\* The message of an error is written if memory goes on for long enough, however
\* long the guest's buffer for it is.
WriteError(g, at, message) ==
  memory' = IF at + Len(message) <= MemSize
            THEN [memory EXCEPT ![g] = Put(@, at, message)] ELSE memory

\* A response too long is an error; another, with a redirect's status too, is
\* delivered if memory goes on for long enough.
HttpGet(g, body, at, errorAt) ==
  /\ guest[g].at = "running" /\ "net_http_get" \in Imports[g]
  /\ IF Len(body) > MaxBody
     THEN (\E message \in Messages : WriteError(g, errorAt, message)) /\ Answer(g, NoResult)
     ELSE IF at + Len(body) > MemSize
     THEN UNCHANGED memory /\ Answer(g, NoResult)
     ELSE Deliver(g, at, body)
  /\ UNCHANGED <<files, last, clean, writes>>

\* No https, no host, no connection, a status of 400 or more, a timeout, a body
\* that breaks off; or no URL that can be read, of which nothing is said.
HttpFails(g, errorAt) ==
  /\ guest[g].at = "running" /\ "net_http_get" \in Imports[g]
  /\ UNCHANGED memory \/ \E message \in Messages : WriteError(g, errorAt, message)
  /\ Answer(g, NoResult)
  /\ UNCHANGED <<files, last, clean, writes>>

-------------------------------------------------------------------------------
\* A guest returns, traps or is interrupted; a process is killed, even as it
\* writes.  The memory goes with it.
End(g) ==
  /\ guest[g].at \in {"running", "writing"}
  /\ clean' = [k \in StorageKeys |-> clean[k] /\ g \notin Writers(k)]
  /\ guest' = [guest EXCEPT ![g] = At("ended", NoResult)]
  /\ memory' = [memory EXCEPT ![g] = Untouched]
  /\ UNCHANGED <<files, last, writes>>

Next ==
  \E g \in Guests :
    \/ Instantiate(g)
    \/ \E k \in StorageKeys : StorageRead(g, k, Place[g])
    \/ \E k \in StorageKeys, value \in Values : OpenForWrite(g, k, value)
    \/ WriteRefused(g)
    \/ Fill(g) \/ FillFails(g)
    \/ \E body \in Bodies : HttpGet(g, body, Place[g], ErrorPlace[g])
    \/ HttpFails(g, ErrorPlace[g])
    \/ End(g)

Spec == Init /\ [][Next]_vars

-------------------------------------------------------------------------------

Settled(k) == clean[k] /\ Writers(k) = {}

(***************************************************************************)
(* A value stored stays: unless the writing of a key was joined by another *)
(* guest's or cut short, its file holds what was stored last, neither less *)
(* nor a rest of what was there before (storage_write).                    *)
(***************************************************************************)
StoredStays == \A k \in StorageKeys : Settled(k) => files[k] = last[k].value

(***************************************************************************)
(* A guest that reads such a key, when its own app was the last to store   *)
(* under it, receives through its memory just what was stored, whichever   *)
(* execution and process stored it (storage_read, and storage::read of the *)
(* bindings).                                                              *)
(***************************************************************************)
ReadsAreOfTheLastStored ==
  [][\A g \in Guests, k \in StorageKeys :
       /\ Settled(k) /\ last[k].app = AppOf[g]
       /\ guest'[g].result.pointer # 0 /\ StorageRead(g, k, Place[g])
       => guest'[g].result.value = Data(last[k].value)]_vars

Cells(place, room) == place..(place + room - 1)

Buffers(g) == Cells(Place[g], Room[g]) \cup Cells(ErrorPlace[g], ErrorRoom[g])

DataIntact(g) == \A i \in DOMAIN memory[g] \ Buffers(g) : memory[g][i] = Own

\* The contract of storage_read, whose values have a limit, and what it would
\* take for net_http_get, whose messages have none.
Roomy(g) ==
  /\ Room[g] > MaxValue
  /\ "net_http_get" \in Imports[g] =>
       Room[g] > MaxBody /\ \A message \in Messages : ErrorRoom[g] > Len(message)

(***************************************************************************)
(* A guest keeps its own data, whatever the others store, servers answer   *)
(* and errors are described by, if its buffers have room for the longest   *)
(* value, body and message the host may write and their lengths            *)
(* (storage_read, net_http_get).                                           *)
(***************************************************************************)
RoomyGuestsKeepTheirData == \A g \in Guests : Roomy(g) => DataIntact(g)

-------------------------------------------------------------------------------
\* What documentation says, and the code does not do.

(***************************************************************************)
(* README: "Storage per-app isolation", "Working", "verified isolation     *)
(* tests".  So a guest never gets what another app stored.                 *)
(***************************************************************************)
StorageIsPerApp ==
  [][\A g \in Guests, k \in StorageKeys :
       StorageRead(g, k, Place[g]) /\ Settled(k) /\ guest'[g].result.pointer # 0 =>
         last[k].app = AppOf[g]]_vars

(***************************************************************************)
(* The comment on net_http_get gives a guest no length to keep room for    *)
(* but the message's own, which is written before the guest can read it.   *)
(* So a guest with room for any value and body keeps its data.             *)
(***************************************************************************)
RequestersKeepTheirData ==
  \A g \in Guests : Room[g] > MaxValue /\ Room[g] > MaxBody => DataIntact(g)

(***************************************************************************)
(* storage::read of the bindings passes the address of a local u32 and     *)
(* says (lib.rs:265-266) that the host owns what it returns, "The host     *)
(* retains ownership": so the data of a guest that uses them stay its own. *)
(***************************************************************************)
GuestsKeepTheirData == \A g \in Bound : DataIntact(g)
===============================================================================
