-------------------------- MODULE GuestStorage_proofs --------------------------
(***************************************************************************)
(* What guests store stays, is what they read, and leaves their memory     *)
(* alone, for any guests, keys, values and sizes.                          *)
(***************************************************************************)
EXTENDS GuestStorage, TLAPS

\* What a file may hold, with the mark of one that is missing.
Contents == Parts \cup {"missing"}

\* The part of the types the rest needs.
Shapes ==
  /\ DOMAIN files = StorageKeys /\ DOMAIN last = StorageKeys
  /\ DOMAIN clean = StorageKeys
  /\ DOMAIN guest = Guests /\ DOMAIN memory = Guests
  /\ \A g \in Guests : DOMAIN memory[g] = 1..MemSize
  /\ \A g \in Guests : guest[g].at = "writing" => guest[g].value \in Seq(Parts)
  /\ \A k \in StorageKeys : files[k] \in Seq(Contents)

\* Whoever writes a clean key writes alone, over an empty file.
CleanlyWritten ==
  \A k \in StorageKeys : clean[k] =>
    \A g, h \in Writers(k) : g = h /\ files[k] = <<>>

StorageInv == Shapes /\ CleanlyWritten /\ StoredStays

MemoryInv == Shapes /\ RoomyGuestsKeepTheirData

-------------------------------------------------------------------------------
\* Files

LEMMA InitStorageInv == Init => StorageInv /\ MemoryInv
<1> SUFFICES ASSUME Init PROVE StorageInv /\ MemoryInv
  OBVIOUS
<1>0. Missing \in Seq(Contents)
  BY DEF Missing, Contents
<1>1. Shapes /\ \A g \in Guests : guest[g].at = "new" /\ DataIntact(g)
  BY <1>0 DEF Init, At, Untouched, Shapes, DataIntact
<1>2. \A k \in StorageKeys : Writers(k) = {} /\ files[k] = last[k].value
  BY <1>1 DEF Init, Writers
<1> QED
  BY <1>1, <1>2
  DEF StorageInv, MemoryInv, CleanlyWritten, StoredStays, RoomyGuestsKeepTheirData

(***************************************************************************)
(* Over an empty file, what is written is what is there.                   *)
(***************************************************************************)
LEMMA OverEmpty ==
  ASSUME NEW value \in Seq(Parts)
  PROVE  Over(<<>>, value) = value
<1>1. SubSeq(<<>>, Len(value) + 1, 0) = <<>>
  OBVIOUS
<1> QED
  BY <1>1 DEF Over

(***************************************************************************)
(* Whatever is written over a file, or a part of it, it is a file again.   *)
(***************************************************************************)
LEMMA OverType ==
  ASSUME NEW content \in Seq(Contents), NEW value \in Seq(Parts), NEW n \in 0..Len(value)
  PROVE  Over(content, SubSeq(value, 1, n)) \in Seq(Contents)
<1>1. SubSeq(value, 1, n) \in Seq(Parts) /\ Len(SubSeq(value, 1, n)) = n
  OBVIOUS
<1>2. SubSeq(value, 1, n) \in Seq(Contents)
  BY <1>1 DEF Contents
<1>3. SubSeq(content, n + 1, Len(content)) \in Seq(Contents)
  OBVIOUS
<1> QED
  BY <1>1, <1>2, <1>3 DEF Over

(***************************************************************************)
(* A call that neither begins nor ends a writing keeps files and writers.  *)
(***************************************************************************)
LEMMA AnswerKeepsFiles ==
  ASSUME StorageInv, NEW g \in Guests, guest[g].at # "writing",
         guest'[g].at # "writing", \A h \in Guests \ {g} : guest'[h] = guest[h],
         DOMAIN guest' = Guests,
         UNCHANGED <<files, last, clean>>, DOMAIN memory' = Guests,
         \A h \in Guests : DOMAIN memory'[h] = 1..MemSize
  PROVE  StorageInv'
<1>1. \A k \in StorageKeys : Writers(k)' = Writers(k)
  BY DEF Writers
<1>2. Shapes'
  BY DEF StorageInv, Shapes
<1> QED
  BY <1>1, <1>2 DEF StorageInv, CleanlyWritten, StoredStays, Settled

LEMMA OpenForWriteStorageInv ==
  ASSUME StorageInv, NEW g \in Guests, NEW k \in StorageKeys, NEW value \in Values,
         OpenForWrite(g, k, value)
  PROVE  StorageInv'
<1>1. guest' = [guest EXCEPT ![g] = [At("writing", NoResult) EXCEPT !.key = k, !.value = value]]
  BY DEF OpenForWrite
<1>2. /\ guest'[g].at = "writing" /\ guest'[g].key = k /\ guest'[g].value = value
      /\ \A h \in Guests \ {g} : guest'[h] = guest[h]
      /\ DOMAIN guest' = Guests
  BY <1>1 DEF At, StorageInv, Shapes
<1>3. Shapes'
  <2>1. value \in Seq(Parts) /\ <<>> \in Seq(Contents)
    BY StorageAssumption
  <2> QED
    BY <1>2, <2>1 DEF OpenForWrite, StorageInv, Shapes
<1>4. /\ Writers(k)' = Writers(k) \cup {g}
      /\ \A l \in StorageKeys \ {k} : Writers(l)' = Writers(l)
  BY <1>2 DEF OpenForWrite, Writers
<1>5. /\ files'[k] = <<>> /\ clean'[k] = (Writers(k) = {}) /\ last' = last
      /\ \A l \in StorageKeys \ {k} : files'[l] = files[l] /\ clean'[l] = clean[l]
  BY DEF OpenForWrite, StorageInv, Shapes
<1>6. CleanlyWritten'
  <2>1. clean'[k] => \A h, i \in Writers(k)' : h = i /\ files'[k] = <<>>
    BY <1>4, <1>5
  <2> QED
    BY <1>4, <1>5, <2>1 DEF StorageInv, CleanlyWritten
<1>7. StoredStays'
  BY <1>4, <1>5 DEF StorageInv, StoredStays, Settled
<1> QED
  BY <1>3, <1>6, <1>7 DEF StorageInv

(***************************************************************************)
(* A writing that ends, well or not, changes its own key's file only.      *)
(***************************************************************************)
LEMMA FillStorageInv ==
  ASSUME StorageInv, NEW g \in Guests, Fill(g) \/ FillFails(g)
  PROVE  StorageInv'
<1> PICK k : k = guest[g].key
  OBVIOUS
<1>1. guest[g].at = "writing" /\ (k \in StorageKeys => g \in Writers(k))
  BY DEF Fill, FillFails, Writers
<1>2. PICK result : guest' = [guest EXCEPT ![g] = At("running", result)]
  BY DEF Fill, FillFails, Answer
<1>3. /\ guest'[g].at = "running"
      /\ \A h \in Guests \ {g} : guest'[h] = guest[h]
      /\ DOMAIN guest' = Guests
  BY <1>2 DEF At, StorageInv, Shapes
<1>4. \A l \in StorageKeys : Writers(l)' = Writers(l) \ {g}
  BY <1>3 DEF Writers
<1>5. \A l \in StorageKeys \ {k} : g \notin Writers(l)
  BY DEF Writers
<1>6. Shapes'
  <2>1. guest[g].value \in Seq(Parts)
    BY <1>1 DEF StorageInv, Shapes
  <2>2. PICK n \in 0..Len(guest[g].value) :
          files' = [files EXCEPT ![k] = Over(@, SubSeq(guest[g].value, 1, n))]
    <3>1. SubSeq(guest[g].value, 1, Len(guest[g].value)) = guest[g].value
      BY <2>1
    <3>2. Len(guest[g].value) \in Nat
      BY <2>1
    <3>3. CASE Fill(g)
      <4>1. files' = [files EXCEPT ![k] = Over(files[k], guest[g].value)]
        BY <3>3 DEF Fill
      <4>2. files' = [files EXCEPT ![k] =
                        Over(files[k], SubSeq(guest[g].value, 1, Len(guest[g].value)))]
        BY <3>1, <4>1
      <4>3. Len(guest[g].value) \in 0..Len(guest[g].value)
        BY <3>2
      <4> WITNESS Len(guest[g].value) \in 0..Len(guest[g].value)
      <4> QED
        BY <4>2
    <3>4. CASE FillFails(g)
      <4>1. PICK n \in 0..(Len(guest[g].value) - 1) :
              files' = [files EXCEPT ![k] = Over(files[k], SubSeq(guest[g].value, 1, n))]
        BY <3>4 DEF FillFails
      <4>2. n \in 0..Len(guest[g].value)
        BY <3>2
      <4> QED
        BY <4>1, <4>2
    <3> QED
      BY <3>3, <3>4
  <2>3. \A l \in StorageKeys : files'[l] \in Seq(Contents)
    BY <2>1, <2>2, OverType DEF StorageInv, Shapes
  <2> QED
    BY <1>3, <2>3 DEF Fill, FillFails, StorageInv, Shapes
<1>7. \A l \in StorageKeys \ {k} :
        files'[l] = files[l] /\ clean'[l] = clean[l] /\ last'[l] = last[l]
  BY DEF Fill, FillFails, StorageInv, Shapes
<1>8. ASSUME k \in StorageKeys, clean'[k]
      PROVE  Writers(k)' = {} /\ files'[k] = last'[k].value
  <2>1. Fill(g) /\ clean[k]
    BY <1>8 DEF Fill, FillFails, StorageInv, Shapes
  <2>2. Writers(k) = {g} /\ files[k] = <<>>
    BY <1>1, <1>8, <2>1 DEF StorageInv, CleanlyWritten
  <2>3. files'[k] = Over(<<>>, guest[g].value) /\ last'[k].value = guest[g].value
    BY <1>8, <2>1, <2>2 DEF Fill, StorageInv, Shapes
  <2>4. guest[g].value \in Seq(Parts)
    BY <1>1 DEF StorageInv, Shapes
  <2> QED
    BY <1>4, <1>8, <2>2, <2>3, <2>4, OverEmpty
<1>9. ASSUME NEW l \in StorageKeys \ {k}
      PROVE  Writers(l)' = Writers(l)
  BY <1>4, <1>5
<1>10. CleanlyWritten'
  BY <1>7, <1>8, <1>9 DEF StorageInv, CleanlyWritten
<1>11. StoredStays'
  BY <1>7, <1>8, <1>9 DEF StorageInv, StoredStays, Settled
<1> QED
  BY <1>6, <1>10, <1>11 DEF StorageInv

LEMMA EndStorageInv ==
  ASSUME StorageInv, NEW g \in Guests, End(g)
  PROVE  StorageInv'
<1>1. /\ guest'[g].at = "ended"
      /\ \A h \in Guests \ {g} : guest'[h] = guest[h]
      /\ DOMAIN guest' = Guests
  BY DEF End, At, StorageInv, Shapes
<1>2. \A k \in StorageKeys : Writers(k)' = Writers(k) \ {g}
  BY <1>1 DEF Writers
<1>3. \A k \in StorageKeys : clean'[k] => clean[k] /\ g \notin Writers(k)
  BY DEF End
<1>4. Shapes'
  BY <1>1 DEF End, Untouched, StorageInv, Shapes
<1> QED
  BY <1>2, <1>3, <1>4 DEF End, StorageInv, CleanlyWritten, StoredStays, Settled

-------------------------------------------------------------------------------
\* Memory

(***************************************************************************)
(* A call that writes within a roomy guest's buffer leaves its data alone. *)
(***************************************************************************)
LEMMA WithinBuffers ==
  ASSUME MemoryInv, NEW g \in Guests, NEW cells,
         memory' = [memory EXCEPT ![g] = cells], DOMAIN cells = 1..MemSize,
         Roomy(g) => \A i \in 1..MemSize \ Buffers(g) : cells[i] = memory[g][i]
  PROVE  /\ RoomyGuestsKeepTheirData' /\ DOMAIN memory' = Guests
         /\ \A h \in Guests : DOMAIN memory'[h] = 1..MemSize
<1>1. /\ memory'[g] = cells /\ DOMAIN memory' = Guests
      /\ \A h \in Guests \ {g} : memory'[h] = memory[h]
  BY DEF MemoryInv, Shapes
<1>2. ASSUME NEW h \in Guests, Roomy(h)
      PROVE  \A i \in DOMAIN memory'[h] \ Buffers(h) : memory'[h][i] = Own
  <2>1. /\ \A i \in 1..MemSize \ Buffers(h) : memory[h][i] = Own
        /\ DOMAIN memory[h] = 1..MemSize
    BY <1>2 DEF MemoryInv, Shapes, RoomyGuestsKeepTheirData, DataIntact
  <2>2. CASE h = g
    BY <1>1, <1>2, <2>1, <2>2
  <2>3. CASE h # g
    BY <1>1, <2>1, <2>3
  <2> QED
    BY <2>2, <2>3
<1>3. RoomyGuestsKeepTheirData'
  BY <1>2 DEF RoomyGuestsKeepTheirData, DataIntact, Roomy, Buffers
<1> QED
  BY <1>1, <1>3 DEF MemoryInv, Shapes

(***************************************************************************)
(* Put changes the cells from that of the length to the value's last.      *)
(***************************************************************************)
LEMMA PutCells ==
  ASSUME NEW cells, NEW at \in Nat, NEW value, Len(value) \in Nat
  PROVE  /\ DOMAIN Put(cells, at, value) = DOMAIN cells
         /\ \A i \in DOMAIN cells : i \notin at..(at + Len(value)) =>
              (i \in Int => Put(cells, at, value)[i] = cells[i])
BY DEF Put

(***************************************************************************)
(* A value of no more than the longest is put where a roomy guest has its  *)
(* buffer; a length alone is, too, and so is an error behind it.           *)
(***************************************************************************)
LEMMA PutWithin ==
  ASSUME MemoryInv, NEW g \in Guests, NEW at \in Nat, NEW value, Len(value) \in Nat,
         Roomy(g) => at..(at + Len(value)) \subseteq Buffers(g),
         NEW new, new = Put(memory[g], at, value), memory' = [memory EXCEPT ![g] = new]
  PROVE  /\ RoomyGuestsKeepTheirData' /\ DOMAIN memory' = Guests
         /\ \A h \in Guests : DOMAIN memory'[h] = 1..MemSize
<1>1. PICK cells : cells = memory[g]
  OBVIOUS
<1>2. DOMAIN cells = 1..MemSize
  BY <1>1 DEF MemoryInv, Shapes
<1>3. DOMAIN Put(cells, at, value) = 1..MemSize
  BY <1>2, PutCells
<1>4. ASSUME Roomy(g), NEW i \in 1..MemSize \ Buffers(g)
      PROVE  Put(cells, at, value)[i] = cells[i]
  <2>1. i \notin at..(at + Len(value)) /\ i \in DOMAIN cells /\ i \in Int
    BY <1>2, <1>4
  <2> QED
    BY <2>1, PutCells
<1>5. new = Put(cells, at, value)
  BY <1>1
<1> QED
  BY <1>1, <1>3, <1>4, <1>5, WithinBuffers

LEMMA BufferPlace ==
  ASSUME NEW g \in Guests
  PROVE  /\ Place[g] \in Nat /\ Place[g] > 0 /\ Room[g] \in Nat
         /\ ErrorPlace[g] \in Nat /\ ErrorRoom[g] \in Nat
         /\ MaxValue \in Nat /\ MaxBody \in Nat /\ MemSize \in Nat
BY StorageAssumption

(***************************************************************************)
(* A value or body delivered is shorter than a roomy guest's buffer.       *)
(***************************************************************************)
LEMMA DeliverWithin ==
  ASSUME MemoryInv, NEW g \in Guests, NEW value, Len(value) \in Nat,
         Roomy(g) => Room[g] > Len(value), Deliver(g, Place[g], value)
  PROVE  /\ RoomyGuestsKeepTheirData' /\ DOMAIN memory' = Guests
         /\ \A h \in Guests : DOMAIN memory'[h] = 1..MemSize
<1>2. Roomy(g) => Place[g]..(Place[g] + Len(value)) \subseteq Buffers(g)
  BY BufferPlace DEF Buffers, Cells
<1> QED
  <2>1. PICK new : new = Put(memory[g], Place[g], value)
    OBVIOUS
  <2>2. memory' = [memory EXCEPT ![g] = new]
    BY <2>1 DEF Deliver
  <2>3. Place[g] \in Nat /\ Len(value) \in Nat
    BY BufferPlace
  <2> QED
    BY <1>2, <2>1, <2>2, <2>3, PutWithin

(***************************************************************************)
(* A message stays within a roomy guest's buffer for errors, as that has   *)
(* room for every message; memory too short keeps it away altogether.      *)
(***************************************************************************)
LEMMA ErrorWithin ==
  ASSUME MemoryInv, NEW g \in Guests, "net_http_get" \in Imports[g],
         NEW message \in Messages, WriteError(g, ErrorPlace[g], message)
  PROVE  /\ RoomyGuestsKeepTheirData' /\ DOMAIN memory' = Guests
         /\ \A h \in Guests : DOMAIN memory'[h] = 1..MemSize
<1>1. CASE memory' = memory
  BY <1>1 DEF MemoryInv, Shapes, RoomyGuestsKeepTheirData, DataIntact, Roomy, Buffers
<1>2. CASE memory' = [memory EXCEPT ![g] = Put(@, ErrorPlace[g], message)]
  <2>1. ErrorPlace[g] \in Nat /\ Len(message) \in Nat
    BY BufferPlace, StorageAssumption
  <2>2. Roomy(g) => ErrorPlace[g]..(ErrorPlace[g] + Len(message)) \subseteq Buffers(g)
    BY <2>1, BufferPlace DEF Roomy, Buffers, Cells
  <2>3. PICK new : new = Put(memory[g], ErrorPlace[g], message)
    OBVIOUS
  <2>4. memory' = [memory EXCEPT ![g] = new]
    BY <1>2, <2>3
  <2> QED
    BY <2>1, <2>2, <2>3, <2>4, PutWithin
<1> QED
  BY <1>1, <1>2 DEF WriteError

LEMMA StorageReadWithin ==
  ASSUME StorageInv, MemoryInv, NEW g \in Guests, NEW k \in StorageKeys,
         StorageRead(g, k, Place[g])
  PROVE  /\ RoomyGuestsKeepTheirData' /\ DOMAIN memory' = Guests
         /\ \A h \in Guests : DOMAIN memory'[h] = 1..MemSize
<1>1. CASE UNCHANGED memory
  BY <1>1 DEF MemoryInv, Shapes, RoomyGuestsKeepTheirData, DataIntact, Roomy, Buffers
<1>2. CASE memory' = [memory EXCEPT ![g][Place[g]] = <<"length", Len(files[k])>>]
  <2> DEFINE cells == [memory[g] EXCEPT ![Place[g]] = <<"length", Len(files[k])>>]
  <2>1. memory' = [memory EXCEPT ![g] = cells]
    BY <1>2
  <2>2. DOMAIN cells = 1..MemSize
    BY DEF MemoryInv, Shapes
  <2>3. Roomy(g) => Place[g] \in Buffers(g)
    BY BufferPlace DEF Roomy, Buffers, Cells
  <2>4. Roomy(g) => \A i \in 1..MemSize \ Buffers(g) : cells[i] = memory[g][i]
    BY <2>3 DEF MemoryInv, Shapes
  <2> HIDE DEF cells
  <2> QED
    BY <2>1, <2>2, <2>4, WithinBuffers
<1>3. CASE Readable(g, k) /\ Deliver(g, Place[g], files[k])
  <2>1. Len(files[k]) \in Nat /\ (Roomy(g) => Room[g] > Len(files[k]))
    BY <1>3, BufferPlace DEF Readable, StorageInv, Shapes, Roomy
  <2> QED
    BY <1>3, <2>1, DeliverWithin
<1> QED
  BY <1>1, <1>2, <1>3 DEF StorageRead

LEMMA HttpGetWithin ==
  ASSUME MemoryInv, NEW g \in Guests, NEW body \in Bodies,
         HttpGet(g, body, Place[g], ErrorPlace[g])
  PROVE  /\ RoomyGuestsKeepTheirData' /\ DOMAIN memory' = Guests
         /\ \A h \in Guests : DOMAIN memory'[h] = 1..MemSize
<1>1. CASE UNCHANGED memory
  BY <1>1 DEF MemoryInv, Shapes, RoomyGuestsKeepTheirData, DataIntact, Roomy, Buffers
<1>2. CASE \E message \in Messages : WriteError(g, ErrorPlace[g], message)
  BY <1>2, ErrorWithin DEF HttpGet
<1>3. CASE Len(body) <= MaxBody /\ Deliver(g, Place[g], body)
  <2>1. Len(body) \in Nat
    BY StorageAssumption
  <2>2. Roomy(g) => Room[g] > Len(body)
    BY <1>3, <2>1, BufferPlace DEF HttpGet, Roomy
  <2> QED
    BY <1>3, <2>1, <2>2, DeliverWithin
<1> QED
  <2>1. Len(body) \in Nat /\ MaxBody \in Nat
    BY StorageAssumption
  <2> QED
    BY <1>1, <1>2, <1>3, <2>1 DEF HttpGet

LEMMA NextInv ==
  ASSUME StorageInv, MemoryInv, [Next]_vars
  PROVE  StorageInv' /\ MemoryInv'
<1>1. CASE UNCHANGED vars
  <2>1. StorageInv'
    BY <1>1 DEF vars, StorageInv, Shapes, CleanlyWritten, StoredStays, Settled, Writers
  <2> QED
    BY <1>1, <2>1 DEF vars, StorageInv, MemoryInv, RoomyGuestsKeepTheirData, DataIntact, Roomy, Buffers
<1>2. ASSUME UNCHANGED memory, StorageInv' PROVE StorageInv' /\ MemoryInv'
  BY <1>2 DEF StorageInv, MemoryInv, RoomyGuestsKeepTheirData, DataIntact, Roomy, Buffers
<1>3. ASSUME NEW g \in Guests, Instantiate(g) PROVE StorageInv' /\ MemoryInv'
  <2>1. /\ guest[g].at = "new" /\ guest'[g].at # "writing" /\ DOMAIN guest' = Guests
        /\ \A h \in Guests \ {g} : guest'[h] = guest[h]
    BY <1>3 DEF Instantiate, At, MemoryInv, Shapes
  <2>2. StorageInv'
    BY <1>3, <2>1, AnswerKeepsFiles DEF Instantiate, MemoryInv, Shapes
  <2> QED
    BY <1>2, <1>3, <2>2 DEF Instantiate
<1>4. ASSUME NEW g \in Guests, guest[g].at = "running",
             NEW result, Answer(g, result), UNCHANGED <<files, last, clean>>,
             RoomyGuestsKeepTheirData', DOMAIN memory' = Guests,
             \A h \in Guests : DOMAIN memory'[h] = 1..MemSize
      PROVE  StorageInv' /\ MemoryInv'
  <2>1. /\ guest'[g].at = "running" /\ DOMAIN guest' = Guests
        /\ \A h \in Guests \ {g} : guest'[h] = guest[h]
    BY <1>4 DEF Answer, At, MemoryInv, Shapes
  <2>2. StorageInv'
    BY <1>4, <2>1, AnswerKeepsFiles
  <2> QED
    BY <1>4, <2>2 DEF StorageInv, MemoryInv
<1>5. ASSUME NEW g \in Guests, NEW k \in StorageKeys, StorageRead(g, k, Place[g])
      PROVE  StorageInv' /\ MemoryInv'
  <2>1. PICK result : Answer(g, result)
    BY <1>5 DEF StorageRead, Deliver
  <2>2. guest[g].at = "running" /\ UNCHANGED <<files, last, clean>>
    BY <1>5 DEF StorageRead
  <2> QED
    BY <1>4, <1>5, <2>1, <2>2, StorageReadWithin
<1>6. ASSUME NEW g \in Guests, NEW k \in StorageKeys, NEW value \in Values,
             OpenForWrite(g, k, value)
      PROVE  StorageInv' /\ MemoryInv'
  BY <1>2, <1>6, OpenForWriteStorageInv DEF OpenForWrite
<1>7. ASSUME NEW g \in Guests, WriteRefused(g) PROVE StorageInv' /\ MemoryInv'
  BY <1>4, <1>7 DEF WriteRefused, MemoryInv, Shapes, RoomyGuestsKeepTheirData, DataIntact,
                    Roomy, Buffers
<1>8. ASSUME NEW g \in Guests, Fill(g) \/ FillFails(g) PROVE StorageInv' /\ MemoryInv'
  BY <1>2, <1>8, FillStorageInv DEF Fill, FillFails
<1>9. ASSUME NEW g \in Guests, NEW body \in Bodies, HttpGet(g, body, Place[g], ErrorPlace[g])
      PROVE  StorageInv' /\ MemoryInv'
  <2>1. PICK result : Answer(g, result)
    BY <1>9 DEF HttpGet, Deliver
  <2>2. guest[g].at = "running" /\ UNCHANGED <<files, last, clean>>
    BY <1>9 DEF HttpGet
  <2> QED
    BY <1>4, <1>9, <2>1, <2>2, HttpGetWithin
<1>10. ASSUME NEW g \in Guests, HttpFails(g, ErrorPlace[g]) PROVE StorageInv' /\ MemoryInv'
  <2>1. CASE UNCHANGED memory
    BY <1>4, <1>10, <2>1 DEF HttpFails, MemoryInv, Shapes, RoomyGuestsKeepTheirData, DataIntact,
                             Roomy, Buffers
  <2>2. CASE \E message \in Messages : WriteError(g, ErrorPlace[g], message)
    BY <1>4, <1>10, <2>2, ErrorWithin DEF HttpFails
  <2> QED
    BY <1>10, <2>1, <2>2 DEF HttpFails
<1>11. ASSUME NEW g \in Guests, End(g) PROVE StorageInv' /\ MemoryInv'
  <2>1. StorageInv'
    BY <1>11, EndStorageInv
  <2>2. memory' = [memory EXCEPT ![g] = Untouched] /\ DOMAIN Untouched = 1..MemSize
    BY <1>11 DEF End, Untouched
  <2>3. \A i \in 1..MemSize : Untouched[i] = Own
    BY DEF Untouched
  <2>4. \A h \in Guests : memory'[h] = Untouched \/ memory'[h] = memory[h]
    BY <2>2 DEF MemoryInv, Shapes
  <2>5. RoomyGuestsKeepTheirData'
    BY <2>2, <2>3, <2>4
    DEF MemoryInv, RoomyGuestsKeepTheirData, DataIntact, Roomy, Buffers
  <2> QED
    BY <2>1, <2>5 DEF StorageInv, MemoryInv
<1> QED
  BY <1>1, <1>3, <1>5, <1>6, <1>7, <1>8, <1>9, <1>10, <1>11 DEF Next

THEOREM Invariance == Spec => [](StorageInv /\ MemoryInv)
<1>1. StorageInv /\ MemoryInv /\ [Next]_vars => StorageInv' /\ MemoryInv'
  BY NextInv
<1> QED
  BY <1>1, InitStorageInv, PTL DEF Spec

(***************************************************************************)
(* What was stored last under a key, by a writer on its own, is what its   *)
(* file holds, for any number of guests and values (storage_write).        *)
(***************************************************************************)
THEOREM StoredValuesStay == Spec => []StoredStays
<1>1. StorageInv => StoredStays
  BY DEF StorageInv
<1> QED
  BY <1>1, Invariance, PTL

(***************************************************************************)
(* What a guest copies from behind the length is the value that was put.   *)
(***************************************************************************)
LEMMA CopiedIsPut ==
  ASSUME NEW cells, NEW at \in Nat \ {0}, NEW value \in Seq(Contents),
         DOMAIN cells = 1..MemSize, at + Len(value) <= MemSize,
         NEW new, new = Put(cells, at, value),
         NEW copied, copied = Copied(new, at)
  PROVE  copied = Data(value)
<1>1. Len(value) \in Nat /\ DOMAIN value = 1..Len(value) /\ MemSize \in Nat
  BY StorageAssumption
<1>2. at \in DOMAIN cells /\ \A i \in 1..Len(value) : at + i \in DOMAIN cells
  BY <1>1
<1>3. new[at] = <<"length", Len(value)>>
  BY <1>1, <1>2 DEF Put
<1>4. \A i \in 1..Len(value) : new[at + i] = <<"data", value[i]>>
  <2> TAKE i \in 1..Len(value)
  <2>1. at + i # at /\ at + i \in (at + 1)..(at + Len(value)) /\ (at + i) - at = i
    BY <1>1
  <2> QED
    BY <1>2, <2>1 DEF Put
<1>5. copied = SubSeq(new, at + 1, at + Len(value))
  BY <1>3 DEF Copied
<1>6. SubSeq(new, at + 1, at + Len(value)) = [i \in 1..Len(value) |-> new[at + i]]
  BY <1>1
<1>7. [i \in 1..Len(value) |-> new[at + i]] = Data(value)
  BY <1>1, <1>4 DEF Data
<1> QED
  BY <1>5, <1>6, <1>7

(***************************************************************************)
(* A guest that reads what its own app stored last gets just that, through *)
(* its memory, for any sizes of values, buffers and memories (storage_read *)
(* and storage::read of the bindings).                                     *)
(***************************************************************************)
THEOREM ReadsAreExact == Spec => ReadsAreOfTheLastStored
<1> DEFINE Exact(g, k) ==
      /\ Settled(k) /\ last[k].app = AppOf[g]
      /\ guest'[g].result.pointer # 0 /\ StorageRead(g, k, Place[g])
      => guest'[g].result.value = Data(last[k].value)
<1>1. ASSUME StorageInv, NEW g \in Guests, NEW k \in StorageKeys
      PROVE  Exact(g, k)
  <2> SUFFICES ASSUME StorageRead(g, k, Place[g]), Settled(k), guest'[g].result.pointer # 0
               PROVE  guest'[g].result.value = Data(last[k].value)
    OBVIOUS
  <2>1. files[k] = last[k].value /\ files[k] \in Seq(Contents)
    BY <1>1 DEF StorageInv, StoredStays, Shapes
  <2>2. ~Answer(g, NoResult)
    <3> SUFFICES ASSUME Answer(g, NoResult) PROVE FALSE
      OBVIOUS
    <3>1. guest'[g] = At("running", NoResult)
      BY <1>1 DEF Answer, StorageInv, Shapes
    <3>2. guest'[g].result = NoResult
      BY <3>1 DEF At
    <3>3. NoResult.pointer = 0
      BY DEF NoResult
    <3> QED
      BY <3>2, <3>3
  <2>3. Place[g] + Len(files[k]) <= MemSize /\ Deliver(g, Place[g], files[k])
    <3>1. Len(files[k]) \in Nat
      BY <2>1
    <3> QED
      BY <2>2, <3>1, BufferPlace DEF StorageRead
  <2>4. PICK cells : cells = memory[g]
    OBVIOUS
  <2>5. PICK new : new = Put(cells, Place[g], files[k])
    OBVIOUS
  <2>6. PICK copied : copied = Copied(new, Place[g])
    OBVIOUS
  <2>7. guest'[g].result.value = copied
    BY <1>1, <2>3, <2>4, <2>5, <2>6 DEF Deliver, Answer, At, StorageInv, Shapes
  <2>8. DOMAIN cells = 1..MemSize /\ Place[g] \in Nat \ {0}
    BY <1>1, <2>4, BufferPlace DEF StorageInv, Shapes
  <2>9. copied = Data(files[k])
    BY <2>1, <2>3, <2>5, <2>6, <2>8, CopiedIsPut
  <2> QED
    BY <2>1, <2>7, <2>9
<1>2. StorageInv => \A g \in Guests, k \in StorageKeys : Exact(g, k)
  BY <1>1
<1> QED
  BY <1>2, Invariance, PTL DEF ReadsAreOfTheLastStored

(***************************************************************************)
(* Neither values of the others, nor responses, nor messages of whatever   *)
(* length, reach past the buffers of a guest that has room for the longest *)
(* of each (storage_read, net_http_get).                                   *)
(***************************************************************************)
THEOREM RoomyGuestsAreSafe == Spec => []RoomyGuestsKeepTheirData
<1>1. MemoryInv => RoomyGuestsKeepTheirData
  BY DEF MemoryInv
<1> QED
  BY <1>1, Invariance, PTL
===============================================================================
