------------------------------- MODULE AppStore -------------------------------
(***************************************************************************)
(* The app store's HTTP server (app-store/src/server.rs, main.rs) and its  *)
(* SQLite registry (registry.rs).  Handlers run concurrently on a          *)
(* multi-threaded runtime: they share the files of the store directory and *)
(* the registry, which one mutex guards.  A registry call takes the mutex, *)
(* runs one SQL statement and lets go, so it is one step here; the steps   *)
(* of a handler between those are separate.                                *)
(*                                                                         *)
(* Clients choose what to send and when.  The process may be killed        *)
(* between any two steps: what was written to files and rows stays, every  *)
(* request being handled is lost.                                          *)
(***************************************************************************)
EXTENDS OspArchive, FiniteSets

CONSTANTS Requests,   \* the requests clients make, each handled once
          Ids,        \* version 4 UUIDs, one of which a handler draws
          NoId,       \* a handler that has drawn none
          BadIds,     \* ids a client may ask for that the registry refuses
          Uploads,    \* bodies of uploads: [apiKey, osp, publicKey]
          Asks,       \* request -> what the client may ask with it
          ManifestName, \* manifest.json contents serde accepts -> the app's name
          Matching,   \* query -> the names (or descriptions) it is part of
          StoreKey,   \* OPENSYSTEM_STORE_API_KEY; "" when it is not set
          MaxClock    \* bound: the last second of the wall clock

Calls ==
  [op : {"upload"}, body : Uploads]
    \cup [op : {"get", "download"}, id : Ids \cup BadIds]
    \cup [op : {"search"}, query : DOMAIN Matching]

ASSUME IdsAssumption == NoId \notin Ids /\ BadIds \cap (Ids \cup {NoId}) = {}
ASSUME ClockAssumption == MaxClock \in Nat
ASSUME AsksAssumption == \A r \in Requests : Asks[r] \subseteq Calls
ASSUME UploadsAssumption ==
  \A u \in Uploads : u.osp = {} \/ \E osp \in u.osp : u.osp = {osp}

VARIABLES serving,    \* the process is up
          clock,      \* seconds, as SystemTime::now gives them
          files,      \* store_dir: the file <id>.osp, if there is one
          rows,       \* the table apps: the row of an id, if there is one
          pc, call,   \* the step a handler is at, and the request it handles
          uuid, stamp,\* its local variables id and created_at
          status, got,\* the response: HTTP status (0: none yet) and body
          known       \* history: the ids acknowledged before the request came

vars == <<serving, clock, files, rows, pc, call, uuid, stamp, status, got, known>>
locals == <<call, uuid, stamp, known>>
disk == <<files, rows>>

NoCall == [op |-> "none"]

-------------------------------------------------------------------------------
\* The checks upload_app makes on a request before it touches shared state.

Authorized(u) == StoreKey = "" \/ u.apiKey = StoreKey

WellFormed(u) ==
  \E osp \in u.osp :
    /\ Parses(osp)
    /\ ManifestJson(osp) \in DOMAIN ManifestName
    /\ u.publicKey # "" => Signature(osp) # {}

\* Fault: the signature is stored and never looked at.
SignatureIgnored(key, osp) == TRUE

SignatureHolds(key, osp) ==
  key # "" =>
    \A sig \in Signature(osp) :
      VerifySignature(key, sig, Wasm(osp), ManifestJson(osp))

Acceptable(u) ==
  /\ Authorized(u)
  /\ WellFormed(u)
  /\ SignatureHolds(u.publicKey, The(u.osp))

RejectStatus(u) == IF Authorized(u) /\ ~WellFormed(u) THEN 400 ELSE 401

\* The row upload_app inserts for the app of handler r.
AppEntry(r) ==
  LET osp == The(call[r].body.osp)
  IN [id |-> uuid[r], name |-> ManifestName[ManifestJson(osp)],
      publicKey |-> call[r].body.publicKey, createdAt |-> stamp[r],
      ospPath |-> uuid[r]]

-------------------------------------------------------------------------------

Init ==
  /\ serving = TRUE /\ clock = 0
  /\ files = [id \in Ids |-> {}]
  /\ rows = [id \in Ids |-> {}]
  /\ pc = [r \in Requests |-> "free"]
  /\ call = [r \in Requests |-> NoCall]
  /\ uuid = [r \in Requests |-> NoId]
  /\ stamp = [r \in Requests |-> 0]
  /\ status = [r \in Requests |-> 0]
  /\ got = [r \in Requests |-> {}]
  /\ known = [r \in Requests |-> {}]

Acknowledged ==
  {uuid[r] : r \in {q \in Requests : call[q].op = "upload" /\ status[q] = 200}}

Goto(r, label) == pc' = [pc EXCEPT ![r] = label]

Reply(r, code, body) ==
  /\ Goto(r, "done")
  /\ status' = [status EXCEPT ![r] = code]
  /\ got' = [got EXCEPT ![r] = body]

\* The whole request has arrived.
Receive(r, c) ==
  /\ serving /\ pc[r] = "free"
  /\ Goto(r, "received")
  /\ call' = [call EXCEPT ![r] = c]
  /\ known' = [known EXCEPT ![r] = Acknowledged]
  /\ UNCHANGED <<serving, clock, disk, uuid, stamp, status, got>>

At(r, op, label) == pc[r] = label /\ call[r].op = op

-------------------------------------------------------------------------------
\* upload_app

Reject(r) ==
  /\ At(r, "upload", "received")
  /\ ~Acceptable(call[r].body)
  /\ Reply(r, RejectStatus(call[r].body), {})
  /\ UNCHANGED <<serving, clock, disk, locals>>

\* Fault: an id may be drawn again.
AcceptAnyId(r) ==
  /\ At(r, "upload", "received")
  /\ Acceptable(call[r].body)
  /\ \E id \in Ids : uuid' = [uuid EXCEPT ![r] = id]
  /\ Goto(r, "create")
  /\ UNCHANGED <<serving, clock, disk, call, stamp, status, got, known>>

\* Fault: the row is inserted before the file is written.
AcceptAndInsert(r) ==
  /\ At(r, "upload", "received")
  /\ Acceptable(call[r].body)
  /\ \E id \in Ids \ {uuid[q] : q \in Requests} :
       /\ uuid' = [uuid EXCEPT ![r] = id]
       /\ rows' = [rows EXCEPT ![id] = {[AppEntry(r) EXCEPT !.id = id, !.ospPath = id]}]
  /\ Goto(r, "create")
  /\ UNCHANGED <<serving, clock, files, call, stamp, status, got, known>>

\* Uuid::new_v4 draws an id that was not drawn before.
Accept(r) ==
  /\ At(r, "upload", "received")
  /\ Acceptable(call[r].body)
  /\ \E id \in Ids \ {uuid[q] : q \in Requests} : uuid' = [uuid EXCEPT ![r] = id]
  /\ Goto(r, "create")
  /\ UNCHANGED <<serving, clock, disk, call, stamp, status, got, known>>

\* Fault: the row goes in while the file is still being written.
CreateFileAndGoOn(r) ==
  /\ pc[r] = "create"
  /\ files' = [files EXCEPT ![uuid[r]] = {Truncated(The(call[r].body.osp))}]
  /\ Goto(r, "insert")
  /\ UNCHANGED <<serving, clock, rows, locals, status, got>>

\* std::fs::write creates and truncates the file before the bytes go in.
CreateFile(r) ==
  /\ pc[r] = "create"
  /\ files' = [files EXCEPT ![uuid[r]] = {Truncated(The(call[r].body.osp))}]
  /\ Goto(r, "write")
  /\ UNCHANGED <<serving, clock, rows, locals, status, got>>

\* Fault: the clock may fail to answer, and the row then keeps its default time.
WriteFileUnstamped(r) ==
  /\ pc[r] = "write"
  /\ files' = [files EXCEPT ![uuid[r]] = call[r].body.osp]
  /\ \E time \in {0, clock} : stamp' = [stamp EXCEPT ![r] = time]
  /\ Goto(r, "insert")
  /\ UNCHANGED <<serving, clock, rows, call, uuid, known, status, got>>

\* The rest of std::fs::write, and created_at read from the clock.
WriteFile(r) ==
  /\ pc[r] = "write"
  /\ files' = [files EXCEPT ![uuid[r]] = call[r].body.osp]
  /\ stamp' = [stamp EXCEPT ![r] = clock]
  /\ Goto(r, "insert")
  /\ UNCHANGED <<serving, clock, rows, call, uuid, known, status, got>>

WriteFails(r) ==
  /\ pc[r] \in {"create", "write"}
  /\ Reply(r, 500, {})
  /\ UNCHANGED <<serving, clock, disk, locals>>

\* AppRegistry::insert; id is the table's primary key.
Insert(r) ==
  /\ pc[r] = "insert"
  /\ rows[uuid[r]] = {}
  /\ rows' = [rows EXCEPT ![uuid[r]] = {AppEntry(r)}]
  /\ Goto(r, "respond")
  /\ UNCHANGED <<serving, clock, files, locals, status, got>>

Acknowledge(r) ==
  /\ pc[r] = "respond"
  /\ Reply(r, 200, {})
  /\ UNCHANGED <<serving, clock, disk, locals>>

-------------------------------------------------------------------------------
\* download_app, get_app, search_apps

\* The registry is asked for the path and let go of before the file is read.
Lookup(r) ==
  /\ At(r, "download", "received")
  /\ call[r].id \in Ids
  /\ IF rows[call[r].id] = {}
     THEN Reply(r, 404, {})
     ELSE Goto(r, "read") /\ UNCHANGED <<status, got>>
  /\ UNCHANGED <<serving, clock, disk, locals>>

ReadFile(r) ==
  /\ pc[r] = "read"
  /\ \E row \in rows[call[r].id] :
       /\ files[row.ospPath] # {}
       /\ Reply(r, 200, files[row.ospPath])
  /\ UNCHANGED <<serving, clock, disk, locals>>

\* std::fs::read gives an error: no such file, or the disk's own.
ReadFails(r) ==
  /\ pc[r] = "read"
  /\ Reply(r, 500, {})
  /\ UNCHANGED <<serving, clock, disk, locals>>

GetApp(r) ==
  /\ At(r, "get", "received")
  /\ call[r].id \in Ids
  /\ Reply(r, IF rows[call[r].id] = {} THEN 404 ELSE 200, rows[call[r].id])
  /\ UNCHANGED <<serving, clock, disk, locals>>

\* The rows found, from which a client reads the order by createdAt.
Search(r) ==
  /\ At(r, "search", "received")
  /\ Reply(r, 200, {row \in UNION {rows[id] : id \in Ids} :
                      row.name \in Matching[call[r].query]})
  /\ UNCHANGED <<serving, clock, disk, locals>>

\* Fault: an id the registry refuses is never answered.
RegistryFailsOnSqlOnly(r) ==
  /\ \/ pc[r] = "insert"
     \/ pc[r] = "received" /\ call[r].op = "search"
     \/ pc[r] = "received" /\ call[r].op \in {"download", "get"} /\ call[r].id \in Ids
  /\ Reply(r, 500, {})
  /\ UNCHANGED <<serving, clock, disk, locals>>

\* A registry call gives an error: SQLite's own, or an id it refuses.
RegistryFails(r) ==
  /\ \/ pc[r] = "insert"
     \/ pc[r] = "received" /\ call[r].op \in {"download", "get", "search"}
  /\ Reply(r, 500, {})
  /\ UNCHANGED <<serving, clock, disk, locals>>

-------------------------------------------------------------------------------

Tick ==
  /\ clock < MaxClock
  /\ clock' = clock + 1
  /\ UNCHANGED <<serving, disk, pc, locals, status, got>>

Handling(r) == pc[r] \notin {"free", "done", "lost"}

Crash ==
  /\ serving
  /\ serving' = FALSE
  /\ pc' = [r \in Requests |-> IF Handling(r) THEN "lost" ELSE pc[r]]
  /\ UNCHANGED <<clock, disk, locals, status, got>>

\* Fault: the table is created anew at every start.
RestartAfresh ==
  /\ ~serving
  /\ serving' = TRUE
  /\ rows' = [id \in Ids |-> {}]
  /\ UNCHANGED <<clock, files, pc, locals, status, got>>

\* create_dir_all and CREATE TABLE IF NOT EXISTS keep what is there.
Restart ==
  /\ ~serving
  /\ serving' = TRUE
  /\ UNCHANGED <<clock, disk, pc, locals, status, got>>

Handle(r) ==
  \/ Reject(r) \/ Accept(r) \/ CreateFile(r) \/ WriteFile(r) \/ WriteFails(r)
  \/ Insert(r) \/ Acknowledge(r)
  \/ Lookup(r) \/ ReadFile(r) \/ ReadFails(r)
  \/ GetApp(r) \/ Search(r) \/ RegistryFails(r)

Next ==
  \/ \E r \in Requests : Handle(r)
  \/ \E r \in Requests : \E c \in Asks[r] : Receive(r, c)
  \/ Tick \/ Crash \/ Restart

Spec == Init /\ [][Next]_vars

\* The runtime polls a handler that can go on; clients, the clock, crashes
\* and restarts owe nothing.
FairSpec == Spec /\ \A r \in Requests : WF_vars(Handle(r))
-------------------------------------------------------------------------------

Option(S) == {{}} \cup {{x} : x \in S}

Archives == UNION {u.osp : u \in Uploads}

Labels == {"free", "received", "create", "write", "insert", "respond", "read",
           "done", "lost"}

Rows == [id : Ids, name : {ManifestName[m] : m \in DOMAIN ManifestName},
         publicKey : {u.publicKey : u \in Uploads}, createdAt : 0..MaxClock,
         ospPath : Ids]

(***************************************************************************)
(* Types, and that a response is given exactly once a handler is done.     *)
(***************************************************************************)
TypeOK ==
  /\ serving \in BOOLEAN
  /\ clock \in 0..MaxClock
  /\ files \in [Ids -> Option(Archives \cup {Truncated(osp) : osp \in Archives})]
  /\ rows \in [Ids -> Option(Rows)]
  /\ pc \in [Requests -> Labels]
  /\ call \in [Requests -> Calls \cup {NoCall}]
  /\ uuid \in [Requests -> Ids \cup {NoId}]
  /\ stamp \in [Requests -> 0..MaxClock]
  /\ status \in [Requests -> {0, 200, 400, 401, 404, 500}]
  /\ known \in [Requests -> SUBSET Ids]
  /\ \A r \in Requests : pc[r] = "done" <=> status[r] # 0

Uploaded(r) == call[r].op = "upload"

(***************************************************************************)
(* A row that can be found always leads to a whole file, and row and file  *)
(* are those of one upload that passed every check, whatever the           *)
(* interleaving of uploads and wherever the process was killed: upload_app *)
(* writes the file before it inserts the row.                              *)
(***************************************************************************)
RowsHaveFiles ==
  \A id \in Ids : \A row \in rows[id] :
    \E r \in Requests :
      /\ Uploaded(r) /\ uuid[r] = id
      /\ Acceptable(call[r].body)
      /\ row = AppEntry(r)
      /\ files[row.ospPath] = call[r].body.osp

(***************************************************************************)
(* An upload that was told it failed has left nothing that anyone can      *)
(* find: the error paths of upload_app after the file is written leave an  *)
(* orphan file and no row.                                                 *)
(***************************************************************************)
FailedUploadsHidden ==
  \A r \in Requests :
    Uploaded(r) /\ status[r] \notin {0, 200} /\ uuid[r] # NoId => rows[uuid[r]] = {}

(***************************************************************************)
(* Reading one's writes: a request sent after an upload was acknowledged,  *)
(* even across a restart, finds the app; it is never told 404, and a       *)
(* search that answers lists the app if its name matches.                  *)
(***************************************************************************)
ReadsSeeAcknowledged ==
  \A r \in Requests : \A id \in known[r] :
    /\ call[r].op \in {"get", "download"} /\ call[r].id = id => status[r] # 404
    /\ call[r].op = "search" /\ status[r] = 200 =>
         \E row \in rows[id] :
           row.name \in Matching[call[r].query] => row \in got[r]

(***************************************************************************)
(* The order search_apps sorts by, created_at, which is read before the    *)
(* registry is locked, never puts an app before one uploaded only after    *)
(* the first was acknowledged (the clock is taken to be monotonic).        *)
(***************************************************************************)
SearchOrderRespectsTime ==
  \A r, s \in Requests :
    Uploaded(r) /\ Uploaded(s) /\ uuid[r] \in known[s] =>
      \A a \in UNION {rows[id] : id \in Ids}, b \in UNION {rows[id] : id \in Ids} :
        a.id = uuid[r] /\ b.id = uuid[s] => a.createdAt <= b.createdAt

(***************************************************************************)
(* No step changes or removes the row or the file of a published app: no   *)
(* upload, however it fails, ever writes to another app's file.            *)
(***************************************************************************)
PublishedNeverChanges ==
  [][\A id \in Ids : rows[id] # {} =>
       rows'[id] = rows[id] /\ files'[id] = files[id]]_vars

(***************************************************************************)
(* Every request that arrives is answered, unless the process goes down    *)
(* with it: no path of a handler is without an answer.                     *)
(***************************************************************************)
EveryRequestAnswered ==
  \A r \in Requests : pc[r] = "received" ~> pc[r] \in {"done", "lost"}

-------------------------------------------------------------------------------
\* The store as an AppCatalog.

\* An upload that may appear: whole, with a manifest, and signed by the key
\* it names.  Stated apart from the handler's own checks.
MayAppear(u) ==
  \E osp \in u.osp :
    /\ Parses(osp)
    /\ ManifestJson(osp) \in DOMAIN ManifestName
    /\ u.publicKey # "" =>
         Signature(osp) = {SignContent(u.publicKey, Wasm(osp), ManifestJson(osp))}

App(osp, publicKey) ==
  [osp |-> osp, name |-> ManifestName[ManifestJson(osp)], publicKey |-> publicKey]

Publishable ==
  {App(The(u.osp), u.publicKey) : u \in {v \in Uploads : MayAppear(v)}}

CatalogView ==
  [id \in Ids |->
     {[osp |-> osp, name |-> row.name, publicKey |-> row.publicKey] :
        row \in rows[id], osp \in files[id]}]

\* What a response that is not an error tells.
Told(r) ==
  IF call[r].op = "upload" THEN [kind |-> "uploaded", id |-> uuid[r]]
  ELSE IF call[r].op = "download"
  THEN [kind |-> "package", id |-> call[r].id, osp |-> The(got[r])]
  ELSE IF call[r].op = "get"
  THEN [kind |-> "entry", id |-> call[r].id, name |-> The(got[r]).name,
        publicKey |-> The(got[r]).publicKey]
  ELSE [kind |-> "found", query |-> call[r].query, ids |-> {row.id : row \in got[r]}]

AnswerOf(r) ==
  IF status[r] = 200 THEN Told(r)
  ELSE IF status[r] = 404 THEN [kind |-> "absent", id |-> call[r].id]
  ELSE [kind |-> "refused"]

AnswerView ==
  [r \in Requests |-> IF pc[r] = "done" THEN {AnswerOf(r)} ELSE {}]

Catalog == INSTANCE AppCatalog
             WITH catalog <- CatalogView, answer <- AnswerView

(***************************************************************************)
(* The store implements the catalogue: publication is one step (Insert),   *)
(* only verified apps appear, downloads yield the bytes published, and     *)
(* every answer was true at one moment while the request was handled.      *)
(***************************************************************************)
ImplementsCatalog == Catalog!Spec
===============================================================================
