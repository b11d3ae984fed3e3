---------------------------- MODULE AppStore_proofs ----------------------------
(***************************************************************************)
(* Safety of the app store for any set of requests, ids and uploads, any   *)
(* interleaving of handlers, and crashes and restarts anywhere.            *)
(*                                                                         *)
(* The properties lean on each other.  A row is only ever written by the   *)
(* one handler that drew its id (DistinctIds), after that handler wrote    *)
(* the whole file (HandlersAgree); so what is published stays as it is,    *)
(* and what a client was told earlier (Outcomes, KnownArePublished) stays  *)
(* true.  IInv is their conjunction, and is inductive.                     *)
(***************************************************************************)
EXTENDS AppStore, TLAPS

\* What a handler has at each step.
HandlersAgree ==
  \A r \in Requests :
    /\ pc[r] = "free" => call[r] = NoCall
    /\ pc[r] \in {"free", "received"} => uuid[r] = NoId
    /\ pc[r] \in {"create", "write", "insert", "respond"} =>
         Uploaded(r) /\ Acceptable(call[r].body) /\ uuid[r] \in Ids
    /\ pc[r] \in {"create", "write", "insert"} => rows[uuid[r]] = {}
    /\ pc[r] = "insert" => files[uuid[r]] = call[r].body.osp
    /\ pc[r] = "respond" => rows[uuid[r]] # {}
    /\ pc[r] = "read" => call[r].op = "download" /\ call[r].id \in Ids

DistinctIds ==
  \A r, s \in Requests : uuid[r] = uuid[s] /\ uuid[r] # NoId => r = s

\* An upload was told 200 only if its row is there, and anything else only
\* if it is not.
Outcomes ==
  \A r \in Requests : Uploaded(r) =>
    /\ status[r] = 200 => uuid[r] \in Ids /\ rows[uuid[r]] # {}
    /\ status[r] \notin {0, 200} /\ uuid[r] # NoId => rows[uuid[r]] = {}

KnownArePublished ==
  \A r \in Requests : \A id \in known[r] : rows[id] # {}

\* An upload takes its time after the apps its client knew took theirs.
StampsInOrder ==
  /\ \A r \in Requests : stamp[r] <= clock
  /\ \A r, s \in Requests :
       /\ uuid[r] \in known[s]
       /\ uuid[s] \in Ids
       /\ pc[s] = "insert" \/ rows[uuid[s]] # {}
       => stamp[r] <= stamp[s]

IInv ==
  /\ TypeOK
  /\ got = [r \in Requests |-> got[r]]
  /\ HandlersAgree
  /\ DistinctIds
  /\ RowsHaveFiles
  /\ Outcomes
  /\ KnownArePublished
  /\ StampsInOrder
  /\ ReadsSeeAcknowledged
-------------------------------------------------------------------------------

\* What the type invariant says of a request: an upload has a body, and a
\* read that goes to the registry an id.
LEMMA CallTypes ==
  ASSUME TypeOK, NEW r \in Requests
  PROVE  /\ Uploaded(r) => call[r].body \in Uploads
         /\ NoCall.op = "none"
  BY DEF TypeOK, Calls, NoCall, Uploaded

\* An acceptable upload has one package, and its row is well typed.
LEMMA AcceptableUploads ==
  ASSUME TypeOK, NEW r \in Requests, Uploaded(r), Acceptable(call[r].body),
         uuid[r] \in Ids
  PROVE  /\ call[r].body.osp = {The(call[r].body.osp)}
         /\ The(call[r].body.osp) \in Archives
         /\ AppEntry(r) \in Rows
         /\ AppEntry(r).id = uuid[r] /\ AppEntry(r).ospPath = uuid[r]
         /\ AppEntry(r).createdAt = stamp[r]
  <1>1. call[r].body \in Uploads
    BY CallTypes
  <1>2. PICK osp \in call[r].body.osp :
          call[r].body.osp = {osp} /\ ManifestJson(osp) \in DOMAIN ManifestName
    BY <1>1, UploadsAssumption DEF Acceptable, WellFormed
  <1>3. The(call[r].body.osp) = osp
    BY <1>2 DEF The
  <1>4. The(call[r].body.osp) \in Archives
    BY <1>1, <1>2, <1>3 DEF Archives
  <1>5. ManifestName[ManifestJson(osp)] \in {ManifestName[m] : m \in DOMAIN ManifestName}
    BY <1>2
  <1>6. call[r].body.publicKey \in {u.publicKey : u \in Uploads}
    BY <1>1
  <1>7. stamp[r] \in 0..MaxClock
    BY DEF TypeOK
  <1>8. AppEntry(r) = [id |-> uuid[r], name |-> ManifestName[ManifestJson(osp)],
                       publicKey |-> call[r].body.publicKey, createdAt |-> stamp[r],
                       ospPath |-> uuid[r]]
    BY <1>3 DEF AppEntry
  <1>9. AppEntry(r) \in Rows
    BY <1>5, <1>6, <1>7, <1>8 DEF Rows
  <1> QED BY <1>2, <1>3, <1>4, <1>8, <1>9

\* Before anything was received, IInv holds.
LEMMA InitIInv == Init => IInv
  <1> SUFFICES ASSUME Init PROVE IInv
    OBVIOUS
  <1>1. TypeOK
    BY ClockAssumption DEF Init, TypeOK, Option, Labels
  <1>2. HandlersAgree /\ DistinctIds /\ Outcomes
    BY DEF Init, HandlersAgree, DistinctIds, Outcomes, Uploaded, NoCall
  <1>3. RowsHaveFiles /\ KnownArePublished /\ ReadsSeeAcknowledged
    BY DEF Init, RowsHaveFiles, KnownArePublished, ReadsSeeAcknowledged
  <1>4. StampsInOrder
    BY DEF Init, StampsInOrder
  <1> QED BY <1>1, <1>2, <1>3, <1>4 DEF Init, IInv

(***************************************************************************)
(* A handler that answers and changes nothing else keeps IInv, provided    *)
(* that the answer to an upload agrees with the table, and that an answer  *)
(* to a read does not overlook a row.                                      *)
(***************************************************************************)
Truthful(r, code, body) ==
  /\ Uploaded(r) /\ code = 200 => uuid[r] \in Ids /\ rows[uuid[r]] # {}
  /\ Uploaded(r) /\ code # 200 /\ uuid[r] # NoId => rows[uuid[r]] = {}
  /\ call[r].op \in {"get", "download"} /\ code = 404 => rows[call[r].id] = {}
  /\ call[r].op = "search" /\ code = 200 =>
       \A id \in Ids : \A row \in rows[id] :
         row.name \in Matching[call[r].query] => row \in body

LEMMA AnswerIInv ==
  ASSUME IInv, NEW r \in Requests, NEW body,
         NEW code \in {200, 400, 401, 404, 500},
         Reply(r, code, body), Truthful(r, code, body),
         UNCHANGED <<serving, clock, disk, locals>>
  PROVE  IInv'
  <1> USE DEF Reply, Goto, disk, locals
  <1>1. TypeOK'
    BY DEF IInv, TypeOK, Labels
  <1>2. (got = [q \in Requests |-> got[q]])'
    BY DEF IInv
  <1>3. HandlersAgree'
    BY DEF IInv, TypeOK, HandlersAgree, Uploaded
  <1>4. DistinctIds' /\ KnownArePublished'
    BY DEF IInv, DistinctIds, KnownArePublished
  <1>5. RowsHaveFiles'
    BY DEF IInv, RowsHaveFiles, Uploaded, AppEntry
  <1>6. Outcomes'
    BY DEF IInv, TypeOK, Outcomes, Uploaded, Truthful
  <1>7. StampsInOrder'
    BY DEF IInv, TypeOK, StampsInOrder
  <1>8. ReadsSeeAcknowledged'
    <2> SUFFICES ASSUME NEW q \in Requests, NEW id \in known[q]
                 PROVE  /\ call[q].op \in {"get", "download"} /\ call[q].id = id =>
                             status'[q] # 404
                        /\ call[q].op = "search" /\ status'[q] = 200 =>
                             \E row \in rows[id] :
                               row.name \in Matching[call[q].query] => row \in got'[q]
      BY DEF ReadsSeeAcknowledged
    <2>1. rows[id] # {} /\ id \in Ids
      BY DEF IInv, TypeOK, KnownArePublished
    <2>2. CASE q = r
      BY <2>1, <2>2 DEF IInv, TypeOK, Truthful
    <2>3. CASE q # r
      BY <2>3 DEF IInv, TypeOK, ReadsSeeAcknowledged
    <2> QED BY <2>2, <2>3
  <1> QED BY <1>1, <1>2, <1>3, <1>4, <1>5, <1>6, <1>7, <1>8 DEF IInv

\* The answers handlers give are truthful.
LEMMA AnswersIInv ==
  ASSUME IInv, NEW r \in Requests,
         \/ Reject(r) \/ WriteFails(r) \/ Acknowledge(r) \/ ReadFile(r)
         \/ ReadFails(r) \/ GetApp(r) \/ Search(r) \/ RegistryFails(r)
  PROVE  IInv'
  <1> USE DEF At
  <1>1. CASE Reject(r)
    <2>1. Truthful(r, RejectStatus(call[r].body), {})
      BY <1>1 DEF Reject, Truthful, RejectStatus, IInv, HandlersAgree, Uploaded
    <2>2. RejectStatus(call[r].body) \in {400, 401}
      BY DEF RejectStatus
    <2> QED BY <1>1, <2>1, <2>2, AnswerIInv DEF Reject
  <1>2. CASE WriteFails(r)
    <2>1. Truthful(r, 500, {})
      BY <1>2 DEF WriteFails, Truthful, IInv, HandlersAgree, Uploaded
    <2> QED BY <1>2, <2>1, AnswerIInv DEF WriteFails
  <1>3. CASE Acknowledge(r)
    <2>1. Truthful(r, 200, {})
      BY <1>3 DEF Acknowledge, Truthful, IInv, HandlersAgree, Uploaded
    <2> QED BY <1>3, <2>1, AnswerIInv DEF Acknowledge
  <1>4. CASE ReadFile(r)
    <2>1. PICK row \in rows[call[r].id] : Reply(r, 200, files[row.ospPath])
      BY <1>4 DEF ReadFile
    <2>2. Truthful(r, 200, files[row.ospPath])
      BY <1>4 DEF ReadFile, Truthful, IInv, HandlersAgree, Uploaded
    <2> QED BY <1>4, <2>1, <2>2, AnswerIInv DEF ReadFile
  <1>5. CASE ReadFails(r)
    <2>1. Truthful(r, 500, {})
      BY <1>5 DEF ReadFails, Truthful, IInv, HandlersAgree, Uploaded
    <2> QED BY <1>5, <2>1, AnswerIInv DEF ReadFails
  <1>6. CASE GetApp(r)
    <2> DEFINE code == IF rows[call[r].id] = {} THEN 404 ELSE 200
    <2>1. Truthful(r, code, rows[call[r].id])
      BY <1>6 DEF GetApp, Truthful, Uploaded
    <2>2. code \in {200, 404}
      OBVIOUS
    <2> QED BY <1>6, <2>1, <2>2, AnswerIInv DEF GetApp
  <1>7. CASE Search(r)
    <2> DEFINE found == {row \in UNION {rows[id] : id \in Ids} :
                           row.name \in Matching[call[r].query]}
    <2>1. Truthful(r, 200, found)
      BY <1>7 DEF Search, Truthful, Uploaded
    <2> QED BY <1>7, <2>1, AnswerIInv DEF Search
  <1>8. CASE RegistryFails(r)
    <2>1. Truthful(r, 500, {})
      BY <1>8 DEF RegistryFails, Truthful, IInv, HandlersAgree, Uploaded
    <2> QED BY <1>8, <2>1, AnswerIInv DEF RegistryFails
  <1> QED BY <1>1, <1>2, <1>3, <1>4, <1>5, <1>6, <1>7, <1>8

\* A request that comes in knows the apps acknowledged until then.
LEMMA ReceiveIInv ==
  ASSUME IInv, NEW r \in Requests, NEW c \in Asks[r], Receive(r, c)
  PROVE  IInv'
  <1> USE DEF Receive, Goto, disk
  <1>0. /\ c \in Calls /\ uuid[r] = NoId /\ ~Uploaded(r)
        /\ \A id \in Acknowledged : id \in Ids /\ rows[id] # {}
    BY AsksAssumption
    DEF IInv, HandlersAgree, Outcomes, Acknowledged, Uploaded, NoCall
  <1>1. TypeOK'
    BY <1>0 DEF IInv, TypeOK, Labels
  <1>2. HandlersAgree'
    BY <1>0 DEF IInv, TypeOK, HandlersAgree, Uploaded
  <1>3. DistinctIds' /\ KnownArePublished'
    BY <1>0 DEF IInv, TypeOK, DistinctIds, KnownArePublished
  <1>4. RowsHaveFiles'
    BY <1>0 DEF IInv, TypeOK, RowsHaveFiles, Uploaded, AppEntry
  <1>5. Outcomes'
    BY <1>0 DEF IInv, TypeOK, Outcomes, Uploaded
  <1>6. StampsInOrder'
    BY <1>0, IdsAssumption DEF IInv, TypeOK, StampsInOrder
  <1>7. ReadsSeeAcknowledged'
    BY <1>0 DEF IInv, TypeOK, ReadsSeeAcknowledged
  <1> QED BY <1>1, <1>2, <1>3, <1>4, <1>5, <1>6, <1>7 DEF IInv

\* The id drawn has no row and nobody knows it.
LEMMA AcceptIInv ==
  ASSUME IInv, NEW r \in Requests, Accept(r)
  PROVE  IInv'
  <1> USE DEF Accept, At, Goto, disk
  <1>0. PICK id \in Ids \ {uuid[q] : q \in Requests} : uuid' = [uuid EXCEPT ![r] = id]
    OBVIOUS
  <1>1. rows[id] = {} /\ uuid[r] = NoId /\ id # NoId
    BY <1>0, IdsAssumption DEF IInv, TypeOK, RowsHaveFiles, HandlersAgree
  <1>2. TypeOK'
    BY <1>0 DEF IInv, TypeOK, Labels
  <1>3. HandlersAgree'
    BY <1>0, <1>1 DEF IInv, TypeOK, HandlersAgree, Uploaded
  <1>4. DistinctIds' /\ KnownArePublished'
    BY <1>0 DEF IInv, TypeOK, DistinctIds, KnownArePublished
  <1>5. RowsHaveFiles'
    BY <1>0, <1>1, IdsAssumption DEF IInv, TypeOK, RowsHaveFiles, Uploaded, AppEntry
  <1>6. Outcomes'
    BY <1>0, <1>1 DEF IInv, TypeOK, Outcomes, Uploaded
  <1>7. StampsInOrder'
    BY <1>0, <1>1 DEF IInv, TypeOK, StampsInOrder, KnownArePublished
  <1>8. ReadsSeeAcknowledged'
    BY DEF IInv, ReadsSeeAcknowledged
  <1> QED BY <1>2, <1>3, <1>4, <1>5, <1>6, <1>7, <1>8 DEF IInv

\* The file being written is no row's.
LEMMA CreateFileIInv ==
  ASSUME IInv, NEW r \in Requests, CreateFile(r)
  PROVE  IInv'
  <1> USE DEF CreateFile, Goto, locals
  <1>0. /\ Uploaded(r) /\ Acceptable(call[r].body) /\ uuid[r] \in Ids
        /\ rows[uuid[r]] = {}
    BY DEF IInv, HandlersAgree
  <1>1. The(call[r].body.osp) \in Archives
    BY <1>0, AcceptableUploads DEF IInv
  <1>2. TypeOK'
    <2> DEFINE Files == Option(Archives \cup {Truncated(osp) : osp \in Archives})
    <2>1. {Truncated(The(call[r].body.osp))} \in Files
      BY <1>1 DEF Option
    <2>2. files \in [Ids -> Files]
      BY DEF IInv, TypeOK
    <2> HIDE DEF Files
    <2>3. files' \in [Ids -> Files]
      BY <1>0, <2>1, <2>2
    <2> QED BY <2>3 DEF IInv, TypeOK, Labels, Files
  <1>3. HandlersAgree'
    BY <1>0, IdsAssumption DEF IInv, TypeOK, HandlersAgree, DistinctIds, Uploaded
  <1>4. RowsHaveFiles'
    <2> SUFFICES ASSUME NEW id \in Ids, NEW row \in rows[id]
                 PROVE  \E q \in Requests :
                          /\ Uploaded(q) /\ uuid[q] = id
                          /\ Acceptable(call[q].body)
                          /\ row = AppEntry(q)'
                          /\ files'[row.ospPath] = call[q].body.osp
      <3>1. rows' = rows /\ call' = call /\ uuid' = uuid
        OBVIOUS
      <3> HIDE DEF CreateFile
      <3> QED BY <3>1, SMT DEF RowsHaveFiles, Uploaded
    <2>1. PICK q \in Requests :
            /\ Uploaded(q) /\ uuid[q] = id /\ Acceptable(call[q].body)
            /\ row = AppEntry(q) /\ files[row.ospPath] = call[q].body.osp
      BY DEF IInv, RowsHaveFiles
    <2>2. row.ospPath = id /\ id # uuid[r]
      BY <1>0, <2>1 DEF AppEntry
    <2>3. AppEntry(q)' = AppEntry(q)
      BY DEF AppEntry
    <2> QED BY <1>0, <2>1, <2>2, <2>3 DEF IInv, TypeOK
  <1>5. DistinctIds' /\ KnownArePublished' /\ Outcomes' /\ ReadsSeeAcknowledged'
    BY DEF IInv, DistinctIds, KnownArePublished, Outcomes, ReadsSeeAcknowledged, Uploaded
  <1>6. StampsInOrder'
    BY DEF IInv, TypeOK, StampsInOrder
  <1> QED BY <1>2, <1>3, <1>4, <1>5, <1>6 DEF IInv

\* So it is with the rest of the file; and no one knows an app not stamped yet.
LEMMA WriteFileIInv ==
  ASSUME IInv, NEW r \in Requests, WriteFile(r)
  PROVE  IInv'
  <1> USE DEF WriteFile, Goto
  <1>0. /\ Uploaded(r) /\ Acceptable(call[r].body) /\ uuid[r] \in Ids
        /\ rows[uuid[r]] = {}
    BY DEF IInv, HandlersAgree
  <1>1. call[r].body.osp = {The(call[r].body.osp)} /\ The(call[r].body.osp) \in Archives
    BY <1>0, AcceptableUploads DEF IInv
  <1>2. TypeOK'
    <2> DEFINE Files == Option(Archives \cup {Truncated(osp) : osp \in Archives})
    <2>1. call[r].body.osp \in Files
      BY <1>1 DEF Option
    <2>2. files \in [Ids -> Files]
      BY DEF IInv, TypeOK
    <2> HIDE DEF Files
    <2>3. files' \in [Ids -> Files]
      BY <1>0, <2>1, <2>2
    <2> QED BY <2>3 DEF IInv, TypeOK, Labels, Files
  <1>3. HandlersAgree'
    BY <1>0, IdsAssumption DEF IInv, TypeOK, HandlersAgree, DistinctIds, Uploaded
  <1>4. RowsHaveFiles'
    <2> SUFFICES ASSUME NEW id \in Ids, NEW row \in rows[id]
                 PROVE  \E q \in Requests :
                          /\ Uploaded(q) /\ uuid[q] = id
                          /\ Acceptable(call[q].body)
                          /\ row = AppEntry(q)'
                          /\ files'[row.ospPath] = call[q].body.osp
      BY DEF RowsHaveFiles, Uploaded
    <2>1. PICK q \in Requests :
            /\ Uploaded(q) /\ uuid[q] = id /\ Acceptable(call[q].body)
            /\ row = AppEntry(q) /\ files[row.ospPath] = call[q].body.osp
      BY DEF IInv, RowsHaveFiles
    <2>2. row.ospPath = id /\ id # uuid[r] /\ q # r
      BY <1>0, <2>1 DEF AppEntry
    <2>3. AppEntry(q)' = AppEntry(q)
      BY <2>2 DEF IInv, TypeOK, AppEntry
    <2> QED BY <1>0, <2>1, <2>2, <2>3 DEF IInv, TypeOK
  <1>5. DistinctIds' /\ KnownArePublished' /\ Outcomes' /\ ReadsSeeAcknowledged'
    BY DEF IInv, DistinctIds, KnownArePublished, Outcomes, ReadsSeeAcknowledged, Uploaded
  <1>6. StampsInOrder'
    <2>1. clock \in Nat /\ \A q \in Requests : stamp[q] \in Nat
      BY ClockAssumption DEF IInv, TypeOK
    <2>2. \A s \in Requests : uuid[r] \notin known[s]
      BY <1>0 DEF IInv, KnownArePublished
    <2> QED BY <2>1, <2>2 DEF IInv, TypeOK, StampsInOrder
  <1> QED BY <1>2, <1>3, <1>4, <1>5, <1>6 DEF IInv

\* The row that appears is the first under its id, and its file is whole.
LEMMA InsertIInv ==
  ASSUME IInv, NEW r \in Requests, Insert(r)
  PROVE  IInv'
  <1> USE DEF Insert, Goto, locals
  <1>0. /\ Uploaded(r) /\ Acceptable(call[r].body) /\ uuid[r] \in Ids
        /\ files[uuid[r]] = call[r].body.osp
        /\ status[r] = 0
    BY DEF IInv, TypeOK, HandlersAgree
  <1>1. AppEntry(r) \in Rows /\ AppEntry(r).ospPath = uuid[r]
    BY <1>0, AcceptableUploads DEF IInv
  <1>2. \A id \in Ids : rows'[id] = IF id = uuid[r] THEN {AppEntry(r)} ELSE rows[id]
    BY <1>0 DEF IInv, TypeOK
  <1>3. \A q \in Requests : uuid[q] = uuid[r] => q = r
    BY <1>0, IdsAssumption DEF IInv, DistinctIds
  <1>4. TypeOK'
    <2>1. rows' \in [Ids -> Option(Rows)]
      BY <1>0, <1>1 DEF IInv, TypeOK, Option
    <2> QED BY <2>1 DEF IInv, TypeOK, Labels
  <1>5. HandlersAgree'
    <2>1. pc \in [Requests -> Labels] /\ uuid \in [Requests -> Ids \cup {NoId}]
      BY DEF IInv, TypeOK
    <2>2. \A q \in Requests : q # r => pc'[q] = pc[q]
      BY <2>1
    <2>3. pc'[r] = "respond" /\ rows'[uuid[r]] # {}
      BY <1>0, <1>2, <2>1
    <2>4. \A q \in Requests : q # r /\ uuid[q] \in Ids => rows'[uuid[q]] = rows[uuid[q]]
      BY <1>2, <1>3
    <2> QED BY <1>0, <2>2, <2>3, <2>4 DEF IInv, HandlersAgree, Uploaded
  <1>6. RowsHaveFiles'
    <2> SUFFICES ASSUME NEW id \in Ids, NEW row \in rows'[id]
                 PROVE  \E q \in Requests :
                          /\ Uploaded(q) /\ uuid[q] = id
                          /\ Acceptable(call[q].body)
                          /\ row = AppEntry(q)
                          /\ files[row.ospPath] = call[q].body.osp
      BY DEF RowsHaveFiles, Uploaded, AppEntry
    <2>1. CASE id = uuid[r]
      BY <1>0, <1>1, <1>2, <2>1
    <2>2. CASE id # uuid[r]
      BY <1>2, <2>2 DEF IInv, RowsHaveFiles
    <2> QED BY <2>1, <2>2
  <1>7. DistinctIds' /\ KnownArePublished'
    BY <1>2 DEF IInv, TypeOK, DistinctIds, KnownArePublished
  <1>8. Outcomes'
    BY <1>0, <1>2, <1>3 DEF IInv, TypeOK, Outcomes, Uploaded
  <1>9. StampsInOrder'
    BY <1>2, <1>3 DEF IInv, TypeOK, StampsInOrder
  <1>10. ReadsSeeAcknowledged'
    <2>1. \A q \in Requests : uuid[r] \notin known[q]
      BY DEF IInv, KnownArePublished
    <2>2. \A q \in Requests : \A id \in known[q] : rows'[id] = rows[id]
      BY <1>2, <2>1 DEF IInv, TypeOK
    <2> QED BY <2>2 DEF IInv, ReadsSeeAcknowledged
  <1> QED BY <1>4, <1>5, <1>6, <1>7, <1>8, <1>9, <1>10 DEF IInv

\* A download that finds a row goes on to the file.
LEMMA LookupIInv ==
  ASSUME IInv, NEW r \in Requests, Lookup(r)
  PROVE  IInv'
  <1> USE DEF Lookup, At
  <1>1. CASE rows[call[r].id] = {}
    <2>1. Truthful(r, 404, {})
      BY <1>1 DEF Truthful, Uploaded
    <2> QED BY <1>1, <2>1, AnswerIInv
  <1>2. CASE rows[call[r].id] # {}
    <2> USE DEF Goto, disk, locals
    <2>1. TypeOK'
      BY <1>2 DEF IInv, TypeOK, Labels
    <2>2. HandlersAgree'
      BY <1>2 DEF IInv, TypeOK, HandlersAgree, Uploaded
    <2>3. RowsHaveFiles'
      BY <1>2 DEF IInv, RowsHaveFiles, Uploaded, AppEntry
    <2>4. DistinctIds' /\ KnownArePublished' /\ Outcomes'
      BY <1>2 DEF IInv, DistinctIds, KnownArePublished, Outcomes, Uploaded
    <2>5. ReadsSeeAcknowledged'
      BY <1>2 DEF IInv, ReadsSeeAcknowledged
    <2>6. StampsInOrder'
      BY <1>2 DEF IInv, TypeOK, StampsInOrder
    <2> QED BY <1>2, <2>1, <2>2, <2>3, <2>4, <2>5, <2>6 DEF IInv
  <1> QED BY <1>1, <1>2

\* Time, crashes and restarts.
LEMMA EnvironmentIInv ==
  ASSUME IInv, Tick \/ Crash \/ Restart \/ UNCHANGED vars
  PROVE  IInv'
  <1> USE DEF disk, locals
  <1>1. UNCHANGED <<disk, locals, status, got>>
    BY DEF Tick, Crash, Restart, vars
  <1>2. TypeOK'
    <2>1. UNCHANGED clock \/ Tick
      BY DEF Crash, Restart, vars
    <2>2. clock' \in 0..MaxClock
      BY <2>1, ClockAssumption DEF IInv, TypeOK, Tick
    <2>3. serving' = serving \/ serving' = TRUE \/ serving' = FALSE
      BY DEF Tick, Crash, Restart, vars
    <2>4. serving' \in BOOLEAN
      BY <2>3 DEF IInv, TypeOK
    <2>5. /\ pc' \in [Requests -> Labels]
          /\ \A r \in Requests : pc'[r] = "done" <=> pc[r] = "done"
      BY DEF IInv, TypeOK, Labels, Tick, Crash, Restart, vars, Handling
    <2> QED BY <1>1, <2>2, <2>4, <2>5 DEF IInv, TypeOK
  <1>3. HandlersAgree'
    BY <1>1 DEF IInv, TypeOK, HandlersAgree, Uploaded, Tick, Crash, Restart, vars, Handling
  <1>4. RowsHaveFiles'
    BY <1>1 DEF IInv, RowsHaveFiles, Uploaded, AppEntry
  <1>5. DistinctIds' /\ KnownArePublished' /\ Outcomes' /\ ReadsSeeAcknowledged'
    BY <1>1 DEF IInv, DistinctIds, KnownArePublished, Outcomes, ReadsSeeAcknowledged, Uploaded
  <1>6. StampsInOrder'
    <2>1. clock \in Nat /\ clock' \in Nat /\ clock <= clock'
      BY ClockAssumption DEF IInv, TypeOK, Tick, Crash, Restart, vars
    <2>2. \A r \in Requests : stamp[r] \in Nat
      BY ClockAssumption DEF IInv, TypeOK
    <2>3. \A r \in Requests : pc'[r] = "insert" => pc[r] = "insert"
      BY DEF Tick, Crash, Restart, vars
    <2> QED BY <1>1, <2>1, <2>2, <2>3 DEF IInv, StampsInOrder
  <1> QED BY <1>1, <1>2, <1>3, <1>4, <1>5, <1>6 DEF IInv

\* Every step keeps IInv.
LEMMA NextIInv == IInv /\ [Next]_vars => IInv'
  BY AnswersIInv, ReceiveIInv, AcceptIInv, CreateFileIInv, WriteFileIInv,
     InsertIInv, LookupIInv, EnvironmentIInv
  DEF Next, Handle

\* The strengthened invariant holds in every reachable state.
LEMMA Invariance == Spec => []IInv
  BY InitIInv, NextIInv, PTL DEF Spec

-------------------------------------------------------------------------------

(***************************************************************************)
(* Types are respected, and a handler is done exactly when it answered.    *)
(***************************************************************************)
THEOREM TypeCorrectness == Spec => []TypeOK
  BY Invariance, PTL DEF IInv

(***************************************************************************)
(* Whatever is killed when, a row leads to the whole file of an upload     *)
(* that passed every check of upload_app.                                  *)
(***************************************************************************)
THEOREM RowsAlwaysHaveFiles == Spec => []RowsHaveFiles
  BY Invariance, PTL DEF IInv

(***************************************************************************)
(* The error paths of upload_app leave no row behind.                      *)
(***************************************************************************)
THEOREM FailuresAreHidden == Spec => []FailedUploadsHidden
  <1>1. IInv => FailedUploadsHidden
    BY DEF IInv, Outcomes, FailedUploadsHidden
  <1> QED BY <1>1, Invariance, PTL

(***************************************************************************)
(* A request made after an upload was acknowledged finds the app, through  *)
(* any of the three handlers that read, crashes and restarts included.     *)
(***************************************************************************)
THEOREM AcknowledgedIsSeen == Spec => []ReadsSeeAcknowledged
  BY Invariance, PTL DEF IInv

(***************************************************************************)
(* created_at orders an app after those its uploader could have known.     *)
(***************************************************************************)
THEOREM SearchOrder == Spec => []SearchOrderRespectsTime
  <1> SUFFICES ASSUME IInv PROVE SearchOrderRespectsTime
    BY Invariance, PTL
  <1>1. \A id \in Ids : \A row \in rows[id], r \in Requests :
          row.id = uuid[r] => /\ row.createdAt = stamp[r]
                              /\ uuid[r] \in Ids /\ rows[uuid[r]] # {}
    <2> SUFFICES ASSUME NEW id \in Ids, NEW row \in rows[id], NEW r \in Requests,
                        row.id = uuid[r]
                 PROVE  /\ row.createdAt = stamp[r]
                        /\ uuid[r] \in Ids /\ rows[uuid[r]] # {}
      OBVIOUS
    <2>1. PICK q \in Requests : uuid[q] = id /\ row = AppEntry(q)
      BY DEF IInv, RowsHaveFiles
    <2>2. row.id = id /\ row.createdAt = stamp[q]
      BY <2>1 DEF AppEntry
    <2>3. q = r
      BY <2>1, <2>2, IdsAssumption DEF IInv, DistinctIds
    <2> QED BY <2>1, <2>2, <2>3
  <1> QED BY <1>1 DEF IInv, StampsInOrder, SearchOrderRespectsTime

(***************************************************************************)
(* No step touches a published row or its file.                            *)
(***************************************************************************)
THEOREM PublishedIsForEver == Spec => PublishedNeverChanges
  <1> DEFINE Kept == \A id \in Ids : rows[id] # {} =>
                       rows'[id] = rows[id] /\ files'[id] = files[id]
  <1>1. ASSUME IInv, [Next]_vars PROVE [Kept]_vars
    <2> SUFFICES ASSUME NEW id \in Ids, rows[id] # {}
                 PROVE  rows'[id] = rows[id] /\ files'[id] = files[id]
      OBVIOUS
    <2> USE DEF disk
    <2>1. ASSUME NEW r \in Requests, CreateFile(r) \/ WriteFile(r)
          PROVE  rows'[id] = rows[id] /\ files'[id] = files[id]
      <3>1. rows[uuid[r]] = {}
        BY <1>1, <2>1 DEF CreateFile, WriteFile, IInv, HandlersAgree
      <3> QED BY <1>1, <2>1, <3>1 DEF CreateFile, WriteFile, IInv, TypeOK
    <2>2. ASSUME NEW r \in Requests, Insert(r)
          PROVE  rows'[id] = rows[id] /\ files'[id] = files[id]
      BY <1>1, <2>2 DEF Insert, IInv, TypeOK
    <2>3. CASE UNCHANGED disk
      BY <2>3
    <2> QED BY <1>1, <2>1, <2>2, <2>3
        DEF Next, Handle, vars, Receive, Reject, Accept, WriteFails, Acknowledge,
            Lookup, ReadFile, ReadFails, GetApp, Search, RegistryFails, Tick,
            Crash, Restart
  <1> QED BY <1>1, Invariance, PTL DEF Spec, PublishedNeverChanges

-------------------------------------------------------------------------------

(***************************************************************************)
(* The store implements the catalogue: the initial states map to its       *)
(* initial state, and each step of AppStore to a step of AppCatalog or to  *)
(* none.  Publication is Insert; an answer is told with the reply.  What   *)
(* the steps need of the state before is IInv.            *)
(***************************************************************************)

\* What upload_app accepted may appear in a catalogue.
LEMMA AcceptableMayAppear ==
  ASSUME TypeOK, NEW r \in Requests, Uploaded(r), Acceptable(call[r].body),
         uuid[r] \in Ids
  PROVE  /\ App(The(call[r].body.osp), call[r].body.publicKey) \in Publishable
         /\ AppEntry(r).name = App(The(call[r].body.osp), call[r].body.publicKey).name
         /\ AppEntry(r).publicKey = call[r].body.publicKey
  <1> DEFINE u == call[r].body
             osp == The(u.osp)
  <1>1. u \in Uploads /\ u.osp = {osp}
    BY CallTypes, AcceptableUploads
  <1>2. /\ Parses(osp) /\ ManifestJson(osp) \in DOMAIN ManifestName
        /\ u.publicKey # "" => Signature(osp) # {}
    BY <1>1 DEF Acceptable, WellFormed
  <1>3. u.publicKey # "" =>
          Signature(osp) = {SignContent(u.publicKey, Wasm(osp), ManifestJson(osp))}
    BY <1>2 DEF Acceptable, SignatureHolds, VerifySignature
  <1>4. MayAppear(u)
    BY <1>1, <1>2, <1>3 DEF MayAppear
  <1> QED BY <1>1, <1>4 DEF Publishable, App, AppEntry

\* A published app has the package and the row of one upload.
LEMMA PublishedView ==
  ASSUME IInv, NEW id \in Ids, NEW row \in rows[id]
  PROVE  /\ rows[id] = {row} /\ row.ospPath = id /\ row.id = id
         /\ files[id] = {The(files[id])}
         /\ CatalogView[id] = {[osp |-> The(files[id]), name |-> row.name,
                                publicKey |-> row.publicKey]}
  <1>1. PICK r \in Requests :
          /\ Uploaded(r) /\ uuid[r] = id /\ Acceptable(call[r].body)
          /\ row = AppEntry(r) /\ files[row.ospPath] = call[r].body.osp
    BY DEF IInv, RowsHaveFiles
  <1>2. /\ row.ospPath = id /\ row.id = id
        /\ files[id] = {The(files[id])}
    BY <1>1, AcceptableUploads DEF IInv
  <1>3. rows[id] = {row}
    BY DEF IInv, TypeOK, Option
  <1>4. CatalogView[id] = {[osp |-> osp, name |-> q.name, publicKey |-> q.publicKey] :
                             q \in {row}, osp \in {The(files[id])}}
    BY <1>2, <1>3 DEF CatalogView
  <1> QED BY <1>2, <1>3, <1>4

\* What is in the catalogue is what has a row.
LEMMA PublishedHaveRows ==
  ASSUME IInv
  PROVE  /\ \A id \in Ids : CatalogView[id] = {} <=> rows[id] = {}
         /\ Catalog!Published = {id \in Ids : rows[id] # {}}
  <1>1. ASSUME NEW id \in Ids PROVE CatalogView[id] = {} <=> rows[id] = {}
    <2>1. CASE rows[id] = {}
      BY <2>1 DEF CatalogView
    <2>2. CASE rows[id] # {}
      <3>1. PICK row \in rows[id] : TRUE
        BY <2>2
      <3>2. CatalogView[id] = {[osp |-> The(files[id]), name |-> row.name,
                                publicKey |-> row.publicKey]}
        BY <3>1, PublishedView
      <3> QED BY <2>2, <3>2
    <2> QED BY <2>1, <2>2
  <1> QED BY <1>1 DEF Catalog!Published

LEMMA InitCatalog == Init => Catalog!Init
  BY DEF Init, Catalog!Init, CatalogView, AnswerView

\* A step that publishes nothing and answers nobody is none of the catalogue's.
LEMMA SilentSteps ==
  ASSUME IInv,
         rows' = rows,
         \A id \in Ids : rows[id] # {} => files'[id] = files[id],
         \A q \in Requests :
           /\ pc'[q] = "done" <=> pc[q] = "done"
           /\ pc[q] = "done" => /\ call'[q] = call[q] /\ uuid'[q] = uuid[q]
                                /\ status'[q] = status[q] /\ got'[q] = got[q]
  PROVE  UNCHANGED Catalog!vars
  <1>1. CatalogView' = CatalogView
    <2>1. ASSUME NEW id \in Ids PROVE CatalogView'[id] = CatalogView[id]
      <3>1. CASE rows[id] = {}
        BY <3>1 DEF CatalogView
      <3>2. CASE rows[id] # {}
        BY <3>2 DEF CatalogView
      <3> QED BY <3>1, <3>2
    <2> QED BY <2>1 DEF CatalogView
  <1>2. AnswerView' = AnswerView
    <2>1. ASSUME NEW q \in Requests PROVE AnswerView'[q] = AnswerView[q]
      <3>1. CASE pc[q] = "done"
        <4>1. /\ pc'[q] = "done" /\ call'[q] = call[q] /\ uuid'[q] = uuid[q]
              /\ status'[q] = status[q] /\ got'[q] = got[q]
          BY <3>1
        <4>2. {row.id : row \in got'[q]} = {row.id : row \in got[q]}
          BY <4>1
        <4>3. CASE status[q] = 404
          <5>1. AnswerView[q] = {[kind |-> "absent", id |-> call[q].id]}
            BY <3>1, <4>3 DEF AnswerView, AnswerOf, Told
          <5>2. AnswerView'[q] = {[kind |-> "absent", id |-> call[q].id]}
            BY <4>1, <4>3 DEF AnswerView, AnswerOf, Told
          <5> QED BY <5>1, <5>2
        <4>4. CASE status[q] \notin {200, 404}
          <5>1. AnswerView[q] = {[kind |-> "refused"]}
            BY <3>1, <4>4 DEF AnswerView, AnswerOf
          <5>2. AnswerView'[q] = {[kind |-> "refused"]}
            BY <4>1, <4>4 DEF AnswerView, AnswerOf
          <5> QED BY <5>1, <5>2
        <4>5. CASE status[q] = 200 /\ call[q].op = "upload"
          <5>1. AnswerView[q] = {[kind |-> "uploaded", id |-> uuid[q]]}
            BY <3>1, <4>5 DEF AnswerView, AnswerOf, Told
          <5>2. AnswerView'[q] = {[kind |-> "uploaded", id |-> uuid[q]]}
            BY <4>1, <4>5 DEF AnswerView, AnswerOf, Told
          <5> QED BY <5>1, <5>2
        <4>6. CASE status[q] = 200 /\ call[q].op = "download"
          <5>1. AnswerView[q] = {[kind |-> "package", id |-> call[q].id, osp |-> The(got[q])]}
            BY <3>1, <4>6 DEF AnswerView, AnswerOf, Told
          <5>2. AnswerView'[q] = {[kind |-> "package", id |-> call[q].id, osp |-> The(got[q])]}
            BY <4>1, <4>6 DEF AnswerView, AnswerOf, Told
          <5> QED BY <5>1, <5>2
        <4>7. CASE status[q] = 200 /\ call[q].op = "get"
          <5>1. AnswerView[q] = {[kind |-> "entry", id |-> call[q].id,
                               name |-> The(got[q]).name, publicKey |-> The(got[q]).publicKey]}
            BY <3>1, <4>7 DEF AnswerView, AnswerOf, Told
          <5>2. AnswerView'[q] = {[kind |-> "entry", id |-> call[q].id,
                               name |-> The(got[q]).name, publicKey |-> The(got[q]).publicKey]}
            BY <4>1, <4>7 DEF AnswerView, AnswerOf, Told
          <5> QED BY <5>1, <5>2
        <4>8. CASE status[q] = 200 /\ call[q].op \notin {"upload", "download", "get"}
          <5> DEFINE ids == {row.id : row \in got[q]}
          <5>1. Told(q) = [kind |-> "found", query |-> call[q].query, ids |-> ids]
            BY <4>8 DEF Told
          <5>2. AnswerView[q] = {[kind |-> "found", query |-> call[q].query, ids |-> ids]}
            BY <3>1, <4>8, <5>1 DEF AnswerView, AnswerOf
          <5>3. Told(q)' = [kind |-> "found", query |-> call'[q].query,
                            ids |-> {row.id : row \in got'[q]}]
            BY <4>1, <4>8 DEF Told
          <5>4. /\ AnswerView'[q] = {AnswerOf(q)'} /\ AnswerOf(q)' = Told(q)'
                /\ call'[q].query = call[q].query
            BY <4>1, <4>8 DEF AnswerView, AnswerOf
          <5> HIDE DEF ids
          <5> QED BY <4>2, <5>2, <5>3, <5>4 DEF ids
        <4> QED BY <4>3, <4>4, <4>5, <4>6, <4>7, <4>8
      <3>2. CASE pc[q] # "done"
        BY <3>2 DEF AnswerView
      <3> QED BY <3>1, <3>2
    <2> QED BY <2>1 DEF AnswerView
  <1> QED BY <1>1, <1>2 DEF Catalog!vars

\* A reply tells its request what AnswerView makes of it.
LEMMA ReplyTells ==
  ASSUME IInv, NEW r \in Requests, NEW code, NEW body, Reply(r, code, body),
         pc[r] # "done", UNCHANGED <<disk, locals>>
  PROVE  /\ \A what : AnswerView'[r] = {what} => Catalog!Tell(r, what)
         /\ pc'[r] = "done" /\ status'[r] = code /\ got'[r] = body
         /\ call'[r] = call[r] /\ uuid'[r] = uuid[r]
  <1> USE DEF Reply, Goto, disk, locals
  <1>0. /\ status'[r] = code /\ got'[r] = body /\ pc'[r] = "done"
        /\ \A q \in Requests \ {r} :
             pc'[q] = pc[q] /\ status'[q] = status[q] /\ got'[q] = got[q]
    BY DEF IInv, TypeOK
  <1>1. CatalogView' = CatalogView
    BY DEF CatalogView
  <1>2. \A q \in Requests \ {r} : AnswerView'[q] = AnswerView[q]
    BY <1>0 DEF AnswerView, AnswerOf, Told
  <1>3. ASSUME NEW what, AnswerView'[r] = {what}
        PROVE  AnswerView' = [AnswerView EXCEPT ![r] = {what}]
    BY <1>2, <1>3 DEF AnswerView
  <1>4. AnswerView[r] = {}
    BY DEF AnswerView
  <1> QED BY <1>0, <1>1, <1>3, <1>4 DEF Catalog!Tell

\* Requests that are told of an error.
LEMMA RefusalsMap ==
  ASSUME IInv, NEW r \in Requests,
         Reject(r) \/ WriteFails(r) \/ ReadFails(r) \/ RegistryFails(r)
  PROVE  Catalog!Next
  <1>1. PICK code \in {400, 401, 500} : Reply(r, code, {})
    BY DEF Reject, RejectStatus, WriteFails, ReadFails, RegistryFails
  <1>2. pc[r] # "done" /\ UNCHANGED <<disk, locals>>
    BY DEF Reject, At, WriteFails, ReadFails, RegistryFails
  <1>3. /\ \A what : AnswerView'[r] = {what} => Catalog!Tell(r, what)
        /\ pc'[r] = "done" /\ status'[r] = code
    BY <1>1, <1>2, ReplyTells
  <1>4. AnswerView'[r] = {[kind |-> "refused"]}
    BY <1>3 DEF AnswerView, AnswerOf, Told
  <1> QED BY <1>3, <1>4 DEF Catalog!Next, Catalog!Refuse

\* The 200 of an upload says that its row is there.
LEMMA AcknowledgeMaps ==
  ASSUME IInv, NEW r \in Requests, Acknowledge(r)
  PROVE  Catalog!Next
  <1>1. Uploaded(r) /\ uuid[r] \in Ids /\ rows[uuid[r]] # {}
    BY DEF Acknowledge, IInv, HandlersAgree
  <1>2. /\ \A what : AnswerView'[r] = {what} => Catalog!Tell(r, what)
        /\ pc'[r] = "done" /\ status'[r] = 200
        /\ call'[r] = call[r] /\ uuid'[r] = uuid[r]
    BY ReplyTells DEF Acknowledge
  <1>3. AnswerView'[r] = {[kind |-> "uploaded", id |-> uuid[r]]}
    BY <1>1, <1>2 DEF AnswerView, AnswerOf, Told, Uploaded
  <1> QED BY <1>1, <1>2, <1>3, PublishedHaveRows
          DEF Catalog!Next, Catalog!Acknowledge

\* The file that is read is the published one, however long ago the row was.
LEMMA ReadFileMaps ==
  ASSUME IInv, NEW r \in Requests, ReadFile(r)
  PROVE  Catalog!Next
  <1>1. PICK row \in rows[call[r].id] : Reply(r, 200, files[row.ospPath])
    BY DEF ReadFile
  <1> DEFINE id == call[r].id
  <1>2. id \in Ids /\ call[r].op = "download"
    BY <1>1 DEF ReadFile, IInv, HandlersAgree
  <1>3. /\ row.ospPath = id
        /\ CatalogView[id] = {[osp |-> The(files[id]), name |-> row.name,
                               publicKey |-> row.publicKey]}
    BY <1>1, <1>2, PublishedView
  <1>4. /\ \A what : AnswerView'[r] = {what} => Catalog!Tell(r, what)
        /\ pc'[r] = "done" /\ status'[r] = 200 /\ got'[r] = files[id]
        /\ call'[r] = call[r]
    BY <1>1, <1>3, ReplyTells DEF ReadFile
  <1>5. AnswerView'[r] = {[kind |-> "package", id |-> id, osp |-> The(files[id])]}
    BY <1>2, <1>4 DEF AnswerView, AnswerOf, Told
  <1>6. Catalog!Deliver(r, id)
    BY <1>3, <1>4, <1>5 DEF Catalog!Deliver
  <1> QED BY <1>2, <1>6 DEF Catalog!Next

\* get_app and a download's lookup, by the row or its absence.
LEMMA GetAppMaps ==
  ASSUME IInv, NEW r \in Requests, GetApp(r)
  PROVE  Catalog!Next
  <1> DEFINE id == call[r].id
  <1>1. id \in Ids /\ call[r].op = "get" /\ pc[r] # "done"
    BY DEF GetApp, At
  <1>2. /\ \A what : AnswerView'[r] = {what} => Catalog!Tell(r, what)
        /\ pc'[r] = "done" /\ got'[r] = rows[id] /\ call'[r] = call[r]
        /\ status'[r] = IF rows[id] = {} THEN 404 ELSE 200
    BY <1>1, ReplyTells DEF GetApp
  <1>3. CASE rows[id] = {}
    <2>1. AnswerView'[r] = {[kind |-> "absent", id |-> id]}
      BY <1>1, <1>2, <1>3 DEF AnswerView, AnswerOf, Told
    <2> QED BY <1>1, <1>2, <1>3, <2>1, PublishedHaveRows
            DEF Catalog!Next, Catalog!DenyKnowledge
  <1>4. CASE rows[id] # {}
    <2>1. PICK row \in rows[id] : TRUE
      BY <1>4
    <2>2. /\ rows[id] = {row}
          /\ CatalogView[id] = {[osp |-> The(files[id]), name |-> row.name,
                                 publicKey |-> row.publicKey]}
      BY <1>1, PublishedView
    <2>3. The(rows[id]) = row
      BY <2>2 DEF The
    <2>4. AnswerView'[r] = {[kind |-> "entry", id |-> id, name |-> row.name,
                          publicKey |-> row.publicKey]}
      BY <1>1, <1>2, <1>4, <2>3 DEF AnswerView, AnswerOf, Told
    <2>5. Catalog!Describe(r, id)
      BY <1>2, <2>2, <2>4 DEF Catalog!Describe
    <2> QED BY <1>1, <2>5 DEF Catalog!Next
  <1> QED BY <1>3, <1>4

LEMMA LookupMaps ==
  ASSUME IInv, NEW r \in Requests, Lookup(r)
  PROVE  Catalog!Next \/ UNCHANGED Catalog!vars
  <1> DEFINE id == call[r].id
  <1>1. id \in Ids /\ call[r].op = "download" /\ pc[r] # "done"
    BY DEF Lookup, At
  <1>2. CASE rows[id] = {}
    <2>1. /\ \A what : AnswerView'[r] = {what} => Catalog!Tell(r, what)
        /\ pc'[r] = "done" /\ status'[r] = 404 /\ call'[r] = call[r]
      BY <1>1, <1>2, ReplyTells DEF Lookup
    <2>2. AnswerView'[r] = {[kind |-> "absent", id |-> id]}
      BY <1>1, <2>1 DEF AnswerView, AnswerOf, Told
    <2> QED BY <1>1, <1>2, <2>1, <2>2, PublishedHaveRows
            DEF Catalog!Next, Catalog!DenyKnowledge
  <1>3. CASE rows[id] # {}
    BY <1>1, <1>3, SilentSteps DEF Lookup, Goto, disk, locals, IInv, TypeOK
  <1> QED BY <1>2, <1>3

\* A search lists what is published at the one moment it has the registry.
LEMMA SearchMaps ==
  ASSUME IInv, NEW r \in Requests, call[r].query \in DOMAIN Matching, Search(r)
  PROVE  Catalog!Next
  <1> DEFINE query == call[r].query
             found == {row \in UNION {rows[id] : id \in Ids} : row.name \in Matching[query]}
  <1>1. call[r].op = "search" /\ pc[r] # "done"
    BY DEF Search, At
  <1>2. /\ \A what : AnswerView'[r] = {what} => Catalog!Tell(r, what)
        /\ pc'[r] = "done" /\ status'[r] = 200 /\ got'[r] = found
        /\ call'[r] = call[r]
    BY <1>1, ReplyTells DEF Search
  <1>3. AnswerView'[r] = {[kind |-> "found", query |-> query, ids |-> {row.id : row \in found}]}
    BY <1>1, <1>2 DEF AnswerView, AnswerOf, Told
  <1>4. {row.id : row \in found} =
          {id \in Catalog!Published :
             \E app \in CatalogView[id] : app.name \in Matching[query]}
    <2>1. \A id \in Ids : \A row \in rows[id] :
            /\ row.id = id /\ rows[id] = {row}
            /\ CatalogView[id] = {[osp |-> The(files[id]), name |-> row.name,
                                   publicKey |-> row.publicKey]}
      BY PublishedView
    <2>2. ASSUME NEW row \in found
          PROVE  row.id \in {id \in Catalog!Published :
                   \E app \in CatalogView[id] : app.name \in Matching[query]}
      BY <2>1, PublishedHaveRows
    <2>3. ASSUME NEW id \in Catalog!Published,
                 NEW app \in CatalogView[id], app.name \in Matching[query]
          PROVE  id \in {row.id : row \in found}
      <3>1. id \in Ids /\ rows[id] # {}
        BY PublishedHaveRows
      <3>2. PICK row \in rows[id] : TRUE
        BY <3>1
      <3>3. row.id = id /\ row.name = app.name
        BY <2>1, <3>1, <3>2
      <3> QED BY <2>3, <3>1, <3>2, <3>3
    <2> QED BY <2>2, <2>3
  <1>5. Catalog!List(r, query)
    BY <1>2, <1>3, <1>4 DEF Catalog!List
  <1> QED BY <1>5 DEF Catalog!Next

\* The row makes the app appear, as it was uploaded.
LEMMA InsertMaps ==
  ASSUME IInv, NEW r \in Requests, Insert(r)
  PROVE  Catalog!Next
  <1> DEFINE id == uuid[r]
             app == App(The(call[r].body.osp), call[r].body.publicKey)
  <1>1. /\ Uploaded(r) /\ Acceptable(call[r].body) /\ id \in Ids
        /\ files[id] = call[r].body.osp /\ rows[id] = {}
    BY DEF Insert, IInv, HandlersAgree
  <1>2. /\ app \in Publishable /\ AppEntry(r).name = app.name
        /\ AppEntry(r).publicKey = call[r].body.publicKey
    BY <1>1, AcceptableMayAppear DEF IInv
  <1>3. files[id] = {The(call[r].body.osp)}
    BY <1>1, AcceptableUploads DEF IInv
  <1>4. \A i \in Ids : rows'[i] = IF i = id THEN {AppEntry(r)} ELSE rows[i]
    BY <1>1 DEF Insert, IInv, TypeOK
  <1>5. files' = files
    BY DEF Insert
  <1>6. CatalogView'[id] = {app}
    <2>1. CatalogView'[id] = {[osp |-> osp, name |-> q.name, publicKey |-> q.publicKey] :
                                q \in rows'[id], osp \in files'[id]}
      BY <1>1 DEF CatalogView
    <2>2. rows'[id] = {AppEntry(r)} /\ files'[id] = {The(call[r].body.osp)}
      BY <1>1, <1>3, <1>4, <1>5
    <2> QED BY <1>2, <2>1, <2>2 DEF App
  <1>7. \A i \in Ids \ {id} : CatalogView'[i] = CatalogView[i]
    BY <1>4, <1>5 DEF CatalogView
  <1>8. CatalogView' = [CatalogView EXCEPT ![id] = {app}]
    <2>1. CatalogView' = [i \in Ids |-> CatalogView'[i]]
      BY DEF CatalogView
    <2>2. CatalogView = [i \in Ids |-> CatalogView[i]]
      BY DEF CatalogView
    <2> QED BY <1>1, <1>6, <1>7, <2>1, <2>2
  <1>9. CatalogView[id] = {}
    BY <1>1 DEF CatalogView
  <1>10. AnswerView' = AnswerView
    <2>1. pc'[r] # "done" /\ pc[r] # "done" /\ \A q \in Requests \ {r} : pc'[q] = pc[q]
      BY DEF Insert, Goto, IInv, TypeOK
    <2>2. ASSUME NEW q \in Requests PROVE AnswerView'[q] = AnswerView[q]
      BY <2>1 DEF Insert, locals, AnswerView, AnswerOf, Told
    <2> QED BY <2>2 DEF AnswerView
  <1>11. Catalog!Publish(id, app)
    BY <1>8, <1>9, <1>10 DEF Catalog!Publish
  <1> QED BY <1>1, <1>2, <1>11 DEF Catalog!Next

\* Requests that come in, uploads before their row is in, time, and crashes.
LEMMA OtherStepsAreSilent ==
  ASSUME IInv,
         \/ \E r \in Requests : Accept(r) \/ CreateFile(r) \/ WriteFile(r)
         \/ \E r \in Requests : \E c \in Asks[r] : Receive(r, c)
         \/ Tick \/ Crash \/ Restart \/ UNCHANGED vars
  PROVE  UNCHANGED Catalog!vars
  <1> USE DEF disk, locals, Goto
  <1>1. ASSUME NEW r \in Requests, Accept(r)
        PROVE  UNCHANGED Catalog!vars
    BY <1>1, SilentSteps DEF Accept, At, IInv, TypeOK
  <1>2. ASSUME NEW r \in Requests, CreateFile(r) \/ WriteFile(r)
        PROVE  UNCHANGED Catalog!vars
    <2>1. \A id \in Ids : rows[id] # {} => files'[id] = files[id]
      <3>1. rows[uuid[r]] = {}
        BY <1>2 DEF CreateFile, WriteFile, IInv, HandlersAgree
      <3> QED BY <1>2, <3>1 DEF CreateFile, WriteFile, IInv, TypeOK
    <2> QED BY <1>2, <2>1, SilentSteps DEF CreateFile, WriteFile, IInv, TypeOK
  <1>3. ASSUME NEW r \in Requests, NEW c \in Asks[r], Receive(r, c)
        PROVE  UNCHANGED Catalog!vars
    BY <1>3, SilentSteps DEF Receive, IInv, TypeOK
  <1>4. CASE Tick \/ Crash \/ Restart \/ UNCHANGED vars
    <2>1. \A q \in Requests : pc'[q] = "done" <=> pc[q] = "done"
      BY <1>4 DEF Tick, Crash, Restart, vars, Handling, IInv, TypeOK
    <2> QED BY <1>4, <2>1, SilentSteps DEF Tick, Crash, Restart, vars
  <1> QED BY <1>1, <1>2, <1>3, <1>4

\* A call is one of Calls once it is received: a search has a query.
SearchesAsk ==
  \A r \in Requests : call[r].op = "search" => call[r].query \in DOMAIN Matching

LEMMA CallsAsk == TypeOK => SearchesAsk
  BY DEF TypeOK, Calls, NoCall, SearchesAsk

LEMMA NextCatalog == IInv /\ [Next]_vars => [Catalog!Next]_(Catalog!vars)
  <1> SUFFICES ASSUME IInv, [Next]_vars PROVE Catalog!Next \/ UNCHANGED Catalog!vars
    OBVIOUS
  <1>1. ASSUME NEW r \in Requests, Search(r) PROVE Catalog!Next
    BY <1>1, SearchMaps, CallsAsk DEF Search, At, SearchesAsk, IInv
  <1> QED BY <1>1, RefusalsMap, AcknowledgeMaps, ReadFileMaps, GetAppMaps, LookupMaps,
             InsertMaps, OtherStepsAreSilent
          DEF Next, Handle

(***************************************************************************)
(* For any requests, ids and uploads, and crashes and restarts anywhere:   *)
(* what clients see of the store's handlers is a catalogue to which whole, *)
(* verified apps are added in one step and never changed, and every answer *)
(* was true of it at one moment while its request was handled.             *)
(***************************************************************************)
THEOREM StoreIsACatalog == Spec => ImplementsCatalog
  BY InitCatalog, NextCatalog, Invariance, PTL DEF Spec, ImplementsCatalog, Catalog!Spec
===============================================================================
