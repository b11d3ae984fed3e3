------------------------------ MODULE AppCatalog ------------------------------
(***************************************************************************)
(* What the app store promises its clients, with no files, rows, locks,    *)
(* clock or crashes in it: a catalogue to which whole, verified apps are   *)
(* added in one step and from which nothing is ever changed or removed,    *)
(* and every answer to a request is true of the catalogue at one moment    *)
(* before it is given.                                                     *)
(***************************************************************************)
CONSTANTS Requests,     \* the HTTP requests clients make
          Ids,          \* app ids
          Publishable,  \* apps that may appear: [osp, name, publicKey]
          Matching      \* query -> the names it matches

VARIABLES catalog,      \* id -> the app published under it, if any
          answer        \* request -> what it was told, if anything

vars == <<catalog, answer>>

Published == {id \in Ids : catalog[id] # {}}

Init ==
  /\ catalog = [id \in Ids |-> {}]
  /\ answer = [r \in Requests |-> {}]

Tell(r, what) ==
  /\ answer[r] = {}
  /\ answer' = [answer EXCEPT ![r] = {what}]
  /\ UNCHANGED catalog

Publish(id, app) ==
  /\ catalog[id] = {}
  /\ catalog' = [catalog EXCEPT ![id] = {app}]
  /\ UNCHANGED answer

\* An upload is acknowledged only once its app is in the catalogue.
Acknowledge(r, id) ==
  /\ id \in Published
  /\ Tell(r, [kind |-> "uploaded", id |-> id])

\* A download yields the very bytes that were published.
Deliver(r, id) ==
  \E app \in catalog[id] : Tell(r, [kind |-> "package", id |-> id, osp |-> app.osp])

Describe(r, id) ==
  \E app \in catalog[id] :
    Tell(r, [kind |-> "entry", id |-> id, name |-> app.name,
             publicKey |-> app.publicKey])

DenyKnowledge(r, id) ==
  /\ id \notin Published
  /\ Tell(r, [kind |-> "absent", id |-> id])

List(r, query) ==
  Tell(r, [kind |-> "found", query |-> query,
           ids |-> {id \in Published :
                      \E app \in catalog[id] : app.name \in Matching[query]}])

\* Any request may be refused with an error; the catalogue is not touched.
Refuse(r) == Tell(r, [kind |-> "refused"])

Next ==
  \/ \E id \in Ids, app \in Publishable : Publish(id, app)
  \/ \E r \in Requests, id \in Ids :
       \/ Acknowledge(r, id)
       \/ Deliver(r, id)
       \/ Describe(r, id)
       \/ DenyKnowledge(r, id)
  \/ \E r \in Requests, query \in DOMAIN Matching : List(r, query)
  \/ \E r \in Requests : Refuse(r)

Spec == Init /\ [][Next]_vars
===============================================================================
