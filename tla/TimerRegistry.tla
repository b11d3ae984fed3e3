----------------------------- MODULE TimerRegistry -----------------------------
(***************************************************************************)
(* The timer registry of one WASM execution (TimerRegistry and TimerEntry  *)
(* in os-agent/src/wasm_runtime.rs).  Every interval timer has a thread of *)
(* its own, which sleeps, looks at its `done` flag and records a firing;   *)
(* the host functions set, clear and drain timers meanwhile.  The maps are *)
(* guarded by one mutex, and everything done under it is one step here.    *)
(* The `done` flags are not: a thread looks at its flag, and only later    *)
(* waits for the mutex.                                                    *)
(*                                                                         *)
(* `fired` is a Vec of timer ids in the code; no property depends on the   *)
(* order in it, so it is kept as the number of times each id is in it.     *)
(* How long a thread sleeps is left open.                                  *)
(***************************************************************************)
EXTENDS Naturals, FiniteSets

CONSTANTS MaxTimers,  \* MAX_TIMERS, 64 in the code
          Callbacks,  \* names of exported functions
          MaxId,      \* bound: how many timers are ever set
          MaxFired    \* bound: firings of one timer waiting to be drained

ASSUME TimerAssumption ==
  /\ MaxTimers \in Nat /\ MaxId \in Nat
  /\ MaxFired \in Nat \ {0}

VARIABLES nextId,     \* next_id
          timers,     \* the ids with an entry
          callbacks,  \* id -> its callback name, if it has one
          fired,      \* id -> firings not drained yet
          done,       \* id -> the flag its entry and its thread share
          thread,     \* id -> where its thread is
          aware,      \* id -> its thread has locked the mutex since done was set
          delivered   \* what drain_fired last returned

vars == <<nextId, timers, callbacks, fired, done, thread, aware, delivered>>

Ids == 1..MaxId

Init ==
  /\ nextId = 1
  /\ timers = {}
  /\ callbacks = [t \in Ids |-> {}]
  /\ fired = [t \in Ids |-> 0]
  /\ done = [t \in Ids |-> FALSE]
  /\ thread = [t \in Ids |-> "none"]
  /\ aware = [t \in Ids |-> FALSE]
  /\ delivered = {}

-------------------------------------------------------------------------------
\* Host side: what TimerRegistry's methods do under the mutex.

\* Fault: one timer too many.
FullTooLate == Cardinality(timers) > MaxTimers

Full == Cardinality(timers) >= MaxTimers

\* set_interval, refused (it returns 0): no room, or an interval of 0 ms.
Refuse(interval) ==
  /\ Full \/ interval = 0
  /\ UNCHANGED vars

SetInterval(interval, callback) ==
  /\ ~Full /\ interval # 0
  /\ nextId <= MaxId
  /\ nextId' = nextId + 1
  /\ timers' = timers \cup {nextId}
  /\ callbacks' = [callbacks EXCEPT ![nextId] = {callback}]
  /\ thread' = [thread EXCEPT ![nextId] = "head"]
  /\ UNCHANGED <<fired, done, aware, delivered>>

\* Fault: the callback stays behind.
ClearKeepingCallback(t) ==
  /\ fired' = [fired EXCEPT ![t] = 0]
  /\ timers' = timers \ {t}
  /\ done' = [done EXCEPT ![t] = @ \/ t \in timers]
  /\ UNCHANGED <<nextId, callbacks, thread, aware, delivered>>

\* Fault: firings already recorded are left in place.
ClearKeepingFirings(t) ==
  /\ callbacks' = [callbacks EXCEPT ![t] = {}]
  /\ timers' = timers \ {t}
  /\ done' = [done EXCEPT ![t] = @ \/ t \in timers]
  /\ UNCHANGED <<nextId, fired, thread, aware, delivered>>

\* Fault: every timer's firings are thrown away.
ClearAllFirings(t) ==
  /\ callbacks' = [callbacks EXCEPT ![t] = {}]
  /\ fired' = [u \in Ids |-> 0]
  /\ timers' = timers \ {t}
  /\ done' = [done EXCEPT ![t] = @ \/ t \in timers]
  /\ UNCHANGED <<nextId, thread, aware, delivered>>

\* Fault: the entry is forgotten without its flag being set.
ClearWithoutDone(t) ==
  /\ callbacks' = [callbacks EXCEPT ![t] = {}]
  /\ fired' = [fired EXCEPT ![t] = 0]
  /\ timers' = timers \ {t}
  /\ UNCHANGED <<nextId, done, thread, aware, delivered>>

\* A guest may clear any number; only an entry's flag can be set.
Clear(t) ==
  /\ callbacks' = [callbacks EXCEPT ![t] = {}]
  /\ fired' = [fired EXCEPT ![t] = 0]
  /\ timers' = timers \ {t}
  /\ done' = [done EXCEPT ![t] = @ \/ t \in timers]
  /\ UNCHANGED <<nextId, thread, aware, delivered>>

DrainFired ==
  /\ delivered' = UNION {{<<t, cb>> : cb \in callbacks[t]} : t \in {u \in Ids : fired[u] > 0}}
  /\ fired' = [t \in Ids |-> 0]
  /\ UNCHANGED <<nextId, timers, callbacks, done, thread, aware>>

-------------------------------------------------------------------------------
\* A timer's thread.

(***************************************************************************)
(* What a relaxed load of `done` may give: once it is set, the old value   *)
(* can still be read until the thread has locked the mutex after clear.    *)
(***************************************************************************)
Load(t) == IF done[t] /\ ~aware[t] THEN {TRUE, FALSE} ELSE {done[t]}

At(t, label) == thread[t] = label
Goto(t, label) == thread' = [thread EXCEPT ![t] = label]

Registry == <<nextId, timers, callbacks, fired, done, aware, delivered>>

\* while !done
LoopHead(t) ==
  /\ At(t, "head")
  /\ \E seen \in Load(t) : Goto(t, IF seen THEN "exited" ELSE "asleep")
  /\ UNCHANGED Registry

\* The interval has passed, or done was seen between two chunks of it.
Wake(t) ==
  /\ At(t, "asleep")
  /\ fired[t] < MaxFired \/ done[t]
  /\ Goto(t, "awake")
  /\ UNCHANGED Registry

\* if done, break; otherwise on to the mutex
Check(t) ==
  /\ At(t, "awake")
  /\ \E seen \in Load(t) : Goto(t, IF seen THEN "exited" ELSE "firing")
  /\ UNCHANGED Registry

\* The mutex is locked and the id pushed: done is not looked at again.
Fire(t) ==
  /\ At(t, "firing")
  /\ fired' = [fired EXCEPT ![t] = @ + 1]
  /\ aware' = [aware EXCEPT ![t] = done[t]]
  /\ Goto(t, "head")
  /\ UNCHANGED <<nextId, timers, callbacks, done, delivered>>

ThreadStep(t) == LoopHead(t) \/ Wake(t) \/ Check(t) \/ Fire(t)

HostStep ==
  \/ \E interval \in {0, 1} : Refuse(interval)
  \/ \E interval \in {0, 1}, callback \in Callbacks : SetInterval(interval, callback)
  \/ \E t \in Ids : Clear(t)
  \/ DrainFired

Next == HostStep \/ \E t \in Ids : ThreadStep(t)

Spec == Init /\ [][Next]_vars

\* Threads are scheduled; the guest owes nothing.
FairSpec == Spec /\ \A t \in Ids : WF_vars(ThreadStep(t))

-------------------------------------------------------------------------------

Places == {"none", "head", "asleep", "awake", "firing", "exited"}

Running(t) == thread[t] \notin {"none", "exited"}

(***************************************************************************)
(* Types, the limit on active timers included.                             *)
(***************************************************************************)
TypeOK ==
  /\ nextId \in 1..(MaxId + 1)
  /\ timers \in SUBSET Ids
  /\ Cardinality(timers) <= MaxTimers
  /\ callbacks \in [Ids -> {{}} \cup {{cb} : cb \in Callbacks}]
  /\ fired \in [Ids -> 0..MaxFired]
  /\ done \in [Ids -> BOOLEAN]
  /\ thread \in [Ids -> Places]
  /\ aware \in [Ids -> BOOLEAN]
  /\ delivered \in SUBSET (Ids \X Callbacks)

(***************************************************************************)
(* The two maps name the same timers, every timer in them has a thread     *)
(* that nobody has told to stop, and every running thread that is in no    *)
(* map has been told: no thread is forgotten by clear.                     *)
(***************************************************************************)
MapsAndThreadsAgree ==
  \A t \in Ids :
    /\ t \in timers <=> callbacks[t] # {}
    /\ t \in timers => Running(t) /\ ~done[t]
    /\ Running(t) /\ t \notin timers => done[t]

(***************************************************************************)
(* clear cannot stop a thread that has looked at its flag and waits for    *)
(* the mutex: that thread pushes the id of a cleared timer.  It does so    *)
(* once at most, even if it reads the flag late.                           *)
(***************************************************************************)
AtMostOneStaleFiring ==
  \A t \in Ids : t \notin timers => fired[t] <= 1

(***************************************************************************)
(* drain_fired never returns a cleared timer, though its id may be among   *)
(* the firings, and gives each timer the name it was set with.             *)
(***************************************************************************)
DrainsDeliverLiveTimers ==
  [][\A t \in Ids, cb \in Callbacks :
       <<t, cb>> \in delivered' => t \in timers /\ callbacks[t] = {cb}]_delivered

(***************************************************************************)
(* The firings of a timer that stays set are taken from the registry only  *)
(* by a drain that returns the timer: clearing one timer loses no firing   *)
(* of another.                                                             *)
(***************************************************************************)
FiringsReachADrain ==
  [][\A t \in timers \cap timers' :
       fired'[t] < fired[t] => \A cb \in callbacks[t] : <<t, cb>> \in delivered']_vars

(***************************************************************************)
(* An id that was cleared never names a timer again, so an id a guest      *)
(* still holds cannot clear somebody else's timer.                         *)
(***************************************************************************)
ClearedIdsStayCleared ==
  [][\A t \in Ids : thread[t] # "none" /\ t \notin timers => t \notin timers']_vars

(***************************************************************************)
(* The thread of a cleared timer ends, as clear's comment says, though     *)
(* nobody joins it.                                                        *)
(***************************************************************************)
ClearedThreadsExit ==
  \A t \in Ids :
    (thread[t] # "none" /\ t \notin timers) ~> thread[t] = "exited"
================================================================================
