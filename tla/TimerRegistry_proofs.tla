-------------------------- MODULE TimerRegistry_proofs --------------------------
(***************************************************************************)
(* Safety of the timer registry for every limit, every number of timers    *)
(* and every interleaving of their threads with the host.                  *)
(*                                                                         *)
(* The registry's invariants are not inductive alone.  What is missing is  *)
(* what IInv adds: ids not given out yet are untouched; a thread that has  *)
(* not locked the mutex since its flag was set has pushed nothing since    *)
(* (clear removed what was there); one that has is back at the head of its *)
(* loop, where it can no longer miss the flag.                             *)
(***************************************************************************)
EXTENDS TimerRegistry, FiniteSetTheorems, TLAPS

Types ==
  /\ nextId \in 1..(MaxId + 1)
  /\ timers \in SUBSET Ids
  /\ callbacks \in [Ids -> {{}} \cup {{cb} : cb \in Callbacks}]
  /\ fired \in [Ids -> 0..MaxFired]
  /\ done \in [Ids -> BOOLEAN]
  /\ thread \in [Ids -> Places]
  /\ aware \in [Ids -> BOOLEAN]
  /\ delivered \in SUBSET (Ids \X Callbacks)

\* An id not given out yet has no trace.
UnusedIds ==
  \A t \in Ids : t >= nextId =>
    thread[t] = "none" /\ t \notin timers /\ ~done[t] /\ fired[t] = 0

\* Before the mutex orders the flag before the thread's reads, and after.
StaleFirings ==
  \A t \in Ids :
    /\ aware[t] => done[t] /\ thread[t] \in {"head", "exited"} /\ fired[t] <= 1
    /\ t \notin timers /\ ~aware[t] => fired[t] = 0

\* A thread on its way to the mutex has room for its firing.
Room ==
  \A t \in Ids :
    thread[t] \in {"awake", "firing"} => fired[t] < MaxFired

IInv ==
  /\ Types
  /\ UnusedIds
  /\ MapsAndThreadsAgree
  /\ StaleFirings
  /\ Room

-------------------------------------------------------------------------------

\* Before any timer is set, IInv holds.
LEMMA InitIInv == Init => IInv
  BY TimerAssumption
  DEF Init, IInv, Types, UnusedIds, MapsAndThreadsAgree, StaleFirings, Room,
      Running, Ids, Places

\* set_interval keeps IInv: the id it gives out has no trace before.
LEMMA SetIntervalIInv ==
  ASSUME IInv, NEW interval, NEW callback \in Callbacks,
         SetInterval(interval, callback)
  PROVE  IInv'
  <1>1. nextId \in Ids /\ nextId' = nextId + 1 /\ nextId \in Nat
    BY TimerAssumption DEF IInv, Types, SetInterval, Ids
  <1>2. Types'
    <2>1. nextId' \in 1..(MaxId + 1) /\ timers' \in SUBSET Ids
      BY <1>1, TimerAssumption DEF IInv, Types, SetInterval, Ids
    <2>2. callbacks' \in [Ids -> {{}} \cup {{cb} : cb \in Callbacks}]
      BY <1>1 DEF IInv, Types, SetInterval
    <2>3. thread' \in [Ids -> Places]
      BY <1>1 DEF IInv, Types, SetInterval, Places
    <2> QED BY <2>1, <2>2, <2>3 DEF IInv, Types, SetInterval
  <1>3. UnusedIds'
    BY <1>1 DEF IInv, Types, UnusedIds, SetInterval, Ids
  <1>4. MapsAndThreadsAgree'
    <2> SUFFICES ASSUME NEW t \in Ids
                 PROVE  /\ t \in timers' <=> callbacks'[t] # {}
                        /\ t \in timers' => Running(t)' /\ ~done'[t]
                        /\ Running(t)' /\ t \notin timers' => done'[t]
      BY DEF MapsAndThreadsAgree
    <2>1. CASE t = nextId
      BY <1>1, <2>1 DEF IInv, Types, UnusedIds, SetInterval, Running, Ids
    <2>2. CASE t # nextId
      BY <1>1, <2>2 DEF IInv, Types, MapsAndThreadsAgree, SetInterval, Running
    <2> QED BY <2>1, <2>2
  <1>5. StaleFirings' /\ Room'
    BY <1>1 DEF IInv, Types, StaleFirings, UnusedIds, Room, SetInterval, Ids
  <1> QED BY <1>2, <1>3, <1>4, <1>5 DEF IInv

\* timer_clear keeps IInv, whatever id it is given.
LEMMA ClearIInv ==
  ASSUME IInv, NEW c \in Ids, Clear(c)
  PROVE  IInv'
  <1>1. Types'
    <2>1. callbacks' \in [Ids -> {{}} \cup {{cb} : cb \in Callbacks}]
      BY DEF IInv, Types, Clear
    <2>2. fired' \in [Ids -> 0..MaxFired]
      BY TimerAssumption DEF IInv, Types, Clear
    <2>3. done' \in [Ids -> BOOLEAN]
      BY Zenon DEF IInv, Types, Clear
    <2>4. timers' \in SUBSET Ids
      BY DEF IInv, Types, Clear
    <2> QED BY <2>1, <2>2, <2>3, <2>4 DEF IInv, Types, Clear
  <1>2. UnusedIds'
    BY DEF IInv, Types, UnusedIds, Clear
  <1>3. MapsAndThreadsAgree'
    BY DEF IInv, Types, MapsAndThreadsAgree, Clear, Running
  <1>4. StaleFirings' /\ Room'
    BY TimerAssumption
    DEF IInv, Types, MapsAndThreadsAgree, StaleFirings, Room, Clear, Ids
  <1> QED BY <1>1, <1>2, <1>3, <1>4 DEF IInv

\* A drain keeps IInv.
LEMMA DrainIInv == IInv /\ DrainFired => IInv'
  <1> SUFFICES ASSUME IInv, DrainFired PROVE IInv'
    OBVIOUS
  <1>1. Types'
    <2>1. fired' \in [Ids -> 0..MaxFired]
      BY TimerAssumption DEF DrainFired
    <2>2. \A t \in Ids : \A cb \in callbacks[t] : cb \in Callbacks
      BY DEF IInv, Types
    <2>3. delivered' \in SUBSET (Ids \X Callbacks)
      BY <2>2 DEF DrainFired
    <2> QED BY <2>1, <2>3 DEF IInv, Types, DrainFired
  <1>2. UnusedIds' /\ MapsAndThreadsAgree'
    BY DEF IInv, Types, UnusedIds, MapsAndThreadsAgree, DrainFired, Running
  <1>3. StaleFirings' /\ Room'
    BY TimerAssumption DEF IInv, Types, StaleFirings, Room, DrainFired
  <1> QED BY <1>1, <1>2, <1>3 DEF IInv

\* A timer's thread keeps IInv, though it looks at its flag before it locks
\* the mutex and may read it late.
LEMMA ThreadIInv ==
  ASSUME IInv, NEW u \in Ids, ThreadStep(u)
  PROVE  IInv'
  <1>1. CASE LoopHead(u)
    <2>1. thread[u] = "head" /\ UNCHANGED Registry
          /\ thread' \in {[thread EXCEPT ![u] = "exited"], [thread EXCEPT ![u] = "asleep"]}
      BY <1>1 DEF LoopHead, At, Goto
    <2>2. ASSUME aware[u] PROVE thread' = [thread EXCEPT ![u] = "exited"]
      BY <1>1, <2>2 DEF LoopHead, Load, Goto, IInv, StaleFirings
    <2>3. ASSUME ~done[u] PROVE thread' = [thread EXCEPT ![u] = "asleep"]
      BY <1>1, <2>3 DEF LoopHead, Load, Goto, IInv, Types
    <2>4. Types' /\ UnusedIds' /\ Room'
      BY <2>1 DEF IInv, Types, UnusedIds, Room, Registry, Places
    <2>5. MapsAndThreadsAgree'
      BY <2>1, <2>3 DEF IInv, Types, MapsAndThreadsAgree, Registry, Running
    <2>6. StaleFirings'
      BY <2>1, <2>2 DEF IInv, Types, StaleFirings, Registry
    <2> QED BY <2>4, <2>5, <2>6 DEF IInv
  <1>2. CASE Wake(u)
    <2>1. /\ thread[u] = "asleep" /\ thread' = [thread EXCEPT ![u] = "awake"]
          /\ UNCHANGED Registry
          /\ fired[u] < MaxFired \/ done[u]
      BY <1>2 DEF Wake, At, Goto
    <2>2. fired[u] < MaxFired
      BY <2>1, TimerAssumption
      DEF IInv, Types, MapsAndThreadsAgree, StaleFirings, Ids
    <2>3. Types' /\ UnusedIds' /\ MapsAndThreadsAgree' /\ StaleFirings'
      BY <2>1 DEF IInv, Types, UnusedIds, MapsAndThreadsAgree, StaleFirings,
                  Registry, Running, Places
    <2>4. Room'
      BY <2>1, <2>2 DEF IInv, Types, Room, Registry
    <2> QED BY <2>3, <2>4 DEF IInv
  <1>3. CASE Check(u)
    <2>1. thread[u] = "awake" /\ UNCHANGED Registry
          /\ thread' \in {[thread EXCEPT ![u] = "exited"], [thread EXCEPT ![u] = "firing"]}
      BY <1>3 DEF Check, At, Goto
    <2>2. ASSUME ~done[u] PROVE thread' = [thread EXCEPT ![u] = "firing"]
      BY <1>3, <2>2 DEF Check, Load, Goto, IInv, Types
    <2>3. Types' /\ UnusedIds' /\ Room' /\ StaleFirings'
      BY <2>1 DEF IInv, Types, UnusedIds, Room, StaleFirings, Registry, Places
    <2>4. MapsAndThreadsAgree'
      BY <2>1, <2>2 DEF IInv, Types, MapsAndThreadsAgree, Registry, Running
    <2> QED BY <2>3, <2>4 DEF IInv
  <1>4. CASE Fire(u)
    <2>1. /\ thread[u] = "firing" /\ thread' = [thread EXCEPT ![u] = "head"]
          /\ fired' = [fired EXCEPT ![u] = fired[u] + 1]
          /\ aware' = [aware EXCEPT ![u] = done[u]]
          /\ UNCHANGED <<nextId, timers, callbacks, done, delivered>>
      BY <1>4 DEF Fire, At, Goto
    <2>2. fired[u] \in Nat /\ fired[u] < MaxFired /\ u < nextId
      BY <2>1, TimerAssumption DEF IInv, Types, Room, UnusedIds, Ids
    <2>3. Types'
      BY <2>1, <2>2, TimerAssumption DEF IInv, Types, Places
    <2>4. UnusedIds' /\ Room'
      BY <2>1, <2>2 DEF IInv, Types, UnusedIds, Room, Ids
    <2>5. MapsAndThreadsAgree'
      BY <2>1 DEF IInv, Types, MapsAndThreadsAgree, Running
    <2>6. StaleFirings'
      <3>1. ASSUME done[u]
            PROVE  thread'[u] = "head" /\ fired'[u] = 1
        <4>1. u \notin timers /\ ~aware[u]
          BY <2>1, <3>1 DEF IInv, MapsAndThreadsAgree, StaleFirings
        <4>2. fired[u] = 0
          BY <4>1 DEF IInv, StaleFirings
        <4> QED BY <2>1, <4>2 DEF IInv, Types
      <3>2. ASSUME ~done[u]
            PROVE  u \in timers /\ ~aware'[u]
        BY <2>1, <3>2 DEF IInv, Types, MapsAndThreadsAgree, Running
      <3>3. ASSUME NEW t \in Ids, t # u
            PROVE  /\ fired'[t] = fired[t] /\ aware'[t] = aware[t]
                   /\ thread'[t] = thread[t]
        BY <2>1, <3>3 DEF IInv, Types
      <3>4. aware'[u] = done[u]
        BY <2>1 DEF IInv, Types
      <3> QED BY <2>1, <3>1, <3>2, <3>3, <3>4 DEF IInv, StaleFirings
    <2> QED BY <2>3, <2>4, <2>5, <2>6 DEF IInv
  <1> QED BY <1>1, <1>2, <1>3, <1>4 DEF ThreadStep

\* Every step keeps IInv.
LEMMA NextIInv == IInv /\ [Next]_vars => IInv'
  <1> SUFFICES ASSUME IInv, [Next]_vars PROVE IInv'
    OBVIOUS
  <1>1. CASE UNCHANGED vars
    BY <1>1 DEF vars, IInv, Types, UnusedIds, MapsAndThreadsAgree, StaleFirings,
                Room, Running
  <1>2. ASSUME NEW interval, NEW callback \in Callbacks,
               SetInterval(interval, callback)
        PROVE  IInv'
    BY <1>2, SetIntervalIInv
  <1>3. ASSUME NEW t \in Ids, Clear(t) PROVE IInv'
    BY <1>3, ClearIInv
  <1>4. CASE DrainFired
    BY <1>4, DrainIInv
  <1>5. ASSUME NEW t \in Ids, ThreadStep(t) PROVE IInv'
    BY <1>5, ThreadIInv
  <1> QED BY <1>1, <1>2, <1>3, <1>4, <1>5 DEF Next, HostStep, Refuse

\* The strengthened invariant holds in every reachable state.
LEMMA Invariance == Spec => []IInv
  BY InitIInv, NextIInv, PTL DEF Spec

-------------------------------------------------------------------------------
\* What the invariant gives.

\* timers is finite, being a subset of the ids there can be.
LEMMA TimersFinite == ASSUME Types PROVE IsFiniteSet(timers)
  <1>1. 1 \in Int /\ MaxId \in Int
    BY TimerAssumption
  <1>2. IsFiniteSet(Ids)
    BY <1>1, FS_Interval DEF Ids
  <1> QED BY <1>2, FS_Subset DEF Types

WithinLimit == Cardinality(timers) <= MaxTimers

\* set_interval looks at the number of timers before it adds one.
LEMMA NextWithinLimit == IInv /\ WithinLimit /\ [Next]_vars => WithinLimit'
  <1> SUFFICES ASSUME IInv, WithinLimit, [Next]_vars PROVE WithinLimit'
    OBVIOUS
  <1>0. IsFiniteSet(timers) /\ Cardinality(timers) \in Nat
    BY TimersFinite, FS_CardinalityType DEF IInv
  <1>1. CASE timers' = timers
    BY <1>1 DEF WithinLimit
  <1>2. ASSUME NEW interval, NEW callback, SetInterval(interval, callback)
        PROVE  WithinLimit'
    <2>1. nextId \notin timers
      BY <1>2, TimerAssumption DEF IInv, Types, UnusedIds, SetInterval, Ids
    <2>2. Cardinality(timers') = Cardinality(timers) + 1
      BY <1>0, <1>2, <2>1, FS_AddElement DEF SetInterval
    <2> QED BY <1>0, <1>2, <2>2, TimerAssumption DEF SetInterval, Full, WithinLimit
  <1>3. ASSUME NEW t \in Ids, Clear(t)
        PROVE  WithinLimit'
    <2>1. timers' \subseteq timers
      BY <1>3 DEF Clear
    <2>2. Cardinality(timers') <= Cardinality(timers) /\ Cardinality(timers') \in Nat
      BY <1>0, <2>1, FS_Subset, FS_CardinalityType
    <2> QED BY <1>0, <2>2, TimerAssumption DEF WithinLimit
  <1>4. CASE UNCHANGED vars \/ DrainFired \/ \E t \in Ids : ThreadStep(t)
    BY <1>1, <1>4
    DEF vars, DrainFired, ThreadStep, LoopHead, Wake, Check, Fire, Registry
  <1> QED BY <1>2, <1>3, <1>4 DEF Next, HostStep, Refuse

(***************************************************************************)
(* Types are respected and never more than MAX_TIMERS timers are active,   *)
(* whatever the limit.                                                     *)
(***************************************************************************)
THEOREM TypeCorrectness == Spec => []TypeOK
  <1>1. Init => WithinLimit
    BY FS_EmptySet, TimerAssumption DEF Init, WithinLimit
  <1>2. IInv /\ WithinLimit => TypeOK
    BY DEF IInv, Types, WithinLimit, TypeOK
  <1> QED BY <1>1, <1>2, Invariance, NextWithinLimit, PTL DEF Spec

(***************************************************************************)
(* Callbacks and entries name the same timers; a timer's thread runs until *)
(* the timer is cleared, and a thread without a timer has been told so.    *)
(***************************************************************************)
THEOREM MapsAndThreads == Spec => []MapsAndThreadsAgree
  <1>1. IInv => MapsAndThreadsAgree
    BY DEF IInv
  <1> QED BY <1>1, Invariance, PTL

(***************************************************************************)
(* However late a thread reads its flag, it pushes the id of its cleared   *)
(* timer once at most.                                                     *)
(***************************************************************************)
THEOREM StaleFiringBound == Spec => []AtMostOneStaleFiring
  <1>1. IInv => AtMostOneStaleFiring
    BY DEF IInv, Types, StaleFirings, AtMostOneStaleFiring
  <1> QED BY <1>1, Invariance, PTL

(***************************************************************************)
(* drain_fired returns timers that are set, with their own callbacks.      *)
(***************************************************************************)
THEOREM DrainsAreLive == Spec => DrainsDeliverLiveTimers
  <1> DEFINE Live == \A t \in Ids, cb \in Callbacks :
                       <<t, cb>> \in delivered' => t \in timers /\ callbacks[t] = {cb}
  <1>1. ASSUME IInv, [Next]_vars PROVE [Live]_delivered
    <2>1. CASE DrainFired
      <3> SUFFICES ASSUME NEW t \in Ids, NEW cb \in Callbacks, <<t, cb>> \in delivered'
                   PROVE  t \in timers /\ callbacks[t] = {cb}
        OBVIOUS
      <3>1. cb \in callbacks[t]
        BY <2>1 DEF DrainFired
      <3> QED BY <3>1, <1>1 DEF IInv, Types, MapsAndThreadsAgree
    <2>2. CASE ~DrainFired
      <3>1. delivered' = delivered
        BY <1>1, <2>2
        DEF Next, HostStep, vars, Refuse, SetInterval, Clear, ThreadStep,
            LoopHead, Wake, Check, Fire, Registry
      <3> QED BY <3>1
    <2> QED BY <2>1, <2>2
  <1> QED BY <1>1, Invariance, PTL DEF Spec, DrainsDeliverLiveTimers

(***************************************************************************)
(* No step takes a firing of a timer that stays set out of the registry    *)
(* but a drain that returns the timer.                                     *)
(***************************************************************************)
THEOREM FiringsKept == Spec => FiringsReachADrain
  <1> DEFINE Kept == \A t \in timers \cap timers' :
                       fired'[t] < fired[t] =>
                         \A cb \in callbacks[t] : <<t, cb>> \in delivered'
  <1>1. ASSUME IInv, [Next]_vars PROVE [Kept]_vars
    <2> SUFFICES ASSUME NEW t \in timers \cap timers', fired'[t] < fired[t],
                        NEW cb \in callbacks[t]
                 PROVE  <<t, cb>> \in delivered'
      OBVIOUS
    <2>1. t \in Ids /\ fired[t] \in Nat
      BY <1>1, TimerAssumption DEF IInv, Types
    <2>2. CASE DrainFired
      <3>1. fired[t] > 0
        BY <2>1, <2>2 DEF DrainFired
      <3> QED BY <2>1, <2>2, <3>1 DEF DrainFired
    <2>3. ASSUME NEW c \in Ids, Clear(c) PROVE FALSE
      BY <1>1, <2>1, <2>3 DEF IInv, Types, Clear
    <2>4. ASSUME NEW u \in Ids, Fire(u) PROVE FALSE
      BY <1>1, <2>1, <2>4 DEF IInv, Types, Fire
    <2>5. CASE fired' = fired
      BY <2>1, <2>5
    <2> QED BY <1>1, <2>2, <2>3, <2>4, <2>5
        DEF Next, HostStep, vars, Refuse, SetInterval, ThreadStep, LoopHead,
            Wake, Check, Registry
  <1> QED BY <1>1, Invariance, PTL DEF Spec, FiringsReachADrain

(***************************************************************************)
(* An id, once cleared, never names a timer again.                         *)
(***************************************************************************)
THEOREM IdsNotReused == Spec => ClearedIdsStayCleared
  <1> DEFINE Stays == \A t \in Ids :
                        thread[t] # "none" /\ t \notin timers => t \notin timers'
  <1>1. ASSUME IInv, [Next]_vars PROVE [Stays]_vars
    <2>1. ASSUME NEW interval, NEW callback, SetInterval(interval, callback) PROVE Stays
      BY <1>1, <2>1, TimerAssumption DEF IInv, Types, UnusedIds, SetInterval, Ids
    <2>2. CASE timers' \subseteq timers
      BY <2>2
    <2> QED BY <1>1, <2>1, <2>2
        DEF Next, HostStep, vars, Refuse, Clear, DrainFired, ThreadStep, LoopHead,
            Wake, Check, Fire, Registry
  <1> QED BY <1>1, Invariance, PTL DEF Spec, ClearedIdsStayCleared
================================================================================
