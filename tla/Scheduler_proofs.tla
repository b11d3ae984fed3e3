--------------------------- MODULE Scheduler_proofs ----------------------------
(***************************************************************************)
(* The scheduler's snapshots tell the truth but after a failed reading, and*)
(* its decisions are carried out, for any apps, answers and widths of      *)
(* integers.                                                               *)
(***************************************************************************)
EXTENDS Scheduler, TLAPS

\* The part of the types the deltas rest on.
CountersOK ==
  /\ counter \in [Apps -> Nat] /\ since \in [Apps -> Nat] /\ last \in [Apps -> Outcomes]
  /\ prev \in [Apps -> SUBSET Nat]
  /\ \A a \in Apps : \A m, n \in prev[a] : m = n

\* The next delta is of use that counts: unless the last reading failed, what a
\* counter has grown by since then is in the history, and is all that is.
NextDeltaWasUsed ==
  \A a \in Apps :
    /\ last[a] # "failed" => \A n \in prev[a] : counter[a] - n <= since[a]
    /\ last[a] = "good" => prev[a] # {} /\ \A n \in prev[a] : counter[a] - n = since[a]

IInv == CountersOK /\ NextDeltaWasUsed /\ DeltasWereUsed

-------------------------------------------------------------------------------

(***************************************************************************)
(* A delta is at most the difference of a counter and its last reading     *)
(* when there is one, and 0 when there is none or the counter went back.   *)
(***************************************************************************)
LEMMA DeltaBound ==
  ASSUME CountersOK, NEW a \in Apps, NEW reading \in Nat, NEW bound \in Nat,
         \A n \in prev[a] : reading - n <= bound
  PROVE  Delta(a, reading) <= bound
<1>1. CASE prev[a] = {}
  BY <1>1 DEF Delta
<1>2. CASE prev[a] # {}
  <2>1. PICK n \in prev[a] : TRUE
    BY <1>2
  <2>2. n \in Nat /\ (CHOOSE x \in prev[a] : TRUE) = n
    BY <2>1 DEF CountersOK
  <2>3. reading - n <= bound
    BY <2>1
  <2> QED
    BY <1>2, <2>2, <2>3 DEF Delta, SaturatingSub
<1> QED
  BY <1>1, <1>2

(***************************************************************************)
(* What the reading of a counter and the one before it differ by is known, *)
(* if there was one before.                                                *)
(***************************************************************************)
LEMMA DeltaExact ==
  ASSUME CountersOK, NEW a \in Apps, NEW reading \in Nat, NEW used \in Nat,
         prev[a] # {}, \A n \in prev[a] : reading - n = used
  PROVE  Delta(a, reading) = used
<1>1. PICK n \in prev[a] : TRUE
  OBVIOUS
<1>2. n \in Nat /\ (CHOOSE x \in prev[a] : TRUE) = n /\ reading - n = used
  BY <1>1 DEF CountersOK
<1>3. SaturatingSub(reading, n) = used
  BY <1>2 DEF SaturatingSub
<1>4. Delta(a, reading) = SaturatingSub(reading, CHOOSE x \in prev[a] : TRUE)
  BY DEF Delta
<1> QED
  BY <1>2, <1>3, <1>4

(***************************************************************************)
(* Reading an app keeps the invariant, whether the counter is read or      *)
(* counts as 0 (read_metrics_with_delta).                                  *)
(***************************************************************************)
LEMMA ReadIInv ==
  ASSUME IInv, NEW a \in Apps, Read(a)
  PROVE  IInv'
<1>1. PICK reading \in Readings(a) :
        /\ metrics' = metrics \cup {Reported(a, reading)}
        /\ prev' = [prev EXCEPT ![a] = {reading}]
        /\ Noted(a, reading)
  BY DEF Read
<1>2. /\ reading \in Nat /\ reading <= counter[a] /\ counter' = counter
      /\ counter[a] \in Nat /\ since[a] \in Nat
  BY DEF Read, Readings, IInv, CountersOK
<1>3. /\ since' = [since EXCEPT ![a] = 0]
      /\ last' = [last EXCEPT ![a] = IF reading = counter[a] THEN "good" ELSE "failed"]
  BY <1>1 DEF Noted
<1>4. CountersOK'
  BY <1>1, <1>2, <1>3 DEF IInv, CountersOK, Outcomes
<1>5. NextDeltaWasUsed'
  <2> SUFFICES ASSUME NEW b \in Apps
               PROVE  /\ last'[b] # "failed" => \A n \in prev'[b] : counter'[b] - n <= since'[b]
                      /\ last'[b] = "good" =>
                           prev'[b] # {} /\ \A n \in prev'[b] : counter'[b] - n = since'[b]
    BY DEF NextDeltaWasUsed
  <2>1. CASE b = a
    <3>1. prev'[b] = {reading} /\ since'[b] = 0 /\ counter'[b] = counter[a]
      BY <1>1, <1>2, <1>3, <2>1 DEF IInv, CountersOK
    <3>2. last'[b] = IF reading = counter[a] THEN "good" ELSE "failed"
      BY <1>3, <2>1 DEF IInv, CountersOK
    <3> QED
      BY <1>2, <3>1, <3>2
  <2>2. CASE b # a
    <3>1. /\ prev'[b] = prev[b] /\ since'[b] = since[b] /\ counter'[b] = counter[b]
          /\ last'[b] = last[b]
      BY <1>1, <1>2, <1>3, <2>2 DEF IInv, CountersOK
    <3> QED
      BY <3>1 DEF IInv, NextDeltaWasUsed
  <2> QED
    BY <2>1, <2>2
<1>6. last[a] # "failed" => Delta(a, reading) <= since[a]
  <2> SUFFICES ASSUME last[a] # "failed" PROVE Delta(a, reading) <= since[a]
    OBVIOUS
  <2>1. ASSUME NEW n \in prev[a]
        PROVE  reading - n <= since[a]
    <3>1. n \in Nat /\ counter[a] - n <= since[a]
      BY <2>1 DEF IInv, NextDeltaWasUsed, CountersOK
    <3> QED
      BY <1>2, <3>1
  <2> QED
    BY <1>2, <2>1, DeltaBound DEF IInv
<1>7. last[a] = "good" /\ reading = counter[a] => Delta(a, reading) = since[a]
  BY <1>2, DeltaExact DEF IInv, NextDeltaWasUsed
<1>8. DeltasWereUsed'
  <2> SUFFICES ASSUME NEW m \in metrics'
               PROVE  /\ m.after # "failed" => m.delta <= m.used
                      /\ m.after = "good" /\ m.whole => m.delta = m.used
    BY DEF DeltasWereUsed
  <2>1. CASE m \in metrics
    BY <2>1 DEF IInv, DeltasWereUsed
  <2>2. CASE m = Reported(a, reading)
    <3>1. /\ m.delta = Delta(a, reading) /\ m.used = since[a] /\ m.after = last[a]
          /\ m.whole = (reading = counter[a])
      BY <2>2 DEF Reported
    <3> QED
      BY <1>6, <1>7, <3>1
  <2> QED
    BY <1>1, <2>1, <2>2
<1> QED
  BY <1>4, <1>5, <1>8 DEF IInv

(***************************************************************************)
(* Every step keeps the invariant.  What is executed touches none of its   *)
(* variables.                                                              *)
(***************************************************************************)
LEMMA StepIInv == IInv /\ [Next]_vars => IInv'
<1> SUFFICES ASSUME IInv, [Next]_vars
             PROVE  IInv'
  OBVIOUS
<1> USE DEF IInv
<1>1. ASSUME NEW a \in Apps, StartApp(a)
      PROVE  IInv'
  BY <1>1 DEF StartApp, loop, history, CountersOK, NextDeltaWasUsed, DeltasWereUsed
<1>2. ASSUME NEW a \in Apps, Use(a)
      PROVE  IInv'
  <2>1. /\ counter' = [counter EXCEPT ![a] = @ + 1] /\ since' = [since EXCEPT ![a] = @ + 1]
        /\ UNCHANGED <<prev, metrics, last>>
    BY <1>2 DEF Use, loop
  <2>2. CountersOK'
    BY <2>1 DEF CountersOK
  <2>3. NextDeltaWasUsed'
    <3> SUFFICES ASSUME NEW b \in Apps
                 PROVE  \A n \in prev[b] :
                          /\ counter[b] - n <= since[b] => counter'[b] - n <= since'[b]
                          /\ counter[b] - n = since[b] => counter'[b] - n = since'[b]
      BY <2>1 DEF NextDeltaWasUsed
    <3>1. counter[b] \in Nat /\ since[b] \in Nat /\ \A n \in prev[b] : n \in Nat
      BY DEF CountersOK
    <3> QED
      BY <2>1, <3>1 DEF CountersOK
  <2> QED
    BY <2>1, <2>2, <2>3 DEF DeltasWereUsed
<1>3. ASSUME NEW a \in Apps, StopApp(a)
      PROVE  IInv'
  <2>1. /\ counter' = [counter EXCEPT ![a] = 0] /\ last' = [last EXCEPT ![a] = "new"]
        /\ UNCHANGED <<prev, metrics, since>>
    BY <1>3 DEF StopApp, loop
  <2>2. CountersOK'
    BY <2>1 DEF CountersOK, Outcomes
  <2>3. NextDeltaWasUsed'
    <3> SUFFICES ASSUME NEW b \in Apps
                 PROVE  /\ last'[b] # "failed" => \A n \in prev[b] : counter'[b] - n <= since[b]
                        /\ last'[b] = "good" =>
                             prev[b] # {} /\ \A n \in prev[b] : counter'[b] - n = since[b]
      BY <2>1 DEF NextDeltaWasUsed
    <3>1. counter[b] \in Nat /\ since[b] \in Nat /\ \A n \in prev[b] : n \in Nat
      BY DEF CountersOK
    <3>2. CASE b = a
      <4>1. counter'[b] = 0 /\ last'[b] = "new"
        BY <2>1, <3>2 DEF CountersOK
      <4> QED
        BY <3>1, <4>1
    <3>3. CASE b # a
      <4>1. counter'[b] = counter[b] /\ last'[b] = last[b]
        BY <2>1, <3>3 DEF CountersOK
      <4> QED
        BY <4>1 DEF NextDeltaWasUsed
    <3> QED
      BY <3>2, <3>3
  <2> QED
    BY <2>1, <2>2, <2>3 DEF DeltasWereUsed
<1>4. ASSUME NEW a \in Apps, Read(a)
      PROVE  IInv'
  BY <1>4, ReadIInv
<1>5. CASE EndTick
  BY <1>5 DEF EndTick, history, CountersOK, NextDeltaWasUsed, DeltasWereUsed
<1>6. CASE Answer
  BY <1>6 DEF Answer, history, CountersOK, NextDeltaWasUsed, DeltasWereUsed
<1>7. CASE UNCHANGED <<counter, history, prev, metrics>>
  BY <1>7 DEF history, CountersOK, NextDeltaWasUsed, DeltasWereUsed
<1>8. CASE Tick \/ AskPanics \/ Panic \/ Set \/ Kill \/ NoOp \/ ActionFails
  BY <1>7, <1>8 DEF Tick, AskPanics, Panic, Set, Kill, NoOp, ActionFails
<1>9. CASE Collected \/ CollectFails \/ AskFails \/ Done
  BY <1>5, <1>7, <1>9 DEF Collected, CollectFails, AskFails, Done
<1>10. CASE UNCHANGED vars
  BY <1>7, <1>10 DEF vars, loop
<1> QED
  BY <1>1, <1>2, <1>3, <1>4, <1>6, <1>8, <1>9, <1>10 DEF Next, Loop

(***************************************************************************)
(* For any apps and counters, over any sequence of stops and starts, a     *)
(* snapshot reports no more than what was used since the last reading, and *)
(* all of it when the cgroup is the same and is read; but for the reading  *)
(* after one that failed (read_metrics_with_delta).                        *)
(***************************************************************************)
THEOREM SnapshotsAreTrue == Spec => []DeltasWereUsed
<1>1. Init => IInv
  BY DEF Init, IInv, CountersOK, Outcomes, NextDeltaWasUsed, DeltasWereUsed
<1>2. IInv => DeltasWereUsed
  BY DEF IInv
<1> QED
  BY <1>1, <1>2, StepIInv, PTL DEF Spec

-------------------------------------------------------------------------------
\* What is executed

\* The part of the types, and of what cgroups are, that execution rests on.
GroupsOK ==
  /\ running \subseteq groups /\ groups \subseteq Apps
  /\ steady \subseteq groups \cup {Slice}
  /\ DOMAIN files = Cgroups
  /\ \A c \in Cgroups : DOMAIN files[c] = {"cpu", "io", "memory"}
  /\ at \in Nat \ {0}
  /\ pc = "executing" => actions \in Decisions

SameFile(a, b) == <<a.type, a.app>> = <<b.type, b.app>>

\* Action i has had its effect, unless one before the n-th is for the same file.
TookEffect(i, n) ==
  IF actions[i].type = "kill" THEN actions[i].app \notin running
  ELSE (/\ ~Overflows(actions[i])
        /\ \A j \in DOMAIN actions : i < j /\ j < n => ~SameFile(actions[j], actions[i]))
       => files[actions[i].app][actions[i].type] = Value(actions[i])

\* Of a decision half-way, what holds of all of it in the end.
CarriedOutSoFar ==
  pc = "executing" =>
    \A i \in DOMAIN actions : i < at /\ actions[i].app \in steady => TookEffect(i, at)

CInv == GroupsOK /\ CarriedOutSoFar

(***************************************************************************)
(* Cgroups that come and go disturb no effect on one that stays.           *)
(***************************************************************************)
LEMMA AppsKeepEffects ==
  ASSUME CInv, UNCHANGED <<pc, actions, at>>, GroupsOK', steady' \subseteq steady,
         \A c \in steady' : files'[c] = files[c] /\ (c \in running' => c \in running)
  PROVE  CInv'
<1> SUFFICES ASSUME pc = "executing", NEW i \in DOMAIN actions, i < at,
                    actions[i].app \in steady'
             PROVE  TookEffect(i, at)'
  BY DEF CInv, CarriedOutSoFar
<1>1. TookEffect(i, at) /\ files'[actions[i].app] = files[actions[i].app]
  BY DEF CInv, CarriedOutSoFar
<1> QED
  BY <1>1 DEF TookEffect, Overflows, Value, SameFile

(***************************************************************************)
(* The next action has its effect, or its cgroup is not steady any more;   *)
(* what others had, and it does not take the place of, stays.              *)
(***************************************************************************)
LEMMA ActionKeepsEffects ==
  ASSUME CInv, NEW n \in Nat, at = n, at' = n + 1,
         Executing, UNCHANGED <<pc, actions>>, GroupsOK',
         steady' \subseteq steady,
         actions[n].app \in steady' => TookEffect(n, n + 1)',
         running' \subseteq running,
         \A c \in steady', type \in {"cpu", "io", "memory"} :
           <<type, c>> # <<actions[n].type, actions[n].app>> => files'[c][type] = files[c][type]
  PROVE  CInv'
<1>0. actions \in Decisions /\ pc = "executing" /\ steady' \subseteq Cgroups
  BY SliceAssumption DEF CInv, GroupsOK, Executing, Cgroups
<1> SUFFICES ASSUME NEW i \in DOMAIN actions, i < n + 1, actions[i].app \in steady'
             PROVE  TookEffect(i, n + 1)'
  BY <1>0 DEF CInv, CarriedOutSoFar
<1>1. i \in Nat
  BY <1>0, DecisionsAssumption
<1>2. CASE i = n
  BY <1>2
<1>3. CASE i < n
  <2>1. TookEffect(i, n)
    BY <1>0, <1>3 DEF CInv, CarriedOutSoFar
  <2>2. CASE actions[i].type = "kill"
    BY <2>1, <2>2 DEF TookEffect
  <2>3. CASE actions[i].type # "kill"
    <3> SUFFICES ASSUME ~Overflows(actions[i]),
                        \A j \in DOMAIN actions : i < j /\ j < n + 1 =>
                          ~SameFile(actions[j], actions[i])
                 PROVE  files'[actions[i].app][actions[i].type] = Value(actions[i])
      BY <2>3 DEF TookEffect, Overflows, Value, SameFile
    <3>1. n \in DOMAIN actions
      BY <1>0, <1>1, <1>3, DecisionsAssumption DEF Executing
    <3>2. <<actions[i].type, actions[i].app>> # <<actions[n].type, actions[n].app>>
      BY <1>0, <1>3, <3>1 DEF SameFile
    <3>3. actions[i].type \in {"cpu", "io", "memory"}
      BY <1>0, <2>3, DecisionsAssumption DEF Cgroups
    <3>4. files'[actions[i].app][actions[i].type] = files[actions[i].app][actions[i].type]
      BY <3>2, <3>3
    <3>5. \A j \in DOMAIN actions : i < j /\ j < n => ~SameFile(actions[j], actions[i])
      BY <1>0, <1>1, DecisionsAssumption
    <3> QED
      BY <2>1, <2>3, <3>4, <3>5 DEF TookEffect
  <2> QED
    BY <2>2, <2>3
<1> QED
  BY <1>0, <1>1, <1>2, <1>3

(***************************************************************************)
(* The four actions, with what each leaves to show: an action that sets a  *)
(* file or kills has its effect now, and one that fails is excused.        *)
(***************************************************************************)
LEMMA ExecuteCInv ==
  ASSUME CInv, Set \/ Kill \/ NoOp \/ ActionFails
  PROVE  CInv'
<1>1. PICK n \in Nat : at = n
  BY DEF CInv, GroupsOK
<1>2. /\ Executing /\ pc' = pc /\ actions' = actions /\ at' = n + 1 /\ groups' = groups
      /\ actions \in Decisions /\ pc = "executing" /\ n \in DOMAIN actions
  <2>1. Executing /\ pc' = pc /\ actions' = actions /\ at' = n + 1 /\ groups' = groups
    BY <1>1 DEF Set, Kill, NoOp, ActionFails, GetsToWrite
  <2>2. pc = "executing" /\ actions \in Decisions /\ n <= Len(actions)
    BY <1>1, <2>1 DEF Executing, CInv, GroupsOK
  <2>3. n > 0
    BY <1>1, <2>2 DEF CInv, GroupsOK
  <2> QED
    BY <2>1, <2>2, <2>3, DecisionsAssumption
<1>3. Action = actions[n]
  BY <1>1 DEF Action
<1>4. CASE Set
  <2>1. /\ Action.app \in Cgroups /\ Action.type \in {"cpu", "io", "memory"}
        /\ files' = [files EXCEPT ![Action.app][Action.type] = Value(Action)]
        /\ running' = running /\ steady' = steady
    BY <1>4 DEF Set, Found, Cgroups, CInv, GroupsOK
  <2>2. files'[Action.app][Action.type] = Value(Action)
    BY <2>1 DEF CInv, GroupsOK
  <2>3. GroupsOK'
    BY <1>2, <2>1 DEF CInv, GroupsOK
  <2>4. TookEffect(n, n + 1)'
    BY <1>2, <1>3, <2>1, <2>2 DEF TookEffect, Value
  <2>5. \A c \in steady', type \in {"cpu", "io", "memory"} :
          <<type, c>> # <<actions[n].type, actions[n].app>> => files'[c][type] = files[c][type]
    BY <1>3, <2>1, SliceAssumption DEF CInv, GroupsOK, Cgroups
  <2> QED
    BY <1>1, <1>2, <2>1, <2>3, <2>4, <2>5, ActionKeepsEffects
<1>5. CASE Kill
  <2>1. /\ files' = files /\ steady' = steady /\ running' \subseteq running
        /\ Action.type = "kill" /\ Action.app \notin running'
    BY <1>5, SliceAssumption DEF Kill, CInv, GroupsOK
  <2>2. GroupsOK'
    BY <1>2, <2>1 DEF CInv, GroupsOK
  <2>3. TookEffect(n, n + 1)'
    BY <1>2, <1>3, <2>1 DEF TookEffect
  <2> QED
    BY <1>1, <1>2, <2>1, <2>2, <2>3, ActionKeepsEffects
<1>6. CASE NoOp
  <2>1. files' = files /\ steady' = steady /\ running' = running /\ Action.type = "no_op"
    BY <1>6 DEF NoOp
  <2>2. GroupsOK'
    BY <1>2, <2>1 DEF CInv, GroupsOK
  <2>3. actions[n].app \notin steady'
    BY <1>2, <1>3, <2>1, DecisionsAssumption DEF CInv, GroupsOK
  <2> QED
    BY <1>1, <1>2, <2>1, <2>2, <2>3, ActionKeepsEffects
<1>7. CASE ActionFails
  <2>1. files' = files /\ steady' = steady \ {Action.app} /\ running' = running
    BY <1>7 DEF ActionFails
  <2>2. GroupsOK'
    BY <1>2, <2>1 DEF CInv, GroupsOK
  <2> QED
    BY <1>1, <1>2, <1>3, <2>1, <2>2, ActionKeepsEffects
<1> QED
  BY <1>4, <1>5, <1>6, <1>7

(***************************************************************************)
(* Every step keeps the invariant; before there is a decision, and once a  *)
(* tick has ended, there is nothing to keep.                               *)
(***************************************************************************)
LEMMA NextCInv == CInv /\ [Next]_vars => CInv'
<1> SUFFICES ASSUME CInv, [Next]_vars
             PROVE  CInv'
  OBVIOUS
<1>1. ASSUME NEW a \in Apps, StartApp(a)
      PROVE  CInv'
  <2>1. /\ a \notin steady /\ UNCHANGED <<pc, actions, at, files, steady>>
        /\ groups' = groups \cup {a} /\ running' = running \cup {a}
    BY <1>1, SliceAssumption DEF StartApp, loop, CInv, GroupsOK
  <2>2. GroupsOK'
    BY <2>1 DEF CInv, GroupsOK
  <2> QED
    BY <2>1, <2>2, AppsKeepEffects
<1>2. ASSUME NEW a \in Apps, Use(a)
      PROVE  CInv'
  <2>1. UNCHANGED <<pc, actions, at, files, steady, groups, running>>
    BY <1>2 DEF Use, loop
  <2> QED
    BY <2>1, AppsKeepEffects DEF CInv, GroupsOK
<1>3. ASSUME NEW a \in Apps, StopApp(a)
      PROVE  CInv'
  <2>1. /\ UNCHANGED <<pc, actions, at>> /\ steady' = steady \ {a}
        /\ groups' = groups \ {a} /\ running' = running \ {a}
        /\ files' = [files EXCEPT ![a] = Defaults]
    BY <1>3 DEF StopApp, loop
  <2>2. GroupsOK'
    BY <2>1 DEF CInv, GroupsOK, Defaults
  <2>3. \A c \in steady' : files'[c] = files[c]
    BY <2>1, SliceAssumption DEF CInv, GroupsOK, Cgroups
  <2> QED
    BY <2>1, <2>2, <2>3, AppsKeepEffects
<1>4. ASSUME UNCHANGED <<groups, running, files>>, at' \in Nat \ {0}, pc' # "executing",
             steady' \subseteq steady
      PROVE  CInv'
  BY <1>4 DEF CInv, GroupsOK, CarriedOutSoFar
<1>5. CASE EndTick
  BY <1>4, <1>5 DEF EndTick
<1>6. CASE Tick \/ AskPanics \/ Panic \/ \E a \in Apps : Read(a)
  BY <1>4, <1>6 DEF Tick, AskPanics, Panic, Read, CInv, GroupsOK
<1>7. CASE Collected \/ CollectFails \/ AskFails \/ Done
  BY <1>4, <1>5, <1>7 DEF Collected, CollectFails, AskFails, Done, CInv, GroupsOK
<1>8. CASE Answer
  <2>1. /\ actions' \in Decisions /\ at' = 1 /\ steady' = groups \cup {Slice}
        /\ UNCHANGED <<groups, running, files>>
    BY <1>8 DEF Answer
  <2>2. \A i \in DOMAIN actions' : ~(i < at')
    BY <2>1, DecisionsAssumption
  <2> QED
    BY <2>1, <2>2 DEF CInv, GroupsOK, CarriedOutSoFar
<1>9. CASE Set \/ Kill \/ NoOp \/ ActionFails
  BY <1>9, ExecuteCInv
<1>10. CASE UNCHANGED vars
  <2>1. UNCHANGED <<pc, actions, at, files, steady, groups, running>>
    BY <1>10 DEF vars, loop
  <2> QED
    BY <2>1, AppsKeepEffects DEF CInv, GroupsOK
<1> QED
  BY <1>1, <1>2, <1>3, <1>6, <1>7, <1>8, <1>9, <1>10 DEF Next, Loop

(***************************************************************************)
(* For any answers, apps and widths: when a decision has been executed,    *)
(* each cgroup that stayed has what the last action for it says, whichever *)
(* of the other actions failed (decision_tick).                            *)
(***************************************************************************)
THEOREM DecisionsTakeEffect == Spec => []DecisionsAreCarriedOut
<1>1. Init => CInv
  BY DEF Init, CInv, GroupsOK, CarriedOutSoFar, Defaults
<1>2. CInv => DecisionsAreCarriedOut
  <2> SUFFICES ASSUME CInv, Executed, NEW i \in DOMAIN actions, actions[i].app \in steady
               PROVE  IF actions[i].type = "kill" THEN actions[i].app \notin running
                      ELSE (/\ ~Overflows(actions[i])
                            /\ \A j \in DOMAIN actions : j > i =>
                                 <<actions[j].type, actions[j].app>>
                                   # <<actions[i].type, actions[i].app>>)
                           => files[actions[i].app][actions[i].type] = Value(actions[i])
    BY DEF DecisionsAreCarriedOut
  <2>1. \A j \in DOMAIN actions : j \in Nat /\ j < at
    BY DecisionsAssumption DEF CInv, GroupsOK, Executed
  <2>2. TookEffect(i, at)
    BY <2>1 DEF CInv, CarriedOutSoFar, Executed
  <2> QED
    BY <2>1, <2>2 DEF TookEffect, SameFile
<1> QED
  BY <1>1, <1>2, NextCInv, PTL DEF Spec
===============================================================================
