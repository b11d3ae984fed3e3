------------------------------ MODULE Scheduler -------------------------------
(***************************************************************************)
(* The resource scheduler (resource-scheduler/src): a loop that reads the  *)
(* counters of every app's cgroup (monitor.rs), asks a language model what *)
(* to do (ai_decision.rs) and writes its actions to cgroup files           *)
(* (executor.rs).  Cgroups come, go and come again under their names at    *)
(* any moment: nothing ties what is written to what was read.              *)
(*                                                                         *)
(* One counter stands for the CPU time and the bytes read and written,     *)
(* which are treated alike.  Time is left out: a rate is the delta it is   *)
(* computed from.  The model's answer may be anything.                     *)
(***************************************************************************)
EXTENDS Integers, Sequences, FiniteSets

CONSTANTS Apps,            \* names of cgroups apps run in
          Slice,           \* ".", which names the slice they all are in
          Refused,         \* names that validate_app_id refuses
          Decisions,       \* what the model answers: sequences of actions
          MaxWeight,       \* 10000
          MiB, U64,        \* 2^20 and 2^64
          OverflowChecks,  \* whether the build checks for overflow: TRUE, FALSE
          MaxUse           \* bound: use between two readings

ASSUME SliceAssumption == Slice \notin Apps
ASSUME WidthAssumption ==
  /\ MaxWeight \in Nat \ {0} /\ MaxUse \in Nat
  /\ MiB \in Nat \ {0} /\ U64 \in Nat \ {0}
ASSUME ChecksAssumption == OverflowChecks \subseteq BOOLEAN
\* The variants of ResourceAction; the one that does nothing names no cgroup.
ASSUME DecisionsAssumption ==
  \A d \in Decisions :
    /\ Len(d) \in Nat /\ DOMAIN d = 1..Len(d)
    /\ \A i \in DOMAIN d :
         /\ d[i].type \in {"cpu", "io", "memory", "kill", "no_op"}
         /\ d[i].type = "no_op" => d[i].app \notin Apps \cup {Slice}

VARIABLES groups,      \* the cgroups there are
          running,     \* those with processes in them
          counter,     \* what the processes of a cgroup used in its life
          files,       \* cpu.weight, io.weight and memory.max of a cgroup
          prev,        \* prev_snapshots: the last reading of a counter, if any
          pc, todo,    \* what the loop is at, and the apps left to read
          metrics,     \* the snapshot it is making
          actions, at, \* the decision, and its action to be executed next
          since,       \* history: what was used under a name since the last reading
          last,        \* history: how the last reading of the cgroup went
          steady       \* history: cgroups not replaced since the decision

loop == <<prev, pc, todo, metrics, actions, at>>
history == <<since, last>>
vars == <<groups, running, counter, files, loop, history, steady>>

Cgroups == Apps \cup {Slice}
Unlimited == {}
\* Of a new cgroup; a memory limit is optional.
Defaults == [cpu |-> 1, io |-> 1, memory |-> Unlimited]

Init ==
  /\ groups = {} /\ running = {}
  /\ counter = [a \in Apps |-> 0]
  /\ files = [c \in Cgroups |-> Defaults]
  /\ prev = [a \in Apps |-> {}]
  /\ pc = "waiting" /\ todo = {} /\ metrics = {}
  /\ actions = <<>> /\ at = 1
  /\ since = [a \in Apps |-> 0] /\ last = [a \in Apps |-> "new"]
  /\ steady = {}

-------------------------------------------------------------------------------
\* Apps

StartApp(a) ==
  /\ a \notin groups
  /\ groups' = groups \cup {a} /\ running' = running \cup {a}
  /\ UNCHANGED <<counter, files, loop, history, steady>>

Use(a) ==
  /\ a \in running
  /\ counter[a] < MaxUse /\ since[a] < MaxUse
  /\ counter' = [counter EXCEPT ![a] = @ + 1]
  /\ since' = [since EXCEPT ![a] = @ + 1]
  /\ UNCHANGED <<groups, running, files, loop, last, steady>>

\* Counters and files go with a cgroup; another begins anew.
StopApp(a) ==
  /\ a \in groups
  /\ groups' = groups \ {a} /\ running' = running \ {a}
  /\ counter' = [counter EXCEPT ![a] = 0]
  /\ files' = [files EXCEPT ![a] = Defaults]
  /\ steady' = steady \ {a}
  /\ last' = [last EXCEPT ![a] = "new"]
  /\ UNCHANGED <<loop, since>>

-------------------------------------------------------------------------------
\* CgroupMonitor::collect

\* The interval ticks, and the directory is listed.
Tick ==
  /\ pc = "waiting"
  /\ pc' = "collecting"
  /\ todo' = groups
  /\ UNCHANGED <<groups, running, counter, files, prev, metrics, actions, at, history, steady>>

SaturatingSub(m, n) == IF m > n THEN m - n ELSE 0

\* A counter that cannot be read, as of a cgroup that is gone, counts as 0.
Readings(a) == {counter[a], 0}

Delta(a, reading) ==
  IF prev[a] = {} THEN 0 ELSE SaturatingSub(reading, CHOOSE n \in prev[a] : TRUE)

\* What is reported of an app; "used", "after" and "whole" are history.
Reported(a, reading) ==
  [app |-> a, delta |-> Delta(a, reading),
   used |-> since[a], after |-> last[a], whole |-> reading = counter[a]]

\* The history begins anew with each reading.
Noted(a, reading) ==
  /\ since' = [since EXCEPT ![a] = 0]
  /\ last' = [last EXCEPT ![a] = IF reading = counter[a] THEN "good" ELSE "failed"]

\* Fault: a reading is kept only if there is none yet.
ReadKeepingFirst(a) ==
  /\ pc = "collecting" /\ a \in todo
  /\ \E reading \in Readings(a) :
       /\ metrics' = metrics \cup {Reported(a, reading)}
       /\ prev' = [prev EXCEPT ![a] = IF @ = {} THEN {reading} ELSE @]
       /\ Noted(a, reading)
  /\ todo' = todo \ {a}
  /\ UNCHANGED <<groups, running, counter, files, pc, actions, at, steady>>

\* read_metrics_with_delta: an app that is gone by now has its metrics, too.
\* After a reading that failed, the next delta is of the cgroup's whole life.
Read(a) ==
  /\ pc = "collecting" /\ a \in todo
  /\ \E reading \in Readings(a) :
       /\ metrics' = metrics \cup {Reported(a, reading)}
       /\ prev' = [prev EXCEPT ![a] = {reading}]
       /\ Noted(a, reading)
  /\ todo' = todo \ {a}
  /\ UNCHANGED <<groups, running, counter, files, pc, actions, at, steady>>

\* What ends a tick, and with it the values local to decision_tick.
EndTick ==
  /\ pc' = "waiting"
  /\ todo' = {} /\ metrics' = {}
  /\ actions' = <<>> /\ at' = 1 /\ steady' = {}
  /\ UNCHANGED <<groups, running, counter, files, prev, history>>

\* Without apps, nothing is asked.
Collected ==
  /\ pc = "collecting" /\ todo = {}
  /\ IF metrics = {}
     THEN EndTick
     ELSE /\ pc' = "asking"
          /\ UNCHANGED <<groups, running, counter, files, prev, todo, metrics,
                         actions, at, history, steady>>

\* The directory cannot be listed to its end; what was read stays in prev.
CollectFails == pc = "collecting" /\ EndTick

-------------------------------------------------------------------------------
\* AiDecisionLoop::ask_llm

\* The snapshot is not looked at again.
Answer ==
  /\ pc = "asking"
  /\ metrics' = {}
  /\ actions' \in Decisions
  /\ at' = 1
  /\ steady' = groups \cup {Slice}
  /\ pc' = "executing"
  /\ UNCHANGED <<groups, running, counter, files, prev, todo, history>>

\* No answer in time, an HTTP error, or no decision in the answer.
AskFails == pc = "asking" /\ EndTick

\* The body of an HTTP error is cut at 200 bytes, within a character; or the
\* content's last "}" comes well before its first "{" (extract_json).
AskPanics ==
  /\ pc = "asking"
  /\ pc' = "panicked"
  /\ UNCHANGED <<groups, running, counter, files, prev, todo, metrics, actions, at,
                 history, steady>>

-------------------------------------------------------------------------------
\* CgroupExecutor::execute

Executing == pc = "executing" /\ at <= Len(actions)
Action == actions[at]

\* What the action's file is there for, and validate_app_id lets pass.
Found(action) == action.app \in (groups \cup {Slice}) \ Refused

Clamped(w) == IF w < 1 THEN 1 ELSE IF w > MaxWeight THEN MaxWeight ELSE w

\* In set_memory_limit, after validate_app_id.
Overflows(action) ==
  action.type = "memory" /\ action.app \notin Refused /\ action.value * MiB >= U64

\* What is written for an action that sets something.
Value(action) ==
  IF action.type = "memory"
  THEN IF action.value = 0 THEN Unlimited ELSE {(action.value * MiB) % U64}
  ELSE Clamped(action.value)

\* The limit is computed before the file is looked for.
Panic ==
  /\ Executing
  /\ TRUE \in OverflowChecks /\ Overflows(Action)
  /\ pc' = "panicked"
  /\ UNCHANGED <<groups, running, counter, files, prev, todo, metrics, actions, at,
                 history, steady>>

GetsToWrite == Executing /\ (Overflows(Action) => FALSE \in OverflowChecks)

Set ==
  /\ GetsToWrite /\ Action.type \in {"cpu", "io", "memory"} /\ Found(Action)
  /\ files' = [files EXCEPT ![Action.app][Action.type] = Value(Action)]
  /\ at' = at + 1
  /\ UNCHANGED <<groups, running, counter, prev, pc, todo, metrics, actions, history, steady>>

\* cgroup.kill of the slice kills in every cgroup below it.
Kill ==
  /\ GetsToWrite /\ Action.type = "kill" /\ Found(Action)
  /\ running' = IF Action.app = Slice THEN {} ELSE running \ {Action.app}
  /\ at' = at + 1
  /\ UNCHANGED <<groups, counter, files, prev, pc, todo, metrics, actions, history, steady>>

NoOp ==
  /\ Executing /\ Action.type = "no_op"
  /\ at' = at + 1
  /\ UNCHANGED <<groups, running, counter, files, prev, pc, todo, metrics, actions,
                 history, steady>>

\* Fault: the first error ends the decision.
ActionFailsAll ==
  /\ GetsToWrite /\ Action.type # "no_op"
  /\ at' = Len(actions) + 1
  /\ steady' = steady \ {Action.app}
  /\ UNCHANGED <<groups, running, counter, files, prev, pc, todo, metrics, actions, history>>

\* Fault: what failed is tried again until it does not.
ActionFailsRetried ==
  /\ GetsToWrite /\ Action.type # "no_op"
  /\ steady' = steady \ {Action.app}
  /\ UNCHANGED <<groups, running, counter, files, prev, pc, todo, metrics, actions, at, history>>

\* No such app, a name validate_app_id refuses, or a write the kernel refuses:
\* the error is logged, and the next action's turn comes.
ActionFails ==
  /\ GetsToWrite /\ Action.type # "no_op"
  /\ at' = at + 1
  /\ steady' = steady \ {Action.app}
  /\ UNCHANGED <<groups, running, counter, files, prev, pc, todo, metrics, actions, history>>

Executed == pc = "executing" /\ at > Len(actions)

Done == Executed /\ EndTick

-------------------------------------------------------------------------------

Loop ==
  \/ Tick \/ Collected \/ CollectFails
  \/ \E a \in Apps : Read(a)
  \/ Answer \/ AskFails \/ AskPanics
  \/ Panic \/ Set \/ Kill \/ NoOp \/ ActionFails \/ Done

Next ==
  \/ \E a \in Apps : StartApp(a) \/ Use(a) \/ StopApp(a)
  \/ Loop

Spec == Init /\ [][Next]_vars

\* The call of the model times out; the interval goes on ticking.
FairSpec == Spec /\ WF_vars(Loop)

-------------------------------------------------------------------------------

\* A cgroup was not read yet; or it was, for what its counter was; or the reading
\* counted as 0 what was not.
Outcomes == {"new", "good", "failed"}

(***************************************************************************)
(* The values variables have; weights in files are in cgroup's range       *)
(* whatever the model answers (set_cpu_weight, set_io_weight).             *)
(***************************************************************************)
TypeOK ==
  /\ running \subseteq groups /\ groups \subseteq Apps
  /\ counter \in [Apps -> 0..MaxUse]
  /\ files \in [Cgroups -> [cpu : 1..MaxWeight, io : 1..MaxWeight,
                            memory : {Unlimited} \cup {{n} : n \in 0..(U64 - 1)}]]
  /\ prev \in [Apps -> {{}} \cup {{n} : n \in 0..MaxUse}]
  /\ pc \in {"waiting", "collecting", "asking", "executing", "panicked"}
  /\ todo \subseteq Apps
  /\ metrics \subseteq [app : Apps, delta : 0..MaxUse, used : 0..MaxUse, after : Outcomes,
                         whole : BOOLEAN]
  /\ actions \in Decisions \cup {<<>>} /\ at \in 1..(Len(actions) + 1)
  /\ since \in [Apps -> 0..MaxUse] /\ last \in [Apps -> Outcomes]
  /\ steady \subseteq Cgroups

(***************************************************************************)
(* What a snapshot reports an app to have used is no more than what was    *)
(* used under its name since the last reading, over any sequence of stops  *)
(* and starts under the same name; and it is all of that if the cgroup is  *)
(* the same.  Not so after a reading that failed: that counts as one of 0  *)
(* (read_metrics_with_delta).                                              *)
(***************************************************************************)
DeltasWereUsed ==
  \A m \in metrics :
    /\ m.after # "failed" => m.delta <= m.used
    /\ m.after = "good" /\ m.whole => m.delta = m.used

(***************************************************************************)
(* When a decision has been executed, each cgroup that was there all along *)
(* has what the last action for it says, although others of the actions    *)
(* failed (decision_tick).  Of memory limits, those that overflow are left *)
(* out.                                                                    *)
(***************************************************************************)
DecisionsAreCarriedOut ==
  Executed =>
    \A i \in DOMAIN actions : actions[i].app \in steady =>
      IF actions[i].type = "kill" THEN actions[i].app \notin running
      ELSE (/\ ~Overflows(actions[i])
            /\ \A j \in DOMAIN actions : j > i =>
                 <<actions[j].type, actions[j].app>> # <<actions[i].type, actions[i].app>>)
           => files[actions[i].app][actions[i].type] = Value(actions[i])

(***************************************************************************)
(* A tick ends, whatever the model answers and whichever actions fail      *)
(* (decision_tick).                                                        *)
(***************************************************************************)
TicksEnd == pc \in {"collecting", "asking", "executing"} ~> pc \in {"waiting", "panicked"}

-------------------------------------------------------------------------------

(***************************************************************************)
(* A delta is of what was used since the last reading, whatever became of  *)
(* that (monitor.rs: "Calculate deltas against previous snapshot").        *)
(***************************************************************************)
EveryDeltaWasUsed == \A m \in metrics : m.delta <= m.used

(***************************************************************************)
(* "Run the decision loop indefinitely" (run): no tick ends the loop.      *)
(***************************************************************************)
LoopGoesOn == pc # "panicked"
===============================================================================
