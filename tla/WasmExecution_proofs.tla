-------------------------- MODULE WasmExecution_proofs --------------------------
(***************************************************************************)
(* No guest is interrupted early, for any deadline, number of executions   *)
(* and timers; and what is proved of a timer registry alone holds of the   *)
(* registry of each execution, by the lemmas of TimerRegistry_proofs.      *)
(***************************************************************************)
EXTENDS WasmExecution, TLAPS

\* The types of what the epoch and the tickers depend on.
ControlOK ==
  /\ run \in 0..MaxRuns
  /\ epoch \in Nat /\ deadline \in Nat /\ ticks \in Nat
  /\ ticker \in [Runs -> {"none", "check", "asleep", "exited"}]
  /\ stopped \in [Runs -> BOOLEAN]

\* A ticker that may still advance the epoch is that of the execution going on.
OneTicker ==
  \A k \in Runs : ticker[k] \in {"check", "asleep"} => k = run /\ exec # "idle"

\* While an execution goes on, its deadline is as far away as its own ticker
\* has ticks to go.
BudgetLeft == exec # "idle" => epoch + EpochDeadline = deadline + ticks

IInv == ControlOK /\ OneTicker /\ BudgetLeft /\ InterruptedAfterFullBudget

-------------------------------------------------------------------------------

LEMMA InitIInv == Init => IInv
BY ExecutionAssumption
DEF Init, IInv, ControlOK, OneTicker, BudgetLeft, InterruptedAfterFullBudget, Runs

(***************************************************************************)
(* An execution begins with its whole budget: its deadline is set from the *)
(* epoch of that moment, and no other ticker is left (execute).            *)
(***************************************************************************)
LEMMA ExecuteIInv ==
  ASSUME IInv, Execute
  PROVE  IInv'
<1>1. /\ exec = "idle" /\ run < MaxRuns /\ run' = run + 1 /\ exec' = "loading"
      /\ outcome' = "none" /\ deadline' = epoch + EpochDeadline
      /\ ticker' = [ticker EXCEPT ![run'] = "check"]
      /\ ticks' = 0 /\ epoch' = epoch /\ stopped' = stopped
  BY DEF Execute
<1>2. run' \in Runs /\ EpochDeadline \in Nat /\ MaxRuns \in Nat
  BY <1>1, ExecutionAssumption DEF IInv, ControlOK, Runs
<1>3. ControlOK'
  BY <1>1, <1>2 DEF IInv, ControlOK, Runs
<1>4. OneTicker'
  BY <1>1, <1>2 DEF IInv, ControlOK, OneTicker
<1>5. BudgetLeft' /\ InterruptedAfterFullBudget'
  BY <1>1, <1>2 DEF IInv, ControlOK, BudgetLeft, InterruptedAfterFullBudget
<1> QED
  BY <1>3, <1>4, <1>5 DEF IInv

(***************************************************************************)
(* A second's sleep that ends takes a tick from the execution's budget, and*)
(* from no other's.                                                        *)
(***************************************************************************)
LEMMA TickIInv ==
  ASSUME IInv, NEW k \in Runs, TickerStep(k)
  PROVE  IInv'
<1>1. CASE TickerChecks(k)
  BY <1>1
  DEF TickerChecks, control, IInv, ControlOK, OneTicker, BudgetLeft, InterruptedAfterFullBudget
<1>2. CASE TickerWakes(k)
  <2>1. /\ k = run /\ exec # "idle" /\ epoch' = epoch + 1 /\ ticks' = ticks + 1
        /\ ticker' = [ticker EXCEPT ![k] = "check"]
        /\ stopped' = stopped /\ run' = run /\ exec' = exec
        /\ outcome' = outcome /\ deadline' = deadline
    BY <1>2 DEF TickerWakes, control, IInv, OneTicker
  <2> QED
    BY <2>1, ExecutionAssumption
    DEF IInv, ControlOK, OneTicker, BudgetLeft, InterruptedAfterFullBudget
<1> QED
  BY <1>1, <1>2 DEF TickerStep

(***************************************************************************)
(* What leaves epoch and tickers alone keeps the invariant, if it begins   *)
(* no execution, ends one only when its ticker is gone, and interrupts     *)
(* only past the deadline.                                                 *)
(***************************************************************************)
LEMMA ControlIInv ==
  ASSUME IInv, UNCHANGED <<ticker, epoch, ticks, run, deadline>>,
         stopped' \in [Runs -> BOOLEAN],
         exec' # "idle" => exec # "idle",
         exec' = "idle" /\ exec # "idle" => ticker[run] = "exited",
         outcome' = "interrupted" => outcome = "interrupted" \/ (epoch >= deadline /\ exec # "idle")
  PROVE  IInv'
<1>1. ControlOK'
  BY DEF IInv, ControlOK
<1>2. OneTicker'
  BY DEF IInv, OneTicker
<1>3. BudgetLeft' /\ InterruptedAfterFullBudget'
  BY ExecutionAssumption DEF IInv, ControlOK, BudgetLeft, InterruptedAfterFullBudget
<1> QED
  BY <1>1, <1>2, <1>3 DEF IInv

LEMMA NextIInv == IInv /\ [Next]_vars => IInv'
<1> SUFFICES ASSUME IInv, [Next]_vars
             PROVE  IInv'
  OBVIOUS
<1>0. stopped \in [Runs -> BOOLEAN]
  BY DEF IInv, ControlOK
<1>1. CASE NoSuchFile
  BY <1>0, <1>1, ControlIInv DEF NoSuchFile, tickers
<1>2. CASE Execute
  BY <1>2, ExecuteIInv
<1>3. CASE ExecutorStep
  <2>1. CASE EnterGuest \/ LoadFails \/ LeaveHost
    BY <1>0, <2>1, ControlIInv DEF EnterGuest, LoadFails, LeaveHost, Leave, tickers
  <2>2. CASE Interrupt
    BY <1>0, <2>2, ControlIInv DEF Interrupt, Leave, tickers
  <2>3. CASE StopTicker
    BY <1>0, <2>3, ControlIInv DEF StopTicker
  <2>4. CASE Return
    BY <1>0, <2>4, ControlIInv DEF Return, tickers
  <2> QED
    BY <1>3, <2>1, <2>2, <2>3, <2>4 DEF ExecutorStep
<1>4. CASE EnterHost \/ Block \/ Unblock \/ GuestReturns
  BY <1>0, <1>4, ControlIInv DEF EnterHost, Block, Unblock, GuestReturns, Leave, tickers
<1>5. ASSUME UNCHANGED <<tickers, control>>
      PROVE  IInv'
  BY <1>0, <1>5, ControlIInv DEF tickers, control
<1>6. ASSUME NEW interval \in {0, 1}, NEW callback \in Callbacks,
             GuestSetsTimer(interval, callback)
      PROVE  IInv'
  BY <1>5, <1>6 DEF GuestSetsTimer
<1>7. ASSUME NEW t \in 1..MaxId, GuestClearsTimer(t) \/ TimerThread(t)
      PROVE  IInv'
  BY <1>5, <1>7 DEF GuestClearsTimer, TimerThread
<1>8. ASSUME NEW k \in Runs, TickerStep(k)
      PROVE  IInv'
  BY <1>8, TickIInv
<1>9. CASE UNCHANGED vars
  BY <1>5, <1>9 DEF vars
<1> QED
  BY <1>1, <1>2, <1>3, <1>4, <1>6, <1>7, <1>8, <1>9 DEF Next

(***************************************************************************)
(* The invariant holds in every behaviour of executions on one engine.     *)
(***************************************************************************)
THEOREM Invariance == Spec => []IInv
<1>1. Init => IInv
  BY InitIInv
<1>2. IInv /\ [Next]_vars => IInv'
  BY NextIInv
<1> QED
  BY <1>1, <1>2, PTL DEF Spec

(***************************************************************************)
(* A guest is interrupted only after its own ticker has slept a second     *)
(* EPOCH_DEADLINE times (EpochTicker, set_epoch_deadline): for any number  *)
(* of executions on one engine and any deadline.                           *)
(***************************************************************************)
THEOREM FullBudget == Spec => []InterruptedAfterFullBudget
<1>1. IInv => InterruptedAfterFullBudget
  BY DEF IInv
<1> QED
  BY <1>1, Invariance, PTL

-------------------------------------------------------------------------------
\* The registry of the execution going on, as an instance of the proofs about
\* registries.

Proofs == INSTANCE TimerRegistry_proofs

RegistryInv == Proofs!IInv

(***************************************************************************)
(* A new registry has the registry's invariant, whatever became of the one *)
(* before it (execute, TimerRegistry::new).                                *)
(***************************************************************************)
LEMMA FreshRegistryInv == FreshRegistry => RegistryInv'
BY ExecutionAssumption
DEF FreshRegistry, RegistryInv, Proofs!IInv, Proofs!Types, Proofs!UnusedIds,
    Proofs!MapsAndThreadsAgree, Proofs!StaleFirings, Proofs!Room, Proofs!Running,
    Proofs!Ids, Proofs!Places

LEMMA RegistryInit == Init => RegistryInv
<1>1. Init => Proofs!Init
  BY DEF Init, Timers!Init, Proofs!Init, Timers!Ids, Proofs!Ids
<1> QED
  BY <1>1, Proofs!InitIInv, ExecutionAssumption DEF RegistryInv

(***************************************************************************)
(* Of what an execution does, its guest's calls and its timers' threads    *)
(* are steps of the registry; the rest leaves it alone, or makes another.  *)
(***************************************************************************)
LEMMA RegistryStep == RegistryInv /\ [Next]_vars => RegistryInv'
<1> SUFFICES ASSUME RegistryInv, [Next]_vars
             PROVE  RegistryInv'
  OBVIOUS
<1>1. ASSUME [Proofs!Next]_(Proofs!vars)
      PROVE  RegistryInv'
  BY <1>1, Proofs!NextIInv, ExecutionAssumption DEF RegistryInv
<1>2. ASSUME UNCHANGED registry
      PROVE  RegistryInv'
  BY <1>1, <1>2 DEF registry, Proofs!vars
<1>3. CASE NoSuchFile \/ ExecutorStep \/ EnterHost \/ Block \/ Unblock \/ GuestReturns
  BY <1>2, <1>3
  DEF NoSuchFile, ExecutorStep, EnterGuest, LoadFails, LeaveHost, Interrupt, StopTicker, Return,
      EnterHost, Block, Unblock, GuestReturns, Leave
<1>4. CASE Execute
  BY <1>4, FreshRegistryInv DEF Execute
<1>5. ASSUME NEW interval \in {0, 1}, NEW callback \in Callbacks,
             GuestSetsTimer(interval, callback)
      PROVE  RegistryInv'
  <2>1. Proofs!SetInterval(interval, callback)
    BY <1>5 DEF GuestSetsTimer, Timers!SetInterval, Proofs!SetInterval, Timers!Full, Proofs!Full,
           Timers!Cardinality, Proofs!Cardinality
  <2> QED
    BY <1>1, <2>1 DEF Proofs!Next, Proofs!HostStep
<1>6. ASSUME NEW t \in 1..MaxId, GuestClearsTimer(t)
      PROVE  RegistryInv'
  <2>1. t \in Proofs!Ids /\ Proofs!Clear(t)
    BY <1>6 DEF GuestClearsTimer, Timers!Clear, Proofs!Clear, Proofs!Ids
  <2> QED
    BY <1>1, <2>1 DEF Proofs!Next, Proofs!HostStep
<1>7. ASSUME NEW t \in 1..MaxId, TimerThread(t)
      PROVE  RegistryInv'
  <2>1. t \in Proofs!Ids /\ Proofs!ThreadStep(t)
    BY <1>7
    DEF TimerThread, Timers!ThreadStep, Timers!LoopHead, Timers!Wake, Timers!Check, Timers!Fire,
        Timers!Load, Timers!At, Timers!Goto, Timers!Registry,
        Proofs!ThreadStep, Proofs!LoopHead, Proofs!Wake, Proofs!Check, Proofs!Fire,
        Proofs!Load, Proofs!At, Proofs!Goto, Proofs!Registry, Proofs!Ids
  <2> QED
    BY <1>1, <2>1 DEF Proofs!Next
<1>8. ASSUME NEW k \in Runs, TickerStep(k)
      PROVE  RegistryInv'
  BY <1>2, <1>8 DEF TickerStep, TickerChecks, TickerWakes
<1>9. CASE UNCHANGED vars
  BY <1>2, <1>9 DEF vars
<1> QED
  BY <1>3, <1>4, <1>5, <1>6, <1>7, <1>8, <1>9 DEF Next

(***************************************************************************)
(* What is proved of the registry alone holds of that of an execution, as  *)
(* its guest and its timers' threads use it, from its first execution to   *)
(* the last (execute, register_host_functions).                            *)
(***************************************************************************)
THEOREM RegistryWithinExecution ==
  Spec => [](Timers!MapsAndThreadsAgree /\ Timers!AtMostOneStaleFiring)
<1>1. RegistryInv => Timers!MapsAndThreadsAgree
  BY DEF RegistryInv, Proofs!IInv, Proofs!MapsAndThreadsAgree, Timers!MapsAndThreadsAgree,
         Proofs!Running, Timers!Running, Proofs!Ids, Timers!Ids
<1>2. RegistryInv => Timers!AtMostOneStaleFiring
  BY DEF RegistryInv, Proofs!IInv, Proofs!Types, Proofs!StaleFirings,
         Timers!AtMostOneStaleFiring, Proofs!Ids, Timers!Ids
<1> QED
  BY <1>1, <1>2, RegistryInit, RegistryStep, PTL DEF Spec
===============================================================================
