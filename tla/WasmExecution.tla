----------------------------- MODULE WasmExecution -----------------------------
(***************************************************************************)
(* WasmRuntime::execute in os-agent/src/wasm_runtime.rs: one execution of  *)
(* a guest after another on an engine made once, with the thread that      *)
(* advances the engine's epoch (EpochTicker), the epoch deadline that      *)
(* interrupts a guest, and the timer registry its host functions use.      *)
(*                                                                         *)
(* The registry is an instance of TimerRegistry, whose variables are those *)
(* of the execution going on.  Each execution makes its own: threads that  *)
(* an earlier registry left running go on, and cannot be seen from here.   *)
(***************************************************************************)
EXTENDS Naturals, FiniteSets

CONSTANTS MaxTimers, Callbacks, MaxId, MaxFired,  \* as in TimerRegistry
          EpochDeadline,  \* EPOCH_DEADLINE, 30 in the code
          MaxRuns,        \* bound: executions
          Overrun         \* bound: ticks past the deadline of a blocked guest

ASSUME ExecutionAssumption ==
  /\ EpochDeadline \in Nat \ {0} /\ MaxRuns \in Nat /\ Overrun \in Nat
  /\ MaxTimers \in Nat /\ MaxId \in Nat /\ MaxFired \in Nat \ {0}

VARIABLES nextId, timers, callbacks, fired, done, thread, aware, delivered,
          run,        \* how many executions have begun
          exec,       \* where the current one is
          outcome,    \* how it ended
          epoch,      \* the engine's epoch counter
          deadline,   \* the store's epoch deadline
          ticker,     \* execution -> where its ticker thread is
          stopped,    \* execution -> its ticker's done flag
          ticks       \* history: ticks of the current execution's own ticker

registry == <<nextId, timers, callbacks, fired, done, thread, aware, delivered>>
tickers == <<ticker, stopped, epoch, ticks>>
control == <<run, exec, outcome, deadline>>
vars == <<registry, tickers, control>>

Timers == INSTANCE TimerRegistry

Runs == 1..MaxRuns

Init ==
  /\ Timers!Init
  /\ run = 0 /\ exec = "idle" /\ outcome = "none"
  /\ epoch = 0 /\ deadline = 0 /\ ticks = 0
  /\ ticker = [k \in Runs |-> "none"]
  /\ stopped = [k \in Runs |-> FALSE]

-------------------------------------------------------------------------------
\* execute, up to the call of the guest

FreshRegistry ==
  /\ nextId' = 1 /\ timers' = {} /\ delivered' = {}
  /\ callbacks' = [t \in 1..MaxId |-> {}]
  /\ fired' = [t \in 1..MaxId |-> 0]
  /\ done' = [t \in 1..MaxId |-> FALSE]
  /\ thread' = [t \in 1..MaxId |-> "none"]
  /\ aware' = [t \in 1..MaxId |-> FALSE]

\* wasm_path does not exist.
NoSuchFile ==
  /\ exec = "idle"
  /\ outcome' = "failed"
  /\ UNCHANGED <<registry, tickers, run, exec, deadline>>

\* The registry, the store with its deadline, and the ticker.
Execute ==
  /\ exec = "idle" /\ run < MaxRuns
  /\ FreshRegistry
  /\ run' = run + 1
  /\ exec' = "loading" /\ outcome' = "none"
  /\ deadline' = epoch + EpochDeadline
  /\ ticker' = [ticker EXCEPT ![run'] = "check"]
  /\ ticks' = 0
  /\ UNCHANGED <<epoch, stopped>>

\* The file is read and compiled.  Guest code runs from then on: instantiating
\* a module calls its start function, if it has one, before _start or main.
EnterGuest ==
  /\ exec = "loading"
  /\ exec' = "guest"
  /\ UNCHANGED <<registry, tickers, run, outcome, deadline>>

Leave(how) ==
  /\ exec' = "leaving" /\ outcome' = how
  /\ UNCHANGED <<registry, tickers, run, deadline>>

LoadFails == exec = "loading" /\ Leave("failed")

-------------------------------------------------------------------------------
\* The guest

GuestSetsTimer(interval, callback) ==
  /\ exec = "guest"
  /\ Timers!SetInterval(interval, callback)
  /\ UNCHANGED <<tickers, control>>

GuestClearsTimer(t) ==
  /\ exec = "guest"
  /\ Timers!Clear(t)
  /\ UNCHANGED <<tickers, control>>

\* A request, which HTTP_TIMEOUT_SECS bounds, or a file of the guest's storage
\* keeps the guest's thread in the host, where nothing looks at the epoch.
EnterHost ==
  /\ exec = "guest"
  /\ exec' = "host"
  /\ UNCHANGED <<registry, tickers, run, outcome, deadline>>

LeaveHost ==
  /\ exec = "host"
  /\ exec' = "guest"
  /\ UNCHANGED <<registry, tickers, run, outcome, deadline>>

\* So do WASI's poll_oneoff, which sleeps for as long as the guest says, and
\* notify_send, which waits for the program it starts to end.
Block ==
  /\ exec = "guest"
  /\ exec' = "blocked"
  /\ UNCHANGED <<registry, tickers, run, outcome, deadline>>

Unblock ==
  /\ exec = "blocked"
  /\ exec' = "guest"
  /\ UNCHANGED <<registry, tickers, run, outcome, deadline>>

\* _start returns or exits with 0; exits with another status; traps; there is
\* no _start or main, or the start function traps ("failed").
GuestReturns ==
  /\ exec = "guest"
  /\ \E how \in {"ok", "exit", "trap", "failed"} : Leave(how)

\* Guest code looks at the epoch at loop heads and function entries.  Of a start
\* function that is interrupted, execute says that instantiating failed.
Interrupt ==
  /\ exec = "guest"
  /\ epoch >= deadline
  /\ \E how \in {"interrupted", "failed"} : Leave(how)

-------------------------------------------------------------------------------
\* The guards dropped as execute returns, in reverse order of their making

\* EpochTicker::drop sets the flag and joins the thread.
\* Fault: the ticker is joined before it is told to stop.
StopTickerAfterJoin ==
  /\ exec = "leaving"
  /\ exec' = "joining"
  /\ UNCHANGED <<registry, ticker, stopped, epoch, ticks, run, outcome, deadline>>

StopTicker ==
  /\ exec = "leaving"
  /\ stopped' = [stopped EXCEPT ![run] = TRUE]
  /\ exec' = "joining"
  /\ UNCHANGED <<registry, ticker, epoch, ticks, run, outcome, deadline>>

\* Fault: the ticker is told to stop and not joined.
ReturnWithoutJoin ==
  /\ exec = "joining"
  /\ exec' = "idle"
  /\ UNCHANGED <<registry, tickers, run, outcome, deadline>>

(***************************************************************************)
(* The ticker is joined, then the store, the linker and the registry's own *)
(* handle go.  TimerRegistryInner goes with the last handle: as every      *)
(* thread that has not exited holds one, and only drops it when its `done` *)
(* flag is set, the entries of timers that were not cleared are never      *)
(* dropped and TimerEntry::drop does not run.                              *)
(***************************************************************************)
Return ==
  /\ exec = "joining"
  /\ ticker[run] = "exited"
  /\ exec' = "idle"
  /\ UNCHANGED <<registry, tickers, run, outcome, deadline>>

-------------------------------------------------------------------------------
\* Threads

TickerChecks(k) ==
  /\ ticker[k] = "check"
  /\ ticker' = [ticker EXCEPT ![k] = IF stopped[k] THEN "exited" ELSE "asleep"]
  /\ UNCHANGED <<registry, control, stopped, epoch, ticks>>

\* One second later.
TickerWakes(k) ==
  /\ ticker[k] = "asleep"
  /\ epoch < deadline + Overrun \/ stopped[k]
  /\ epoch' = epoch + 1
  /\ ticks' = IF k = run THEN ticks + 1 ELSE ticks
  /\ ticker' = [ticker EXCEPT ![k] = "check"]
  /\ UNCHANGED <<registry, control, stopped>>

TimerThread(t) ==
  /\ Timers!ThreadStep(t)
  /\ UNCHANGED <<tickers, control>>

ExecutorStep ==
  EnterGuest \/ LoadFails \/ LeaveHost \/ Interrupt \/ StopTicker \/ Return

TickerStep(k) == TickerChecks(k) \/ TickerWakes(k)

Next ==
  \/ NoSuchFile \/ Execute \/ ExecutorStep
  \/ EnterHost \/ Block \/ Unblock \/ GuestReturns
  \/ \E interval \in {0, 1}, callback \in Callbacks :
       GuestSetsTimer(interval, callback)
  \/ \E t \in 1..MaxId : GuestClearsTimer(t)
  \/ \E k \in Runs : TickerStep(k)
  \/ \E t \in 1..MaxId : TimerThread(t)

Spec == Init /\ [][Next]_vars

(***************************************************************************)
(* Threads are scheduled; loading ends; a request in the host times out    *)
(* and files answer (LeaveHost).  A guest past its deadline cannot avoid   *)
(* the check of the epoch by calling the host over and over, for a loop    *)
(* has a check at its head: hence SF.  Nothing makes a guest return, and   *)
(* nothing brings one back that is blocked: Unblock has no fairness.       *)
(***************************************************************************)
FairSpec ==
  /\ Spec
  /\ WF_vars(EnterGuest \/ LoadFails) /\ WF_vars(LeaveHost)
  /\ SF_vars(Interrupt)
  /\ WF_vars(StopTicker) /\ WF_vars(Return)
  /\ \A k \in Runs : WF_vars(TickerStep(k))
  /\ \A t \in 1..MaxId : WF_vars(TimerThread(t))

-------------------------------------------------------------------------------

(***************************************************************************)
(* Types, and that only the execution going on has a ticker that may still *)
(* advance the epoch: EpochTicker::drop joins it before execute returns.   *)
(***************************************************************************)
TypeOK ==
  /\ Timers!TypeOK
  /\ run \in 0..MaxRuns
  /\ exec \in {"idle", "loading", "guest", "host", "blocked", "leaving", "joining"}
  /\ outcome \in {"none", "ok", "exit", "trap", "failed", "interrupted"}
  /\ epoch \in Nat /\ deadline \in Nat /\ ticks \in Nat
  /\ stopped \in [Runs -> BOOLEAN]
  /\ \A k \in Runs :
       ticker[k] \in IF k = run /\ exec # "idle"
                     THEN {"check", "asleep", "exited"}
                     ELSE {"none", "exited"}

(***************************************************************************)
(* A guest is interrupted only after its own ticker has slept a second     *)
(* EPOCH_DEADLINE times: no earlier execution's ticker takes from its      *)
(* budget, though all of them advance one engine's epoch.                  *)
(***************************************************************************)
InterruptedAfterFullBudget == outcome = "interrupted" => ticks >= EpochDeadline

(***************************************************************************)
(* execute returns unless the guest stays in one call of the host for good *)
(* (a sleep of WASI's, or notify_send): a guest that loops or calls the    *)
(* host over and over, timers running or not, is interrupted, and joining  *)
(* the ticker never waits for ever.                                        *)
(***************************************************************************)
EveryExecutionReturns ==
  exec # "idle" ~> (exec = "idle" \/ [](exec = "blocked"))

(***************************************************************************)
(* The comment on EPOCH_DEADLINE: "this gives apps 30 seconds of execution *)
(* time before being interrupted."  So every execution comes to its end.   *)
(***************************************************************************)
ExecutionsAreInterrupted == exec # "idle" ~> exec = "idle"

(***************************************************************************)
(* The comment on TimerRegistry: "The WASM host polls fired timers on each *)
(* interval tick and invokes the stored callback name."  So of a guest     *)
(* that ran until it was interrupted, no timer has more than its latest    *)
(* firing waiting.                                                         *)
(***************************************************************************)
FiringsArePolled ==
  outcome = "interrupted" => \A t \in timers : fired[t] <= 1

(***************************************************************************)
(* TimerEntry::drop stops and joins a timer's thread, and the limit is one *)
(* "of concurrent timers per WASM execution": once execute has returned,   *)
(* the threads of its timers end.                                          *)
(***************************************************************************)
TimersEndWithExecution ==
  exec = "idle" ~> \/ exec # "idle"
                   \/ \A t \in 1..MaxId : thread[t] \in {"none", "exited"}
================================================================================
