----------------------------- MODULE MCScheduler ------------------------------
(***************************************************************************)
(* Answers of the model for TLC: of up to two actions, among them weights  *)
(* outside the range, a limit that overflows, and a name that is refused.  *)
(***************************************************************************)
EXTENDS Scheduler, SequencesExt

CONSTANTS App, Stray

Act(type, name, value) == [type |-> type, app |-> name, value |-> value]

MCActions ==
  { Act("cpu", App, 0), Act("cpu", App, 3),
    Act("memory", App, 1), Act("memory", App, 4), Act("kill", App, 0),
    Act("memory", Slice, 0), Act("kill", Slice, 0),
    Act("cpu", Stray, 1), Act("no_op", Stray, 0) }

\* What may come after another: one for each file, and what kills.
Second ==
  { Act("cpu", App, 0), Act("memory", App, 1), Act("kill", App, 0), Act("kill", Slice, 0) }

MCDecisions == BoundedSeq(MCActions, 1) \cup {<<a, b>> : a \in MCActions, b \in Second}
===============================================================================
