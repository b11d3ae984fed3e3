---------------------------- MODULE MCTimerRegistry ----------------------------
(***************************************************************************)
(* Three timers, at most two at a time: an id is cleared, another timer    *)
(* set and the limit met while threads are anywhere in their loop.         *)
(***************************************************************************)
EXTENDS TimerRegistry
================================================================================
