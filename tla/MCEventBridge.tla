---------------------------- MODULE MCEventBridge -----------------------------
(***************************************************************************)
(* Two documents for TLC: a widget of one is elsewhere, of another kind or *)
(* missing in the other.                                                   *)
(***************************************************************************)
EXTENDS EventBridge

Widget(kind, id, action) == [kind |-> kind, id |-> id, action |-> action]

Timer ==
  << Widget("vstack", {}, {}),
     Widget("text", {"time"}, {}),
     Widget("button", {"go"}, {"start"}),
     Widget("input", {"minutes"}, {"on_minutes"}) >>

Running ==
  << Widget("hstack", {}, {}),
     Widget("text", {"time"}, {}),
     Widget("input", {"note"}, {}),
     Widget("button", {"go"}, {"stop"}) >>

MCDocuments == {Timer, Running}

\* Inside a widget or at the border of two, within the stack around them.
MCPoints == {{1, 2}, {1, 3}, {1, 3, 4}, {1, 4}, {}}
===============================================================================
