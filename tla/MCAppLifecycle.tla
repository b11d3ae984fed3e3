---------------------------- MODULE MCAppLifecycle ----------------------------
(***************************************************************************)
(* Names for TLC: two that give one package path, and one of its own.      *)
(***************************************************************************)
EXTENDS AppLifecycle

MCStem == [n \in Names |-> IF n = "Notes" THEN "notes" ELSE n]

\* One version 4 UUID is as good as another.
Interchangeable == Permutations(Ids)
===============================================================================
