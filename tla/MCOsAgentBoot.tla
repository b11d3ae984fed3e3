---------------------------- MODULE MCOsAgentBoot -----------------------------
(***************************************************************************)
(* One key and the empty one; a machine id that is missing, empty or set.  *)
(***************************************************************************)
EXTENDS OsAgentBoot

MCKeys == {"", "k"}
MCIds == {"missing", "empty", "set"}
===============================================================================
