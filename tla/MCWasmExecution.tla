---------------------------- MODULE MCWasmExecution ----------------------------
(***************************************************************************)
(* Executions one after another, with a deadline of two ticks.             *)
(***************************************************************************)
EXTENDS WasmExecution
================================================================================
