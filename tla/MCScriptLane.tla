---------------------------- MODULE MCScriptLane ----------------------------
(***************************************************************************)
(* ScriptLane for TLC.  Operations only meet in `crashes` and in the inbox *)
(* nobody reads here, so one operation with every combination of retries,  *)
(* crashes and answers shows what two would.                               *)
(***************************************************************************)
EXTENDS ScriptLane

CONSTANT op1

MCOps == {op1}
=============================================================================
