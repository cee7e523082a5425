----------------------------- MODULE MCProcTree -----------------------------
(* Instances of ProcTree for TLC. *)
EXTENDS ProcTree
=============================================================================
