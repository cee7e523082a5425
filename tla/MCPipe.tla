------------------------------- MODULE MCPipe -------------------------------
(* An instance of Pipe for TLC. *)
EXTENDS Pipe

\* The reader takes part of what is there or asks for more, each writer
\* writes more than the ring holds.
MCRequests == [p \in Readers \cup Writers |-> IF p \in Readers THEN {1, 2} ELSE {3}]
=============================================================================
