------------------------------ MODULE MCSched ------------------------------
(* Instances of Sched for TLC. *)
EXTENDS Sched

\* Two queues with slices of one and two ticks: demotion, a slice that is only
\* partly used, and re-insertion at the lowest queue all happen.
SmallSlice == [p \in 0 .. 1 |-> p + 1]
=============================================================================
