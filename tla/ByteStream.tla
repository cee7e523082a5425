----------------------------- MODULE ByteStream -----------------------------
(***************************************************************************)
(* What a pipe promises: a bounded first-in first-out queue of bytes, with *)
(* two ends that can be closed.  Nothing goes in once the read end is      *)
(* closed, and what is in the queue can be read after the write end is.    *)
(***************************************************************************)
EXTENDS Naturals, Sequences

CONSTANTS Byte, Capacity

VARIABLES queue, ropen, wopen

Init == queue = <<>> /\ ropen = 1 /\ wopen = 1

Put(b) ==
  /\ ropen = 1 /\ wopen = 1
  /\ Len(queue) < Capacity
  /\ queue' = Append(queue, b)
  /\ UNCHANGED <<ropen, wopen>>

Get ==
  /\ ropen = 1
  /\ queue # <<>>
  /\ queue' = Tail(queue)
  /\ UNCHANGED <<ropen, wopen>>

CloseRead == ropen = 1 /\ ropen' = 0 /\ UNCHANGED <<queue, wopen>>
CloseWrite == wopen = 1 /\ wopen' = 0 /\ UNCHANGED <<queue, ropen>>

Next == (\E b \in Byte : Put(b)) \/ Get \/ CloseRead \/ CloseWrite

Spec == Init /\ [][Next]_<<queue, ropen, wopen>>
=============================================================================
