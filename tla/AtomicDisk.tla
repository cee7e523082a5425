---------------------------- MODULE AtomicDisk ----------------------------
(***************************************************************************)
(* What the logging system promises the file system: operations run on a   *)
(* copy of the disk in memory, and what they have done reaches the disk    *)
(* in one atomic step, taken only when no operation is under way.  A crash *)
(* loses what has not reached the disk and nothing else, so the disk never *)
(* holds part of an operation.                                             *)
(***************************************************************************)
CONSTANTS Thread, Block, Val

VARIABLES mem,      \* the contents operations see
          durable,  \* the contents a crash leaves
          active    \* the threads inside an operation

vars == <<mem, durable, active>>

Init ==
  /\ durable \in [Block -> Val]
  /\ mem = durable
  /\ active = {}

Begin(t) ==
  /\ t \notin active
  /\ active' = active \cup {t}
  /\ UNCHANGED <<mem, durable>>

Write(t, b, v) ==
  /\ t \in active
  /\ mem' = [mem EXCEPT ![b] = v]
  /\ UNCHANGED <<durable, active>>

End(t) ==
  /\ t \in active
  /\ active' = active \ {t}
  /\ UNCHANGED <<mem, durable>>

Commit ==
  /\ active = {}
  /\ durable' = mem
  /\ UNCHANGED <<mem, active>>

Crash ==
  /\ mem' = durable
  /\ active' = {}
  /\ UNCHANGED durable

Next ==
  \/ \E t \in Thread : Begin(t) \/ End(t)
  \/ \E t \in Thread, b \in Block, v \in Val : Write(t, b, v)
  \/ Commit
  \/ Crash

Spec == Init /\ [][Next]_vars
=============================================================================
