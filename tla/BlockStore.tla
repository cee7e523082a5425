----------------------------- MODULE BlockStore -----------------------------
(***************************************************************************)
(* What the buffer cache and the disk driver promise together: every block *)
(* has one current content; a process reads and changes it only while it   *)
(* is the holder, as bread() and brelse() delimit it; and the content that *)
(* survives a crash changes only when the holder of the block writes its   *)
(* current content back.                                                   *)
(***************************************************************************)
CONSTANTS Thread, Block, Val, None

VARIABLES content,   \* what the next bread() of the block returns
          durable,   \* what is on the disk
          holder     \* who is between bread() and brelse() of the block

vars == <<content, durable, holder>>

Init ==
  /\ content \in [Block -> Val]
  /\ durable = content
  /\ holder = [k \in Block |-> None]

Take(t, k) ==
  /\ holder[k] = None
  /\ holder' = [holder EXCEPT ![k] = t]
  /\ UNCHANGED <<content, durable>>

Change(t, k, v) ==
  /\ holder[k] = t
  /\ content' = [content EXCEPT ![k] = v]
  /\ UNCHANGED <<durable, holder>>

WriteBack(t, k) ==
  /\ holder[k] = t
  /\ durable' = [durable EXCEPT ![k] = content[k]]
  /\ UNCHANGED <<content, holder>>

Release(t, k) ==
  /\ holder[k] = t
  /\ holder' = [holder EXCEPT ![k] = None]
  /\ UNCHANGED <<content, durable>>

Next ==
  \E t \in Thread, k \in Block :
    \/ Take(t, k)
    \/ \E v \in Val : Change(t, k, v)
    \/ WriteBack(t, k)
    \/ Release(t, k)

Spec == Init /\ [][Next]_vars
=============================================================================
