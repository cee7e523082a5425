----------------------------- MODULE PipeProofs -----------------------------
(***************************************************************************)
(* For every number of readers and writers, every size of the ring and of  *)
(* the counters, and every kill: no wakeup of a pipe is lost, no pipe is   *)
(* used after it has been freed, and its ring is the queue of bytes that   *)
(* ByteStream promises, also when the counters wrap.                       *)
(***************************************************************************)
EXTENDS Pipe, TLAPS

\* The sets of the model, without their definitions.
LEMMA Sides ==
  /\ Readers \subseteq Proc /\ Writers \subseteq Proc
  /\ Readers \cap Writers = {} /\ None \notin Proc
  /\ \A p \in Proc : p \in Readers \/ p \in Writers
  BY Zenon, PipeAssumption DEF Proc

\* The sizes, without the other assumptions.
LEMMA SizesOk ==
  /\ PIPESIZE \in Nat /\ WORD \in Nat /\ 0 < PIPESIZE /\ PIPESIZE < WORD
  BY PipeAssumption

\* A counter wraps to a counter.
LEMMA Wraps == \A x \in 0 .. WORD - 1 : (x + 1) % WORD \in 0 .. WORD - 1
<1> TAKE x \in 0 .. WORD - 1
<1>1. x + 1 \in Nat /\ WORD \in Nat /\ WORD > 0
  BY SizesOk
<1> QED
  BY <1>1

\* What a call may ask for.
LEMMA RequestsOk == \A p \in Proc : \A m \in Requests[p] : m \in Nat
  BY Zenon, PipeAssumption DEF Proc

\* The next byte keeps i at most n.
LEMMA OneMore ==
  ASSUME TypeOK, NEW p \in Proc, i[p] < n[p], i' = [i EXCEPT ![p] = i[p] + 1]
  PROVE  i' \in [Proc -> Nat] /\ \A q \in Proc : i'[q] <= n[q]
<1>1. i \in [Proc -> Nat] /\ n \in [Proc -> Nat]
      /\ \A q \in Proc : i[q] <= n[q]
  BY Zenon DEF TypeOK
<1>2. \A q \in Proc : n[q] \in Nat
  BY Zenon, <1>1
<1>3. i[p] \in Nat
  BY Zenon, <1>1
<1>4. i[p] + 1 \in Nat /\ i[p] + 1 <= n[p]
  BY <1>2, <1>3
<1> QED
  BY Zenon, <1>1, <1>4

\* A call begins, or ends, with nothing done.
LEMMA Restart ==
  ASSUME TypeOK, NEW p \in Proc, NEW m \in Nat,
         i' = [i EXCEPT ![p] = 0], n' = [n EXCEPT ![p] = m]
  PROVE  /\ i' \in [Proc -> Nat] /\ n' \in [Proc -> Nat]
         /\ \A q \in Proc : i'[q] <= n'[q]
<1>1. i \in [Proc -> Nat] /\ n \in [Proc -> Nat]
      /\ \A q \in Proc : i[q] <= n[q]
  BY Zenon DEF TypeOK
<1>3. i' \in [Proc -> Nat] /\ n' \in [Proc -> Nat]
  BY <1>1
<1>4. ASSUME NEW q \in Proc PROVE i'[q] <= n'[q]
  <2>1. CASE q = p
    <3>1. i'[q] = 0 /\ n'[q] = m
      BY <1>1, <2>1
    <3> QED
      BY <3>1
  <2>2. CASE q # p
    <3>1. i'[q] = i[q] /\ n'[q] = n[q]
      BY <1>1, <2>2
    <3> QED
      BY Zenon, <1>1, <3>1
  <2> QED
    BY <2>1, <2>2
<1> QED
  BY Zenon, <1>3, <1>4

\* A ring is never both full and empty: 0 < PIPESIZE < WORD.
LEMMA FullNotEmpty == TypeOK => ~(Full /\ Empty)
<1> SUFFICES ASSUME TypeOK, Full, Empty PROVE FALSE
  OBVIOUS
<1>1. /\ nread \in Nat /\ WORD \in Nat /\ PIPESIZE \in Nat
      /\ nread < WORD /\ PIPESIZE > 0 /\ PIPESIZE < WORD
  <2>1. nread \in 0 .. WORD - 1
    BY Zenon DEF TypeOK
  <2> QED
    BY <2>1, SizesOk
<1>2. nread = (nread + PIPESIZE) % WORD
  BY Zenon DEF Full, Empty
<1>3. CASE nread + PIPESIZE < WORD
  <2>1. (nread + PIPESIZE) % WORD = nread + PIPESIZE
    BY <1>1, <1>3
  <2> QED
    BY <1>1, <1>2, <2>1
<1>4. CASE nread + PIPESIZE >= WORD
  <2>1. (nread + PIPESIZE) % WORD = nread + PIPESIZE - WORD
    BY <1>1, <1>4
  <2> QED
    BY <1>1, <1>2, <2>1
<1> QED
  BY <1>1, <1>3, <1>4

\* pipealloc() sets up the invariant.
LEMMA InitPipe == Init => PipeInv
<1> SUFFICES ASSUME Init PROVE PipeInv
  OBVIOUS
<1>1. (CHOOSE b \in Byte : TRUE) \in Byte
  BY PipeAssumption
<1>2. TypeOK
  <2>1. 0 \in 0 .. WORD - 1
    BY SizesOk
  <2>2. data \in [Slot -> Byte]
    BY <1>1 DEF Init
  <2>3. ASSUME NEW p \in Proc PROVE i[p] <= n[p]
    <3>1. i[p] = 0 /\ n[p] = 0
      BY DEF Init
    <3> QED
      BY <3>1
  <2> QED
    BY Zenon, <2>1, <2>2, <2>3 DEF Init, TypeOK, PCs
<1>3. LockOk /\ RoleOk /\ EndsOk /\ WritersWait /\ NoLostWakeup
  BY Zenon, Sides DEF Init, LockOk, RoleOk, EndsOk, WritersWait, NoLostWakeup, Waits
<1> QED
  BY <1>2, <1>3 DEF PipeInv

-----------------------------------------------------------------------------
(* Types. *)

\* What wakeup() leaves in the process table is well typed.
LEMMA WakeupType ==
  ASSUME TypeOK, NEW c, NEW pcs \in [Proc -> PCs], Wakeup(c, pcs)
  PROVE  /\ pc' \in [Proc -> PCs]
         /\ chan' \in [Proc -> {"", "nread", "nwrite"}]
  BY Zenon DEF TypeOK, Wakeup, PCs

\* Every step of pipe.c keeps the types.
LEMMA NextType == TypeOK /\ Next => TypeOK'
<1> SUFFICES ASSUME TypeOK, Next PROVE TypeOK'
  OBVIOUS
<1> USE DEF pipeVars
<1>1. ASSUME NEW p \in Proc, NEW m \in Requests[p], Call(p, m) PROVE TypeOK'
  <2>1. /\ i' \in [Proc -> Nat] /\ n' \in [Proc -> Nat]
        /\ \A q \in Proc : i'[q] <= n'[q]
    BY Zenon, <1>1, Restart, RequestsOk DEF Call
  <2> QED
    BY Zenon, <1>1, <2>1 DEF Call, TypeOK, PCs
<1>2. ASSUME NEW p \in Proc, Acquire(p) PROVE TypeOK'
  BY Zenon, <1>2 DEF Acquire, TypeOK, PCs
<1>3. ASSUME NEW p \in Proc, Sleep(p) PROVE TypeOK'
  BY Zenon, <1>3 DEF Sleep, TypeOK, PCs
<1>4. ASSUME NEW p \in Proc, Fail(p) PROVE TypeOK'
  <2>1. /\ i' \in [Proc -> Nat] /\ n' \in [Proc -> Nat]
        /\ \A q \in Proc : i'[q] <= n'[q]
    BY Zenon, <1>4, Restart DEF Fail, Reset
  <2> QED
    BY Zenon, <1>4, <2>1 DEF Fail, TypeOK, PCs
<1>5. ASSUME NEW p \in Proc, NEW c, Return(p, c), UNCHANGED pipeVars PROVE TypeOK'
  <2>1. [pc EXCEPT ![p] = "idle"] \in [Proc -> PCs]
    BY Zenon DEF TypeOK, PCs
  <2>2. /\ pc' \in [Proc -> PCs]
        /\ chan' \in [Proc -> {"", "nread", "nwrite"}]
    BY Zenon, <1>5, <2>1, WakeupType DEF Return
  <2>3. /\ i' \in [Proc -> Nat] /\ n' \in [Proc -> Nat]
        /\ \A q \in Proc : i'[q] <= n'[q]
    BY Zenon, <1>5, Restart DEF Return, Reset
  <2> QED
    BY Zenon, <1>5, <2>2, <2>3 DEF Return, TypeOK
<1>6. ASSUME NEW p \in Proc, WriteFull(p) PROVE TypeOK'
  BY Zenon, <1>6 DEF WriteFull, SleepOn, TypeOK, PCs
<1>7. ASSUME NEW p \in Proc, ReadEmpty(p) PROVE TypeOK'
  BY Zenon, <1>7 DEF ReadEmpty, SleepOn, TypeOK, PCs
<1>8. ASSUME NEW p \in Proc, NEW b \in Byte, WriteByte(p, b) PROVE TypeOK'
  <2>1. nwrite' \in 0 .. WORD - 1
    BY Zenon, <1>8, Wraps DEF WriteByte, TypeOK
  <2>2. i' \in [Proc -> Nat] /\ \A q \in Proc : i'[q] <= n[q]
    BY Zenon, <1>8, OneMore DEF WriteByte, MayWrite
  <2> QED
    BY Zenon, <1>8, <2>1, <2>2 DEF WriteByte, TypeOK
<1>9. ASSUME NEW p \in Proc, ReadByte(p) PROVE TypeOK'
  <2>1. nread' \in 0 .. WORD - 1
    BY Zenon, <1>9, Wraps DEF ReadByte, TypeOK
  <2>2. i' \in [Proc -> Nat] /\ \A q \in Proc : i'[q] <= n[q]
    BY Zenon, <1>9, OneMore DEF ReadByte
  <2> QED
    BY Zenon, <1>9, <2>1, <2>2 DEF ReadByte, TypeOK
<1>10. ASSUME NEW p \in Proc, Close(p) PROVE TypeOK'
  <2>1. [pc EXCEPT ![p] = "closed"] \in [Proc -> PCs]
    BY Zenon DEF TypeOK, PCs
  <2>2. /\ pc' \in [Proc -> PCs]
        /\ chan' \in [Proc -> {"", "nread", "nwrite"}]
    <3>1. CASE Last(p)
      BY Zenon, <1>10, <2>1, <3>1, WakeupType DEF Close
    <3>2. CASE ~Last(p)
      BY Zenon, <1>10, <2>1, <3>2 DEF Close, TypeOK
    <3> QED
      BY <3>1, <3>2
  <2>3. readopen' \in {0, 1} /\ writeopen' \in {0, 1} /\ freed' \in {0, 1}
    BY Zenon, <1>10 DEF Close, TypeOK
  <2> QED
    BY Zenon, <1>10, <2>2, <2>3 DEF Close, TypeOK
<1>11. ASSUME NEW p \in Proc, Kill(p) PROVE TypeOK'
  BY Zenon, <1>11 DEF Kill, TypeOK, PCs
<1> QED
  BY Zenon, <1>1, <1>2, <1>3, <1>4, <1>5, <1>6, <1>7, <1>8, <1>9, <1>10, <1>11
  DEF Next, Step, WriteFails, WriteReturns, ReadFails, ReadReturns
-----------------------------------------------------------------------------
(* The protocol: each action keeps each of the other conjuncts. *)

\* While a reader finds the pipe empty no writer waits: it is not full.
LEMMA NoWriterWaits ==
  ASSUME PipeInv, NEW p \in Proc, ReadWaits(p)
  PROVE  \A q \in Proc : ~Waits(q, "nwrite")
<1>1. Empty /\ lock = p /\ i[p] = 0
  BY Zenon DEF ReadWaits, Inside
<1>2. ~Full
  BY <1>1, FullNotEmpty DEF PipeInv
<1> QED
  BY <1>1, <1>2 DEF WritersWait, PipeInv

\* A call that begins disturbs nobody who waits.
LEMMA CallKeeps ==
  ASSUME PipeInv, NEW p \in Proc, NEW m \in Requests[p], Call(p, m)
  PROVE  LockOk' /\ RoleOk' /\ EndsOk' /\ WritersWait' /\ NoLostWakeup'
<1> USE DEF pipeVars, PipeInv
<1>1. LockOk'
  BY Zenon, Sides DEF Call, TypeOK, LockOk
<1>2. RoleOk'
  BY Zenon, Sides DEF Call, TypeOK, LockOk, RoleOk
<1>3. EndsOk'
  BY Zenon, Sides DEF Call, TypeOK, EndsOk
<1>4. WritersWait'
  BY Zenon, Sides DEF Call, TypeOK, LockOk, RoleOk, EndsOk, WritersWait, Waits, Full
<1>5. NoLostWakeup'
  BY Zenon, Sides
  DEF Call, TypeOK, LockOk, RoleOk, EndsOk, WritersWait, NoLostWakeup, Waits,
      Full, Empty
<1> QED
  BY <1>1, <1>2, <1>3, <1>4, <1>5

\* acquire(): the lock was free, so every wait had its reason in the pipe.
LEMMA AcquireKeeps ==
  ASSUME PipeInv, NEW p \in Proc, Acquire(p)
  PROVE  LockOk' /\ RoleOk' /\ EndsOk' /\ WritersWait' /\ NoLostWakeup'
<1> USE DEF pipeVars, PipeInv
<1>1. LockOk'
  BY Zenon, Sides DEF Acquire, TypeOK, LockOk
<1>2. RoleOk'
  BY Zenon, Sides DEF Acquire, TypeOK, LockOk, RoleOk
<1>3. EndsOk'
  BY Zenon, Sides DEF Acquire, TypeOK, EndsOk
<1>4. WritersWait'
  BY Zenon, Sides
     DEF Acquire, TypeOK, LockOk, RoleOk, EndsOk, WritersWait, Waits, Full
<1>5. NoLostWakeup'
  BY Zenon, Sides
  DEF Acquire, TypeOK, LockOk, RoleOk, EndsOk, WritersWait, NoLostWakeup,
      Waits, Full, Empty
<1> QED
  BY <1>1, <1>2, <1>3, <1>4, <1>5

\* sleep(): only a process still registered goes to sleep.
LEMMA SleepKeeps ==
  ASSUME PipeInv, NEW p \in Proc, Sleep(p)
  PROVE  LockOk' /\ RoleOk' /\ EndsOk' /\ WritersWait' /\ NoLostWakeup'
<1> USE DEF pipeVars, PipeInv
<1>1. LockOk'
  BY Zenon, Sides DEF Sleep, TypeOK, LockOk
<1>2. RoleOk'
  BY Zenon, Sides DEF Sleep, TypeOK, LockOk, RoleOk
<1>3. EndsOk'
  BY Zenon, Sides DEF Sleep, TypeOK, EndsOk
<1>4. WritersWait'
  BY Zenon, Sides
     DEF Sleep, TypeOK, LockOk, RoleOk, EndsOk, WritersWait, Waits, Full
<1>5. NoLostWakeup'
  BY Zenon, Sides
  DEF Sleep, TypeOK, LockOk, RoleOk, EndsOk, WritersWait, NoLostWakeup, Waits,
      Full, Empty
<1> QED
  BY <1>1, <1>2, <1>3, <1>4, <1>5

\* The early return of pipewrite(): the writer is killed, or no reader is left.
LEMMA WriteFailsKeeps ==
  ASSUME PipeInv, NEW p \in Proc, WriteFails(p)
  PROVE  LockOk' /\ RoleOk' /\ EndsOk' /\ WritersWait' /\ NoLostWakeup'
<1> USE DEF pipeVars, PipeInv
<1>1. LockOk'
  BY Zenon, Sides DEF WriteFails, Fail, Reset, Inside, TypeOK, LockOk
<1>2. RoleOk'
  BY Zenon, Sides DEF WriteFails, Fail, Reset, Inside, TypeOK, LockOk, RoleOk
<1>3. EndsOk'
  BY Zenon, Sides DEF WriteFails, Fail, Reset, Inside, TypeOK, EndsOk
<1>4. WritersWait'
  BY Zenon, Sides
  DEF WriteFails, Fail, Reset, Inside, TypeOK, LockOk, RoleOk, EndsOk,
      WritersWait, Waits, Full
<1>5. NoLostWakeup'
  <2>1. killed[p] = 1 \/ readopen = 0
    BY DEF WriteFails
  <2>2. CASE killed[p] = 1
    <3>1. p \in Writers /\ killed'[p] = 1
      BY Zenon, <2>2 DEF WriteFails, Fail
    <3> QED
      BY Zenon, <3>1, Sides
         DEF WriteFails, Fail, Inside, TypeOK, NoLostWakeup, Waits, Full
  <2>3. CASE readopen = 0
    <3>1. \A q \in Proc : ~Waits(q, "nread")
      BY <2>3 DEF Waits, RoleOk, EndsOk
    <3> QED
      BY Zenon, <3>1, Sides
         DEF WriteFails, Fail, Inside, TypeOK, NoLostWakeup, Waits, Full
  <2> QED
    BY <2>1, <2>2, <2>3
<1> QED
  BY <1>1, <1>2, <1>3, <1>4, <1>5

\* A full pipe: readers are woken before the writer waits.
LEMMA WriteFullKeeps ==
  ASSUME PipeInv, NEW p \in Proc, WriteFull(p)
  PROVE  LockOk' /\ RoleOk' /\ EndsOk' /\ WritersWait' /\ NoLostWakeup'
<1> USE DEF pipeVars, PipeInv
<1>1. LockOk'
  BY Zenon, Sides DEF WriteFull, SleepOn, MayWrite, Inside, TypeOK, LockOk
<1>2. RoleOk'
  BY Sides DEF WriteFull, SleepOn, MayWrite, Inside, TypeOK, LockOk, RoleOk
<1>3. EndsOk'
  BY Zenon, Sides DEF WriteFull, SleepOn, MayWrite, Inside, TypeOK, EndsOk
<1>4. WritersWait'
  BY Zenon, Sides
  DEF WriteFull, SleepOn, MayWrite, Inside, TypeOK, LockOk, RoleOk, EndsOk,
      WritersWait, Waits, Full
<1>5. NoLostWakeup'
  BY Zenon, Sides
  DEF WriteFull, SleepOn, MayWrite, Inside, TypeOK, LockOk, RoleOk, EndsOk,
      WritersWait, NoLostWakeup, Waits, Full, Empty
<1> QED
  BY <1>1, <1>2, <1>3, <1>4, <1>5

\* One byte in: the writer holds the lock, and no writer waits on a pipe with room.
LEMMA WriteByteKeeps ==
  ASSUME PipeInv, NEW p \in Proc, NEW b \in Byte, WriteByte(p, b)
  PROVE  LockOk' /\ RoleOk' /\ EndsOk' /\ WritersWait' /\ NoLostWakeup'
<1> USE DEF pipeVars, PipeInv
<1>1. LockOk'
  BY Zenon, Sides DEF WriteByte, MayWrite, Inside, TypeOK, LockOk
<1>2. RoleOk'
  BY Zenon, Sides DEF WriteByte, MayWrite, Inside, TypeOK, LockOk, RoleOk
<1>3. EndsOk'
  BY Zenon, Sides DEF WriteByte, MayWrite, Inside, TypeOK, EndsOk
<1>4. WritersWait'
  BY Zenon, Sides
  DEF WriteByte, MayWrite, Inside, TypeOK, LockOk, RoleOk, EndsOk, WritersWait,
      Waits, Full
<1>5. NoLostWakeup'
  BY Zenon, Sides
  DEF WriteByte, MayWrite, Inside, TypeOK, LockOk, RoleOk, EndsOk, WritersWait,
      NoLostWakeup, Waits, Full, Empty
<1> QED
  BY <1>1, <1>2, <1>3, <1>4, <1>5

\* The end of pipewrite() wakes every reader that waits.
LEMMA WriteReturnsKeeps ==
  ASSUME PipeInv, NEW p \in Proc, WriteReturns(p)
  PROVE  LockOk' /\ RoleOk' /\ EndsOk' /\ WritersWait' /\ NoLostWakeup'
<1> USE DEF pipeVars, PipeInv
<1>1. LockOk'
  BY Zenon, Sides
     DEF WriteReturns, Return, Reset, MayWrite, Inside, Wakeup, TypeOK, LockOk
<1>2. RoleOk'
  BY Zenon, Sides
  DEF WriteReturns, Return, Reset, MayWrite, Inside, Wakeup, TypeOK, LockOk,
      RoleOk
<1>3. EndsOk'
  BY Zenon, Sides
     DEF WriteReturns, Return, Reset, MayWrite, Inside, Wakeup, TypeOK, EndsOk
<1>4. WritersWait'
  BY Zenon, Sides
  DEF WriteReturns, Return, Reset, MayWrite, Inside, Wakeup, TypeOK, LockOk,
      RoleOk, EndsOk, WritersWait, Waits, Full
<1>5. NoLostWakeup'
  BY Zenon, Sides
  DEF WriteReturns, Return, Reset, MayWrite, Inside, Wakeup, TypeOK, LockOk,
      RoleOk, EndsOk, WritersWait, NoLostWakeup, Waits, Full, Empty
<1> QED
  BY <1>1, <1>2, <1>3, <1>4, <1>5

\* The early return of piperead(): the pipe is empty, so no writer waits.
LEMMA ReadFailsKeeps ==
  ASSUME PipeInv, NEW p \in Proc, ReadFails(p)
  PROVE  LockOk' /\ RoleOk' /\ EndsOk' /\ WritersWait' /\ NoLostWakeup'
<1> USE DEF pipeVars, PipeInv
<1>1. LockOk'
  BY Zenon, Sides DEF ReadFails, Fail, Reset, ReadWaits, Inside, TypeOK, LockOk
<1>2. RoleOk'
  BY Zenon, Sides
     DEF ReadFails, Fail, Reset, ReadWaits, Inside, TypeOK, LockOk, RoleOk
<1>3. EndsOk'
  BY Zenon, Sides DEF ReadFails, Fail, Reset, ReadWaits, Inside, TypeOK, EndsOk
<1>4. WritersWait'
  <2>1. \A q \in Proc : ~Waits(q, "nwrite")
    BY NoWriterWaits DEF ReadFails
  <2> QED
    BY Zenon, <2>1 DEF ReadFails, Fail, TypeOK, WritersWait, Waits
<1>5. NoLostWakeup'
  <2>1. \A q \in Proc : ~Waits(q, "nwrite")'
    <3>1. \A q \in Proc : ~Waits(q, "nwrite")
      BY NoWriterWaits DEF ReadFails
    <3> QED
      BY Zenon, <3>1 DEF ReadFails, Fail, TypeOK, Waits
  <2>2. lock = p /\ p \notin Writers
    BY Zenon, Sides DEF ReadFails, Fail, ReadWaits, Inside
  <2> QED
    BY Zenon, <2>1, <2>2, Sides
       DEF ReadFails, Fail, TypeOK, NoLostWakeup, Waits, Empty
<1> QED
  BY <1>1, <1>2, <1>3, <1>4, <1>5

\* An empty pipe that can still be written: a reason for the reader to wait.
LEMMA ReadEmptyKeeps ==
  ASSUME PipeInv, NEW p \in Proc, ReadEmpty(p)
  PROVE  LockOk' /\ RoleOk' /\ EndsOk' /\ WritersWait' /\ NoLostWakeup'
<1> USE DEF pipeVars, PipeInv
<1>1. LockOk'
  BY Zenon, Sides DEF ReadEmpty, SleepOn, ReadWaits, Inside, TypeOK, LockOk
<1>2. RoleOk'
  BY Zenon, Sides DEF ReadEmpty, SleepOn, ReadWaits, Inside, TypeOK, LockOk, RoleOk
<1>3. EndsOk'
  BY Zenon, Sides DEF ReadEmpty, SleepOn, ReadWaits, Inside, TypeOK, EndsOk
<1>4. WritersWait'
  <2>1. \A q \in Proc : ~Waits(q, "nwrite")
    BY Zenon, NoWriterWaits DEF ReadEmpty
  <2> QED
    BY Zenon, <2>1, Sides DEF ReadEmpty, SleepOn, TypeOK, WritersWait, Waits
<1>5. NoLostWakeup'
  <2>1. \A q \in Proc : ~Waits(q, "nwrite")'
    <3>1. \A q \in Proc : ~Waits(q, "nwrite")
      BY Zenon, NoWriterWaits DEF ReadEmpty
    <3> QED
      BY Zenon, <3>1 DEF ReadEmpty, SleepOn, TypeOK, Waits
  <2>2. lock = p /\ p \notin Writers
    BY Zenon, Sides DEF ReadEmpty, ReadWaits, Inside
  <2> QED
    BY Zenon, <2>1, <2>2, Sides
    DEF ReadEmpty, SleepOn, ReadWaits, TypeOK, NoLostWakeup, Waits, Empty
<1> QED
  BY <1>1, <1>2, <1>3, <1>4, <1>5

\* One byte out: from now on the reader owes the writers a wakeup.
LEMMA ReadByteKeeps ==
  ASSUME PipeInv, NEW p \in Proc, ReadByte(p)
  PROVE  LockOk' /\ RoleOk' /\ EndsOk' /\ WritersWait' /\ NoLostWakeup'
<1> USE DEF pipeVars, PipeInv
<1>1. LockOk'
  BY Zenon, Sides DEF ReadByte, Inside, TypeOK, LockOk
<1>2. RoleOk'
  BY Zenon, Sides DEF ReadByte, Inside, TypeOK, LockOk, RoleOk
<1>3. EndsOk'
  BY Zenon, Sides DEF ReadByte, Inside, TypeOK, EndsOk
<1>4. WritersWait'
  <2>1. lock' = p /\ p \in Readers /\ i'[p] = i[p] + 1 /\ i[p] \in Nat
    BY Zenon DEF ReadByte, Inside, TypeOK
  <2>2. lock' \in Readers /\ i'[lock'] > 0
    BY <2>1
  <2> QED
    BY <2>2 DEF WritersWait
<1>5. NoLostWakeup'
  BY Zenon, Sides
  DEF ReadByte, Inside, TypeOK, LockOk, RoleOk, EndsOk, WritersWait,
      NoLostWakeup, Waits, Full, Empty
<1> QED
  BY <1>1, <1>2, <1>3, <1>4, <1>5

\* The end of piperead() wakes every writer that waits.
LEMMA ReadReturnsKeeps ==
  ASSUME PipeInv, NEW p \in Proc, ReadReturns(p)
  PROVE  LockOk' /\ RoleOk' /\ EndsOk' /\ WritersWait' /\ NoLostWakeup'
<1> USE DEF pipeVars, PipeInv
<1>1. LockOk'
  BY Zenon, Sides DEF ReadReturns, Return, Reset, Inside, Wakeup, TypeOK, LockOk
<1>2. RoleOk'
  BY Zenon, Sides
     DEF ReadReturns, Return, Reset, Inside, Wakeup, TypeOK, LockOk, RoleOk
<1>3. EndsOk'
  BY Zenon, Sides DEF ReadReturns, Return, Reset, Inside, Wakeup, TypeOK, EndsOk
<1>4. WritersWait'
  BY Zenon, Sides
  DEF ReadReturns, Return, Reset, Inside, Wakeup, TypeOK, LockOk, RoleOk,
      EndsOk, WritersWait, Waits, Full
<1>5. NoLostWakeup'
  BY Zenon, Sides
  DEF ReadReturns, Return, Reset, Inside, Wakeup, TypeOK, LockOk, RoleOk,
      EndsOk, WritersWait, NoLostWakeup, Waits, Full, Empty
<1> QED
  BY <1>1, <1>2, <1>3, <1>4, <1>5

\* pipeclose(): the last of an end wakes all of the other.
LEMMA CloseKeeps ==
  ASSUME PipeInv, NEW p \in Proc, Close(p)
  PROVE  LockOk' /\ RoleOk' /\ EndsOk' /\ WritersWait' /\ NoLostWakeup'
<1> USE DEF PipeInv
<1> DEFINE c == IF p \in Writers THEN "nread" ELSE "nwrite"
<1>1. /\ pc[p] = "idle" /\ lock = None
      /\ UNCHANGED <<data, nread, nwrite, lock, i, n, killed>>
  BY Zenon DEF Close
<1>2. CASE Last(p)
  <2>1. \A q \in Proc : /\ chan'[q] = IF chan[q] = c THEN "" ELSE chan[q]
                        /\ pc'[q] = IF q = p THEN "closed"
                                    ELSE IF chan[q] = c /\ pc[q] = "asleep" THEN "enter"
                                    ELSE pc[q]
    <3> DEFINE pcs == [pc EXCEPT ![p] = "closed"]
    <3>1. Wakeup(c, pcs)
      BY Zenon, <1>2 DEF Close
    <3>2. \A q \in Proc : pcs[q] = IF q = p THEN "closed" ELSE pc[q]
      BY Zenon DEF TypeOK
    <3> HIDE DEF c, pcs
    <3>3. \A q \in Proc :
            /\ chan'[q] = IF chan[q] = c THEN "" ELSE chan[q]
            /\ pc'[q] = IF chan[q] = c /\ pcs[q] = "asleep" THEN "enter" ELSE pcs[q]
      BY Zenon, <3>1 DEF Wakeup
    <3> QED
      BY Zenon, <3>2, <3>3
  <2>2. /\ readopen' = IF p \in Readers THEN 0 ELSE readopen
        /\ writeopen' = IF p \in Writers THEN 0 ELSE writeopen
        /\ freed' = IF readopen' = 0 /\ writeopen' = 0 THEN 1 ELSE 0
    BY Zenon, <1>2 DEF Close
  <2>3. \A q \in Proc : q # p /\ (q \in Readers <=> p \in Readers) => pc'[q] = "closed"
    BY Zenon, <1>2, <2>1 DEF Last
  <2> HIDE DEF c
  <2>4. LockOk'
    BY Zenon, <1>1, <2>1, Sides DEF LockOk
  <2>5. RoleOk'
    BY Zenon, <1>1, <2>1, Sides DEF RoleOk
  <2>6. EndsOk'
    <3>1. ASSUME NEW q \in Readers, pc'[q] # "closed" PROVE readopen' = 1
      BY Zenon, <1>1, <2>1, <2>2, <2>3, <3>1, Sides DEF EndsOk
    <3>2. ASSUME NEW q \in Writers, pc'[q] # "closed" PROVE writeopen' = 1
      BY Zenon, <1>1, <2>1, <2>2, <2>3, <3>2, Sides DEF EndsOk
    <3> QED
      BY <2>2, <3>1, <3>2 DEF EndsOk
  <2>7. WritersWait'
    BY Zenon, <1>1, <2>1, <2>2, Sides DEF WritersWait, Waits, Full, c
  <2>8. NoLostWakeup'
    BY Zenon, <1>1, <2>1, <2>2, Sides DEF NoLostWakeup, Waits, Full, Empty, c
  <2> QED
    BY <2>4, <2>5, <2>6, <2>7, <2>8
<1>3. CASE ~Last(p)
  <2>1. /\ \A q \in Proc : pc'[q] = IF q = p THEN "closed" ELSE pc[q]
        /\ UNCHANGED <<readopen, writeopen, chan, freed>>
    BY Zenon, <1>3 DEF Close, TypeOK
  <2> QED
    BY ZenonT(30), <1>1, <2>1, Sides
    DEF LockOk, RoleOk, EndsOk, WritersWait, NoLostWakeup, Waits, Full, Empty
<1> QED
  BY <1>2, <1>3

\* kkill() leaves the pipe alone.
LEMMA KillKeeps ==
  ASSUME PipeInv, NEW p \in Proc, Kill(p)
  PROVE  LockOk' /\ RoleOk' /\ EndsOk' /\ WritersWait' /\ NoLostWakeup'
<1> USE DEF pipeVars, PipeInv
<1>1. LockOk'
  BY Zenon, Sides DEF Kill, TypeOK, LockOk
<1>2. RoleOk'
  BY Zenon, Sides DEF Kill, TypeOK, LockOk, RoleOk
<1>3. EndsOk'
  BY Zenon, Sides DEF Kill, TypeOK, EndsOk
<1>4. WritersWait'
  BY Zenon, Sides DEF Kill, TypeOK, LockOk, RoleOk, EndsOk, WritersWait, Waits, Full
<1>5. NoLostWakeup'
  BY ZenonT(30), Sides
  DEF Kill, TypeOK, LockOk, RoleOk, EndsOk, WritersWait, NoLostWakeup, Waits,
      Full, Empty
<1> QED
  BY <1>1, <1>2, <1>3, <1>4, <1>5

\* Every step keeps the invariant.
LEMMA NextInv == PipeInv /\ [Next]_vars => PipeInv'
<1> SUFFICES ASSUME PipeInv, [Next]_vars PROVE PipeInv'
  OBVIOUS
<1>1. CASE UNCHANGED vars
  BY Zenon, <1>1
     DEF vars, pipeVars, PipeInv, TypeOK, LockOk, RoleOk, EndsOk, WritersWait,
              NoLostWakeup, Waits, Full, Empty
<1>2. CASE Next
  <2>1. TypeOK'
    BY SMTT(30), <1>2, NextType DEF PipeInv
  <2>2. LockOk' /\ RoleOk' /\ EndsOk' /\ WritersWait' /\ NoLostWakeup'
    BY Zenon, <1>2, CallKeeps, AcquireKeeps, SleepKeeps, WriteFailsKeeps,
       WriteFullKeeps,
       WriteByteKeeps, WriteReturnsKeeps, ReadFailsKeeps, ReadEmptyKeeps,
       ReadByteKeeps, ReadReturnsKeeps, CloseKeeps, KillKeeps
    DEF Next, Step
  <2> QED
    BY <2>1, <2>2 DEF PipeInv
<1> QED
  BY <1>1, <1>2

-----------------------------------------------------------------------------
(* The ring: the counters wrap at WORD, the slots at PIPESIZE. *)

\* Division with remainder.
LEMMA DivMod ==
  ASSUME NEW m \in Nat, m > 0, NEW a \in Int
  PROVE  a \div m \in Int /\ a % m \in 0 .. m - 1 /\ a = m * (a \div m) + (a % m)
  OBVIOUS

\* There is one remainder only.
LEMMA OneRemainder ==
  ASSUME NEW m \in Nat, m > 0, NEW q \in Int, NEW r \in 0 .. m - 1,
         NEW s \in Int, NEW u \in 0 .. m - 1, m * q + r = m * s + u
  PROVE  r = u
<1>1. q - s \in Int /\ m * (q - s) = u - r
  OBVIOUS
<1>2. CASE q - s >= 1
  <2>1. m * (q - s) >= m
    BY <1>2
  <2> QED
    BY <2>1, <1>1
<1>3. CASE q - s <= -1
  <2>1. m * (q - s) <= -m
    BY <1>3
  <2> QED
    BY <2>1, <1>1
<1>4. CASE q = s
  BY <1>4
<1> QED
  BY <1>1, <1>2, <1>3, <1>4

\* So this is the remainder.
LEMMA Remainder ==
  ASSUME NEW m \in Nat, m > 0, NEW q \in Int, NEW r \in 0 .. m - 1
  PROVE  (m * q + r) % m = r
<1>1. m * q + r \in Int
  OBVIOUS
<1> QED
  BY <1>1, DivMod, OneRemainder

\* The wrap of a counter does not move the slots: WORD is a multiple of PIPESIZE.
LEMMA WrapKeepsSlot == \A a \in Nat : (a + WORD) % PIPESIZE = a % PIPESIZE
<1> TAKE a \in Nat
<1>1. PICK k \in Int : WORD = PIPESIZE * k
  <2>1. WORD % PIPESIZE = 0
    BY PipeAssumption
  <2> QED
    BY <2>1, SizesOk, DivMod
<1>2. PICK q \in Int, r \in 0 .. PIPESIZE - 1 : a = PIPESIZE * q + r /\ a % PIPESIZE = r
  BY SizesOk, DivMod
<1>3. a + WORD = PIPESIZE * (q + k) + r
  BY <1>1, <1>2, SizesOk
<1> QED
  BY SMTT(30), <1>2, <1>3, SizesOk, Remainder

\* Two positions less than PIPESIZE apart have different slots.
LEMMA SlotsApart ==
  ASSUME NEW a \in Nat, NEW b \in Nat, a < b, b < a + PIPESIZE
  PROVE  a % PIPESIZE # b % PIPESIZE
<1> SUFFICES ASSUME a % PIPESIZE = b % PIPESIZE PROVE FALSE
  OBVIOUS
<1>1. PICK q \in Int, s \in Int, r \in 0 .. PIPESIZE - 1 :
        a = PIPESIZE * q + r /\ b = PIPESIZE * s + r
  <2>1. /\ a \div PIPESIZE \in Int /\ a % PIPESIZE \in 0 .. PIPESIZE - 1
        /\ a = PIPESIZE * (a \div PIPESIZE) + (a % PIPESIZE)
    BY SizesOk, DivMod
  <2>2. b \div PIPESIZE \in Int /\ b = PIPESIZE * (b \div PIPESIZE) + (b % PIPESIZE)
    BY SizesOk, DivMod
  <2> QED
    BY Zenon, <2>1, <2>2
<1>2. s - q \in Int /\ b - a = PIPESIZE * (s - q)
  BY <1>1, SizesOk
<1>3. CASE s - q >= 1
  <2>1. PIPESIZE * (s - q) >= PIPESIZE
    BY <1>2, <1>3, SizesOk
  <2> QED
    BY <2>1, <1>2, SizesOk
<1>4. CASE s - q <= 0
  <2>1. PIPESIZE * (s - q) <= 0
    BY <1>2, <1>4, SizesOk
  <2> QED
    BY <2>1, <1>2, SizesOk
<1> QED
  BY <1>2, <1>3, <1>4

\* Count is the distance from nread to nwrite, around the wrap.
LEMMA Counts ==
  ASSUME TypeOK
  PROVE  /\ nread \in Nat /\ nwrite \in Nat /\ nread < WORD /\ nwrite < WORD
         /\ Count \in Nat /\ Count < WORD
         /\ nwrite = nread + Count \/ nwrite + WORD = nread + Count
<1>1. nread \in Nat /\ nwrite \in Nat /\ nread < WORD /\ nwrite < WORD
  <2>1. nread \in 0 .. WORD - 1 /\ nwrite \in 0 .. WORD - 1
    BY Zenon DEF TypeOK
  <2> QED
    BY <2>1, SizesOk
<1>2. CASE nread <= nwrite
  <2>1. (nwrite - nread) % WORD = nwrite - nread
    BY <1>1, <1>2, SizesOk
  <2> QED
    BY <2>1, <1>1, <1>2, SizesOk DEF Count
<1>3. CASE nwrite < nread
  <2>1. (nwrite - nread) % WORD = nwrite - nread + WORD
    BY <1>1, <1>3, SizesOk
  <2> QED
    BY <2>1, <1>1, <1>3, SizesOk DEF Count
<1> QED
  BY <1>1, <1>2, <1>3

\* The next byte goes into the slot after the last.
LEMMA NextSlot == ASSUME TypeOK PROVE nwrite % PIPESIZE = (nread + Count) % PIPESIZE
  BY Counts, WrapKeepsSlot

\* What the tests of the two loops say of the distance.
LEMMA Tests ==
  ASSUME TypeOK
  PROVE  (Empty <=> Count = 0) /\ (Full <=> Count = PIPESIZE)
<1>1. /\ nread \in Nat /\ nwrite \in Nat /\ nread < WORD /\ nwrite < WORD
      /\ Count \in Nat /\ Count < WORD
      /\ nwrite = nread + Count \/ nwrite + WORD = nread + Count
  BY Counts
<1>2. Empty <=> Count = 0
  BY <1>1, SizesOk DEF Empty
<1>3. (nread + PIPESIZE) % WORD =
        IF nread + PIPESIZE < WORD THEN nread + PIPESIZE ELSE nread + PIPESIZE - WORD
  BY <1>1, SizesOk
<1>4. Full <=> Count = PIPESIZE
  BY <1>1, <1>3, SizesOk DEF Full
<1> QED
  BY <1>2, <1>4

\* One byte more
LEMMA CountUp ==
  ASSUME TypeOK, Count < PIPESIZE, nread' = nread, nwrite' = (nwrite + 1) % WORD
  PROVE  Count' = Count + 1
<1>1. /\ nread \in Nat /\ nwrite \in Nat /\ nread < WORD /\ nwrite < WORD
      /\ Count \in Nat
      /\ nwrite = nread + Count \/ nwrite + WORD = nread + Count
  BY Counts
<1>2. PICK x \in Nat : nwrite' = x /\ (x = nwrite + 1 \/ (x = 0 /\ nwrite + 1 = WORD))
  BY <1>1, SizesOk
<1>3. x - nread = Count + 1 \/ x - nread = Count + 1 - WORD
  BY <1>1, <1>2, SizesOk
<1>4. (x - nread) % WORD = Count + 1
  BY <1>1, <1>3, SizesOk
<1> QED
  BY <1>2, <1>4 DEF Count

\* One byte less
LEMMA CountDown ==
  ASSUME TypeOK, Count > 0, nwrite' = nwrite, nread' = (nread + 1) % WORD
  PROVE  Count' = Count - 1
<1>1. /\ nread \in Nat /\ nwrite \in Nat /\ nread < WORD /\ nwrite < WORD
      /\ Count \in Nat /\ Count < WORD
      /\ nwrite = nread + Count \/ nwrite + WORD = nread + Count
  BY Counts
<1>2. PICK x \in Nat : nread' = x /\ (x = nread + 1 \/ (x = 0 /\ nread + 1 = WORD))
  BY <1>1, SizesOk
<1>3. nwrite - x = Count - 1 \/ nwrite - x = Count - 1 - WORD
  BY <1>1, <1>2, SizesOk
<1>4. (nwrite - x) % WORD = Count - 1
  BY <1>1, <1>3, SizesOk
<1> QED
  BY <1>2, <1>4 DEF Count

-----------------------------------------------------------------------------
(* What the ring holds. *)

\* The c bytes from position r of the ring d
RingOf(d, r, c) == [j \in 1 .. c |-> d[(r + j - 1) % PIPESIZE]]

\* They are a sequence of c bytes.
LEMMA RingSeq ==
  ASSUME NEW d \in [Slot -> Byte], NEW r \in Nat, NEW c \in Nat
  PROVE  /\ RingOf(d, r, c) \in Seq(Byte) /\ Len(RingOf(d, r, c)) = c
         /\ \A j \in 1 .. c : RingOf(d, r, c)[j] = d[(r + j - 1) % PIPESIZE]
<1>1. \A j \in 1 .. c : (r + j - 1) % PIPESIZE \in Slot
  BY SizesOk DEF Slot
<1>2. RingOf(d, r, c) \in [1 .. c -> Byte]
  BY Zenon, <1>1 DEF RingOf
<1>3. RingOf(d, r, c) \in Seq(Byte) /\ Len(RingOf(d, r, c)) = c
  BY <1>2
<1>4. \A j \in 1 .. c : RingOf(d, r, c)[j] = d[(r + j - 1) % PIPESIZE]
  BY DEF RingOf
<1> QED
  BY Zenon, <1>3, <1>4

\* Sequences with the same bytes are equal.
LEMMA SameSeq ==
  ASSUME NEW s \in Seq(Byte), NEW t \in Seq(Byte), Len(s) = Len(t),
         \A j \in 1 .. Len(s) : s[j] = t[j]
  PROVE  s = t
  OBVIOUS

\* A byte put into the slot after the last is the last of the sequence.
LEMMA RingPut ==
  ASSUME NEW d \in [Slot -> Byte], NEW r \in Nat, NEW c \in Nat, c < PIPESIZE,
         NEW b \in Byte
  PROVE  RingOf([d EXCEPT ![(r + c) % PIPESIZE] = b], r, c + 1) = Append(RingOf(d, r, c), b)
<1> DEFINE e == [d EXCEPT ![(r + c) % PIPESIZE] = b]
           s == RingOf(d, r, c)
           t == RingOf(e, r, c + 1)
<1>1. /\ e \in [Slot -> Byte]
      /\ \A x \in Slot : e[x] = IF x = (r + c) % PIPESIZE THEN b ELSE d[x]
  BY Zenon
<1> HIDE DEF e
<1>2. s \in Seq(Byte) /\ Len(s) = c /\ \A j \in 1 .. c : s[j] = d[(r + j - 1) % PIPESIZE]
  BY Zenon, RingSeq
<1>3. /\ t \in Seq(Byte) /\ Len(t) = c + 1
      /\ \A j \in 1 .. c + 1 : t[j] = e[(r + j - 1) % PIPESIZE]
  <2>1. c + 1 \in Nat
    OBVIOUS
  <2> QED
    BY Zenon, <2>1, <1>1, RingSeq
<1> HIDE DEF s, t
<1>4. ASSUME NEW j \in 1 .. c PROVE t[j] = s[j]
  <2>1. r + j - 1 \in Nat /\ r + c \in Nat
    OBVIOUS
  <2>2. r + j - 1 < r + c /\ r + c < r + j - 1 + PIPESIZE
    BY SizesOk
  <2>3. (r + j - 1) % PIPESIZE # (r + c) % PIPESIZE
    BY Zenon, <2>1, <2>2, SlotsApart
  <2>4. (r + j - 1) % PIPESIZE \in Slot
    BY <2>1, SizesOk DEF Slot
  <2> QED
    BY <2>3, <2>4, <1>1, <1>2, <1>3
<1>5. t[c + 1] = b
  <2>1. r + (c + 1) - 1 = r + c /\ (r + c) % PIPESIZE \in Slot
    BY SizesOk DEF Slot
  <2>2. t[c + 1] = e[(r + (c + 1) - 1) % PIPESIZE]
    BY <1>3
  <2> QED
    BY <2>1, <2>2, <1>1
<1>6. /\ Append(s, b) \in Seq(Byte) /\ Len(Append(s, b)) = c + 1
      /\ Append(s, b)[c + 1] = b /\ \A j \in 1 .. c : Append(s, b)[j] = s[j]
  BY <1>2
<1>7. \A j \in 1 .. c + 1 : t[j] = Append(s, b)[j]
  BY <1>4, <1>5, <1>6
<1>8. t = Append(s, b)
  BY Zenon, <1>3, <1>6, <1>7, SameSeq
<1> QED
  BY Zenon, <1>8 DEF e, s, t

\* The byte at r is the first of the sequence, also where the counter wraps.
LEMMA RingGet ==
  ASSUME NEW d \in [Slot -> Byte], NEW r \in Nat, NEW c \in Nat, c > 0, r < WORD
  PROVE  RingOf(d, (r + 1) % WORD, c - 1) = Tail(RingOf(d, r, c))
<1> DEFINE x == (r + 1) % WORD
           s == RingOf(d, r, c)
           t == RingOf(d, x, c - 1)
<1>1. x \in Nat /\ (x = r + 1 \/ (x = 0 /\ r + 1 = WORD))
  BY SizesOk
<1>2. s \in Seq(Byte) /\ Len(s) = c /\ \A j \in 1 .. c : s[j] = d[(r + j - 1) % PIPESIZE]
  BY Zenon, RingSeq
<1> HIDE DEF x
<1>3. /\ t \in Seq(Byte) /\ Len(t) = c - 1
      /\ \A j \in 1 .. c - 1 : t[j] = d[(x + j - 1) % PIPESIZE]
  <2>1. c - 1 \in Nat
    OBVIOUS
  <2> QED
    BY Zenon, <2>1, <1>1, RingSeq
<1> HIDE DEF s, t
<1>4. ASSUME NEW j \in 1 .. c - 1 PROVE t[j] = s[j + 1]
  <2>1. (x + j - 1) % PIPESIZE = (r + (j + 1) - 1) % PIPESIZE
    <3>1. CASE x = r + 1
      BY <3>1
    <3>2. CASE x = 0 /\ r + 1 = WORD
      <4>1. j - 1 \in Nat /\ x + j - 1 = j - 1 /\ r + (j + 1) - 1 = j - 1 + WORD
        BY <3>2, SizesOk
      <4> QED
        BY <4>1, WrapKeepsSlot
    <3> QED
      BY <3>1, <3>2, <1>1
  <2>2. j + 1 \in 1 .. c
    OBVIOUS
  <2> QED
    BY Zenon, <2>1, <2>2, <1>2, <1>3
<1>5. /\ Tail(s) \in Seq(Byte) /\ Len(Tail(s)) = c - 1
      /\ \A j \in 1 .. c - 1 : Tail(s)[j] = s[j + 1]
  BY <1>2
<1>6. t = Tail(s)
  BY Zenon, <1>3, <1>4, <1>5, SameSeq
<1> QED
  BY Zenon, <1>6 DEF x, s, t

-----------------------------------------------------------------------------
(* The queue of bytes. *)

\* The ring never holds more than it has slots.
RingOk == Count <= PIPESIZE

\* The types of what the queue is read from.
LEMMA RingTypes ==
  ASSUME TypeOK
  PROVE  data \in [Slot -> Byte] /\ nread \in Nat /\ nread < WORD /\ Count \in Nat
  BY Zenon, Counts DEF TypeOK

\* The queue has as many bytes as the counters say.
LEMMA QueueLen ==
  ASSUME TypeOK
  PROVE  /\ Contents = RingOf(data, nread, Count) /\ Len(Contents) = Count
         /\ Contents = <<>> <=> Count = 0
<1>1. Contents = RingOf(data, nread, Count)
  BY Zenon DEF Contents, RingOf
<1>2. Contents \in Seq(Byte) /\ Len(Contents) = Count
  BY Zenon, <1>1, RingTypes, RingSeq
<1> QED
  BY <1>1, <1>2

\* pipewrite() appends a byte to the queue.
LEMMA WriteByteQueue ==
  ASSUME TypeOK, RingOk, NEW p \in Proc, NEW b \in Byte, WriteByte(p, b)
  PROVE  /\ Contents' = Append(Contents, b) /\ Count < PIPESIZE /\ Count' = Count + 1
<1>1. /\ nread' = nread /\ nwrite' = (nwrite + 1) % WORD /\ ~Full
      /\ data' = [data EXCEPT ![nwrite % PIPESIZE] = b]
  BY Zenon DEF WriteByte
<1>2. Count < PIPESIZE
  BY <1>1, RingTypes, Tests, SizesOk DEF RingOk
<1>3. Count' = Count + 1
  BY <1>1, <1>2, CountUp
<1>4. Contents' = RingOf(data', nread, Count + 1)
  <2>1. nread' = nread
    BY <1>1
  <2> QED
    BY Zenon, <2>1, <1>3 DEF Contents, RingOf
<1>5. data' = [data EXCEPT ![(nread + Count) % PIPESIZE] = b]
  BY Zenon, <1>1, NextSlot
<1>6. Contents' = Append(RingOf(data, nread, Count), b)
  BY Zenon, <1>2, <1>4, <1>5, RingTypes, RingPut
<1> QED
  BY Zenon, <1>2, <1>3, <1>6, QueueLen

\* piperead() takes the first byte of the queue.
LEMMA ReadByteQueue ==
  ASSUME TypeOK, NEW p \in Proc, ReadByte(p)
  PROVE  Contents' = Tail(Contents) /\ Contents # <<>> /\ Count' = Count - 1
<1>1. nread' = (nread + 1) % WORD /\ UNCHANGED <<data, nwrite>> /\ ~Empty
  BY Zenon DEF ReadByte
<1>2. Count \in Nat /\ Count > 0
  BY <1>1, RingTypes, Tests
<1>3. Count' = Count - 1
  BY Zenon, <1>1, <1>2, CountDown
<1>4. Contents' = RingOf(data, (nread + 1) % WORD, Count - 1)
  BY Zenon, <1>1, <1>3 DEF Contents, RingOf
<1>5. Contents' = Tail(RingOf(data, nread, Count))
  BY Zenon, <1>2, <1>4, RingTypes, RingGet
<1>6. Contents # <<>>
  BY <1>2, QueueLen
<1> QED
  BY Zenon, <1>3, <1>5, <1>6, QueueLen

\* No other step touches the counters or the bytes.
LEMMA OtherQueue ==
  ASSUME NEW p \in Proc,
         \/ Acquire(p) \/ Sleep(p) \/ Fail(p) \/ WriteFull(p) \/ WriteReturns(p)
         \/ ReadEmpty(p) \/ ReadReturns(p) \/ Close(p) \/ Kill(p)
         \/ \E m \in Requests[p] : Call(p, m)
  PROVE  UNCHANGED <<data, nread, nwrite>>
  BY Zenon
     DEF Acquire, Sleep, Fail, WriteFull, WriteReturns, ReadEmpty, ReadReturns,
     Close, Kill, Call, pipeVars

\* Every step of pipe.c is a step of the queue: Put, Get, the close of an end, or none.
LEMMA StepRefines ==
  ASSUME PipeInv, RingOk, [Next]_vars
  PROVE  RingOk' /\ [Stream!Next]_<<Contents, readopen, writeopen>>
<1> DEFINE Same == UNCHANGED <<data, nread, nwrite>>
<1>1. ASSUME Same PROVE RingOk' /\ Contents' = Contents
  BY Zenon, <1>1 DEF RingOk, Count, Contents
<1>2. ASSUME NEW p \in Proc, NEW b \in Byte, WriteByte(p, b)
      PROVE  RingOk' /\ Stream!Put(b)
  <2>1. /\ Contents' = Append(Contents, b) /\ Count < PIPESIZE /\ Count' = Count + 1
        /\ Count \in Nat /\ Len(Contents) = Count
    BY Zenon, <1>2, WriteByteQueue, QueueLen, RingTypes DEF PipeInv
  <2>2. p \in Writers /\ pc[p] = "loop" /\ readopen = 1 /\ UNCHANGED <<readopen, writeopen>>
    BY Zenon, <1>2 DEF WriteByte, MayWrite, Inside
  <2>3. writeopen = 1
    BY <2>2 DEF PipeInv, EndsOk
  <2>4. RingOk'
    BY <2>1, SizesOk DEF RingOk
  <2> QED
    BY <2>1, <2>2, <2>3, <2>4 DEF Stream!Put
<1>3. ASSUME NEW p \in Proc, ReadByte(p) PROVE RingOk' /\ Stream!Get
  <2>1. /\ Contents' = Tail(Contents) /\ Contents # <<>> /\ Count' = Count - 1
        /\ Count \in Nat
    BY Zenon, <1>3, ReadByteQueue, RingTypes DEF PipeInv
  <2>2. p \in Readers /\ pc[p] = "loop" /\ UNCHANGED <<readopen, writeopen>>
    BY Zenon, <1>3 DEF ReadByte, Inside
  <2>3. readopen = 1
    BY <2>2 DEF PipeInv, EndsOk
  <2>4. RingOk'
    BY <2>1, SizesOk DEF RingOk
  <2> QED
    BY <2>1, <2>2, <2>3, <2>4 DEF Stream!Get
<1>4. ASSUME NEW p \in Proc, Close(p)
      PROVE  RingOk' /\ (Stream!CloseRead \/ Stream!CloseWrite
                         \/ UNCHANGED <<Contents, readopen, writeopen>>)
  <2>1. RingOk' /\ Contents' = Contents
    BY Zenon, <1>1, <1>4, OtherQueue
  <2>2. CASE Last(p)
    <3>1. /\ readopen' = IF p \in Readers THEN 0 ELSE readopen
          /\ writeopen' = IF p \in Writers THEN 0 ELSE writeopen
          /\ pc[p] # "closed"
      BY <1>4, <2>2 DEF Close
    <3> QED
      BY <2>1, <3>1, Sides DEF PipeInv, EndsOk, Stream!CloseRead, Stream!CloseWrite
  <2>3. CASE ~Last(p)
    BY <1>4, <2>1, <2>3 DEF Close
  <2> QED
    BY <2>2, <2>3
<1>5. ASSUME NEW p \in Proc,
             \/ Acquire(p) \/ Sleep(p) \/ Fail(p) \/ WriteFull(p) \/ WriteReturns(p)
             \/ ReadEmpty(p) \/ ReadReturns(p) \/ Kill(p)
             \/ \E m \in Requests[p] : Call(p, m)
      PROVE  RingOk' /\ UNCHANGED <<Contents, readopen, writeopen>>
  <2>1. RingOk' /\ Contents' = Contents
    BY Zenon, <1>1, <1>5, OtherQueue
  <2>2. UNCHANGED <<readopen, writeopen>>
    BY Zenon, <1>5 DEF Acquire, Sleep, Fail, WriteFull, WriteReturns, ReadEmpty,
       ReadReturns, Kill, Call, pipeVars
  <2> QED
    BY Zenon, <2>1, <2>2
<1>6. CASE UNCHANGED vars
  BY Zenon, <1>1, <1>6 DEF vars, pipeVars
<1> QED
  BY Zenon, <1>2, <1>3, <1>4, <1>5, <1>6
  DEF Next, Step, WriteFails, ReadFails, Stream!Next

-----------------------------------------------------------------------------
(* Theorems. *)

\* The invariant of pipe.c's wait protocol holds in every reachable state,
\* for any number of readers and writers and any size of the ring.
THEOREM PipeSafe == Spec => []PipeInv
  BY InitPipe, NextInv, PTL DEF Spec

\* A reader or writer that waits in piperead() or pipewrite() has a reason to,
\* or whoever is inside the pipe will wake it, or a writer was killed.
THEOREM WakeupKept == Spec => []NoLostWakeup
<1>1. PipeInv => NoLostWakeup
  BY DEF PipeInv
<1> QED
  BY <1>1, PipeSafe, PTL

\* pipeclose() frees the pipe only when no process has it open any more.
THEOREM FreedUnused == Spec => []NoUseAfterFree
<1>1. PipeInv => NoUseAfterFree
  BY Sides DEF PipeInv, EndsOk, NoUseAfterFree
<1> QED
  BY <1>1, PipeSafe, PTL

\* The ring with its wrapping counters is a bounded first-in first-out queue that
\* can be closed at both ends: ByteStream, whatever its readers and writers do.
THEOREM Refinement == Spec => ImplementsByteStream
<1>1. Init => RingOk /\ Stream!Init
  <2> SUFFICES ASSUME Init PROVE RingOk /\ Stream!Init
    OBVIOUS
  <2>1. TypeOK /\ Empty /\ readopen = 1 /\ writeopen = 1
    BY InitPipe DEF PipeInv, Init, Empty
  <2>2. Count = 0 /\ Contents = <<>>
    BY <2>1, Tests, QueueLen
  <2> QED
    BY <2>1, <2>2, SizesOk DEF RingOk, Stream!Init
<1>2. PipeInv /\ RingOk /\ [Next]_vars =>
        RingOk' /\ [Stream!Next]_<<Contents, readopen, writeopen>>
  BY StepRefines
<1> QED
  BY <1>1, <1>2, PipeSafe, PTL DEF Spec, ImplementsByteStream, Stream!Spec
=============================================================================
