------------------------------ MODULE LogProofs -----------------------------
(***************************************************************************)
(* Proofs about Log, for every set of threads, of blocks and of values and *)
(* every size of the log: LogInv is an inductive invariant, the log        *)
(* implements AtomicDisk, and it never overflows.                          *)
(***************************************************************************)
EXTENDS LogSteps, FiniteSetTheorems

USE LogAssumption

-----------------------------------------------------------------------------
(* Counting the operations under way. *)

\* The operations under way can be counted.
LEMMA InOpFinite == IsFiniteSet(InOp)
BY FS_Subset DEF InOp

\* One operation more.
LEMMA EnterOp ==
  ASSUME NEW t \in Thread, t \notin InOp, InOp' = InOp \cup {t}
  PROVE  Cardinality(InOp') = Cardinality(InOp) + 1
BY Zenon, InOpFinite, FS_AddElement

\* One operation less.
LEMMA LeaveOp ==
  ASSUME NEW t \in InOp
  PROVE  /\ Cardinality(InOp) \in Nat \ {0}
         /\ Cardinality(InOp \ {t}) = Cardinality(InOp) - 1
         /\ Cardinality(InOp) = 1 => InOp = {t}
<1>1. Cardinality(InOp) \in Nat /\ Cardinality(InOp \ {t}) = Cardinality(InOp) - 1
  BY Zenon, InOpFinite, FS_RemoveElement, FS_CardinalityType
<1>2. Cardinality(InOp) # 0
  BY InOpFinite, FS_EmptySet
<1>3. Cardinality(InOp) = 1 => InOp = {t}
  BY InOpFinite, FS_Singleton
<1> QED
  BY <1>1, <1>2, <1>3

\* The count is zero when there is none.
LEMMA NoOps == Cardinality(InOp) = 0 <=> InOp = {}
BY InOpFinite, FS_EmptySet

\* A right count is enough for the steps of LogSteps.
LEMMA CountedFlags == Counted => Flags
BY NoOps DEF Counted, Flags

-----------------------------------------------------------------------------
(* The counter, the flag and the single committer. *)

\* A step that moves only t, and neither into nor out of an operation or a
\* commit, leaves them right.
LEMMA CountedStays ==
  ASSUME Counted, outstanding' = outstanding, committing' = committing,
         \A u \in Thread : /\ pc'[u] = "in" <=> pc[u] = "in"
                           /\ pc'[u] \in Committing <=> pc[u] \in Committing
  PROVE  Counted'
<1>1. InOp' = InOp
  BY Zenon DEF InOp
<1> QED
  BY Zenon, <1>1 DEF Counted

\* Every step keeps the counter and the flag right.
LEMMA NextCounted ==
  ASSUME TypeOK, Counted, [Next]_vars
  PROVE  Counted'
<1>1. ASSUME NEW t \in Thread, Step(t)
      PROVE  Counted'
  <2>0. pc \in [Thread -> PCs] /\ outstanding \in Nat /\ committing \in 0 .. 1
    BY Zenon DEF TypeOK
  <2>1. CASE BeginOp(t)
    <3>1. CASE committing = 1 \/ NoRoom
      BY Zenon, <2>0, <2>1, <3>1, CountedStays DEF BeginOp, Committing
    <3>2. CASE ~(committing = 1 \/ NoRoom)
      <4>1. t \notin InOp /\ InOp' = InOp \cup {t}
        BY Zenon, <2>0, <2>1, <3>2 DEF BeginOp, InOp
      <4>2. outstanding' = Cardinality(InOp')
        BY Zenon, <2>1, <3>2, <4>1, EnterOp DEF BeginOp, Counted
      <4>3. \A u \in Thread : pc'[u] \in Committing <=> pc[u] \in Committing
        BY Zenon, <2>0, <2>1, <3>2 DEF BeginOp, Committing
      <4> QED
        BY Zenon, <2>0, <2>1, <3>2, <4>2, <4>3 DEF BeginOp, Counted
    <3> QED
      BY <3>1, <3>2
  <2>2. CASE EndOp(t)
    <3>1. t \in InOp
      BY Zenon, <2>2 DEF EndOp, InOp
    <3>2. [pc EXCEPT ![t] = "idle"] \in [Thread -> PCs]
      BY <2>0 DEF PCs
    <3>w. \A u \in Thread : Woken([pc EXCEPT ![t] = "idle"])[u] = "in"
                             <=> [pc EXCEPT ![t] = "idle"][u] = "in"
      BY Zenon, <3>2, WokenKeeps
    <3>3. InOp' = InOp \ {t}
      <4>1. \A u \in Thread : pc'[u] = "in" <=> pc[u] = "in" /\ u # t
        BY Zenon, <2>0, <2>2, <3>w DEF EndOp
      <4> QED
        BY <4>1 DEF InOp
    <3>4. outstanding' = Cardinality(InOp')
      BY Zenon, <2>2, <3>1, <3>3, LeaveOp DEF EndOp, Counted
    <3>5. committing = 0 /\ \A u \in Thread : pc[u] \notin Committing
      <4>1. outstanding # 0
        BY Zenon, <3>1, LeaveOp DEF Counted
      <4>2. committing # 1
        BY <4>1 DEF Counted
      <4> QED
        BY <2>0, <4>2 DEF Counted
    <3>6. CASE outstanding = 1
      <4>1. /\ pc'[t] \in Committing
            /\ \A u \in Thread : pc'[u] \in Committing => u = t
        BY Zenon, <2>0, <2>2, <3>5, <3>6 DEF EndOp, Committing
      <4>2. committing' = 1 /\ outstanding' = 0
        BY <2>2, <3>6 DEF EndOp
      <4> QED
        BY <3>4, <4>1, <4>2 DEF Counted
    <3>7. CASE outstanding # 1
      <4>1. \A u \in Thread : pc'[u] \notin Committing
        <5>1. \A u \in Thread : Woken([pc EXCEPT ![t] = "idle"])[u] \in Committing
                                 <=> [pc EXCEPT ![t] = "idle"][u] \in Committing
          BY Zenon, <3>2, WokenKeeps
        <5> QED
          BY Zenon, <2>0, <2>2, <3>5, <3>7, <5>1 DEF EndOp, Committing
      <4>2. committing' = 0
        BY Zenon, <2>2, <3>5, <3>7 DEF EndOp
      <4> QED
        BY <3>4, <4>1, <4>2 DEF Counted
    <3> QED
      BY <3>6, <3>7
  <2>3. ASSUME NEW b \in Block, NEW v \in Val, LogWrite(t, b, v)
        PROVE  Counted'
    BY Zenon, <2>3, CountedStays DEF LogWrite
  <2>4. CASE WriteLog(t)
    BY Zenon, <2>4, CountedStays DEF WriteLog
  <2>5. CASE WriteHead(t)
    BY <2>0, <2>5, CountedStays DEF WriteHead, Committing
  <2>6. CASE InstallTrans(t)
    BY Zenon, <2>6, CountedStays DEF InstallTrans, Install
  <2>7. CASE EraseHead(t)
    BY <2>0, <2>7, CountedStays DEF EraseHead, Committing
  <2>8. CASE Committed(t)
    <3>1. [pc EXCEPT ![t] = "idle"] \in [Thread -> PCs]
      BY <2>0 DEF PCs
    <3>w. \A u \in Thread :
            /\ Woken([pc EXCEPT ![t] = "idle"])[u] = "in"
                 <=> [pc EXCEPT ![t] = "idle"][u] = "in"
            /\ Woken([pc EXCEPT ![t] = "idle"])[u] \in Committing
                 <=> [pc EXCEPT ![t] = "idle"][u] \in Committing
      BY Zenon, <3>1, WokenKeeps
    <3>2. InOp' = InOp
      <4>1. \A u \in Thread : pc'[u] = "in" <=> pc[u] = "in"
        BY Zenon, <2>0, <2>8, <3>w DEF Committed
      <4> QED
        BY <4>1 DEF InOp
    <3>3. \A u \in Thread : pc[u] \in Committing => u = t
      BY Zenon, <2>8 DEF Committed, Counted, Committing
    <3>4. \A u \in Thread : pc'[u] \notin Committing
      BY Zenon, <2>0, <2>8, <3>3, <3>w DEF Committed, Committing
    <3>5. committing' = 0 /\ outstanding' = outstanding
      BY <2>8 DEF Committed
    <3> QED
      BY <3>2, <3>4, <3>5 DEF Counted
  <2>9. CASE Sync(t)
    BY Zenon, <2>0, <2>9, CountedStays DEF Sync, Committing, logVars
  <2>10. CASE SyncCheck(t)
    BY <2>0, <2>10, CountedStays DEF SyncCheck, Committing, logVars
  <2>11. CASE SyncReturn(t)
    BY <2>0, <2>11, CountedStays DEF SyncReturn, Committing, logVars
  <2> QED
    BY SMTT(30), <1>1, <2>1, <2>2, <2>3, <2>4, <2>5, <2>6, <2>7, <2>8, <2>9, <2>10,
       <2>11 DEF Step
<1>2. CASE Crash
  <2>1. InOp' = {} /\ \A u \in Thread : pc'[u] \notin Committing
    BY <1>2 DEF Crash, InOp, Committing
  <2>2. Cardinality(InOp') = 0
    BY <2>1, FS_EmptySet
  <2> QED
    BY <1>2, <2>1, <2>2 DEF Crash, Counted
<1>3. CASE ReadHead
  BY <1>3, CountedStays DEF ReadHead
<1>4. CASE RecoverInstall
  BY Zenon, <1>4, CountedStays DEF RecoverInstall, Install
<1>5. CASE RecoverErase
  BY <1>5, CountedStays DEF RecoverErase
<1>6. CASE UNCHANGED vars
  BY <1>6, CountedStays DEF vars, logVars
<1> QED
  BY <1>1, <1>2, <1>3, <1>4, <1>5, <1>6 DEF Next

-----------------------------------------------------------------------------
(* The invariant, and the properties that follow from it. *)

\* The invariant holds when the system starts.
LEMMA InitInv == Init => LogInv
<1> SUFFICES ASSUME Init PROVE LogInv
  OBVIOUS
<1>1. /\ lh = <<>> /\ dhead = <<>> /\ cache = disk /\ outstanding = 0
      /\ committing = 0 /\ mode = "up" /\ nended = 0 /\ nsafe = 0
      /\ \A t \in Thread : pc[t] = "idle" /\ need[t] = 0
  BY DEF Init
<1>2. Counted
  <2>1. InOp = {}
    BY <1>1 DEF InOp
  <2>2. Cardinality(InOp) = 0
    BY <2>1, FS_EmptySet
  <2> QED
    BY <1>1, <2>2 DEF Counted, Committing
<1>3. DataInv
  BY <1>1 DEF DataInv, UpInv, Distinct, Installing
<1>4. SyncInv /\ SyncIsDurable /\ SleepersHaveWaker
  BY <1>1 DEF SyncInv, SyncIsDurable, SleepersHaveWaker, Asleep
<1> QED
  BY <1>2, <1>3, <1>4, InitType DEF LogInv

\* LogInv holds in every reachable state, whatever the threads do and whenever
\* the machine crashes.
THEOREM Invariant == Spec => []LogInv
<1>1. LogInv /\ [Next]_vars => LogInv'
  BY CountedFlags, NextType, NextCounted, NextData, NextSync DEF LogInv
<1> QED
  BY InitInv, <1>1, PTL DEF Spec

\* When sys_sync() returns, the operations that ended before the call survive
\* any crash.
THEOREM SyncDurable == Spec => []SyncIsDurable
<1>1. LogInv => SyncIsDurable
  BY DEF LogInv
<1> QED
  BY Invariant, <1>1, PTL

\* A thread asleep in begin_op() or sys_sync() has someone to wake it.
THEOREM NoLostWakeup == Spec => []SleepersHaveWaker
<1>1. LogInv => SleepersHaveWaker
  BY DEF LogInv
<1> QED
  BY Invariant, <1>1, PTL

\* A block that is not pinned may be dropped from the buffer cache.
THEOREM CleanBlocks == Spec => []UnpinnedIsClean
<1>1. ASSUME LogInv
      PROVE  UnpinnedIsClean
  <2>1. CASE mode # "up"
    BY <2>1 DEF UnpinnedIsClean, Pinned
  <2>2. CASE mode = "up"
    <3>1. UpInv /\ TypeOK
      BY <1>1, <2>2 DEF LogInv, DataInv
    <3>2. SUFFICES ASSUME NEW b \in Block \ Pinned
                   PROVE  cache[b] = disk[b]
      BY DEF UnpinnedIsClean
    <3>3. CASE b \notin Logged
      BY <3>1, <3>3 DEF UpInv
    <3>4. CASE b \in Logged
      <4>1. PICK i \in DOMAIN lh : lh[i] = b
        BY <3>4 DEF Logged
      <4>2. Installing /\ ~(i >= tail)
        BY <2>2, <3>2, <4>1 DEF Pinned, Installing
      <4>3. i < tail
        BY <3>1, <4>2, SeqFacts
      <4> QED
        BY <3>1, <4>1, <4>2, <4>3 DEF UpInv, Installed
    <3> QED
      BY <3>3, <3>4
  <2> QED
    BY <2>1, <2>2
<1> QED
  BY Invariant, <1>1, PTL

\* The log implements AtomicDisk: a crash at any point leaves the disk, after
\* recovery, as some moment with no operation under way left it.
THEOREM Refinement == Spec => ImplementsAtomicDisk
<1>1. LogInv /\ LogInv' /\ [Next]_vars => [Atomic!Next]_(Atomic!vars)
  BY CountedFlags, NextRefines DEF LogInv
<1> QED
  BY InitRefines, <1>1, Invariant, PTL DEF Spec, ImplementsAtomicDisk, Atomic!Spec

-----------------------------------------------------------------------------
(* The room that begin_op() reserves. *)

\* What begin_op() has reserved and is not used yet: a place for every block that
\* an operation under way may still log.
Room == {p \in InOp \X (1 .. MAXOPBLOCKS) : p[2] + Cardinality(touched[p[1]]) <= MAXOPBLOCKS}

\* What an operation has written is in the log, and there is room for the rest.
Reserved ==
  /\ \A t \in Thread : /\ touched[t] \subseteq Logged
                       /\ IsFiniteSet(touched[t]) /\ Cardinality(touched[t]) <= OpBlocks
                       /\ t \notin InOp => touched[t] = {}
  /\ Len(lh) + Cardinality(Room) <= LOGBLOCKS

\* The room of some operations is at most what begin_op() reserves for them.
LEMMA RoomBounded ==
  ASSUME NEW S, S \subseteq Thread, NEW R, R \subseteq S \X (1 .. MAXOPBLOCKS)
  PROVE  /\ IsFiniteSet(R) /\ Cardinality(R) \in Nat
         /\ Cardinality(R) <= Cardinality(S) * MAXOPBLOCKS
<1>1. IsFiniteSet(S) /\ Cardinality(S) \in Nat
  BY FS_Subset, FS_CardinalityType
<1>2. IsFiniteSet(1 .. MAXOPBLOCKS) /\ Cardinality(1 .. MAXOPBLOCKS) = MAXOPBLOCKS
  BY FS_Interval
<1>3. /\ IsFiniteSet(S \X (1 .. MAXOPBLOCKS))
      /\ Cardinality(S \X (1 .. MAXOPBLOCKS)) = Cardinality(S) * MAXOPBLOCKS
  BY <1>1, <1>2, FS_Product
<1> QED
  BY <1>3, FS_Subset, FS_CardinalityType

\* No operation is under way.
LEMMA NothingReserved ==
  ASSUME lh' \in Seq(Block), Len(lh') <= LOGBLOCKS, InOp' = {},
         \A t \in Thread : touched'[t] = {}
  PROVE  Reserved'
<1>1. Room' = {}
  BY DEF Room
<1>2. IsFiniteSet({}) /\ Cardinality({}) = 0
  BY FS_EmptySet
<1>3. Len(lh') + Cardinality(Room') <= LOGBLOCKS
  BY <1>1, <1>2
<1>4. \A t \in Thread : IsFiniteSet(touched'[t]) /\ Cardinality(touched'[t]) = 0
  BY Zenon, <1>2
<1> QED
  BY <1>3, <1>4 DEF Reserved

\* begin_op() lets an operation in when there is room for as many blocks as all
\* the operations may log.
LEMMA BeginReserves ==
  ASSUME TypeOK, Counted, Counted', Reserved, NEW t \in Thread, BeginOp(t), pc'[t] = "in"
  PROVE  Reserved'
<1>1. /\ ~NoRoom /\ outstanding' = outstanding + 1 /\ lh' = lh
      /\ pc' = [pc EXCEPT ![t] = "in"] /\ touched' = [touched EXCEPT ![t] = {}]
  BY Zenon DEF BeginOp, TypeOK
<1>2. Len(lh) \in Nat /\ outstanding \in Nat
  BY DEF TypeOK
<1>3. Cardinality(Room') <= Cardinality(InOp') * MAXOPBLOCKS /\ Cardinality(Room') \in Nat
  <2>1. InOp' \subseteq Thread /\ Room' \subseteq InOp' \X (1 .. MAXOPBLOCKS)
    BY Zenon DEF Room, InOp
  <2> QED
    BY Zenon, <2>1, RoomBounded
<1>4. Len(lh) + Cardinality(InOp') * MAXOPBLOCKS <= LOGBLOCKS
  BY <1>1, <1>2 DEF NoRoom, Counted
<1>5. Len(lh') + Cardinality(Room') <= LOGBLOCKS
  <2>1. outstanding' \in Nat /\ outstanding' = Cardinality(InOp')
    BY <1>1, <1>2 DEF Counted
  <2> QED
    BY SMTT(30), <1>1, <1>2, <1>3, <1>4, <2>1
<1>6. \A u \in Thread : u \notin InOp' => u # t /\ u \notin InOp
  BY <1>1 DEF InOp, TypeOK
<1>7. Logged' = Logged /\ \A u \in Thread : touched'[u] = IF u = t THEN {} ELSE touched[u]
  BY Zenon, <1>1 DEF Logged, TypeOK
<1>8. IsFiniteSet({}) /\ Cardinality({}) = 0
  BY FS_EmptySet
<1> QED
  BY <1>5, <1>6, <1>7, <1>8 DEF Reserved

\* log_write() takes a block the operation has already written, or one of the
\* places that were reserved for it.
LEMMA WriteReserves ==
  ASSUME TypeOK, Reserved, NEW t \in Thread, NEW b \in Block, NEW v \in Val, LogWrite(t, b, v)
  PROVE  Reserved'
<1>1. /\ t \in InOp /\ InOp' = InOp /\ touched' = [touched EXCEPT ![t] = @ \cup {b}]
      /\ lh' = IF b \in Logged THEN lh ELSE Append(lh, b)
  BY Zenon DEF LogWrite, MayWrite, InOp
<1>2. lh \in Seq(Block) /\ Len(lh) \in Nat /\ touched \in [Thread -> SUBSET Block]
  BY DEF TypeOK
<1>3. Logged' = Logged \cup {b} /\ Len(lh') = IF b \in Logged THEN Len(lh) ELSE Len(lh) + 1
  BY SMTT(30), <1>1, <1>2 DEF Logged
<1>4. \A u \in Thread : touched'[u] = IF u = t THEN touched[t] \cup {b} ELSE touched[u]
  BY Zenon, <1>1, <1>2
<1> DEFINE c == Cardinality(touched[t])
           d == Cardinality(touched[t] \cup {b})
<1>5. /\ IsFiniteSet(touched[t]) /\ IsFiniteSet(touched[t] \cup {b})
      /\ c \in Nat /\ d \in Nat /\ d <= OpBlocks
      /\ d = IF b \in touched[t] THEN c ELSE c + 1
  BY FS_AddElement, FS_CardinalityType DEF Reserved, LogWrite, MayWrite
<1>6. /\ IsFiniteSet(Room) /\ Cardinality(Room) \in Nat
      /\ IsFiniteSet(Room') /\ Cardinality(Room') \in Nat
  <2>1. /\ InOp \subseteq Thread /\ InOp' \subseteq Thread
        /\ Room \subseteq InOp \X (1 .. MAXOPBLOCKS)
        /\ Room' \subseteq InOp' \X (1 .. MAXOPBLOCKS)
    BY Zenon DEF Room, InOp
  <2> QED
    BY Zenon, <2>1, RoomBounded
<1>7. \A u \in InOp : Cardinality(touched'[u]) = IF u = t THEN d ELSE Cardinality(touched[u])
  BY Zenon, <1>4 DEF InOp
<1>8. Len(lh') + Cardinality(Room') <= LOGBLOCKS
  <2>1. \A p \in Room' : p \in Room
    BY <1>1, <1>5, <1>7 DEF Room
  <2>2. CASE b \in Logged
    <3>1. Cardinality(Room') <= Cardinality(Room)
      BY Zenon, <2>1, <1>6, FS_Subset
    <3> QED
      BY <3>1, <2>2, <1>2, <1>3, <1>6 DEF Reserved
  <2>3. CASE b \notin Logged
    <3>1. b \notin touched[t]
      BY <2>3 DEF Reserved
    <3>2. PICK x : x \in Room \ Room'
      <4>1. PICK m \in 1 .. MAXOPBLOCKS : m + c = MAXOPBLOCKS /\ m + d > MAXOPBLOCKS
        <5>1. MAXOPBLOCKS - c \in 1 .. MAXOPBLOCKS
          BY <3>1, <1>5
        <5> QED
          BY <5>1, <3>1, <1>5
      <4>2. <<t, m>> \in Room
        BY <4>1, <1>1, <1>5 DEF Room
      <4>3. Cardinality(touched'[t]) = d
        BY Zenon, <1>1, <1>7
      <4>4. <<t, m>> \notin Room'
        <5>1. <<t, m>> \in Room' =>
                <<t, m>>[2] + Cardinality(touched'[<<t, m>>[1]]) <= MAXOPBLOCKS
          BY Zenon DEF Room
        <5>2. <<t, m>> \in Room' => m + d <= MAXOPBLOCKS
          BY <5>1, <4>3
        <5> QED
          BY <5>2, <4>1, <1>5
      <4> QED
        BY <4>2, <4>4
    <3>3. /\ Room' \subseteq Room \ {x}
          /\ IsFiniteSet(Room \ {x})
          /\ Cardinality(Room \ {x}) = Cardinality(Room) - 1
      BY Zenon, <3>2, <2>1, <1>6, FS_RemoveElement
    <3>4. Cardinality(Room') <= Cardinality(Room) - 1
      BY Zenon, <3>3, FS_Subset
    <3> QED
      BY SMTT(30), <3>4, <2>3, <1>2, <1>3, <1>6 DEF Reserved
  <2> QED
    BY <2>2, <2>3
<1> QED
  BY <1>1, <1>3, <1>4, <1>5, <1>8 DEF Reserved

\* end_op() gives back what its operation did not use.
LEMMA FewerReserved ==
  ASSUME TypeOK, Reserved, InOp' \subseteq InOp, lh' = lh,
         \A u \in Thread : touched'[u] = IF u \in InOp \ InOp' THEN {} ELSE touched[u]
  PROVE  Reserved'
<1>1. IsFiniteSet({}) /\ Cardinality({}) = 0
  BY FS_EmptySet
<1>2. InOp \subseteq Thread /\ Len(lh) \in Nat /\ Logged' = Logged
  BY DEF InOp, TypeOK, Logged
<1>3. Room' \subseteq Room
  BY <1>2 DEF Room
<1>4. IsFiniteSet(Room) /\ Cardinality(Room) \in Nat
  BY Zenon, <1>2, RoomBounded DEF Room
<1>5. Cardinality(Room') \in Nat /\ Cardinality(Room') <= Cardinality(Room)
  BY <1>3, <1>4, FS_Subset, FS_CardinalityType
<1>6. Len(lh') + Cardinality(Room') <= LOGBLOCKS
  BY <1>2, <1>4, <1>5 DEF Reserved
<1> QED
  BY <1>1, <1>2, <1>6 DEF Reserved

\* Every step keeps it.
LEMMA NextReserved ==
  ASSUME LogInv, LogInv', Reserved, [Next]_vars
  PROVE  Reserved'
<1>1. /\ TypeOK /\ Counted /\ Counted' /\ pc \in [Thread -> PCs]
      /\ lh' \in Seq(Block) /\ Len(lh') <= LOGBLOCKS
  BY Zenon DEF LogInv, TypeOK
<1>2. ASSUME InOp' = InOp, lh' = lh, touched' = touched PROVE Reserved'
  BY Zenon, <1>1, <1>2, FewerReserved
<1>3. ASSUME InOp = {}, InOp' = {}, touched' = touched PROVE Reserved'
  BY Zenon, <1>1, <1>3, NothingReserved DEF Reserved
<1>4. ASSUME NEW t \in Thread, Step(t) PROVE Reserved'
  <2>1. CASE BeginOp(t)
    <3>1. CASE pc'[t] = "in"
      BY <1>1, <2>1, <3>1, BeginReserves
    <3>2. CASE pc'[t] # "in"
      <4>1. pc' = [pc EXCEPT ![t] = "asleep"] /\ lh' = lh /\ touched' = touched /\ pc[t] # "in"
        BY <1>1, <2>1, <3>2 DEF BeginOp
      <4>2. InOp' = InOp
        BY <1>1, <4>1 DEF InOp
      <4> QED
        BY <1>2, <4>1, <4>2
    <3> QED
      BY <3>1, <3>2
  <2>2. CASE \E b \in Block, v \in Val : LogWrite(t, b, v)
    BY Zenon, <1>1, <2>2, WriteReserves
  <2>3. CASE EndOp(t)
    <3>1. lh' = lh /\ touched' = [touched EXCEPT ![t] = {}] /\ pc[t] = "in"
      BY Zenon, <2>3 DEF EndOp
    <3>2. \A u \in Thread : pc'[u] = "in" <=> pc[u] = "in" /\ u # t
      BY Zenon, <1>1, <2>3 DEF EndOp, Woken
    <3>3. InOp' = InOp \ {t} /\ t \in InOp
      BY SMTT(30), <3>1, <3>2 DEF InOp
    <3>4. \A u \in Thread : touched'[u] = IF u \in InOp \ InOp' THEN {} ELSE touched[u]
      BY <1>1, <3>1, <3>3 DEF TypeOK
    <3> QED
      BY <1>1, <3>1, <3>3, <3>4, FewerReserved
  <2>4. CASE \/ WriteLog(t) \/ WriteHead(t) \/ InstallTrans(t)
             \/ Committed(t) \/ Sync(t) \/ SyncCheck(t) \/ SyncReturn(t)
    <3>1. lh' = lh /\ touched' = touched
      BY Zenon, <2>4
         DEF WriteLog, WriteHead, InstallTrans, Install, Committed, Sync,
         SyncCheck, SyncReturn, logVars
    <3>2. \A u \in Thread : pc'[u] = "in" <=> pc[u] = "in"
      BY Zenon, <1>1, <2>4
         DEF WriteLog, WriteHead, InstallTrans, Install, Committed, Woken,
         Sync, SyncCheck, SyncReturn
    <3>3. InOp' = InOp
      BY Zenon, <3>2 DEF InOp
    <3> QED
      BY <1>2, <3>1, <3>3
  <2>5. CASE EraseHead(t)
    <3>1. outstanding = 0 /\ outstanding' = 0 /\ touched' = touched
      BY Zenon, <1>1, <2>5 DEF EraseHead, Counted, Committing
    <3>2. InOp = {} /\ InOp' = {}
      <4>1. IsFiniteSet(InOp) /\ IsFiniteSet(InOp')
        BY FS_Subset DEF InOp
      <4> QED
        BY <1>1, <3>1, <4>1, FS_EmptySet DEF Counted
    <3> QED
      BY <1>3, <3>1, <3>2
  <2> QED
    BY Zenon, <1>4, <2>1, <2>2, <2>3, <2>4, <2>5 DEF Step
<1>5. CASE Crash
  <2>1. InOp' = {} /\ \A t \in Thread : touched'[t] = {}
    BY <1>5 DEF Crash, InOp
  <2> QED
    BY <1>1, <2>1, NothingReserved
<1>6. CASE ReadHead \/ RecoverErase
  <2>1. mode # "up" /\ pc' = pc /\ touched' = touched
    BY Zenon, <1>6 DEF ReadHead, RecoverErase
  <2>2. InOp = {} /\ InOp' = {}
    BY <2>1 DEF InOp, LogInv, DataInv, DownInv
  <2> QED
    BY <1>3, <2>1, <2>2
<1>7. CASE RecoverInstall \/ UNCHANGED vars
  <2>1. UNCHANGED <<pc, lh, touched>>
    BY Zenon, <1>7 DEF RecoverInstall, Install, vars, logVars
  <2> QED
    BY <1>2, <2>1 DEF InOp
<1> QED
  BY Zenon, <1>4, <1>5, <1>6, <1>7 DEF Next

\* begin_op() reserves enough: when every operation logs fewer blocks than
\* MAXOPBLOCKS, log_write() never finds the log full and never panics, whatever
\* the operations, the commits and the crashes in between.
THEOREM LogNeverFull ==
  ASSUME OpBlocks < MAXOPBLOCKS PROVE Spec => []NoPanic
<1>1. Init => Reserved
  <2> SUFFICES ASSUME Init PROVE Reserved
    OBVIOUS
  <2>1. InOp = {} /\ Room = {} /\ lh = <<>> /\ \A t \in Thread : touched[t] = {}
    BY DEF Init, InOp, Room
  <2>2. IsFiniteSet({}) /\ Cardinality({}) = 0
    BY FS_EmptySet
  <2>3. \A t \in Thread : IsFiniteSet(touched[t]) /\ Cardinality(touched[t]) = 0
    BY Zenon, <2>1, <2>2
  <2> QED
    BY <2>1, <2>2, <2>3 DEF Reserved
<1>2. LogInv /\ LogInv' /\ Reserved /\ [Next]_vars => Reserved'
  BY NextReserved
<1>3. ASSUME TypeOK, Reserved PROVE NoPanic
  <2> SUFFICES ASSUME NEW t \in Thread, NEW b \in Block, MayWrite(t, b)
               PROVE  Len(lh) < LOGBLOCKS
    BY DEF NoPanic
  <2>1. /\ IsFiniteSet(touched[t]) /\ Cardinality(touched[t]) \in Nat
        /\ Cardinality(touched[t]) < MAXOPBLOCKS
    BY <1>3, FS_CardinalityType DEF Reserved
  <2>2. <<t, 1>> \in Room
    BY <2>1 DEF Room, InOp, MayWrite
  <2>3. IsFiniteSet(Room) /\ Cardinality(Room) \in Nat
    BY Zenon, RoomBounded DEF Room, InOp
  <2>4. Cardinality(Room) # 0
    BY <2>2, <2>3, FS_EmptySet
  <2> QED
    BY <1>3, <2>3, <2>4 DEF Reserved, TypeOK
<1>4. LogInv => TypeOK
  BY DEF LogInv
<1> QED
  BY <1>1, <1>2, <1>3, <1>4, Invariant, PTL DEF Spec
=============================================================================
