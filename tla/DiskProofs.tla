----------------------------- MODULE DiskProofs -----------------------------
\* The counts of Disk: references of a buffer and descriptors of the requests.
\* With them the invariant is complete, and gives what Disk claims: no panic, no
\* lost wakeup, exact counts, and that it implements BlockStore.
EXTENDS DiskDriver, FiniteSetTheorems

\* The threads with a request.
Busy == {t \in Thread : idx[t] # None}

\* The descriptors are three for each request, and a thread that waits for
\* descriptors has too few.
Slots ==
  /\ Cardinality(free) + 3 * Cardinality(Busy) = NUM
  /\ \A t \in Thread : pc[t] = "descwait" => Cardinality(free) < 3

\* The inductive invariant.
IInv == Base /\ RefCounts /\ Slots

-----------------------------------------------------------------------------
(* What is counted *)

\* A buffer has finitely many users.
LEMMA UsersCounted ==
  ASSUME NEW b PROVE /\ IsFiniteSet(UsersOf(b)) /\ Cardinality(UsersOf(b)) \in Nat
                     /\ Cardinality(UsersOf(b)) = 0 <=> UsersOf(b) = {}
<1>1. IsFiniteSet(UsersOf(b))
  BY DiskAssumption, FS_Subset DEF UsersOf
<1> QED
  BY <1>1, FS_CardinalityType, FS_EmptySet

\* What the reference counts are there for.
LEMMA CountedReferenced == ASSUME RefCounts PROVE Referenced
<1> SUFFICES ASSUME NEW b \in Buf, refcnt[b] = 0
             PROVE  blockno[b] \notin pinned /\ UsersOf(b) = {}
  BY DEF Referenced, UsersOf
<1>1. refcnt[b] = Cardinality(UsersOf(b)) + (IF blockno[b] \in pinned THEN 1 ELSE 0)
  BY DEF RefCounts
<1> QED
  BY <1>1, UsersCounted

\* There are finitely many descriptors.
LEMMA DescFinite ==
  ASSUME NEW S, S \subseteq Desc PROVE IsFiniteSet(S) /\ Cardinality(S) \in Nat
<1>1. IsFiniteSet(Desc)
  BY DiskAssumption, FS_Interval DEF Desc
<1> QED
  BY <1>1, FS_Subset, FS_CardinalityType

\* There are finitely many requests.
LEMMA BusyFinite == IsFiniteSet(Busy) /\ Cardinality(Busy) \in Nat
  BY DiskAssumption, FS_Subset, FS_CardinalityType DEF Busy

\* The descriptors of a request are three.
LEMMA RemoveThree ==
  ASSUME NEW S, IsFiniteSet(S), NEW a \in S, NEW b \in S, NEW c \in S, a # b, a # c, b # c
  PROVE  Cardinality(S \ {a, b, c}) = Cardinality(S) - 3
<1> DEFINE T == S \ {a}
           U == T \ {b}
<1>1. IsFiniteSet(T) /\ Cardinality(T) = Cardinality(S) - 1 /\ b \in T /\ Cardinality(S) \in Nat
  BY FS_RemoveElement, FS_CardinalityType
<1> HIDE DEF T
<1>2. IsFiniteSet(U) /\ Cardinality(U) = Cardinality(T) - 1
  BY <1>1, FS_RemoveElement
<1>3. c \in U
  BY DEF T
<1> HIDE DEF U
<1>4. Cardinality(U \ {c}) = Cardinality(U) - 1
  BY <1>2, <1>3, FS_RemoveElement
<1>5. S \ {a, b, c} = U \ {c}
  BY DEF T, U
<1> QED
  BY <1>1, <1>2, <1>4, <1>5

-----------------------------------------------------------------------------
(* The reference counts *)

\* The references stay as they are.
LEMMA SameRefs ==
  ASSUME RefCounts, UNCHANGED <<refcnt, buf, blockno, pinned>> PROVE RefCounts'
  BY Zenon DEF RefCounts, UsersOf

\* bget() finds the block and adds its reference.
LEMMA BgetHitCounted ==
  ASSUME CacheTypes, ThreadTypes, Users, RefCounts,
         NEW t \in Thread, NEW k \in Block, BgetHit(t, k)
  PROVE  RefCounts'
<1>1. PICK b \in Buf : refcnt' = [refcnt EXCEPT ![b] = @ + 1] /\ buf' = [buf EXCEPT ![t] = b]
  BY Zenon DEF BgetHit, Cached
<1>2. buf[t] = None /\ blockno' = blockno /\ pinned' = pinned
  BY Zenon DEF BgetHit, Users
<1>3. UsersOf(b)' = UsersOf(b) \cup {t} /\ t \notin UsersOf(b)
  BY <1>1, <1>2, Nones DEF ThreadTypes, UsersOf
<1>4. Cardinality(UsersOf(b)') = Cardinality(UsersOf(b)) + 1
  BY Zenon, <1>3, UsersCounted, FS_AddElement
<1>5. \A c \in Buf \ {b} : UsersOf(c)' = UsersOf(c)
  BY SMTT(30), <1>1, <1>2, Nones DEF ThreadTypes, UsersOf
<1>6. \A c \in Buf : refcnt'[c] = IF c = b THEN refcnt[c] + 1 ELSE refcnt[c]
  BY <1>1 DEF CacheTypes
<1> QED
  BY SMTT(30), <1>2, <1>4, <1>5, <1>6, UsersCounted DEF RefCounts

\* bget() recycles a buffer without references.
LEMMA BgetMissCounted ==
  ASSUME CacheTypes, ThreadTypes, Cache, Users, RefCounts,
         NEW t \in Thread, NEW k \in Block, BgetMiss(t, k)
  PROVE  RefCounts'
<1>1. PICK b \in Buf : /\ Victim(b) /\ blockno' = [blockno EXCEPT ![b] = k]
                       /\ refcnt' = [refcnt EXCEPT ![b] = 1] /\ buf' = [buf EXCEPT ![t] = b]
  BY Zenon DEF BgetMiss
<1>2. buf[t] = None /\ pinned' = pinned /\ k \notin pinned
  BY Zenon DEF BgetMiss, Users, Cache, Cached
<1>3. \A u \in Thread : buf[u] # b
  BY <1>1, CountedReferenced DEF Referenced, Victim, Unused
<1>4. /\ UsersOf(b)' = {t}
      /\ \A c \in Buf \ {b} : UsersOf(c)' = UsersOf(c)
  BY SMTT(30), <1>1, <1>2, <1>3, Nones DEF ThreadTypes, UsersOf
<1>5. Cardinality(UsersOf(b)') = 1
  BY Zenon, <1>4, FS_Singleton
<1>6. \A c \in Buf : /\ refcnt'[c] = IF c = b THEN 1 ELSE refcnt[c]
                     /\ blockno'[c] = IF c = b THEN k ELSE blockno[c]
  BY <1>1 DEF CacheTypes
<1> QED
  BY SMTT(30), <1>2, <1>4, <1>5, <1>6 DEF RefCounts

\* log_write() pins a buffer once.
LEMMA LogWriteCounted ==
  ASSUME CacheTypes, ThreadTypes, Cache, Users, RefCounts,
         NEW t \in Thread, NEW v \in Val, LogWrite(t, v)
  PROVE  RefCounts'
<1>1. PICK b \in Buf : b = buf[t] /\ blockno[b] \in Block
  BY Zenon, Shape DEF LogWrite
<1>2. /\ refcnt' = [refcnt EXCEPT ![b] = IF blockno[b] \in pinned THEN @ ELSE @ + 1]
      /\ pinned' = pinned \cup {blockno[b]} /\ blockno' = blockno /\ buf' = buf
  BY Zenon, <1>1 DEF LogWrite, BlockOf
<1>3. \A c \in Buf \ {b} : blockno[c] \in pinned' <=> blockno[c] \in pinned
  BY SMTT(30), <1>1, <1>2, Nones DEF Cache
<1>4. \A c \in Buf : refcnt'[c] = IF c = b /\ blockno[b] \notin pinned THEN refcnt[c] + 1
                                  ELSE refcnt[c]
  BY <1>2 DEF CacheTypes
<1>5. \A c \in Buf : UsersOf(c)' = UsersOf(c) /\ Cardinality(UsersOf(c)) \in Nat
  BY Zenon, <1>2, UsersCounted DEF UsersOf
<1> QED
  BY SMTT(30), <1>2, <1>3, <1>4, <1>5 DEF RefCounts

\* bunpin() gives the log's reference up.
LEMMA BunpinCounted ==
  ASSUME CacheTypes, ThreadTypes, Cache, Users, RefCounts, NEW t \in Thread, Bunpin(t)
  PROVE  RefCounts'
<1>1. PICK b \in Buf : b = buf[t] /\ blockno[b] \in Block
  BY Shape DEF Bunpin
<1>2. /\ refcnt' = [refcnt EXCEPT ![b] = @ - 1] /\ blockno[b] \in pinned
      /\ pinned' = pinned \ {blockno[b]} /\ blockno' = blockno /\ buf' = buf
  BY Zenon, <1>1 DEF Bunpin, BlockOf, Users
<1>3. \A c \in Buf \ {b} : blockno[c] \in pinned' <=> blockno[c] \in pinned
  BY SMTT(30), <1>1, <1>2, Nones DEF Cache
<1>4. \A c \in Buf : refcnt'[c] = IF c = b THEN refcnt[c] - 1 ELSE refcnt[c]
  BY <1>2 DEF CacheTypes
<1>5. \A c \in Buf : UsersOf(c)' = UsersOf(c) /\ Cardinality(UsersOf(c)) \in Nat
  BY Zenon, <1>2, UsersCounted DEF UsersOf
<1> QED
  BY SMTT(30), <1>2, <1>3, <1>4, <1>5 DEF RefCounts

\* brelse() gives the thread's reference up.
LEMMA BrelseCounted ==
  ASSUME CacheTypes, ThreadTypes, Users, RefCounts, NEW t \in Thread, Brelse(t)
  PROVE  RefCounts'
<1>1. PICK b \in Buf : b = buf[t]
  BY Shape DEF Brelse
<1>2. /\ refcnt' = [refcnt EXCEPT ![b] = @ - 1] /\ buf' = [buf EXCEPT ![t] = None]
      /\ blockno' = blockno /\ pinned' = pinned
  BY <1>1 DEF Brelse
<1>3. UsersOf(b)' = UsersOf(b) \ {t} /\ t \in UsersOf(b)
  BY SMTT(30), <1>1, <1>2, Nones DEF ThreadTypes, UsersOf
<1>4. Cardinality(UsersOf(b)') = Cardinality(UsersOf(b)) - 1
  BY Zenon, <1>3, UsersCounted, FS_RemoveElement
<1>5. \A c \in Buf \ {b} : UsersOf(c)' = UsersOf(c)
  BY <1>1, <1>2, Nones DEF ThreadTypes, UsersOf
<1>6. \A c \in Buf : refcnt'[c] = IF c = b THEN refcnt[c] - 1 ELSE refcnt[c]
  BY <1>2 DEF CacheTypes
<1> QED
  BY SMTT(30), <1>2, <1>4, <1>5, <1>6, UsersCounted DEF RefCounts

-----------------------------------------------------------------------------
(* The descriptors *)

\* The descriptors stay as they are, and no thread comes to wait for them.
LEMMA SameSlots ==
  ASSUME Slots, UNCHANGED <<free, idx>>,
         \A u \in Thread : pc'[u] = "descwait" => pc[u] = "descwait"
  PROVE  Slots'
  BY Zenon DEF Slots, Busy

\* A request is made.
LEMMA SubmitCounted ==
  ASSUME DriverTypes, ThreadTypes, Requests, Slots, NEW t \in Thread, Submit(t)
  PROVE  Slots'
<1>1. PICK d \in [1 .. 3 -> Desc] :
        /\ Alloc3Desc(d) /\ free' = free \ Range(d) /\ idx' = [idx EXCEPT ![t] = d[1]]
  BY Zenon DEF Submit
<1>2. /\ d[1] \in free /\ d[2] \in free /\ d[3] \in free /\ d[1] # None
      /\ d[1] # d[2] /\ d[1] # d[3] /\ d[2] # d[3]
  <2>1. d \in [1 .. 3 -> free] /\ d[1] < d[2] /\ d[2] < d[3]
    BY <1>1 DEF Alloc3Desc
  <2>2. d[1] \in Int /\ d[2] \in Int /\ d[3] \in Int /\ d[1] # None
    BY Nones DEF Desc
  <2> QED
    BY <2>1, <2>2
<1>3. IsFiniteSet(free) /\ Cardinality(free) \in Nat
  BY DescFinite DEF DriverTypes
<1>4. Cardinality(free') = Cardinality(free) - 3
  <2>1. Range(d) = {d[1], d[2], d[3]}
    BY DEF Range
  <2>2. Cardinality(free \ {d[1], d[2], d[3]}) = Cardinality(free) - 3
    BY <1>2, <1>3, RemoveThree
  <2> QED
    BY Zenon, <2>1, <2>2, <1>1
<1>5. Cardinality(Busy') = Cardinality(Busy) + 1
  <2>1. Busy' = Busy \cup {t} /\ t \notin Busy
    BY SMTT(30), <1>1, <1>2 DEF Submit, ThreadTypes, Requests, Busy
  <2> QED
    BY Zenon, <2>1, BusyFinite, FS_AddElement
<1>6. \A u \in Thread : pc'[u] = "descwait" => pc[u] = "descwait"
  BY DEF Submit, ThreadTypes
<1> QED
  BY SMTT(30), <1>3, <1>4, <1>5, <1>6, BusyFinite DEF Slots

\* A thread waits only when there are too few descriptors.
LEMMA NoDescriptorsCounted ==
  ASSUME ThreadTypes, Slots, NEW t \in Thread, NoDescriptors(t)
  PROVE  Slots'
<1>1. /\ Cardinality(free) < 3 /\ free' = free /\ idx' = idx
  BY DEF NoDescriptors, descVars
<1> QED
  BY Zenon, <1>1 DEF Slots, Busy

\* A request ends: its three descriptors are free, and the waiters are woken.
LEMMA FinishCounted ==
  ASSUME CacheTypes, DriverTypes, ThreadTypes, Users, Requests, Chains, Slots, DriverTypes',
         NEW t \in Thread, Finish(t)
  PROVE  Slots'
<1>1. idx[t] # None /\ idx' = [idx EXCEPT ![t] = None] /\ free' = free \cup Range(chain[idx[t]])
  BY Zenon DEF Finish, FreeChain, Requests
<1>2. PICK c \in [1 .. 3 -> Desc \ free] : c = chain[idx[t]] /\ IsInjective(c)
  BY Zenon, <1>1 DEF Chains
<1>3. Cardinality(free) = Cardinality(free') - 3
  <2>1. Range(c) = {c[1], c[2], c[3]} /\ c[1] # c[2] /\ c[1] # c[3] /\ c[2] # c[3]
    BY <1>2 DEF Range, IsInjective
  <2>2. free' = free \cup {c[1], c[2], c[3]}
    BY Zenon, <2>1, <1>1, <1>2
  <2>3. free = free' \ {c[1], c[2], c[3]} /\ c[1] \in free' /\ c[2] \in free' /\ c[3] \in free'
    BY <2>2
  <2>4. IsFiniteSet(free')
    BY DescFinite DEF DriverTypes
  <2>5. Cardinality(free' \ {c[1], c[2], c[3]}) = Cardinality(free') - 3
    BY SMTT(30), <2>1, <2>3, <2>4, RemoveThree
  <2> QED
    BY Zenon, <2>3, <2>5
<1>4. Cardinality(Busy') = Cardinality(Busy) - 1
  <2>1. Busy' = Busy \ {t} /\ t \in Busy
    BY <1>1 DEF ThreadTypes, Busy
  <2> QED
    BY Zenon, <2>1, BusyFinite, FS_RemoveElement
<1>5. \A u \in Thread : pc'[u] # "descwait"
  BY Zenon DEF Finish, ThreadTypes, Wake, DescWaiters, Transferred
<1>6. Cardinality(free) \in Nat /\ Cardinality(free') \in Nat
  BY DescFinite DEF DriverTypes
<1> QED
  BY SMTT(30), <1>3, <1>4, <1>5, <1>6, BusyFinite DEF Slots

-----------------------------------------------------------------------------
(* The invariant *)

\* It holds when the kernel has started.
LEMMA InitOk == Init => IInv
<1> SUFFICES ASSUME Init PROVE IInv
  OBVIOUS
<1>1. TypeOK
  <2>1. CacheTypes
    BY DiskAssumption DEF Init, Binit, CacheTypes, Buf
  <2>2. DriverTypes
    BY DEF Init, VirtioDiskInit, DriverTypes
  <2> QED
    BY SMTT(30), <2>1, <2>2 DEF Init, TypeOK, ThreadTypes, PCs
<1>2. Cache
  <2>1. ASSUME NEW b \in Buf PROVE \E i \in 1 .. NBUF : lru[i] = b
    <3>1. NBUF - b \in 1 .. NBUF /\ lru[NBUF - b] = b
      BY DiskAssumption DEF Init, Binit, Buf
    <3> QED
      BY <3>1
  <2> QED
    BY SMTT(30), <2>1 DEF Init, Binit, Cache
<1>3. Users /\ Locks
  BY SMTT(30), Nones DEF Init, Binit, Users, Locks, Holding
<1>4. Requests /\ Chains
  BY DEF Init, Binit, VirtioDiskInit, Requests, Chains
<1>5. Queues
  BY DEF Init, VirtioDiskInit, Queues, Asked, Range, IsInjective
<1>6. Clean
  BY DEF Init, Binit, Clean, Arrived
<1>7. RefCounts
  <2>1. \A b \in Buf : UsersOf(b) = {} /\ refcnt[b] = 0 /\ blockno[b] \notin pinned
    BY Nones DEF Init, Binit, UsersOf
  <2>2. \A b \in Buf : Cardinality(UsersOf(b)) = 0
    BY Zenon, <2>1, UsersCounted
  <2> QED
    BY SMTT(30), <2>1, <2>2 DEF RefCounts
<1>8. Slots
  <2>1. Busy = {} /\ free = 0 .. NUM - 1 /\ \A t \in Thread : pc[t] # "descwait"
    BY DEF Init, VirtioDiskInit, Busy, Desc
  <2>2. Cardinality(0 .. NUM - 1) = NUM
    BY DiskAssumption, FS_Interval
  <2>3. Cardinality({}) = 0
    BY SMTT(30), FS_EmptySet
  <2> QED
    BY SMTT(30), <2>1, <2>2, <2>3, DiskAssumption DEF Slots
<1> QED
  BY SMTT(30), <1>1, <1>2, <1>3, <1>4, <1>5, <1>6, <1>7, <1>8 DEF IInv, Base

\* The steps after which the references are the same.
LEMMA OtherRefs ==
  ASSUME RefCounts,
         \/ UNCHANGED vars \/ Device \/ Handler
         \/ \E t \in Thread : \/ \E v \in Val : Bwrite(t, v)
                              \/ Install(t) \/ Acquiresleep(t) \/ Releasesleep(t)
                              \/ Submit(t) \/ NoDescriptors(t) \/ Finish(t)
  PROVE  RefCounts'
<1>1. UNCHANGED <<refcnt, buf, blockno, pinned>>
  BY Zenon
     DEF vars, cacheVars, Device, Complete, Handler, IntrAck, IntrOne, IntrEnd,
         Bwrite, Install,
         Acquiresleep, Releasesleep, Submit, NoDescriptors, Finish
<1> QED
  BY SMTT(30), <1>1, SameRefs

\* Every step keeps the reference counts.
LEMMA RefsKept == ASSUME Base, RefCounts, [Next]_vars PROVE RefCounts'
<1>1. CacheTypes /\ ThreadTypes /\ Cache /\ Users
  BY DEF Base, TypeOK
<1>2. CASE \E t \in Thread : User(t) \/ Progress(t)
  BY Zenon, <1>1, <1>2, OtherRefs, BgetHitCounted, BgetMissCounted, LogWriteCounted,
     BunpinCounted, BrelseCounted DEF User, Progress
<1> QED
  BY Zenon, <1>2, OtherRefs DEF Next

\* The steps after which the descriptors are the same.
LEMMA OtherSlots ==
  ASSUME ThreadTypes, Slots,
         \/ UNCHANGED vars \/ Device \/ Handler
         \/ \E t \in Thread : User(t) \/ Acquiresleep(t) \/ Bunpin(t) \/ Releasesleep(t) \/ Brelse(t)
  PROVE  Slots'
<1>1. CASE UNCHANGED vars \/ Device \/ Handler
  <2>1. UNCHANGED <<free, idx>>
    BY Zenon, <1>1
       DEF vars, descVars, Device, Complete, Handler, IntrAck, IntrOne, IntrEnd
  <2>2. \A u \in Thread : pc'[u] = "descwait" => pc[u] = "descwait"
    BY Zenon, <1>1
       DEF ThreadTypes, vars, Device, Complete, Handler, IntrAck, IntrOne, IntrEnd,
           Wake,
                DiskWaiters
  <2> QED
    BY SMTT(30), <2>1, <2>2, SameSlots
<1>2. ASSUME NEW t \in Thread,
             User(t) \/ Acquiresleep(t) \/ Bunpin(t) \/ Releasesleep(t) \/ Brelse(t)
      PROVE  Slots'
  <2>1. UNCHANGED <<free, idx>>
    BY Zenon, <1>2
       DEF User, BgetHit, BgetMiss, LogWrite, Bwrite, Install, Acquiresleep, Bunpin,
                Releasesleep, Brelse, descVars
  <2>2. CASE User(t) \/ Acquiresleep(t) \/ Bunpin(t) \/ Brelse(t)
    <3>1. \E l \in PCs \ {"descwait"} : pc' = [pc EXCEPT ![t] = l]
      BY Zenon, <2>2
         DEF User, BgetHit, BgetMiss, LogWrite, Bwrite, Install, Acquiresleep,
             Bunpin,
                  Brelse, PCs
    <3> QED
      BY SMTT(30), <2>1, <3>1, SameSlots DEF ThreadTypes
  <2>3. CASE Releasesleep(t)
    <3>1. \A u \in Thread : pc'[u] = "descwait" => pc[u] = "descwait"
      BY Zenon, <2>3 DEF Releasesleep, ThreadTypes, Wake, LockWaiters
    <3> QED
      BY SMTT(30), <2>1, <3>1, SameSlots
  <2> QED
    BY SMTT(30), <1>2, <2>2, <2>3
<1> QED
  BY SMTT(30), <1>1, <1>2

\* Every step keeps the counts of descriptors.
LEMMA SlotsKept == ASSUME Base, DriverTypes', Slots, [Next]_vars PROVE Slots'
<1>1. CacheTypes /\ DriverTypes /\ ThreadTypes /\ Users /\ Requests /\ Chains
  BY DEF Base, TypeOK
<1> QED
  BY Zenon, <1>1, OtherSlots, SubmitCounted, NoDescriptorsCounted, FinishCounted
     DEF Next, Progress

\* The invariant holds.
THEOREM Invariant == Spec => []IInv
<1>1. ASSUME IInv, [Next]_vars PROVE IInv'
  <2>1. Base' /\ RefCounts'
    BY Zenon, <1>1, StepKept, CountedReferenced, RefsKept DEF IInv
  <2>2. Slots'
    BY Zenon, <1>1, <2>1, SlotsKept DEF IInv, Base, TypeOK
  <2> QED
    BY <2>1, <2>2 DEF IInv
<1> QED
  BY <1>1, InitOk, PTL DEF Spec

-----------------------------------------------------------------------------
(* What the invariant says *)

\* bget() finds a buffer: were all in use, they would hold NBUF blocks, and the
\* block asked for would be one more than the file system may use.
LEMMA BufferFound ==
  ASSUME Base, RefCounts, NEW k \in Block, MayUse(k), Cached(k) = {} PROVE Unused # {}
<1> SUFFICES ASSUME Unused = {} PROVE FALSE
  OBVIOUS
<1> DEFINE K == {blockno[b] : b \in Buf}
<1>1. CacheTypes /\ ThreadTypes /\ Cache /\ Users
  BY DEF Base, TypeOK
<1>2. ASSUME NEW b \in Buf PROVE blockno[b] \in InUse /\ blockno[b] # None
  <2>1. refcnt[b] # 0
    BY <1>1 DEF Unused, Cache
  <2>2. Cardinality(UsersOf(b)) # 0 \/ blockno[b] \in pinned
    BY SMTT(30), <2>1 DEF RefCounts
  <2>3. CASE blockno[b] \in pinned
    BY SMTT(30), <2>3, <1>1, Nones DEF InUse, ThreadTypes
  <2>4. ASSUME NEW t \in Thread, buf[t] = b PROVE blockno[b] \in InUse /\ blockno[b] # None
    BY SMTT(30), <2>4, <1>1, Nones DEF InUse, BlockOf, Users
  <2>5. (\E t \in Thread : buf[t] = b) \/ blockno[b] \in pinned
    BY Zenon, <2>2, UsersCounted DEF UsersOf
  <2> QED
    BY Zenon, <2>3, <2>4, <2>5
<1>3. \A x \in InUse : x \in K
  BY SMTT(30), <1>1 DEF InUse, BlockOf, Cache, ThreadTypes
<1>4. InUse = K
  BY SMTT(30), <1>2, <1>3
<1>5. [b \in Buf |-> blockno[b]] \in Bijection(Buf, K)
  BY SMTT(30), <1>1, <1>2 DEF Cache, Bijection, Injection, Surjection, IsInjective
<1>6. IsFiniteSet(Buf) /\ Cardinality(Buf) = NBUF /\ NBUF \in Nat
  BY SMTT(30), DiskAssumption, FS_Interval DEF Buf
<1>7. IsFiniteSet(K) /\ Cardinality(K) = NBUF
  BY SMTT(30), <1>5, <1>6, FS_Bijection DEF ExistsBijection
<1>8. k \notin K
  BY DEF Cached
<1>9. Cardinality(K \cup {k}) = NBUF + 1
  BY Zenon, <1>7, <1>8, FS_AddElement
<1>10. Cardinality(K \cup {k}) <= NBUF
  BY Zenon, <1>4 DEF MayUse
<1> QED
  BY SMTT(30), <1>6, <1>9, <1>10

\* No panic is reached.
LEMMA PanicFree == ASSUME Base, RefCounts PROVE NoPanic
<1>1. DriverTypes /\ CacheTypes /\ ThreadTypes /\ Users /\ Chains /\ Queues /\ Requests
  BY SMTT(30) DEF Base, TypeOK
<1>2. ASSUME used # <<>> PROVE status[Head(used)] = 0 /\ info[Head(used)] # None
  <2>1. Head(used) \in Range(used)
    BY SMTT(30), <1>1, <1>2, TakenFirst DEF DriverTypes, Queues
  <2>2. PICK t \in Thread : pc[t] = "diskwait" /\ idx[t] = Head(used)
    BY SMTT(30), <2>1, <1>1 DEF Queues
  <2>3. buf[t] \in Buf /\ info[idx[t]] = buf[t]
    BY SMTT(30), <2>2, <1>1, Shape DEF Requests
  <2> QED
    BY SMTT(30), <2>1, <2>2, <2>3, <1>1, Nones DEF Queues
<1> QED
  BY Zenon, <1>1, <1>2, BufferFound, ChainTaken DEF NoPanic

\* A buffer that differs from the disk has a reference.
LEMMA DirtyKept == ASSUME Clean, Referenced PROVE EvictableIsClean
  BY DEF EvictableIsClean, Clean, Referenced

\* A descriptor that is not free belongs to a request.
LEMMA DescriptorsKept == ASSUME Chains, Slots PROVE DescriptorsOwned
<1>1. \A t \in Busy : Range(chain[idx[t]]) \subseteq Desc \ free
  <2> SUFFICES ASSUME NEW t \in Busy PROVE Range(chain[idx[t]]) \subseteq Desc \ free
    OBVIOUS
  <2>1. chain[idx[t]] \in [1 .. 3 -> Desc \ free]
    BY Zenon DEF Busy, Chains
  <2> QED
    BY <2>1 DEF Range
<1>2. \A d \in Desc \ free : \E t \in Busy : d \in Range(chain[idx[t]])
  BY Zenon DEF Busy, Chains
<1>3. Desc \ free = UNION {Range(chain[idx[t]]) : t \in Busy}
  BY SMTT(30), <1>1, <1>2
<1> QED
  BY <1>3 DEF DescriptorsOwned, Slots, Busy

\* As many requests as threads that wait for one.
LEMMA RequestsCounted == ASSUME Base PROVE RequestTracked
<1> DEFINE mine == {idx[t] : t \in {u \in Thread : idx[u] # None /\ owned[buf[u]] = 1}}
<1>1. DriverTypes /\ CacheTypes /\ ThreadTypes /\ Users /\ Locks /\ Requests /\ Queues
  BY SMTT(30) DEF Base, TypeOK
<1>2. \A t \in Thread : idx[t] # None /\ owned[buf[t]] = 1 <=> pc[t] = "diskwait"
  BY SMTT(30), <1>1, Shape, OneHolder DEF Requests, Holding
<1>3. Asked \cup Range(used) = mine
  <2>1. \A d \in Asked \cup Range(used) : d \in mine
    BY SMTT(30), <1>1, <1>2 DEF Queues, Asked
  <2>2. \A d \in mine : d \in Asked \cup Range(used)
    BY SMTT(30), <1>1, <1>2 DEF Queues
  <2> QED
    BY SMTT(30), <2>1, <2>2
<1>4. Asked \cap Range(used) = {}
  BY <1>1 DEF Queues, Asked
<1>5. Cardinality(Range(used)) = Len(used)
  <2>1. used \in Seq(Desc) /\ IsInjective(used)
    BY <1>1 DEF DriverTypes, Queues
  <2>2. Len(used) \in Nat /\ DOMAIN used = 1 .. Len(used) /\ used \in [1 .. Len(used) -> Range(used)]
    BY <2>1 DEF Range
  <2>3. used \in Bijection(1 .. Len(used), Range(used))
    BY <2>1, <2>2 DEF Bijection, Injection, Surjection, IsInjective, Range
  <2> QED
    BY SMTT(30), <2>2, <2>3, FS_CountingElements DEF ExistsBijection
<1>6. Cardinality(Asked) + Len(used) = Cardinality(mine)
  <2>1. Asked \subseteq Desc /\ Range(used) \subseteq Desc
    BY <1>1 DEF DriverTypes, Asked, Range
  <2>2. /\ IsFiniteSet(Asked) /\ Cardinality(Asked) \in Nat
        /\ IsFiniteSet(Range(used)) /\ Cardinality(Range(used)) \in Nat
    BY SMTT(30), <2>1, DescFinite
  <2>3. Cardinality(Asked \cup Range(used)) =
          Cardinality(Asked) + Cardinality(Range(used)) - Cardinality(Asked \cap Range(used))
    BY <2>2, FS_Union
  <2>4. Cardinality(Asked \cap Range(used)) = 0
    BY Zenon, <1>4, FS_EmptySet
  <2>5. Cardinality(Asked) + Len(used) = Cardinality(Asked \cup Range(used))
    BY SMTT(30), <1>5, <2>2, <2>3, <2>4
  <2> QED
    BY Zenon, <1>3, <2>5
<1> QED
  BY SMTT(30), <1>1, <1>3, <1>6 DEF RequestTracked, Asked, Queues

\* The cache and the driver stay consistent and reach no panic: at every step the
\* panics of bget(), free_desc() and virtio_disk_intr() are out of reach, the
\* reference counts are exact, a buffer that may be recycled holds nothing the
\* disk does not have, and every descriptor and request is accounted for.
THEOREM DiskSafe == Spec => []DiskInv
<1>1. IInv => DiskInv
  <2> SUFFICES ASSUME IInv PROVE DiskInv
    OBVIOUS
  <2>1. Base /\ RefCounts /\ Slots /\ TypeOK /\ Clean /\ Chains
    BY SMTT(30) DEF IInv, Base
  <2> QED
    BY Zenon, <2>1, PanicFree, CountedReferenced, DirtyKept, DescriptorsKept,
       RequestsCounted
    DEF DiskInv
<1> QED
  BY <1>1, Invariant, PTL

\* No wakeup is lost: a thread that sleeps in acquiresleep(), in alloc3_desc()'s
\* loop or for its request still has to wait for what it waits for.
THEOREM NoLostWakeup == Spec => []WaitsForCause
<1>1. IInv => WaitsForCause
  BY Zenon DEF WaitsForCause, IInv, Base, Locks, Requests, Slots
<1> QED
  BY <1>1, Invariant, PTL

\* The store starts as the disk.
LEMMA InitRefines == ASSUME Init PROVE Store!Init
<1>1. /\ \A k \in Block : Content(k) = platter[k] /\ Holder(k) = None
      /\ platter \in [Block -> Val]
  BY DEF Init, Binit, Content, Holder, Copies
<1> QED
  BY <1>1 DEF Store!Init

\* The cache and the driver implement BlockStore: every block has one content,
\* which only the thread between bread() and brelse() of it changes, and the disk
\* gets only what its holder writes.
THEOREM Refinement == Spec => ImplementsBlockStore
<1>1. ASSUME IInv, MapsTo, MapsTo', [Next]_vars PROVE StoreStep
  BY Zenon, <1>1, StepRefines, CountedReferenced DEF IInv
<1>2. IInv => MapsTo
  BY Mapped DEF IInv
<1> QED
  BY <1>1, <1>2, InitRefines, Invariant, PTL
  DEF Spec, ImplementsBlockStore, Store!Spec, StoreStep
=============================================================================
