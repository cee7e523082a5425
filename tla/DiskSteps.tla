----------------------------- MODULE DiskSteps -----------------------------
\* The invariant of Disk without its counts, and what the steps of the cache, the
\* transfer of a block and the descriptors do to it. Base is inductive as long as
\* a buffer without references is unused (Referenced), which DiskProofs gets from
\* the counts. A step of the cache does not touch the driver (Aside), and a step
\* of the driver (DiskDriver) touches one request.
\*
\* Leaves that need no arithmetic name Zenon, which is much cheaper there.
EXTENDS Disk, TLAPS

\* Where a thread has the lock of its buffer, and the requests with the device.
Holding == {"rw", "descwait", "wait", "diskwait", "hold", "unpin", "release"}
Asked == {r.head : r \in avail}

\* The list holds every buffer, and no block is cached twice.
Cache ==
  /\ \A b \in Buf : \E i \in 1 .. NBUF : lru[i] = b
  /\ \A a, b \in Buf : blockno[a] = blockno[b] /\ blockno[a] # None => a = b
  /\ \A b \in Buf : blockno[b] = None => valid[b] = 0
  /\ \A k \in pinned : k \in Home /\ \E b \in Buf : blockno[b] = k /\ valid[b] = 1

\* A thread between bget() and brelse() has a buffer that holds its block.
Users ==
  \A t \in Thread :
    /\ buf[t] = None <=> pc[t] = "idle"
    /\ buf[t] # None => blockno[buf[t]] # None
    /\ pc[t] \in {"hold", "unpin", "release"} => valid[buf[t]] = 1
    /\ pc[t] = "unpin" => BlockOf(t) \in pinned

\* A sleep lock is held by the thread that is in its section, and by no other.
Locks ==
  \A t \in Thread :
    /\ \A b \in Buf : locked[b] = t <=> pc[t] \in Holding /\ buf[t] = b
    /\ pc[t] = "lockwait" => locked[buf[t]] # None

\* Who has a request: a thread waits for the buffer that the disk owns.
Requests ==
  /\ \A t \in Thread : /\ idx[t] # None <=> pc[t] = "wait" \/ pc[t] = "diskwait"
                       /\ pc[t] = "diskwait" => owned[buf[t]] = 1
                       /\ idx[t] # None => info[idx[t]] = buf[t]
  /\ \A b \in Buf : owned[b] = 1 => \E t \in Thread : buf[t] = b /\ pc[t] = "diskwait"

\* What a request has: three descriptors of its own, and no others are in use.
Chains ==
  /\ \A t \in Thread : idx[t] # None =>
       /\ chain[idx[t]] \in [1 .. 3 -> Desc \ free] /\ IsInjective(chain[idx[t]])
       /\ chain[idx[t]][1] = idx[t]
  /\ \A t, u \in Thread : idx[t] # None /\ idx[u] # None /\ t # u =>
       Range(chain[idx[t]]) \cap Range(chain[idx[u]]) = {}
  /\ \A d \in Desc \ free : \E t \in Thread : idx[t] # None /\ d \in Range(chain[idx[t]])

\* The requests with the device and those it has completed.
Queues ==
  /\ \A r \in avail :
       /\ r.head \notin Range(used)
       /\ \E t \in Thread : pc[t] = "diskwait" /\ idx[t] = r.head /\ r.write = valid[buf[t]]
  /\ \A d \in Range(used) : status[d] = 0 /\ \E t \in Thread : pc[t] = "diskwait" /\ idx[t] = d
  /\ IsInjective(used)
  /\ \A t \in Thread : pc[t] = "diskwait" => idx[t] \in Asked \cup Range(used)
  /\ used # <<>> => irq = 1 \/ handler = 1

\* What differs from the disk is pinned, or on its way there.
Pending(t) == pc[t] \in {"rw", "descwait"} \/ (pc[t] = "diskwait" /\ idx[t] \in Asked)
Arrived(t) == pc[t] \in {"wait", "unpin"} \/ (pc[t] = "diskwait" /\ idx[t] \notin Asked)
Clean ==
  /\ \A b \in Buf : valid[b] = 1 /\ data[b] # platter[blockno[b]] =>
       blockno[b] \in pinned \/ \E t \in Thread : buf[t] = b /\ Pending(t)
  /\ \A t \in Thread : Arrived(t) => data[buf[t]] = platter[BlockOf(t)]

\* What holds of the cache and the driver without counting.
Base == TypeOK /\ Cache /\ Users /\ Locks /\ Requests /\ Chains /\ Queues /\ Clean

\* What the reference counts are there for.
Referenced ==
  \A b \in Buf : refcnt[b] = 0 =>
    blockno[b] \notin pinned /\ \A t \in Thread : buf[t] # b

-----------------------------------------------------------------------------
\* The value None is no thread, block, buffer or descriptor.
LEMMA Nones == None \notin Thread /\ None \notin Block /\ None \notin Buf /\ None \notin Desc
  BY DiskAssumption DEF Buf, Desc

\* What a thread that is not idle has.
LEMMA Shape ==
  ASSUME CacheTypes, ThreadTypes, Users, NEW u \in Thread, pc[u] # "idle"
  PROVE  buf[u] \in Buf /\ blockno[buf[u]] \in Block
  BY DEF CacheTypes, ThreadTypes, Users

\* Two threads do not hold one lock.
LEMMA OneHolder ==
  ASSUME Locks, NEW t \in Thread, NEW u \in Thread, NEW b \in Buf,
         pc[t] \in Holding, pc[u] \in Holding, buf[t] = b, buf[u] = b
  PROVE  t = u
  BY DEF Locks

\* Two threads do not have one request.
LEMMA OneRequest ==
  ASSUME Chains, NEW t \in Thread, NEW u \in Thread, idx[t] # None, idx[t] = idx[u]
  PROVE  t = u
<1>1. chain[idx[t]] \in [1 .. 3 -> Desc \ free]
  BY Zenon DEF Chains
<1>2. chain[idx[t]][1] \in Range(chain[idx[t]])
  BY <1>1 DEF Range
<1> QED
  BY Zenon, <1>2 DEF Chains

-----------------------------------------------------------------------------
(* What a step leaves as it is. *)

\* A step outside the driver: the requests and their threads stay as they are.
Aside ==
  /\ UNCHANGED <<owned, descVars, deviceVars, handler, idx>>
  /\ \A u \in Thread :
       pc[u] \in {"wait", "diskwait"} \/ pc'[u] \in {"wait", "diskwait"} =>
         pc'[u] = pc[u] /\ buf'[u] = buf[u] /\ valid'[buf[u]] = valid[buf[u]]

\* The requests stay the same ones.
LEMMA SameChains == ASSUME Chains, UNCHANGED <<idx, chain, free>> PROVE Chains'
  BY Zenon DEF Chains

\* Such a step keeps what is said of the driver.
LEMMA AsideKept ==
  ASSUME DriverTypes, Requests, Chains, Queues, Aside
  PROVE  DriverTypes' /\ Requests' /\ Chains' /\ Queues'
<1>1. DriverTypes'
  BY Zenon DEF DriverTypes, Aside, descVars, deviceVars
<1>2. Requests'
  BY DEF Requests, Aside, descVars
<1>3. Chains'
  BY Zenon, SameChains DEF Aside, descVars
<1>4. Queues'
  BY DEF Queues, Asked, Aside, deviceVars
<1> QED
  BY <1>1, <1>2, <1>3, <1>4

\* The buffers hold the same blocks.
LEMMA SameCache == ASSUME Cache, UNCHANGED <<lru, blockno, valid, pinned>> PROVE Cache'
  BY DEF Cache

\* No thread that has a change on its way to the disk drops it, and no thread
\* comes to rely on what the disk has.
LEMMA SameClean ==
  ASSUME Clean, UNCHANGED <<valid, data, blockno, platter, pinned>>,
         \A u \in Thread : /\ Pending(u) => Pending(u)' /\ buf'[u] = buf[u]
                           /\ Arrived(u)' => Arrived(u) /\ buf'[u] = buf[u]
  PROVE  Clean'
  BY DEF Clean, BlockOf

\* The threads that hold a lock stay the same ones, and none goes to sleep on one.
LEMMA SameLocks ==
  ASSUME Locks, UNCHANGED <<buf, locked>>,
         \A u \in Thread : /\ pc'[u] \in Holding <=> pc[u] \in Holding
                           /\ pc'[u] = "lockwait" => pc[u] = "lockwait"
  PROVE  Locks'
  BY DEF Locks

-----------------------------------------------------------------------------
(* What the holder of a buffer does with it. *)

\* A step of a thread that holds the lock of its buffer and has no request.
Inside ==
  /\ UNCHANGED <<blockno, valid, lru, locked, owned, descVars, deviceVars, handler, buf, idx>>
  /\ pc' \in [Thread -> PCs]
  /\ \A u \in Thread : \/ pc'[u] = pc[u]
                       \/ pc[u] = "hold" /\ pc'[u] \in {"rw", "release"}
                       \/ pc[u] = "unpin" /\ pc'[u] = "release"
                       \/ {pc[u], pc'[u]} \subseteq {"rw", "descwait"}

\* Such a step keeps the locks, and drops no change that is on its way to the disk.
LEMMA InsideKept ==
  ASSUME CacheTypes, ThreadTypes, Users, Locks, Inside,
         data' \in [Buf -> Val], refcnt' \in [Buf -> Nat], pinned' \subseteq Block,
         \A u \in Thread : pc'[u] = "unpin" => blockno[buf[u]] \in pinned'
  PROVE  /\ Aside /\ CacheTypes' /\ ThreadTypes' /\ Users' /\ Locks'
         /\ \A u \in Thread : (Pending(u) => Pending(u)') /\ (Arrived(u)' => Arrived(u))
<1>1. UNCHANGED <<blockno, valid, lru, locked, owned, avail, buf, idx>>
  BY Zenon DEF Inside, deviceVars
<1>2. Aside
  BY Zenon DEF Inside, Aside
<1>3. CacheTypes' /\ ThreadTypes'
  BY Zenon, <1>1 DEF CacheTypes, ThreadTypes, Inside
<1>4. Users'
  BY <1>1 DEF Users, BlockOf, Inside
<1>5. Locks'
  BY Zenon, <1>1, SameLocks DEF Inside, Holding
<1>6. \A u \in Thread : (Pending(u) => Pending(u)') /\ (Arrived(u)' => Arrived(u))
  BY Zenon, <1>1 DEF Inside, Pending, Arrived, Asked
<1> QED
  BY <1>2, <1>3, <1>4, <1>5, <1>6

\* log_write() pins the buffer that it changes.
LEMMA LogWriteKept ==
  ASSUME CacheTypes, ThreadTypes, Cache, Users, Locks, Clean,
         NEW t \in Thread, NEW v \in Val, LogWrite(t, v)
  PROVE  Aside /\ CacheTypes' /\ ThreadTypes' /\ Cache' /\ Users' /\ Locks' /\ Clean'
<1>1. PICK b \in Buf : b = buf[t] /\ pc[t] = "hold" /\ blockno[b] \in Block
  BY Zenon, Shape DEF LogWrite
<1>2. /\ data' = [data EXCEPT ![b] = v] /\ pinned' = pinned \cup {blockno[b]}
      /\ UNCHANGED <<blockno, valid, lru, platter, buf>>
  BY Zenon, <1>1 DEF LogWrite, BlockOf, deviceVars
<1>3. data' \in [Buf -> Val] /\ refcnt' \in [Buf -> Nat] /\ pinned' \subseteq Block
  BY <1>1, <1>2 DEF CacheTypes, ThreadTypes, LogWrite
<1>4. Inside
  BY Zenon DEF LogWrite, ThreadTypes, PCs, Inside
<1>5. \A u \in Thread : pc'[u] = "unpin" => blockno[buf[u]] \in pinned'
  BY Zenon, <1>2 DEF Inside, Users, BlockOf, LogWrite, ThreadTypes
<1>6. /\ Aside /\ CacheTypes' /\ ThreadTypes' /\ Users' /\ Locks'
      /\ \A u \in Thread : (Pending(u) => Pending(u)') /\ (Arrived(u)' => Arrived(u))
  BY Zenon, <1>3, <1>4, <1>5, InsideKept
<1>7. valid[b] = 1 /\ blockno[b] \in Home
  BY Zenon, <1>1 DEF Users, LogWrite, BlockOf
<1>8. Cache'
  BY <1>2, <1>7 DEF Cache
<1>9. Clean'
  <2>1. \A u \in Thread : Arrived(u) => buf[u] \in Buf /\ buf[u] # b
    BY Zenon, <1>1, Shape, OneHolder DEF Arrived, Holding
  <2>2. \A c \in Buf : c # b => data'[c] = data[c]
    BY Zenon, <1>2 DEF CacheTypes
  <2> QED
    BY <2>1, <2>2, <1>2, <1>6 DEF Clean, BlockOf
<1> QED
  BY <1>6, <1>8, <1>9

\* bwrite() in the log's area
LEMMA BwriteKept ==
  ASSUME CacheTypes, ThreadTypes, Cache, Users, Locks, Clean,
         NEW t \in Thread, NEW v \in Val, Bwrite(t, v)
  PROVE  Aside /\ CacheTypes' /\ ThreadTypes' /\ Cache' /\ Users' /\ Locks' /\ Clean'
<1>1. PICK b \in Buf : b = buf[t] /\ pc[t] = "hold"
  BY Zenon, Shape DEF Bwrite
<1>2. /\ data' = [data EXCEPT ![b] = v]
      /\ UNCHANGED <<blockno, valid, refcnt, lru, platter, pinned, buf>>
  BY Zenon, <1>1 DEF Bwrite, deviceVars
<1>3. data' \in [Buf -> Val] /\ refcnt' \in [Buf -> Nat] /\ pinned' \subseteq Block
  BY Zenon, <1>2 DEF CacheTypes, ThreadTypes
<1>4. Inside
  BY Zenon DEF Bwrite, ThreadTypes, PCs, Inside
<1>5. \A u \in Thread : pc'[u] = "unpin" => blockno[buf[u]] \in pinned'
  BY Zenon, <1>2, <1>4 DEF Inside, Users, BlockOf
<1>6. /\ Aside /\ CacheTypes' /\ ThreadTypes' /\ Users' /\ Locks'
      /\ \A u \in Thread : (Pending(u) => Pending(u)') /\ (Arrived(u)' => Arrived(u))
  BY Zenon, <1>3, <1>4, <1>5, InsideKept
<1>7. Cache'
  BY <1>2, SameCache
<1>8. Clean'
  <2>1. \A u \in Thread : Arrived(u) => buf[u] \in Buf /\ buf[u] # b
    BY Zenon, <1>1, Shape, OneHolder DEF Arrived, Holding
  <2>2. \A c \in Buf : c # b => data'[c] = data[c]
    BY Zenon, <1>2 DEF CacheTypes
  <2>3. buf'[t] = b /\ Pending(t)'
    BY Zenon, <1>1, <1>2 DEF Bwrite, ThreadTypes, Pending
  <2> QED
    BY <2>1, <2>2, <2>3, <1>2, <1>6 DEF Clean, BlockOf
<1> QED
  BY <1>6, <1>7, <1>8

\* bwrite() of a pinned block, and the sleep for want of descriptors
LEMMA WaitingKept ==
  ASSUME CacheTypes, ThreadTypes, Cache, Users, Locks, Clean,
         NEW t \in Thread, Install(t) \/ NoDescriptors(t)
  PROVE  Aside /\ CacheTypes' /\ ThreadTypes' /\ Cache' /\ Users' /\ Locks' /\ Clean'
<1>1. UNCHANGED <<blockno, valid, refcnt, data, lru, platter, buf, pinned>>
  BY Zenon DEF Install, NoDescriptors, cacheVars, deviceVars
<1>2. Inside
  <2>1. CASE Install(t)
    BY Zenon, <2>1 DEF Install, cacheVars, ThreadTypes, PCs, Inside
  <2>2. CASE NoDescriptors(t)
    BY Zenon, <2>2
       DEF NoDescriptors, Wake, DescWaiters, cacheVars, ThreadTypes, PCs, Inside
  <2> QED
    BY <2>1, <2>2
<1>3. data' \in [Buf -> Val] /\ refcnt' \in [Buf -> Nat] /\ pinned' \subseteq Block
  BY Zenon, <1>1 DEF CacheTypes, ThreadTypes
<1>4. \A u \in Thread : pc'[u] = "unpin" => blockno[buf[u]] \in pinned'
  BY Zenon, <1>1, <1>2 DEF Inside, Users, BlockOf
<1>5. /\ Aside /\ CacheTypes' /\ ThreadTypes' /\ Users' /\ Locks'
      /\ \A u \in Thread : (Pending(u) => Pending(u)') /\ (Arrived(u)' => Arrived(u))
  BY Zenon, <1>2, <1>3, <1>4, InsideKept
<1> QED
  BY Zenon, <1>1, <1>5, SameCache, SameClean

\* bunpin() lets go of a buffer that the disk has a copy of.
LEMMA BunpinKept ==
  ASSUME CacheTypes, ThreadTypes, Cache, Users, Locks, Clean, Referenced,
         NEW t \in Thread, Bunpin(t)
  PROVE  Aside /\ CacheTypes' /\ ThreadTypes' /\ Cache' /\ Users' /\ Locks' /\ Clean'
<1>1. PICK b \in Buf : b = buf[t] /\ pc[t] = "unpin" /\ blockno[b] \in Block
  BY Zenon, Shape DEF Bunpin
<1>2. /\ refcnt' = [refcnt EXCEPT ![b] = @ - 1] /\ pinned' = pinned \ {blockno[b]}
      /\ UNCHANGED <<blockno, valid, data, lru, platter, buf>>
  BY Zenon, <1>1 DEF Bunpin, BlockOf, deviceVars
<1>3. refcnt[b] \in Nat \ {0}
  BY Zenon, <1>1 DEF CacheTypes, Referenced
<1>4. data' \in [Buf -> Val] /\ refcnt' \in [Buf -> Nat] /\ pinned' \subseteq Block
  BY <1>2, <1>3 DEF CacheTypes, ThreadTypes
<1>5. Inside /\ pc'[t] = "release"
  BY Zenon DEF Bunpin, ThreadTypes, PCs, Inside
<1>6. \A c \in Buf : blockno[c] = blockno[b] => c = b
  BY <1>1, Nones DEF Cache
<1>7. \A u \in Thread : pc'[u] = "unpin" => blockno[buf[u]] \in pinned'
  <2>1. \A u \in Thread : pc'[u] = "unpin" => pc[u] = "unpin" /\ buf[u] \in Buf /\ buf[u] # b
    BY <1>1, <1>5, Shape, OneHolder DEF Inside, Holding
  <2> QED
    BY Zenon, <2>1, <1>2, <1>6 DEF Users, BlockOf
<1>8. /\ Aside /\ CacheTypes' /\ ThreadTypes' /\ Users' /\ Locks'
      /\ \A u \in Thread : (Pending(u) => Pending(u)') /\ (Arrived(u)' => Arrived(u))
  BY Zenon, <1>4, <1>5, <1>7, InsideKept
<1>9. Cache'
  BY Zenon, <1>2 DEF Cache
<1>10. Clean'
  <2>1. data[b] = platter[blockno[b]]
    BY Zenon, <1>1 DEF Clean, Arrived, BlockOf
  <2> QED
    BY Zenon, <2>1, <1>2, <1>6, <1>8 DEF Clean, BlockOf
<1> QED
  BY <1>8, <1>9, <1>10

-----------------------------------------------------------------------------
(* bget(), acquiresleep(), brelse() *)

\* bget() of a block in the cache
LEMMA BgetHitKept ==
  ASSUME CacheTypes, ThreadTypes, Cache, Users, Locks, Clean,
         NEW t \in Thread, NEW k \in Block, BgetHit(t, k)
  PROVE  Aside /\ CacheTypes' /\ ThreadTypes' /\ Cache' /\ Users' /\ Locks' /\ Clean'
<1>1. PICK b \in Buf : /\ blockno[b] = k /\ refcnt' = [refcnt EXCEPT ![b] = @ + 1]
                       /\ buf' = [buf EXCEPT ![t] = b]
  BY Zenon DEF BgetHit, Cached
<1>2. pc[t] = "idle" /\ pc' = [pc EXCEPT ![t] = "lock"]
  BY Zenon DEF BgetHit
<1>3. UNCHANGED <<blockno, valid, data, lru, locked, owned, avail, platter, idx, pinned>>
  BY Zenon DEF BgetHit, deviceVars
<1>4. /\ pc' \in [Thread -> PCs] /\ pc'[t] = "lock"
      /\ buf' \in [Thread -> Buf \cup {None}] /\ buf'[t] = b
      /\ \A u \in Thread \ {t} : pc'[u] = pc[u] /\ buf'[u] = buf[u]
  BY Zenon, <1>1, <1>2 DEF ThreadTypes, PCs
<1>5. Aside
  BY Zenon, <1>2, <1>4 DEF BgetHit, Aside
<1>6. CacheTypes' /\ ThreadTypes'
  BY <1>1, <1>3, <1>4 DEF CacheTypes, ThreadTypes
<1>7. Cache'
  BY <1>3, SameCache
<1>8. Users'
  BY <1>1, <1>3, <1>4, Nones DEF Users, BlockOf
<1>9. Locks'
  BY <1>2, <1>3, <1>4 DEF Locks, Holding
<1>10. Clean'
  <2>1. \A u \in Thread : /\ Pending(u) => Pending(u)' /\ buf'[u] = buf[u]
                          /\ Arrived(u)' => Arrived(u) /\ buf'[u] = buf[u]
    BY Zenon, <1>2, <1>3, <1>4 DEF Pending, Arrived, Asked
  <2> QED
    BY Zenon, <1>3, <2>1, SameClean
<1> QED
  BY <1>5, <1>6, <1>7, <1>8, <1>9, <1>10

\* bget() of another block recycles a buffer that no thread and no pin refers to.
LEMMA BgetMissKept ==
  ASSUME CacheTypes, ThreadTypes, Cache, Users, Locks, Clean, Referenced,
         NEW t \in Thread, NEW k \in Block, BgetMiss(t, k)
  PROVE  Aside /\ CacheTypes' /\ ThreadTypes' /\ Cache' /\ Users' /\ Locks' /\ Clean'
<1>1. PICK b \in Buf : /\ Victim(b) /\ blockno' = [blockno EXCEPT ![b] = k]
                       /\ valid' = [valid EXCEPT ![b] = 0]
                       /\ refcnt' = [refcnt EXCEPT ![b] = 1] /\ buf' = [buf EXCEPT ![t] = b]
  BY Zenon DEF BgetMiss
<1>2. pc[t] = "idle" /\ pc' = [pc EXCEPT ![t] = "lock"] /\ \A c \in Buf : blockno[c] # k
  BY Zenon DEF BgetMiss, Cached
<1>3. UNCHANGED <<data, lru, locked, owned, avail, platter, idx, pinned>>
  BY Zenon DEF BgetMiss, deviceVars
<1>4. blockno[b] \notin pinned /\ \A u \in Thread : buf[u] # b
  BY Zenon, <1>1 DEF Victim, Unused, Referenced
<1>5. /\ pc' \in [Thread -> PCs] /\ pc'[t] = "lock"
      /\ buf' \in [Thread -> Buf \cup {None}] /\ buf'[t] = b
      /\ \A u \in Thread \ {t} : pc'[u] = pc[u] /\ buf'[u] = buf[u]
  BY Zenon, <1>1, <1>2 DEF ThreadTypes, PCs
<1>6. \A c \in Buf : /\ blockno'[c] = IF c = b THEN k ELSE blockno[c]
                     /\ valid'[c] = IF c = b THEN 0 ELSE valid[c]
  BY Zenon, <1>1 DEF CacheTypes
<1>7. Aside
  <2>1. \A u \in Thread : pc[u] \in {"wait", "diskwait"} => buf[u] \in Buf
    BY Shape
  <2> QED
    BY Zenon, <2>1, <1>2, <1>4, <1>5, <1>6 DEF BgetMiss, Aside
<1>8. CacheTypes' /\ ThreadTypes'
  BY <1>1, <1>3, <1>5 DEF CacheTypes, ThreadTypes
<1>9. Cache'
  <2>1. \A c \in Buf : \E i \in 1 .. NBUF : lru'[i] = c
    BY Zenon, <1>3 DEF Cache
  <2>2. \A c, d \in Buf : blockno'[c] = blockno'[d] /\ blockno'[c] # None => c = d
    BY <1>2, <1>6 DEF Cache
  <2>3. \A c \in Buf : blockno'[c] = None => valid'[c] = 0
    BY SMTT(30), <1>6 DEF Cache
  <2>4. \A j \in pinned' : j \in Home /\ \E c \in Buf : blockno'[c] = j /\ valid'[c] = 1
    BY SMTT(30), <1>3, <1>4, <1>6 DEF Cache
  <2> QED
    BY Zenon, <2>1, <2>2, <2>3, <2>4 DEF Cache
<1>10. Users'
  <2>1. \A u \in Thread : pc[u] # "idle" => buf[u] \in Buf /\ blockno'[buf[u]] = blockno[buf[u]]
                                            /\ valid'[buf[u]] = valid[buf[u]]
    BY Zenon, <1>4, <1>6, Shape
  <2>2. buf'[t] # None /\ blockno'[b] # None
    BY <1>5, <1>6, Nones
  <2>3. \A u \in Thread \ {t} : buf[u] = None <=> pc[u] = "idle"
    BY Zenon DEF Users
  <2> QED
    BY <2>1, <2>2, <2>3, <1>3, <1>5 DEF Users, BlockOf
<1>11. Locks'
  BY SMTT(30), <1>2, <1>3, <1>5 DEF Locks, Holding
<1>12. Clean'
  <2>1. \A u \in Thread : /\ Pending(u) => Pending(u)' /\ u # t
                          /\ Arrived(u)' => Arrived(u) /\ u # t /\ buf[u] \in Buf
    BY Zenon, <1>2, <1>3, <1>5, Shape DEF Pending, Arrived, Asked
  <2> QED
    BY <2>1, <1>3, <1>4, <1>5, <1>6 DEF Clean, BlockOf
<1> QED
  BY <1>7, <1>8, <1>9, <1>10, <1>11, <1>12

\* acquiresleep() takes the lock or goes to sleep.
LEMMA AcquiresleepKept ==
  ASSUME CacheTypes, ThreadTypes, Cache, Users, Locks, Clean, NEW t \in Thread, Acquiresleep(t)
  PROVE  Aside /\ CacheTypes' /\ ThreadTypes' /\ Cache' /\ Users' /\ Locks' /\ Clean'
<1>1. PICK b \in Buf : b = buf[t] /\ pc[t] = "lock"
  BY Zenon, Shape DEF Acquiresleep
<1>2. PICK l \in {"hold", "rw", "lockwait"} :
        /\ pc' = [pc EXCEPT ![t] = l] /\ (l = "hold" => valid[b] = 1)
        /\ \/ l # "lockwait" /\ locked[b] = None /\ locked' = [locked EXCEPT ![b] = t]
           \/ l = "lockwait" /\ locked[b] # None /\ locked' = locked
  BY Zenon, <1>1 DEF Acquiresleep
<1>3. UNCHANGED <<blockno, valid, refcnt, data, lru, owned, avail, platter, buf, idx, pinned>>
  BY Zenon DEF Acquiresleep, cacheVars, deviceVars
<1>4. pc' \in [Thread -> PCs] /\ pc'[t] = l /\ \A u \in Thread \ {t} : pc'[u] = pc[u]
  BY Zenon, <1>2 DEF ThreadTypes, PCs
<1>5. Aside
  BY Zenon, <1>1, <1>3, <1>4 DEF Acquiresleep, Aside
<1>6. CacheTypes' /\ ThreadTypes'
  BY SMTT(30), <1>2, <1>3, <1>4 DEF CacheTypes, ThreadTypes
<1>7. Cache'
  BY <1>3, SameCache
<1>8. Users'
  BY <1>1, <1>2, <1>3, <1>4 DEF Users, BlockOf
<1>9. Locks'
  <2>1. CASE l = "lockwait"
    BY SMTT(30), <2>1, <1>1, <1>2, <1>3, <1>4 DEF Locks, Holding
  <2>2. CASE l # "lockwait"
    <3>1. \A c \in Buf : locked'[c] = IF c = b THEN t ELSE locked[c]
      BY <2>2, <1>2 DEF CacheTypes
    <3> QED
      BY <2>2, <3>1, <1>1, <1>2, <1>3, <1>4, Nones, Shape DEF Locks, Holding
  <2> QED
    BY <2>1, <2>2
<1>10. Clean'
  <2>1. \A u \in Thread : (Pending(u) => Pending(u)') /\ (Arrived(u)' => Arrived(u))
    BY Zenon, <1>1, <1>3, <1>4 DEF Pending, Arrived, Asked
  <2> QED
    BY Zenon, <1>3, <2>1, SameClean
<1> QED
  BY <1>5, <1>6, <1>7, <1>8, <1>9, <1>10

\* releasesleep() frees the lock and wakes those that wait for it.
LEMMA ReleasesleepKept ==
  ASSUME CacheTypes, ThreadTypes, Cache, Users, Locks, Clean, NEW t \in Thread, Releasesleep(t)
  PROVE  Aside /\ CacheTypes' /\ ThreadTypes' /\ Cache' /\ Users' /\ Locks' /\ Clean'
<1>1. PICK b \in Buf : b = buf[t] /\ pc[t] \in {"hold", "release"}
  BY Zenon, Shape DEF Releasesleep
<1>2. locked[b] = t /\ locked' = [locked EXCEPT ![b] = None]
  BY <1>1 DEF Releasesleep, Locks, Holding
<1>3. UNCHANGED <<blockno, valid, refcnt, data, lru, owned, avail, platter, buf, idx, pinned>>
  BY Zenon DEF Releasesleep, cacheVars, deviceVars
<1>4. /\ pc' \in [Thread -> PCs] /\ pc'[t] = "put"
      /\ \A u \in Thread \ {t} : pc'[u] = IF pc[u] = "lockwait" /\ buf[u] = b THEN "lock" ELSE pc[u]
  BY Zenon, <1>1 DEF ThreadTypes, Releasesleep, Wake, LockWaiters, PCs
<1>5. Aside
  <2>1. UNCHANGED <<owned, descVars, deviceVars, handler, idx>>
    BY Zenon DEF Releasesleep
  <2> QED
    BY Zenon, <2>1, <1>1, <1>3, <1>4 DEF Aside
<1>6. CacheTypes' /\ ThreadTypes'
  BY Zenon, <1>2, <1>3, <1>4 DEF CacheTypes, ThreadTypes
<1>7. Cache'
  BY <1>3, SameCache
<1>8. Users'
  BY <1>1, <1>3, <1>4 DEF Users, BlockOf
<1>9. Locks'
  <2>1. \A c \in Buf : locked'[c] = IF c = b THEN None ELSE locked[c]
    BY <1>2 DEF CacheTypes
  <2> QED
    BY <2>1, <1>1, <1>2, <1>3, <1>4, Nones, Shape DEF Locks, Holding
<1>10. Clean'
  <2>1. \A u \in Thread : (Pending(u) => Pending(u)') /\ (Arrived(u)' => Arrived(u))
    BY Zenon, <1>1, <1>3, <1>4 DEF Pending, Arrived, Asked
  <2> QED
    BY Zenon, <1>3, <2>1, SameClean
<1> QED
  BY <1>5, <1>6, <1>7, <1>8, <1>9, <1>10

\* A buffer that goes to the head of the list leaves the others in it.
LEMMA MovedToHead ==
  ASSUME CacheTypes, Cache, NEW b \in Buf, lru' = ToHead(b)
  PROVE  lru' \in [1 .. NBUF -> Buf] /\ \A c \in Buf : \E i \in 1 .. NBUF : lru'[i] = c
<1>1. lru \in [1 .. NBUF -> Buf] /\ NBUF \in Nat \ {0}
  BY DiskAssumption DEF CacheTypes
<1>2. \A c \in Buf : \E i \in 1 .. NBUF : lru[i] = c
  BY Zenon DEF Cache
<1>3. PICK n \in 1 .. NBUF : /\ lru[n] = b
                             /\ lru' = [i \in 1 .. NBUF |-> IF i = 1 THEN b
                                          ELSE lru[IF i <= n THEN i - 1 ELSE i]]
  BY Zenon, <1>2 DEF ToHead
<1>4. lru' \in [1 .. NBUF -> Buf]
  BY <1>1, <1>3
<1>5. ASSUME NEW c \in Buf PROVE \E i \in 1 .. NBUF : lru'[i] = c
  <2>1. PICK j \in 1 .. NBUF : lru[j] = c
    BY <1>2
  <2>2. CASE j < n
    <3>1. j + 1 \in 1 .. NBUF /\ lru'[j + 1] = c
      BY <2>1, <2>2, <1>1, <1>3
    <3> QED
      BY <3>1
  <2>3. CASE j >= n
    BY <2>1, <2>3, <1>1, <1>3
  <2> QED
    BY <2>2, <2>3
<1> QED
  BY <1>4, <1>5

\* brelse() drops the reference.
LEMMA BrelseKept ==
  ASSUME CacheTypes, ThreadTypes, Cache, Users, Locks, Clean, Referenced,
         NEW t \in Thread, Brelse(t)
  PROVE  Aside /\ CacheTypes' /\ ThreadTypes' /\ Cache' /\ Users' /\ Locks' /\ Clean'
<1>1. PICK b \in Buf : b = buf[t] /\ pc[t] = "put"
  BY Zenon, Shape DEF Brelse
<1>2. pc' = [pc EXCEPT ![t] = "idle"] /\ buf' = [buf EXCEPT ![t] = None]
  BY Zenon DEF Brelse
<1>3. UNCHANGED <<blockno, valid, data, locked, owned, avail, platter, idx, pinned>>
  BY Zenon DEF Brelse, deviceVars
<1>4. refcnt' \in [Buf -> Nat]
  <2>1. refcnt[b] \in Nat \ {0}
    BY <1>1 DEF CacheTypes, Referenced
  <2> QED
    BY <2>1, <1>1 DEF CacheTypes, Brelse
<1>5. lru' \in [1 .. NBUF -> Buf] /\ \A c \in Buf : \E i \in 1 .. NBUF : lru'[i] = c
  <2>1. lru' = ToHead(b) \/ lru' = lru
    BY Zenon, <1>1 DEF Brelse
  <2>2. CASE lru' = lru
    BY Zenon, <2>2 DEF CacheTypes, Cache
  <2> QED
    BY <2>1, <2>2, MovedToHead
<1>6. /\ pc' \in [Thread -> PCs] /\ pc'[t] = "idle"
      /\ buf' \in [Thread -> Buf \cup {None}] /\ buf'[t] = None
      /\ \A u \in Thread \ {t} : pc'[u] = pc[u] /\ buf'[u] = buf[u]
  BY <1>2 DEF ThreadTypes, PCs
<1>7. Aside
  BY Zenon, <1>1, <1>6 DEF Brelse, Aside
<1>8. CacheTypes' /\ ThreadTypes'
  BY Zenon, <1>3, <1>4, <1>5, <1>6 DEF CacheTypes, ThreadTypes
<1>9. Cache'
  BY <1>3, <1>5 DEF Cache
<1>10. Users'
  BY <1>1, <1>3, <1>6 DEF Users, BlockOf
<1>11. Locks'
  BY <1>1, <1>3, <1>6 DEF Locks, Holding
<1>12. Clean'
  <2>1. \A u \in Thread : /\ Pending(u) => Pending(u)' /\ buf'[u] = buf[u]
                          /\ Arrived(u)' => Arrived(u) /\ buf'[u] = buf[u]
    BY Zenon, <1>1, <1>3, <1>6 DEF Pending, Arrived, Asked
  <2> QED
    BY Zenon, <1>3, <2>1, SameClean
<1> QED
  BY <1>7, <1>8, <1>9, <1>10, <1>11, <1>12

-----------------------------------------------------------------------------
(* The descriptors of a request *)

\* The descriptors of a request are not free.
LEMMA ChainTaken ==
  ASSUME Chains, NEW t \in Thread, idx[t] # None
  PROVE  Range(chain[idx[t]]) \cap free = {} /\ idx[t] \in Desc \ free
<1>1. chain[idx[t]] \in [1 .. 3 -> Desc \ free] /\ chain[idx[t]][1] = idx[t]
  BY Zenon DEF Chains
<1> QED
  BY <1>1 DEF Range

\* Two requests share no descriptor.
LEMMA ChainsApart ==
  ASSUME Chains, NEW t \in Thread, NEW u \in Thread, idx[t] # None, idx[u] # None, t # u
  PROVE  Range(chain[idx[t]]) \cap Range(chain[idx[u]]) = {}
  BY Zenon DEF Chains

\* A request that is made gets descriptors that no other has.
LEMMA ChainAdded ==
  ASSUME Chains, NEW t \in Thread, NEW d \in [1 .. 3 -> free], IsInjective(d),
         free \subseteq Desc, free' = free \ Range(d),
         idx[t] = None, idx'[t] = d[1], chain'[d[1]] = d,
         \A u \in Thread \ {t} :
           idx'[u] = idx[u] /\ (idx[u] # None => chain'[idx[u]] = chain[idx[u]])
  PROVE  Chains'
<1>1. d \in [1 .. 3 -> Desc \ free'] /\ Range(d) \subseteq free /\ None \notin free
  BY Nones DEF Range
<1>2. ASSUME NEW u \in Thread \ {t}, idx'[u] # None
      PROVE  /\ idx[u] # None /\ idx'[u] = idx[u] /\ chain'[idx'[u]] = chain[idx[u]]
             /\ Range(chain[idx[u]]) \cap Range(d) = {}
  BY <1>1, <1>2, ChainTaken
<1>3. ASSUME NEW u \in Thread, idx'[u] # None
      PROVE  /\ chain'[idx'[u]] \in [1 .. 3 -> Desc \ free'] /\ IsInjective(chain'[idx'[u]])
             /\ chain'[idx'[u]][1] = idx'[u]
  <2>1. CASE u = t
    BY Zenon, <2>1, <1>1
  <2>2. CASE u # t
    <3>1. /\ chain[idx[u]] \in [1 .. 3 -> Desc \ free] /\ IsInjective(chain[idx[u]])
          /\ chain[idx[u]][1] = idx[u]
      BY Zenon, <1>2, <1>3, <2>2 DEF Chains
    <3> QED
      BY <1>2, <1>3, <2>2, <3>1
  <2> QED
    BY Zenon, <2>1, <2>2
<1>4. ASSUME NEW u \in Thread, NEW w \in Thread, idx'[u] # None, idx'[w] # None, u # w
      PROVE  Range(chain'[idx'[u]]) \cap Range(chain'[idx'[w]]) = {}
  <2>1. CASE u # t /\ w # t
    BY <2>1, <1>2, <1>4, ChainsApart
  <2>2. CASE u = t \/ w = t
    BY <2>2, <1>2, <1>4
  <2> QED
    BY Zenon, <2>1, <2>2
<1>5. ASSUME NEW e \in Desc \ free'
      PROVE  \E u \in Thread : idx'[u] # None /\ e \in Range(chain'[idx'[u]])
  <2>1. CASE e \in Range(d)
    <3>1. idx'[t] # None
      BY <1>1
    <3> QED
      BY Zenon, <2>1, <3>1
  <2>2. CASE e \notin Range(d)
    <3>1. PICK u \in Thread : idx[u] # None /\ e \in Range(chain[idx[u]])
      BY Zenon, <2>2 DEF Chains
    <3> QED
      BY <3>1
  <2> QED
    BY Zenon, <2>1, <2>2
<1> QED
  BY Zenon, <1>3, <1>4, <1>5 DEF Chains

\* A request that ends gives its descriptors back, and those of no other.
LEMMA ChainFreed ==
  ASSUME Chains, NEW t \in Thread, idx[t] # None, idx'[t] = None,
         free' = free \cup Range(chain[idx[t]]),
         \A u \in Thread \ {t} :
           idx'[u] = idx[u] /\ (idx[u] # None => chain'[idx[u]] = chain[idx[u]])
  PROVE  Chains'
<1>1. ASSUME NEW u \in Thread, idx'[u] # None
      PROVE  u # t /\ idx[u] # None /\ idx'[u] = idx[u] /\ chain'[idx'[u]] = chain[idx[u]]
  BY <1>1
<1>2. ASSUME NEW u \in Thread, idx'[u] # None
      PROVE  /\ chain'[idx'[u]] \in [1 .. 3 -> Desc \ free'] /\ IsInjective(chain'[idx'[u]])
             /\ chain'[idx'[u]][1] = idx'[u]
  <2>1. /\ chain[idx[u]] \in [1 .. 3 -> Desc \ free] /\ IsInjective(chain[idx[u]])
        /\ chain[idx[u]][1] = idx[u]
    BY Zenon, <1>1, <1>2 DEF Chains
  <2>2. \A j \in 1 .. 3 : chain[idx[u]][j] \in Range(chain[idx[u]])
    BY Zenon, <2>1 DEF Range
  <2> QED
    BY SMTT(30), <1>1, <1>2, <2>1, <2>2, ChainsApart
<1>3. ASSUME NEW u \in Thread, NEW w \in Thread, idx'[u] # None, idx'[w] # None, u # w
      PROVE  Range(chain'[idx'[u]]) \cap Range(chain'[idx'[w]]) = {}
  BY <1>1, <1>3, ChainsApart
<1>4. ASSUME NEW e \in Desc \ free'
      PROVE  \E u \in Thread : idx'[u] # None /\ e \in Range(chain'[idx'[u]])
  <2>1. PICK u \in Thread : idx[u] # None /\ e \in Range(chain[idx[u]])
    BY Zenon DEF Chains
  <2>2. u # t
    BY Zenon, <2>1
  <2> QED
    BY Zenon, <2>1, <2>2
<1> QED
  BY Zenon, <1>2, <1>3, <1>4 DEF Chains

-----------------------------------------------------------------------------
(* The cache and the driver implement BlockStore. *)

\* A block has the content and the holder of its valid buffer, if it has one.
MapsTo ==
  /\ \A b \in Buf : valid[b] = 1 =>
       blockno[b] \in Block /\ Content(blockno[b]) = data[b] /\ Holder(blockno[b]) = locked[b]
  /\ \A k \in Block : (\A b \in Buf : blockno[b] = k => valid[b] # 1) =>
       Content(k) = platter[k] /\ Holder(k) = None

\* No block has two buffers, so that this is what the mapping says.
LEMMA Mapped == Base => MapsTo
<1> SUFFICES ASSUME CacheTypes, Cache PROVE MapsTo
  BY DEF Base, TypeOK
<1>1. ASSUME NEW b \in Buf, valid[b] = 1 PROVE Copies(blockno[b]) = {b} /\ blockno[b] \in Block
  BY <1>1 DEF CacheTypes, Cache, Copies
<1>2. ASSUME NEW b \in Buf, valid[b] = 1
      PROVE  Content(blockno[b]) = data[b] /\ Holder(blockno[b]) = locked[b]
  <2>1. (CHOOSE x \in {b} : TRUE) = b
    OBVIOUS
  <2> QED
    BY <2>1, <1>1, <1>2 DEF Content, Holder
<1>3. ASSUME NEW k \in Block, \A b \in Buf : blockno[b] = k => valid[b] # 1 PROVE Copies(k) = {}
  BY <1>3 DEF Copies
<1> QED
  BY Zenon, <1>1, <1>2, <1>3 DEF Content, Holder, MapsTo

\* The same after the step.
LEMMA MappedNext == Base' => MapsTo'
  BY Mapped, PTL

\* A step of the store, or one that it does not see.
StoreStep == Store!Next \/ UNCHANGED Store!vars

\* A step that the store does not see.
LEMMA Unseen ==
  ASSUME \A k \in Block : Content(k)' = Content(k) /\ Holder(k)' = Holder(k), platter' = platter
  PROVE  StoreStep
  BY DEF StoreStep, Store!vars

\* What the store shows depends on these variables only.
LEMMA Behind == ASSUME UNCHANGED <<blockno, valid, data, locked, platter>> PROVE StoreStep
<1>1. \A k \in Block : Content(k)' = Content(k) /\ Holder(k)' = Holder(k)
  BY DEF Content, Holder, Copies
<1> QED
  BY <1>1, Unseen

\* A thread takes a block: its buffer is valid, and the thread has its lock.
LEMMA TakeStep ==
  ASSUME MapsTo, MapsTo', NEW t \in Thread, NEW b \in Buf,
         blockno' = blockno, platter' = platter, data' = data,
         valid'[b] = 1, locked'[b] = t, Holder(blockno[b]) = None,
         blockno[b] \in Block, Content(blockno[b]) = data[b],
         \A c \in Buf \ {b} : valid'[c] = valid[c] /\ locked'[c] = locked[c]
  PROVE  StoreStep
<1>1. Content(blockno[b])' = data[b] /\ Holder(blockno[b])' = t
  BY Zenon DEF MapsTo
<1>2. ASSUME NEW k \in Block, k # blockno[b]
      PROVE  Content(k)' = Content(k) /\ Holder(k)' = Holder(k)
  BY <1>2 DEF MapsTo
<1>3. Store!Take(t, blockno[b])
  BY Zenon, <1>1, <1>2 DEF Store!Take
<1> QED
  BY Zenon, <1>3 DEF StoreStep, Store!Next

\* bread() of a block in the cache takes it.
LEMMA AcquiresleepStep ==
  ASSUME CacheTypes, ThreadTypes, Users, MapsTo, MapsTo', NEW t \in Thread, Acquiresleep(t)
  PROVE  StoreStep
<1>1. PICK b \in Buf : b = buf[t] /\ blockno[b] \in Block
  BY Zenon, Shape DEF Acquiresleep
<1>2. UNCHANGED <<blockno, valid, data, platter>>
  BY Zenon DEF Acquiresleep, cacheVars, deviceVars
<1>3. CASE locked[b] # None
  BY Zenon, <1>1, <1>2, <1>3, Behind DEF Acquiresleep
<1>4. CASE locked[b] = None
  <2>1. \A c \in Buf : locked'[c] = IF c = b THEN t ELSE locked[c]
    BY Zenon, <1>1, <1>4 DEF Acquiresleep, CacheTypes
  <2>2. CASE valid[b] = 1
    <3>1. Content(blockno[b]) = data[b] /\ Holder(blockno[b]) = None
      BY Zenon, <1>4, <2>2 DEF MapsTo
    <3> QED
      BY Zenon, <1>1, <1>2, <2>1, <2>2, <3>1, TakeStep
  <2>3. CASE valid[b] # 1
    <3>1. \A k \in Block : Content(k)' = Content(k) /\ Holder(k)' = Holder(k)
      BY <1>2, <2>1, <2>3 DEF MapsTo
    <3> QED
      BY SMTT(30), <1>2, <3>1, Unseen
  <2> QED
    BY <2>2, <2>3
<1> QED
  BY <1>3, <1>4

\* The holder changes the content of its block.
LEMMA ChangeStep ==
  ASSUME CacheTypes, ThreadTypes, Users, Locks, MapsTo, MapsTo',
         NEW t \in Thread, NEW v \in Val, LogWrite(t, v) \/ Bwrite(t, v)
  PROVE  StoreStep
<1>1. PICK b \in Buf : b = buf[t] /\ blockno[b] \in Block /\ pc[t] = "hold"
  BY Zenon, Shape DEF LogWrite, Bwrite
<1>2. valid[b] = 1 /\ locked[b] = t
  BY <1>1 DEF Users, Locks, Holding
<1>3. UNCHANGED <<blockno, valid, locked, platter>>
  BY Zenon DEF LogWrite, Bwrite, deviceVars
<1>4. \A c \in Buf : data'[c] = IF c = b THEN v ELSE data[c]
  BY Zenon, <1>1 DEF LogWrite, Bwrite, CacheTypes
<1>5. Content(blockno[b])' = v /\ Holder(blockno[b]) = t
  BY Zenon, <1>2, <1>3, <1>4 DEF MapsTo
<1>6. \A k \in Block : /\ Holder(k)' = Holder(k)
                       /\ k # blockno[b] => Content(k)' = Content(k)
  BY <1>1, <1>2, <1>3, <1>4 DEF MapsTo
<1>7. Store!Change(t, blockno[b], v)
  BY Zenon, <1>1, <1>3, <1>5, <1>6 DEF Store!Change
<1> QED
  BY Zenon, <1>1, <1>7 DEF StoreStep, Store!Next

\* releasesleep() gives the block up.
LEMMA ReleaseStep ==
  ASSUME CacheTypes, ThreadTypes, Users, Locks, MapsTo, MapsTo', NEW t \in Thread, Releasesleep(t)
  PROVE  StoreStep
<1>1. PICK b \in Buf : b = buf[t] /\ blockno[b] \in Block /\ pc[t] \in {"hold", "release"}
  BY Zenon, Shape DEF Releasesleep
<1>2. valid[b] = 1 /\ locked[b] = t
  BY <1>1 DEF Users, Locks, Holding
<1>3. UNCHANGED <<blockno, valid, data, platter>>
  BY Zenon DEF Releasesleep, cacheVars, deviceVars
<1>4. \A c \in Buf : locked'[c] = IF c = b THEN None ELSE locked[c]
  BY Zenon, <1>1 DEF Releasesleep, CacheTypes
<1>5. Holder(blockno[b])' = None /\ Holder(blockno[b]) = t
  BY SMTT(30), <1>2, <1>3, <1>4 DEF MapsTo
<1>6. \A k \in Block : /\ Content(k)' = Content(k)
                       /\ k # blockno[b] => Holder(k)' = Holder(k)
  BY <1>1, <1>2, <1>3, <1>4 DEF MapsTo
<1>7. Store!Release(t, blockno[b])
  BY Zenon, <1>1, <1>3, <1>5, <1>6 DEF Store!Release
<1> QED
  BY Zenon, <1>1, <1>7 DEF StoreStep, Store!Next

\* Recycling a buffer changes nothing: what it held is on the disk too.
LEMMA RecycleStep ==
  ASSUME CacheTypes, Cache, Locks, Clean, Referenced, MapsTo, MapsTo',
         NEW t \in Thread, NEW k \in Block, BgetMiss(t, k)
  PROVE  StoreStep
<1>1. PICK b \in Buf : /\ Victim(b) /\ blockno' = [blockno EXCEPT ![b] = k]
                       /\ valid' = [valid EXCEPT ![b] = 0]
  BY Zenon DEF BgetMiss
<1>2. UNCHANGED <<data, locked, platter>> /\ \A c \in Buf : blockno[c] # k
  BY Zenon DEF BgetMiss, Cached, deviceVars
<1>3. /\ blockno[b] \notin pinned /\ \A u \in Thread : buf[u] # b
  BY Zenon, <1>1 DEF Victim, Unused, Referenced
<1>4. locked[b] = None /\ (valid[b] = 1 => data[b] = platter[blockno[b]])
  <2>1. locked[b] = None
    BY SMTT(30), <1>3 DEF CacheTypes, Locks
  <2> QED
    BY Zenon, <1>3, <2>1 DEF Clean
<1>5. \A c \in Buf : /\ blockno'[c] = IF c = b THEN k ELSE blockno[c]
                     /\ valid'[c] = IF c = b THEN 0 ELSE valid[c]
  BY <1>1 DEF CacheTypes
<1>6. ASSUME NEW n \in Block PROVE Content(n)' = Content(n) /\ Holder(n)' = Holder(n)
  <2>1. CASE \E c \in Buf \ {b} : blockno[c] = n /\ valid[c] = 1
    BY <2>1, <1>2, <1>5 DEF MapsTo
  <2>2. CASE \A c \in Buf \ {b} : blockno[c] = n => valid[c] # 1
    <3>1. Content(n)' = platter[n] /\ Holder(n)' = None
      BY SMTT(30), <2>2, <1>2, <1>5 DEF MapsTo
    <3>2. Content(n) = platter[n] /\ Holder(n) = None
      BY <2>2, <1>4 DEF MapsTo
    <3> QED
      BY SMTT(30), <3>1, <3>2
  <2> QED
    BY <2>1, <2>2
<1> QED
  BY <1>2, <1>6, Unseen

\* The device transfers a block: the buffer and the disk then agree.
LEMMA Moved ==
  ASSUME CacheTypes, DriverTypes, NEW r \in avail, Complete(r),
         NEW b \in Buf, info[r.head] = b, blockno[b] \in Block, r.write = valid[b]
  PROVE  /\ data' \in [Buf -> Val] /\ platter' \in [Block -> Val]
         /\ \A c \in Buf : c # b => data'[c] = data[c]
         /\ \A k \in Block : k # blockno[b] => platter'[k] = platter[k]
         /\ data'[b] = platter'[blockno[b]]
         /\ valid[b] = 1 => data' = data
         /\ valid[b] = 0 => platter' = platter
<1>1. data \in [Buf -> Val] /\ platter \in [Block -> Val] /\ valid[b] \in 0 .. 1
  BY DEF CacheTypes, DriverTypes
<1>2. CASE r.write = 1
  <2>1. data' = data /\ platter' = [platter EXCEPT ![blockno[b]] = data[b]]
    BY Zenon, <1>2 DEF Complete
  <2> QED
    BY <1>1, <1>2, <2>1
<1>3. CASE r.write # 1
  <2>1. platter' = platter /\ data' = [data EXCEPT ![b] = platter[blockno[b]]]
    BY Zenon, <1>3 DEF Complete
  <2> QED
    BY Zenon, <1>1, <1>3, <2>1
<1> QED
  BY Zenon, <1>2, <1>3

\* bread() of a block that was read from the disk takes it.
LEMMA FinishStep ==
  ASSUME CacheTypes, ThreadTypes, Cache, Users, Locks, Clean, MapsTo, MapsTo',
         NEW t \in Thread, Finish(t)
  PROVE  StoreStep
<1>1. PICK b \in Buf : b = buf[t] /\ blockno[b] \in Block /\ pc[t] = "wait"
  BY Zenon, Shape DEF Finish
<1>2. locked[b] = t /\ data[b] = platter[blockno[b]]
  BY <1>1 DEF Locks, Holding, Clean, Arrived, BlockOf
<1>3. UNCHANGED <<blockno, locked, data, platter>>
  BY Zenon DEF Finish, deviceVars
<1>4. \A c \in Buf : valid'[c] = IF c = b THEN 1 ELSE valid[c]
  BY Zenon, <1>1 DEF Finish, CacheTypes
<1>5. CASE valid[b] = 1
  <2>1. valid' = valid
    BY Zenon, <1>1, <1>5 DEF Finish, CacheTypes
  <2> QED
    BY <1>3, <2>1, Behind
<1>6. CASE valid[b] # 1
  <2>1. \A c \in Buf : blockno[c] = blockno[b] => c = b
    BY SMTT(30), <1>1, Nones DEF Cache
  <2>2. Content(blockno[b]) = data[b] /\ Holder(blockno[b]) = None
    BY <1>1, <1>2, <1>6, <2>1 DEF MapsTo
  <2> QED
    BY Zenon, <1>1, <1>2, <1>3, <1>4, <2>2, TakeStep
<1> QED
  BY <1>5, <1>6

\* The device writes the holder's content; what it reads no one can see yet.
LEMMA CompleteStep ==
  ASSUME CacheTypes, DriverTypes, ThreadTypes, Users, Locks, Requests, Queues, MapsTo, MapsTo',
         NEW r \in avail, Complete(r)
  PROVE  StoreStep
<1>1. PICK t \in Thread : pc[t] = "diskwait" /\ idx[t] = r.head /\ r.write = valid[buf[t]]
  BY Zenon DEF Queues
<1>2. PICK b \in Buf : b = buf[t] /\ blockno[b] \in Block /\ info[r.head] = b
  BY <1>1, Shape, Nones DEF Requests
<1>3. locked[b] = t /\ UNCHANGED <<blockno, valid, locked>>
  BY Zenon, <1>1, <1>2 DEF Locks, Holding, Complete
<1>4. /\ \A c \in Buf : c # b => data'[c] = data[c]
      /\ valid[b] = 1 => data' = data
      /\ valid[b] = 0 => platter' = platter
  BY <1>1, <1>2, Moved
<1>5. CASE valid[b] = 1
  <2>1. platter' = [platter EXCEPT ![blockno[b]] = data[b]]
    BY Zenon, <1>1, <1>2, <1>5 DEF Complete
  <2>2. Content(blockno[b]) = data[b] /\ Holder(blockno[b]) = t
    BY Zenon, <1>3, <1>5 DEF MapsTo
  <2>3. platter' = [platter EXCEPT ![blockno[b]] = Content(blockno[b])]
    BY Zenon, <2>1, <2>2
  <2>4. \A k \in Block : k # blockno[b] => platter'[k] = platter[k]
    BY SMTT(30), <1>1, <1>2, Moved
  <2>5. \A k \in Block : Content(k)' = Content(k) /\ Holder(k)' = Holder(k)
    BY <1>2, <1>3, <1>4, <1>5, <2>4 DEF MapsTo
  <2>6. Store!WriteBack(t, blockno[b])
    BY Zenon, <1>2, <2>2, <2>3, <2>5 DEF Store!WriteBack
  <2> QED
    BY Zenon, <1>2, <2>6 DEF StoreStep, Store!Next
<1>6. CASE valid[b] = 0
  <2>1. \A k \in Block : Content(k)' = Content(k) /\ Holder(k)' = Holder(k)
    BY <1>3, <1>4, <1>6 DEF MapsTo
  <2> QED
    BY SMTT(30), <1>4, <1>6, <2>1, Unseen
<1>7. valid[b] = 0 \/ valid[b] = 1
  BY DEF CacheTypes
<1> QED
  BY <1>5, <1>6, <1>7

\* The other steps do not show.
LEMMA OtherStep ==
  ASSUME \/ UNCHANGED vars \/ Handler
         \/ \E t \in Thread : \/ \E k \in Block : BgetHit(t, k)
                              \/ Install(t) \/ Bunpin(t) \/ Brelse(t)
                              \/ Submit(t) \/ NoDescriptors(t)
  PROVE  StoreStep
<1>1. UNCHANGED <<blockno, valid, data, locked, platter>>
  BY Zenon
     DEF vars, Handler, IntrAck, IntrOne, IntrEnd, BgetHit, Install, Bunpin, Brelse,
               Submit, NoDescriptors, cacheVars, deviceVars
<1> QED
  BY <1>1, Behind
=============================================================================
