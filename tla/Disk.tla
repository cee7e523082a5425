-------------------------------- MODULE Disk --------------------------------
(***************************************************************************)
(* The buffer cache with its sleep locks (bio.c, sleeplock.c), the virtio  *)
(* driver under it (virtio_disk.c) and the device.  Threads are the users  *)
(* of the cache: they read a block, change it through the log (which pins  *)
(* the buffer) or write it, and release it.                                *)
(*                                                                         *)
(* A step is one critical section of bcache.lock, of a sleep lock's        *)
(* spinlock or of vdisk_lock; the completion handler, whose loop races     *)
(* with the device, holds vdisk_lock over several steps.  sleep_prepare()  *)
(* is called inside the section, so registering and going to sleep are one *)
(* step.                                                                   *)
(***************************************************************************)
EXTENDS Integers, FiniteSets, Sequences, Functions

CONSTANTS Thread,   \* processes
          Block,    \* block numbers
          Home,     \* those outside the log's own area
          Val,      \* contents of a block
          NBUF,     \* buffers
          NUM,      \* virtio descriptors
          None      \* no thread, no block, no buffer, no descriptor

ASSUME DiskAssumption ==
  /\ Home \subseteq Block
  /\ NBUF \in Nat \ {0}
  /\ NUM \in Nat /\ NUM >= 3
  /\ IsFiniteSet(Thread)
  /\ None \notin Thread \cup Block \cup Nat

VARIABLES
  blockno, valid, refcnt, locked, data, owned,  \* struct buf (owned: b->disk)
  lru,        \* bcache.head's list, most recently used first
  free,       \* disk.free: the free descriptors
  chain,      \* disk.desc: the chain that starts at a descriptor
  info,       \* disk.info[].b
  status,     \* disk.info[].status
  avail,      \* the requests the device has not completed
  used,       \* the completions from disk.used_idx to used->idx
  platter,    \* the contents of the disk
  irq,        \* the device's interrupt line
  handler,    \* virtio_disk_intr() is in its loop
  pc, buf,    \* the threads: where they are, and b
  idx,        \* idx[0] in virtio_disk_rw()
  pinned      \* the blocks in log.lh

cacheVars == <<blockno, valid, refcnt, data, lru>>
descVars == <<free, chain, info>>
deviceVars == <<status, avail, used, platter, irq>>
vars == <<cacheVars, locked, owned, descVars, deviceVars, handler, pc, buf, idx,
          pinned>>

Buf == 0 .. NBUF - 1
Desc == 0 .. NUM - 1

\* binit(): no buffer holds a block yet.
Binit ==
  /\ blockno = [b \in Buf |-> None] /\ valid = [b \in Buf |-> 0]
  /\ refcnt = [b \in Buf |-> 0] /\ locked = [b \in Buf |-> None]
  /\ owned = [b \in Buf |-> 0]
  /\ lru = [i \in 1 .. NBUF |-> NBUF - i]

\* The queues as virtio_disk_init() leaves them.
VirtioDiskInit ==
  /\ free = Desc /\ chain = [d \in Desc |-> <<>>]
  /\ info = [d \in Desc |-> None] /\ status = [d \in Desc |-> 0]
  /\ avail = {} /\ used = <<>> /\ irq = 0 /\ handler = 0

Init ==
  /\ Binit /\ VirtioDiskInit
  /\ \E v \in Val : platter = [k \in Block |-> v] /\ data = [b \in Buf |-> v]
  /\ pc = [t \in Thread |-> "idle"] /\ buf = [t \in Thread |-> None]
  /\ idx = [t \in Thread |-> None]
  /\ pinned = {}

\* What wakeup() of the threads W, which sleep in one loop, makes of pcs: they
\* test the condition of their loop again.
Wake(W, pcs) ==
  [t \in Thread |->
     IF t \in W THEN CASE pcs[t] = "lockwait" -> "lock"
                       [] pcs[t] = "descwait" -> "rw"
                       [] pcs[t] = "diskwait" -> "wait"
                ELSE pcs[t]]

LockWaiters(b) == {t \in Thread : pc[t] = "lockwait" /\ buf[t] = b}
DescWaiters == {t \in Thread : pc[t] = "descwait"}
DiskWaiters(b) == {t \in Thread : pc[t] = "diskwait" /\ buf[t] = b}

-----------------------------------------------------------------------------
(* bget(), acquiresleep(), bread() *)

Cached(k) == {b \in Buf : blockno[b] = k}
\* Mutant: a buffer may be recycled as soon as nobody has locked it.
Unlocked == {i \in 1 .. NBUF : locked[lru[i]] = None}
Unused == {i \in 1 .. NBUF : refcnt[lru[i]] = 0}
\* b is the least recently used of the buffers without references.
Victim(b) == \E i \in Unused : lru[i] = b /\ \A j \in Unused : j <= i

BlockOf(t) == blockno[buf[t]]
InUse == pinned \cup {BlockOf(t) : t \in {u \in Thread : buf[u] # None}}

\* The file system's part of the contract: it does not use more than NBUF
\* blocks at a time, those the log has pinned included.
MayUse(k) == Cardinality(InUse \cup {k}) <= NBUF

BgetHit(t, k) ==
  /\ pc[t] = "idle" /\ MayUse(k)
  /\ \E b \in Cached(k) :
       /\ refcnt' = [refcnt EXCEPT ![b] = @ + 1]
       /\ buf' = [buf EXCEPT ![t] = b]
  /\ pc' = [pc EXCEPT ![t] = "lock"]
  /\ UNCHANGED <<blockno, valid, data, lru, locked, owned, descVars, deviceVars,
                 handler, idx, pinned>>

BgetMiss(t, k) ==
  /\ pc[t] = "idle" /\ MayUse(k)
  /\ Cached(k) = {}
  /\ \E b \in Buf :
       /\ Victim(b)
       /\ blockno' = [blockno EXCEPT ![b] = k]
       /\ valid' = [valid EXCEPT ![b] = 0]
       /\ refcnt' = [refcnt EXCEPT ![b] = 1]
       /\ buf' = [buf EXCEPT ![t] = b]
  /\ pc' = [pc EXCEPT ![t] = "lock"]
  /\ UNCHANGED <<data, lru, locked, owned, descVars, deviceVars, handler, idx, pinned>>

Acquiresleep(t) ==
  /\ pc[t] = "lock"
  /\ IF locked[buf[t]] = None
       THEN /\ locked' = [locked EXCEPT ![buf[t]] = t]
            /\ pc' = [pc EXCEPT ![t] = IF valid[buf[t]] = 1 THEN "hold" ELSE "rw"]
       ELSE /\ pc' = [pc EXCEPT ![t] = "lockwait"]
            /\ UNCHANGED locked
  /\ UNCHANGED <<cacheVars, owned, descVars, deviceVars, handler, buf, idx, pinned>>

-----------------------------------------------------------------------------
(* What the holder of a buffer does with it. *)

\* Mutant: the log does not pin the buffer.
LogWriteUnpinned(t, v) ==
  /\ pc[t] = "hold" /\ BlockOf(t) \in Home
  /\ data' = [data EXCEPT ![buf[t]] = v]
  /\ pc' = [pc EXCEPT ![t] = "release"]
  /\ UNCHANGED <<blockno, valid, refcnt, lru, locked, owned, descVars, deviceVars,
                 handler, buf, idx, pinned>>

\* A change made in a transaction: log_write() pins the buffer, once.
LogWrite(t, v) ==
  /\ pc[t] = "hold" /\ BlockOf(t) \in Home
  /\ data' = [data EXCEPT ![buf[t]] = v]
  /\ refcnt' = [refcnt EXCEPT ![buf[t]] = IF BlockOf(t) \in pinned THEN @ ELSE @ + 1]
  /\ pinned' = pinned \cup {BlockOf(t)}
  /\ pc' = [pc EXCEPT ![t] = "release"]
  /\ UNCHANGED <<blockno, valid, lru, locked, owned, descVars, deviceVars, handler,
                 buf, idx>>

\* bwrite() in the log's area: write_log(), write_head()
Bwrite(t, v) ==
  /\ pc[t] = "hold" /\ BlockOf(t) \notin Home
  /\ data' = [data EXCEPT ![buf[t]] = v]
  /\ pc' = [pc EXCEPT ![t] = "rw"]
  /\ UNCHANGED <<blockno, valid, refcnt, lru, locked, owned, descVars, deviceVars,
                 handler, buf, idx, pinned>>

\* bwrite() of a pinned block: install_trans(), which then calls bunpin()
Install(t) ==
  /\ pc[t] = "hold" /\ BlockOf(t) \in pinned
  /\ pc' = [pc EXCEPT ![t] = "rw"]
  /\ UNCHANGED <<cacheVars, locked, owned, descVars, deviceVars, handler, buf, idx,
                 pinned>>

\* Mutant: bunpin() gives up the caller's reference too.
BunpinTwice(t) ==
  /\ pc[t] = "unpin"
  /\ refcnt' = [refcnt EXCEPT ![buf[t]] = @ - 2]
  /\ pinned' = pinned \ {BlockOf(t)}
  /\ pc' = [pc EXCEPT ![t] = "release"]
  /\ UNCHANGED <<blockno, valid, data, lru, locked, owned, descVars, deviceVars,
                 handler, buf, idx>>

Bunpin(t) ==
  /\ pc[t] = "unpin"
  /\ refcnt' = [refcnt EXCEPT ![buf[t]] = @ - 1]
  /\ pinned' = pinned \ {BlockOf(t)}
  /\ pc' = [pc EXCEPT ![t] = "release"]
  /\ UNCHANGED <<blockno, valid, data, lru, locked, owned, descVars, deviceVars,
                 handler, buf, idx>>

\* Mutant: the waiters are woken before the lock is free, and not after.
ReleasesleepEarly(t) ==
  /\ pc[t] \in {"hold", "release"}
  /\ locked' = [locked EXCEPT ![buf[t]] = None]
  /\ pc' = [pc EXCEPT ![t] = "put"]
  /\ UNCHANGED <<cacheVars, owned, descVars, deviceVars, handler, buf, idx, pinned>>

\* brelse(): releasesleep(), then the section of bcache.lock
Releasesleep(t) ==
  /\ pc[t] \in {"hold", "release"}
  /\ locked' = [locked EXCEPT ![buf[t]] = None]
  /\ pc' = Wake(LockWaiters(buf[t]), [pc EXCEPT ![t] = "put"])
  /\ UNCHANGED <<cacheVars, owned, descVars, deviceVars, handler, buf, idx, pinned>>

\* Mutant: the count is dropped only when nobody waits for the lock.
BrelseWaited(t) ==
  /\ pc[t] = "put"
  /\ refcnt' = [refcnt EXCEPT ![buf[t]] =
                  IF locked[buf[t]] = None THEN @ - 1 ELSE @]
  /\ lru' = lru
  /\ pc' = [pc EXCEPT ![t] = "idle"] /\ buf' = [buf EXCEPT ![t] = None]
  /\ UNCHANGED <<blockno, valid, data, locked, owned, descVars, deviceVars, handler,
                 idx, pinned>>

\* bcache.head's list with b unlinked and put first
ToHead(b) ==
  LET n == CHOOSE i \in 1 .. NBUF : lru[i] = b IN
    [i \in 1 .. NBUF |-> IF i = 1 THEN b ELSE lru[IF i <= n THEN i - 1 ELSE i]]

\* A buffer without references goes to the head of the list.
Brelse(t) ==
  /\ pc[t] = "put"
  /\ refcnt' = [refcnt EXCEPT ![buf[t]] = @ - 1]
  /\ lru' = IF refcnt[buf[t]] = 1 THEN ToHead(buf[t]) ELSE lru
  /\ pc' = [pc EXCEPT ![t] = "idle"] /\ buf' = [buf EXCEPT ![t] = None]
  /\ UNCHANGED <<blockno, valid, data, locked, owned, descVars, deviceVars, handler,
                 idx, pinned>>

-----------------------------------------------------------------------------
(* virtio_disk_rw(): the section from the allocation of descriptors to the *)
(* wait for the request, and the one that ends the request.                *)

\* alloc3_desc() when it succeeds: the three lowest free descriptors
Alloc3Desc(d) ==
  /\ d \in [1 .. 3 -> free] /\ d[1] < d[2] /\ d[2] < d[3]
  /\ \A e \in free \ Range(d) : d[3] < e

Submit(t) ==
  /\ pc[t] = "rw" /\ handler = 0
  /\ \E d \in [1 .. 3 -> Desc] :
       /\ Alloc3Desc(d)
       /\ free' = free \ Range(d)
       /\ chain' = [chain EXCEPT ![d[1]] = d]
       /\ status' = [status EXCEPT ![d[1]] = 255]
       /\ info' = [info EXCEPT ![d[1]] = buf[t]]
       /\ avail' = avail \cup {[head |-> d[1], write |-> valid[buf[t]]]}
       /\ idx' = [idx EXCEPT ![t] = d[1]]
  /\ owned' = [owned EXCEPT ![buf[t]] = 1]
  /\ pc' = [pc EXCEPT ![t] = "diskwait"]
  /\ UNCHANGED <<cacheVars, locked, used, platter, irq, handler, buf, pinned>>

(***************************************************************************)
(* Too few descriptors: those alloc3_desc() got it frees again, and        *)
(* free_desc() wakes the others that wait for descriptors; then the caller *)
(* waits itself.                                                           *)
(***************************************************************************)
NoDescriptors(t) ==
  /\ pc[t] = "rw" /\ handler = 0 /\ Cardinality(free) < 3
  /\ pc' = [Wake(IF free = {} THEN {} ELSE DescWaiters, pc) EXCEPT ![t] = "descwait"]
  /\ UNCHANGED <<cacheVars, locked, owned, descVars, deviceVars, handler, buf, idx,
                 pinned>>

\* Mutant: free_chain() stops before the last descriptor.
FreeTwo(i) == free \cup {chain[i][1], chain[i][2]}

FreeChain(i) == free \cup Range(chain[i])

\* virtio_disk_rw() returns to bread(), which has a buffer that was not valid,
\* or to bwrite(), after which install_trans() calls bunpin().
Transferred(t) ==
  IF valid[buf[t]] = 0 THEN "hold" ELSE IF BlockOf(t) \in pinned THEN "unpin" ELSE "release"

\* The request is done.  bread() then sets valid.
Finish(t) ==
  /\ pc[t] = "wait" /\ handler = 0 /\ owned[buf[t]] = 0
  /\ info' = [info EXCEPT ![idx[t]] = None]
  /\ free' = FreeChain(idx[t])
  /\ chain' = [chain EXCEPT ![idx[t]] = <<>>]
  /\ idx' = [idx EXCEPT ![t] = None]
  /\ valid' = [valid EXCEPT ![buf[t]] = 1]
  /\ pc' = Wake(DescWaiters, [pc EXCEPT ![t] = Transferred(t)])
  /\ UNCHANGED <<blockno, refcnt, data, lru, locked, owned, deviceVars, handler,
                 buf, pinned>>

-----------------------------------------------------------------------------
(***************************************************************************)
(* The device takes requests from the ring in order but completes them in  *)
(* any order.  At most NUM / 3 chains exist, so that the ring of NUM heads *)
(* never overflows; it is modelled as the set of requests the device has   *)
(* not completed, and the used ring, which has NUM entries too, as the     *)
(* sequence of those that the handler has not read.                        *)
(***************************************************************************)
Complete(r) ==
  /\ LET b == info[r.head] IN
       IF r.write = 1
         THEN /\ platter' = [platter EXCEPT ![blockno[b]] = data[b]]
              /\ UNCHANGED data
         ELSE /\ data' = [data EXCEPT ![b] = platter[blockno[b]]]
              /\ UNCHANGED platter
  /\ status' = [status EXCEPT ![r.head] = 0]
  /\ used' = Append(used, r.head)
  /\ avail' = avail \ {r}
  /\ irq' = 1
  /\ UNCHANGED <<blockno, valid, refcnt, lru, locked, owned, descVars, handler, pc,
                 buf, idx, pinned>>

\* virtio_disk_intr(): the interrupt is acknowledged first, then the ring read.
IntrAck ==
  /\ irq = 1 /\ handler = 0
  /\ irq' = 0 /\ handler' = 1
  /\ UNCHANGED <<cacheVars, locked, owned, descVars, status, avail, used, platter,
                 pc, buf, idx, pinned>>

\* Mutant: the handler wakes the thread but does not take the buffer back.
IntrOneOwned ==
  /\ handler = 1 /\ used # <<>>
  /\ pc' = Wake(DiskWaiters(info[Head(used)]), pc)
  /\ used' = Tail(used)
  /\ UNCHANGED <<cacheVars, locked, owned, descVars, status, avail, platter, irq,
                 handler, buf, idx, pinned>>

IntrOne ==
  /\ handler = 1 /\ used # <<>>
  /\ owned' = [owned EXCEPT ![info[Head(used)]] = 0]
  /\ pc' = Wake(DiskWaiters(info[Head(used)]), pc)
  /\ used' = Tail(used)
  /\ UNCHANGED <<cacheVars, locked, descVars, status, avail, platter, irq, handler,
                 buf, idx, pinned>>

IntrEnd ==
  /\ handler = 1 /\ used = <<>>
  /\ handler' = 0
  /\ UNCHANGED <<cacheVars, locked, owned, descVars, deviceVars, pc, buf, idx, pinned>>

-----------------------------------------------------------------------------

User(t) ==
  \/ \E k \in Block : BgetHit(t, k) \/ BgetMiss(t, k)
  \/ \E v \in Val : LogWrite(t, v) \/ Bwrite(t, v)
  \/ Install(t)

Progress(t) ==
  \/ Acquiresleep(t) \/ Bunpin(t) \/ Releasesleep(t) \/ Brelse(t)
  \/ Submit(t) \/ NoDescriptors(t) \/ Finish(t)

Device == \E r \in avail : Complete(r)
Handler == IntrAck \/ IntrOne \/ IntrEnd

Next == (\E t \in Thread : User(t) \/ Progress(t)) \/ Device \/ Handler

Spec == Init /\ [][Next]_vars

-----------------------------------------------------------------------------
(* Properties *)

PCs == {"idle", "lock", "lockwait", "rw", "descwait", "wait", "diskwait", "hold",
        "unpin", "release", "put"}

CacheTypes ==
  /\ blockno \in [Buf -> Block \cup {None}] /\ valid \in [Buf -> 0 .. 1]
  /\ refcnt \in [Buf -> Nat] /\ locked \in [Buf -> Thread \cup {None}]
  /\ data \in [Buf -> Val] /\ owned \in [Buf -> 0 .. 1]
  /\ lru \in [1 .. NBUF -> Buf]

DriverTypes ==
  /\ free \subseteq Desc /\ chain \in [Desc -> {<<>>} \cup [1 .. 3 -> Desc]]
  /\ info \in [Desc -> Buf \cup {None}] /\ status \in [Desc -> {0, 255}]
  /\ avail \subseteq [head : Desc, write : 0 .. 1] /\ used \in Seq(Desc)
  /\ platter \in [Block -> Val] /\ irq \in 0 .. 1 /\ handler \in 0 .. 1

ThreadTypes ==
  /\ pc \in [Thread -> PCs] /\ buf \in [Thread -> Buf \cup {None}]
  /\ idx \in [Thread -> Desc \cup {None}] /\ pinned \subseteq Block

TypeOK == CacheTypes /\ DriverTypes /\ ThreadTypes

\* The panics of bget(), free_desc() and virtio_disk_intr() are not reached: a
\* file system that uses at most NBUF blocks at a time always finds a buffer,
\* a chain is freed once, and the completion that the handler finds in the ring
\* has its status and its buffer.
NoPanic ==
  /\ \A k \in Block : MayUse(k) => Cached(k) # {} \/ Unused # {}
  /\ \A t \in Thread : idx[t] # None => Range(chain[idx[t]]) \cap free = {}
  /\ used # <<>> => status[Head(used)] = 0 /\ info[Head(used)] # None

UsersOf(b) == {t \in Thread : buf[t] = b}

\* The reference count of a buffer is the number of threads between bget() and
\* brelse(), those waiting for its lock included, and the log's pin.
RefCounts ==
  \A b \in Buf :
    refcnt[b] = Cardinality(UsersOf(b)) + (IF blockno[b] \in pinned THEN 1 ELSE 0)

\* A buffer that may be recycled holds nothing the disk does not have: what
\* bget() overwrites is never the only copy of a change.
EvictableIsClean ==
  \A b \in Buf : refcnt[b] = 0 /\ valid[b] = 1 => data[b] = platter[blockno[b]]

\* The descriptors that are not free are those of the requests in progress,
\* three for each and none shared: none is lost by a failed alloc3_desc() or
\* by completions out of order.
DescriptorsOwned ==
  LET busy == {t \in Thread : idx[t] # None} IN
    /\ Desc \ free = UNION {Range(chain[idx[t]]) : t \in busy}
    /\ Cardinality(free) + 3 * Cardinality(busy) = NUM

\* A request whose buffer the disk owns is either the device's or in the ring
\* of completions, once; and while that ring is not empty, the handler runs or
\* will run.
RequestTracked ==
  LET asked == {r.head : r \in avail}
      mine == {idx[t] : t \in {u \in Thread : idx[u] # None /\ owned[buf[u]] = 1}} IN
    /\ asked \cup Range(used) = mine
    /\ Cardinality(asked) + Len(used) = Cardinality(mine)
    /\ used # <<>> => irq = 1 \/ handler = 1

\* No wakeup is lost: a sleeping thread still has to wait for what it waits for.
WaitsForCause ==
  \A t \in Thread :
    /\ pc[t] = "lockwait" => locked[buf[t]] # None
    /\ pc[t] = "diskwait" => owned[buf[t]] = 1
    /\ pc[t] = "descwait" => Cardinality(free) < 3

\* What the store has for the block k: content is what the cache has, else the
\* disk, and a block that is not in the cache has no holder.
Copies(k) == {b \in Buf : blockno[b] = k /\ valid[b] = 1}
Content(k) == IF Copies(k) = {} THEN platter[k] ELSE data[CHOOSE b \in Copies(k) : TRUE]
Holder(k) == IF Copies(k) = {} THEN None ELSE locked[CHOOSE b \in Copies(k) : TRUE]
Store == INSTANCE BlockStore WITH
  content <- [k \in Block |-> Content(k)],
  durable <- platter,
  holder <- [k \in Block |-> Holder(k)]

\* The cache and the driver implement a store with one content per block, which
\* only its holder changes.
ImplementsBlockStore == Store!Spec

\* The cache and the driver at every step: no panic, exact reference counts, no
\* unsaved change in a buffer that may be recycled, and every descriptor and
\* every request accounted for.
DiskInv ==
  /\ TypeOK /\ NoPanic /\ RefCounts /\ EvictableIsClean
  /\ DescriptorsOwned /\ RequestTracked
=============================================================================
