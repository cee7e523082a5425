-------------------------------- MODULE Log --------------------------------
(***************************************************************************)
(* The write-ahead log of the xv6 file system: begin_op, log_write,        *)
(* end_op, commit, sys_sync, and recovery after a crash at any point.      *)
(* Source: src/xv6/kernel/log.c.                                           *)
(*                                                                         *)
(* A step is one critical section of log.lock, or one bwrite(): a crash    *)
(* can come between any two disk writes.  A disk block is written          *)
(* atomically.  A thread asleep on &log is woken by every wakeup(&log);    *)
(* sleep_prepare() is called with log.lock held, so registering and going  *)
(* to sleep are one step here.                                             *)
(***************************************************************************)
EXTENDS Integers, FiniteSets, Sequences

CONSTANTS Thread,       \* processes that use the file system
          Block,        \* data blocks
          Val,          \* contents of a block
          LOGBLOCKS,    \* blocks of the on-disk log
          MAXOPBLOCKS,  \* blocks begin_op() reserves for an operation
          OpBlocks,     \* blocks an operation really writes, at most
          MaxOps        \* bound: completed operations

ASSUME LogAssumption ==
  /\ IsFiniteSet(Thread)
  /\ Val # {}
  /\ LOGBLOCKS \in Nat
  /\ MAXOPBLOCKS \in Nat
  /\ OpBlocks \in 0 .. MAXOPBLOCKS
  /\ MAXOPBLOCKS <= LOGBLOCKS
  /\ MaxOps \in Nat

VARIABLES disk,         \* home locations
          dlog,         \* the log blocks on disk
          dhead,        \* the header on disk: the first n of its block[]
          cache,        \* the buffer cache, which holds every block
          lh,           \* log.lh: the first n of block[]
          outstanding, committing, ncommit,
          tail,         \* loop variable of write_log() and install_trans()
          mode,         \* "up", or where recovery is
          pc,           \* where each thread is
          touched,      \* what the operation of each thread has written
          want,         \* n in sys_sync()
          nended, nsafe, need  \* history: see below

(***************************************************************************)
(* nended counts the operations completed and not lost in a crash, nsafe   *)
(* those a crash can no longer undo; need[t] is nended when t entered      *)
(* sys_sync().                                                             *)
(***************************************************************************)
diskVars == <<disk, dlog, dhead>>
logVars == <<lh, outstanding, committing, ncommit, tail>>
histVars == <<nended, nsafe, need>>
vars == <<diskVars, cache, logVars, mode, pc, touched, want, histVars>>

LogSlot == 1 .. LOGBLOCKS
Asleep == {"asleep", "syncwait"}
PCs == {"idle", "begin", "in", "wlog", "install", "committed", "syncing",
        "synced"} \cup Asleep

\* What a wakeup(&log) makes of the program counters.
Woken(q) == [t \in Thread |-> IF q[t] = "asleep" THEN "begin"
                              ELSE IF q[t] = "syncwait" THEN "syncing"
                              ELSE q[t]]

Logged == {lh[i] : i \in DOMAIN lh}

Init ==
  /\ disk \in [Block -> Val]
  /\ dlog \in {[i \in LogSlot |-> v] : v \in Val}
  /\ dhead = <<>>
  /\ cache = disk
  /\ lh = <<>>
  /\ outstanding = 0 /\ committing = 0 /\ ncommit = 0 /\ tail = 1
  /\ mode = "up"
  /\ pc = [t \in Thread |-> "idle"]
  /\ touched = [t \in Thread |-> {}]
  /\ want = [t \in Thread |-> 0]
  /\ nended = 0 /\ nsafe = 0 /\ need = [t \in Thread |-> 0]

-----------------------------------------------------------------------------
(* File system operations. *)

\* Mutant: the blocks already logged are forgotten.
NoRoomIgnoresLog == (outstanding + 1) * MAXOPBLOCKS > LOGBLOCKS

NoRoom == Len(lh) + (outstanding + 1) * MAXOPBLOCKS > LOGBLOCKS

BeginOp(t) ==
  /\ pc[t] \in {"idle", "begin"}
  /\ nended + outstanding < MaxOps
  /\ IF committing = 1 \/ NoRoom
       THEN /\ pc' = [pc EXCEPT ![t] = "asleep"]
            /\ UNCHANGED <<outstanding, touched>>
       ELSE /\ outstanding' = outstanding + 1
            /\ pc' = [pc EXCEPT ![t] = "in"]
            /\ touched' = [touched EXCEPT ![t] = {}]
  /\ UNCHANGED <<diskVars, cache, lh, committing, ncommit, tail, want, histVars>>

\* An operation may write b: once more, or within its share of blocks.
MayWrite(t, b) ==
  pc[t] = "in" /\ Cardinality(touched[t] \cup {b}) <= OpBlocks

\* The operation changes a buffer and calls log_write(), which panics when the
\* log is full and otherwise adds the block unless it is there (absorption).
LogWrite(t, b, v) ==
  /\ MayWrite(t, b)
  /\ Len(lh) < LOGBLOCKS
  /\ cache' = [cache EXCEPT ![b] = v]
  /\ lh' = IF b \in Logged THEN lh ELSE Append(lh, b)
  /\ touched' = [touched EXCEPT ![t] = @ \cup {b}]
  /\ UNCHANGED <<diskVars, outstanding, committing, ncommit, tail, pc, want,
                 histVars>>

\* The last operation to end commits; the others wake begin_op().
EndOp(t) ==
  /\ pc[t] = "in"
  /\ outstanding' = outstanding - 1
  /\ nended' = nended + 1
  /\ IF outstanding = 1
       THEN /\ committing' = 1
            /\ tail' = 1
            /\ pc' = [pc EXCEPT ![t] = IF lh = <<>> THEN "committed" ELSE "wlog"]
            /\ nsafe' = IF lh = <<>> THEN nended + 1 ELSE nsafe
       ELSE /\ pc' = Woken([pc EXCEPT ![t] = "idle"])
            /\ UNCHANGED <<committing, tail, nsafe>>
  /\ touched' = [touched EXCEPT ![t] = {}]
  /\ UNCHANGED <<diskVars, cache, lh, ncommit, want, need>>

-----------------------------------------------------------------------------
(* commit(), one disk write at a time. *)

\* One iteration of write_log().
WriteLog(t) ==
  /\ pc[t] = "wlog"
  /\ tail <= Len(lh)
  /\ dlog' = [dlog EXCEPT ![tail] = cache[lh[tail]]]
  /\ tail' = tail + 1
  /\ UNCHANGED <<disk, dhead, cache, lh, outstanding, committing, ncommit, pc,
                 touched, want, histVars>>

\* Mutant: the header is written before all log blocks are.
WriteHeadEarly(t) ==
  /\ pc[t] = "wlog"
  /\ dhead' = lh
  /\ tail' = 1
  /\ pc' = [pc EXCEPT ![t] = "install"]
  /\ nsafe' = nended
  /\ UNCHANGED <<disk, dlog, cache, lh, outstanding, committing, ncommit,
                 touched, want, nended, need>>

\* write_head(): the commit point.
WriteHead(t) ==
  /\ pc[t] = "wlog"
  /\ tail > Len(lh)
  /\ dhead' = lh
  /\ tail' = 1
  /\ pc' = [pc EXCEPT ![t] = "install"]
  /\ nsafe' = nended
  /\ UNCHANGED <<disk, dlog, cache, lh, outstanding, committing, ncommit,
                 touched, want, nended, need>>

\* One iteration of install_trans().
Install ==
  /\ tail <= Len(lh)
  /\ disk' = [disk EXCEPT ![lh[tail]] = dlog[tail]]
  /\ cache' = [cache EXCEPT ![lh[tail]] = dlog[tail]]
  /\ tail' = tail + 1
  /\ UNCHANGED <<dlog, dhead, lh, outstanding, committing, ncommit, mode, pc,
                 touched, want, histVars>>

InstallTrans(t) == pc[t] = "install" /\ Install

\* Mutant: the transaction is erased before all its blocks are home.
EraseHeadEarly(t) ==
  /\ pc[t] = "install"
  /\ lh' = <<>>
  /\ dhead' = <<>>
  /\ pc' = [pc EXCEPT ![t] = "committed"]
  /\ tail' = 1
  /\ UNCHANGED <<disk, dlog, cache, outstanding, committing, ncommit, touched,
                 want, histVars>>

\* log.lh.n = 0 and the second write_head().
EraseHead(t) ==
  /\ pc[t] = "install"
  /\ tail > Len(lh)
  /\ lh' = <<>>
  /\ dhead' = <<>>
  /\ pc' = [pc EXCEPT ![t] = "committed"]
  /\ tail' = 1
  /\ UNCHANGED <<disk, dlog, cache, outstanding, committing, ncommit, touched,
                 want, histVars>>

\* Mutant: the committer wakes nobody.
CommittedSilent(t) ==
  /\ pc[t] = "committed"
  /\ committing' = 0
  /\ ncommit' = ncommit + 1
  /\ pc' = [pc EXCEPT ![t] = "idle"]
  /\ UNCHANGED <<diskVars, cache, lh, outstanding, tail, touched, want, histVars>>

\* Mutant: the operation is counted out a second time after the commit.
CommittedCountsOut(t) ==
  /\ pc[t] = "committed"
  /\ committing' = 0
  /\ outstanding' = outstanding - 1
  /\ ncommit' = ncommit + 1
  /\ pc' = Woken([pc EXCEPT ![t] = "idle"])
  /\ UNCHANGED <<diskVars, cache, lh, tail, touched, want, histVars>>

\* The last section of end_op().
Committed(t) ==
  /\ pc[t] = "committed"
  /\ committing' = 0
  /\ ncommit' = ncommit + 1
  /\ pc' = Woken([pc EXCEPT ![t] = "idle"])
  /\ UNCHANGED <<diskVars, cache, lh, outstanding, tail, touched, want, histVars>>

-----------------------------------------------------------------------------
(* sys_sync() *)

\* Mutant: sys_sync() does not wait for a commit in progress.
SyncIgnoresCommit(t) ==
  /\ pc[t] = "idle"
  /\ need' = [need EXCEPT ![t] = nended]
  /\ IF outstanding > 0
       THEN /\ want' = [want EXCEPT ![t] = ncommit + 1]
            /\ pc' = [pc EXCEPT ![t] = "syncwait"]
       ELSE /\ pc' = [pc EXCEPT ![t] = "synced"]
            /\ UNCHANGED want
  /\ UNCHANGED <<diskVars, cache, logVars, touched, nended, nsafe>>

Sync(t) ==
  /\ pc[t] = "idle"
  /\ need' = [need EXCEPT ![t] = nended]
  /\ IF committing = 1 \/ outstanding > 0
       THEN /\ want' = [want EXCEPT ![t] = ncommit + 1]
            /\ pc' = [pc EXCEPT ![t] = "syncwait"]
       ELSE /\ pc' = [pc EXCEPT ![t] = "synced"]
            /\ UNCHANGED want
  /\ UNCHANGED <<diskVars, cache, logVars, touched, nended, nsafe>>

SyncCheck(t) ==
  /\ pc[t] = "syncing"
  /\ pc' = [pc EXCEPT ![t] = IF ncommit < want[t] THEN "syncwait" ELSE "synced"]
  /\ UNCHANGED <<diskVars, cache, logVars, touched, want, histVars>>

SyncReturn(t) ==
  /\ pc[t] = "synced"
  /\ pc' = [pc EXCEPT ![t] = "idle"]
  /\ want' = [want EXCEPT ![t] = 0]
  /\ need' = [need EXCEPT ![t] = 0]
  /\ UNCHANGED <<diskVars, cache, logVars, touched, nended, nsafe>>

-----------------------------------------------------------------------------
(* Crash and recovery. *)

\* Memory is lost; the next boot starts with recovery.
Crash ==
  /\ mode' = "readhead"
  /\ cache' = disk
  /\ lh' = <<>>
  /\ outstanding' = 0 /\ committing' = 0 /\ ncommit' = 0 /\ tail' = 1
  /\ pc' = [t \in Thread |-> "idle"]
  /\ touched' = [t \in Thread |-> {}]
  /\ want' = [t \in Thread |-> 0]
  /\ nended' = nsafe
  /\ need' = [t \in Thread |-> 0]
  /\ UNCHANGED <<diskVars, nsafe>>

ReadHead ==
  /\ mode = "readhead"
  /\ lh' = dhead
  /\ mode' = "recover"
  /\ UNCHANGED <<diskVars, cache, outstanding, committing, ncommit, tail, pc,
                 touched, want, histVars>>

RecoverInstall == mode = "recover" /\ Install

\* The end of recover_from_log().
RecoverErase ==
  /\ mode = "recover"
  /\ tail > Len(lh)
  /\ lh' = <<>>
  /\ dhead' = <<>>
  /\ tail' = 1
  /\ mode' = "up"
  /\ UNCHANGED <<disk, dlog, cache, outstanding, committing, ncommit, pc,
                 touched, want, histVars>>

-----------------------------------------------------------------------------
Step(t) ==
  \/ BeginOp(t) \/ EndOp(t)
  \/ \E b \in Block, v \in Val : LogWrite(t, b, v)
  \/ WriteLog(t) \/ WriteHead(t) \/ InstallTrans(t) \/ EraseHead(t)
  \/ Committed(t)
  \/ Sync(t) \/ SyncCheck(t) \/ SyncReturn(t)

Next ==
  \/ mode = "up" /\ UNCHANGED mode /\ \E t \in Thread : Step(t)
  \/ Crash
  \/ ReadHead \/ RecoverInstall \/ RecoverErase

Spec == Init /\ [][Next]_vars

-----------------------------------------------------------------------------
(* Properties. *)

\* The ranges of the disk, the cache, the log and the threads of log.c.
TypeOK ==
  /\ disk \in [Block -> Val]
  /\ dlog \in [LogSlot -> Val]
  /\ cache \in [Block -> Val]
  /\ lh \in Seq(Block) /\ Len(lh) <= LOGBLOCKS
  /\ dhead \in Seq(Block) /\ Len(dhead) <= LOGBLOCKS
  /\ outstanding \in Nat /\ committing \in 0 .. 1 /\ ncommit \in Nat
  /\ tail \in 1 .. LOGBLOCKS + 1
  /\ mode \in {"up", "readhead", "recover"}
  /\ pc \in [Thread -> PCs]
  /\ touched \in [Thread -> SUBSET Block]
  /\ want \in [Thread -> Nat]
  /\ nended \in Nat /\ nsafe \in Nat /\ need \in [Thread -> Nat]

\* The disk as recovery would leave it.
Recovered ==
  [b \in Block |-> IF \E i \in DOMAIN dhead : dhead[i] = b
                     THEN dlog[CHOOSE i \in DOMAIN dhead : dhead[i] = b]
                     ELSE disk[b]]

InOp == {t \in Thread : pc[t] = "in"}

\* The log implements an atomic disk: what a crash leaves changes in one step,
\* the write of the header, and only while no operation is under way.
Atomic == INSTANCE AtomicDisk WITH
            mem <- IF mode = "up" THEN cache ELSE Recovered,
            durable <- Recovered,
            active <- InOp
ImplementsAtomicDisk == Atomic!Spec

\* begin_op() reserves enough: operations that each log fewer blocks than
\* MAXOPBLOCKS never make log_write() panic.  At MAXOPBLOCKS itself two of them
\* can fill the log, and log_write(), which tests for a full log before it looks
\* for the block there, panics on a block that is logged already.
NoPanic ==
  \A t \in Thread, b \in Block : MayWrite(t, b) => Len(lh) < LOGBLOCKS

\* A block that is not pinned is clean, so the buffer cache may drop it.
Pinned ==
  IF mode # "up" THEN Block
  ELSE {lh[i] : i \in {j \in DOMAIN lh :
                         (\E t \in Thread : pc[t] = "install") => j >= tail}}
UnpinnedIsClean == \A b \in Block \ Pinned : cache[b] = disk[b]

\* When sys_sync() returns, every operation that had ended when it was called
\* survives a crash.
SyncIsDurable == \A t \in Thread : pc[t] = "synced" => nsafe >= need[t]

\* Nobody sleeps on &log unless an operation or a commit that will wake them
\* is under way.
SleepersHaveWaker ==
  (\E t \in Thread : pc[t] \in Asleep) => committing = 1 \/ outstanding > 0

-----------------------------------------------------------------------------
(* Why the properties hold: an inductive invariant. *)

Committing == {"wlog", "install", "committed"}
Installing == \E t \in Thread : pc[t] = "install"

Distinct(s) == \A i, j \in DOMAIN s : s[i] = s[j] => i = j

\* The counter and the flag say what the threads are doing.
Counted ==
  /\ outstanding = Cardinality(InOp)
  /\ committing = 1 <=> \E t \in Thread : pc[t] \in Committing
  /\ committing = 1 => outstanding = 0
  /\ \A t, u \in Thread : pc[t] \in Committing /\ pc[u] \in Committing => t = u

\* The log blocks copied so far, and the home blocks installed so far.
Copied == \A i \in DOMAIN lh : i < tail => dlog[i] = cache[lh[i]]
Installed == \A i \in DOMAIN lh : i < tail => disk[lh[i]] = dlog[i]

\* What the log, the disk and the cache hold while the system is up.
UpInv ==
  /\ ~Installing => dhead = <<>>
  /\ Installing => /\ dhead = lh
                   /\ \A i \in DOMAIN lh : dlog[i] = cache[lh[i]]
                   /\ Installed
  /\ (\E t \in Thread : pc[t] = "wlog") => Copied
  /\ (\E t \in Thread : pc[t] = "committed") => lh = <<>>
  /\ committing = 0 /\ outstanding = 0 => lh = <<>>
  /\ \A b \in Block \ Logged : cache[b] = disk[b]

\* And from a crash to the end of recovery.
DownInv ==
  /\ \A t \in Thread : pc[t] = "idle"
  /\ cache = disk
  /\ mode = "readhead" => lh = <<>> /\ tail = 1
  /\ mode = "recover" => lh = dhead /\ Installed

\* What sys_sync() waits for.
SyncInv ==
  /\ nsafe <= nended
  /\ outstanding = 0 => nsafe = nended \/ \E t \in Thread : pc[t] = "wlog"
  /\ \A t \in Thread :
       /\ need[t] <= nended
       /\ pc[t] \in {"syncwait", "syncing"} =>
            nsafe >= need[t] \/ ncommit < want[t]
       /\ pc[t] \in {"syncwait", "syncing"} /\ ncommit < want[t] =>
            /\ committing = 1 \/ outstanding > 0
            /\ want[t] = ncommit + 1

DataInv ==
  /\ Distinct(lh) /\ Distinct(dhead)
  /\ mode = "up" => UpInv
  /\ mode # "up" => DownInv

LogInv ==
  /\ TypeOK
  /\ Counted
  /\ DataInv
  /\ SyncInv
  /\ SyncIsDurable
  /\ SleepersHaveWaker
=============================================================================
