------------------------------ MODULE LogSteps ------------------------------
(***************************************************************************)
(* What one step of Log does to the types, to the log, the disk and the    *)
(* cache, to the callers of sys_sync(), and to the atomic disk, for every  *)
(* set of threads, of blocks and of values and every size of the log.      *)
(***************************************************************************)
EXTENDS Log, TLAPS

USE LogAssumption

\* What the counter and the flag of the log say of the threads, without counting
\* them: the part of Counted that the data and the sleepers depend on.
Flags ==
  /\ outstanding = 0 <=> InOp = {}
  /\ committing = 1 <=> \E t \in Thread : pc[t] \in Committing
  /\ committing = 1 => outstanding = 0
  /\ \A t, u \in Thread : pc[t] \in Committing /\ pc[u] \in Committing => t = u

-----------------------------------------------------------------------------
(* Types. *)

\* The types hold at the start, and every step keeps them.
LEMMA InitType == Init => TypeOK
<1> SUFFICES ASSUME Init PROVE TypeOK
  OBVIOUS
<1>1. dlog \in [LogSlot -> Val] /\ disk \in [Block -> Val] /\ cache \in [Block -> Val]
  BY Zenon DEF Init
<1>2. lh \in Seq(Block) /\ Len(lh) = 0 /\ dhead \in Seq(Block) /\ Len(dhead) = 0
  BY DEF Init
<1>3. tail \in 1 .. LOGBLOCKS + 1
  BY DEF Init
<1> QED
  BY <1>1, <1>2, <1>3 DEF Init, TypeOK, PCs

\* wakeup() leaves every thread at a place it can be.
LEMMA WokenType ==
  ASSUME NEW q \in [Thread -> PCs]
  PROVE  Woken(q) \in [Thread -> PCs]
BY Zenon DEF Woken, PCs, Asleep

\* Installing one block keeps the types.
LEMMA InstallType ==
  ASSUME TypeOK, Install
  PROVE  TypeOK'
<1>1. tail \in LogSlot /\ lh[tail] \in Block /\ dlog[tail] \in Val
  BY DEF TypeOK, Install, LogSlot
<1> QED
  BY <1>1 DEF TypeOK, Install, LogSlot, histVars

\* The types are kept by every step: end_op() finds a count it can lower.
LEMMA NextType ==
  ASSUME TypeOK, Flags, [Next]_vars
  PROVE  TypeOK'
<1> USE DEF TypeOK
<1>1. ASSUME NEW t \in Thread, mode = "up", UNCHANGED mode, Step(t)
      PROVE  TypeOK'
  <2>1. CASE BeginOp(t)
    <3>1. pc' \in [Thread -> PCs] /\ touched' \in [Thread -> SUBSET Block]
      BY Zenon, <2>1 DEF BeginOp, PCs, Asleep
    <3>2. outstanding' \in Nat
      BY <2>1 DEF BeginOp
    <3> QED
      BY Zenon, <2>1, <1>1, <3>1, <3>2 DEF BeginOp, diskVars, histVars
  <2>2. CASE EndOp(t)
    <3>1. [pc EXCEPT ![t] = "idle"] \in [Thread -> PCs]
      BY Zenon DEF PCs, Asleep
    <3>2. pc' \in [Thread -> PCs]
      BY Zenon, <2>2, <3>1, WokenType DEF EndOp, PCs, Asleep
    <3>3. outstanding' \in Nat
      <4>1. t \in InOp
        BY Zenon, <2>2 DEF EndOp, InOp
      <4>2. outstanding # 0
        BY <4>1 DEF Flags
      <4> QED
        BY <2>2, <4>2 DEF EndOp, Flags
    <3>4. tail' \in 1 .. LOGBLOCKS + 1 /\ committing' \in 0 .. 1
      BY <2>2 DEF EndOp
    <3>5. nended' \in Nat /\ nsafe' \in Nat
      BY <2>2 DEF EndOp
    <3>6. touched' \in [Thread -> SUBSET Block]
      BY Zenon, <2>2 DEF EndOp
    <3> QED
      BY Zenon, <2>2, <1>1, <3>2, <3>3, <3>4, <3>5, <3>6 DEF EndOp, diskVars
  <2>3. ASSUME NEW b \in Block, NEW v \in Val, LogWrite(t, b, v)
        PROVE  TypeOK'
    BY <2>3, <1>1 DEF LogWrite, MayWrite, diskVars, histVars
  <2>4. CASE WriteLog(t)
    BY <2>4, <1>1 DEF WriteLog, LogSlot, diskVars, histVars
  <2>5. CASE WriteHead(t)
    BY <2>5, <1>1 DEF WriteHead, PCs, Asleep, diskVars, histVars
  <2>6. CASE InstallTrans(t)
    BY SMTT(30), <2>6, InstallType DEF InstallTrans
  <2>7. CASE EraseHead(t)
    BY <2>7, <1>1 DEF EraseHead, PCs, Asleep, diskVars, histVars
  <2>8. CASE Committed(t)
    <3>1. [pc EXCEPT ![t] = "idle"] \in [Thread -> PCs]
      BY Zenon DEF PCs, Asleep
    <3>2. pc' \in [Thread -> PCs]
      BY Zenon, <2>8, <3>1, WokenType DEF Committed
    <3>3. ncommit' \in Nat /\ committing' \in 0 .. 1
      BY <2>8 DEF Committed
    <3> QED
      BY Zenon, <2>8, <1>1, <3>2, <3>3 DEF Committed, diskVars, histVars
  <2>9. CASE Sync(t)
    <3>1. pc' \in [Thread -> PCs]
      BY Zenon, <2>9 DEF Sync, PCs, Asleep
    <3>2. want' \in [Thread -> Nat] /\ need' \in [Thread -> Nat]
      BY <2>9 DEF Sync
    <3> QED
      BY Zenon, <2>9, <1>1, <3>1, <3>2 DEF Sync, diskVars, logVars
  <2>10. CASE SyncCheck(t)
    BY Zenon, <2>10, <1>1 DEF SyncCheck, PCs, Asleep, diskVars, logVars, histVars
  <2>11. CASE SyncReturn(t)
    BY Zenon, <2>11, <1>1 DEF SyncReturn, PCs, Asleep, diskVars, logVars
  <2> QED
    BY Zenon, <1>1, <2>1, <2>2, <2>3, <2>4, <2>5, <2>6, <2>7, <2>8, <2>9, <2>10,
       <2>11 DEF Step
<1>2. CASE Crash
  BY <1>2 DEF Crash, PCs, diskVars
<1>3. CASE ReadHead
  BY Zenon, <1>3 DEF ReadHead, diskVars, histVars
<1>4. CASE RecoverInstall
  BY Zenon, <1>4, InstallType DEF RecoverInstall
<1>5. CASE RecoverErase
  BY <1>5 DEF RecoverErase, histVars
<1>6. CASE UNCHANGED vars
  BY Zenon, <1>6 DEF vars, diskVars, logVars, histVars
<1> QED
  BY SMTT(30), <1>1, <1>2, <1>3, <1>4, <1>5, <1>6 DEF Next

\* wakeup() moves the sleepers and no one else.
LEMMA WokenKeeps ==
  ASSUME NEW q \in [Thread -> PCs], NEW u \in Thread
  PROVE  /\ Woken(q)[u] = "in" <=> q[u] = "in"
         /\ Woken(q)[u] \in Committing <=> q[u] \in Committing
         /\ Woken(q)[u] \in Committing => Woken(q)[u] = q[u]
         /\ Woken(q)[u] \notin Asleep
         /\ Woken(q)[u] = "syncing" => q[u] \in {"syncwait", "syncing"}
         /\ Woken(q)[u] = "synced" <=> q[u] = "synced"
         /\ Woken(q)[u] = "wlog" <=> q[u] = "wlog"
         /\ Woken(q)[u] = "install" <=> q[u] = "install"
         /\ Woken(q)[u] = "committed" <=> q[u] = "committed"
BY Zenon DEF Woken, Committing, Asleep

-----------------------------------------------------------------------------
(* The log, the disk and the cache. *)

\* A step that leaves the data alone, and the commit where it is.
LEMMA DataStays ==
  ASSUME DataInv, mode = "up", mode' = "up",
         UNCHANGED <<disk, dlog, dhead, cache, lh, tail>>,
         \A u \in Thread : pc'[u] \in Committing \/ pc[u] \in Committing
                             => pc'[u] = pc[u],
         committing' = 0 /\ outstanding' = 0 => lh = <<>>
  PROVE  DataInv'
<1>1. \A u \in Thread : /\ pc'[u] = "wlog" <=> pc[u] = "wlog"
                        /\ pc'[u] = "install" <=> pc[u] = "install"
                        /\ pc'[u] = "committed" <=> pc[u] = "committed"
  BY Zenon DEF Committing
<1>2. Installing' <=> Installing
  BY Zenon, <1>1 DEF Installing
<1>3. Logged' = Logged /\ (Installed' <=> Installed) /\ (Copied' <=> Copied)
  BY Zenon DEF Logged, Installed, Copied
<1> QED
  BY Zenon, <1>1, <1>2, <1>3 DEF DataInv, UpInv, Distinct

\* No one commits while an operation is under way.
LEMMA NoCommitter ==
  ASSUME TypeOK, Flags, NEW t \in Thread, pc[t] = "in"
  PROVE  /\ outstanding # 0 /\ committing = 0 /\ ~Installing
         /\ \A u \in Thread : pc[u] \notin Committing
<1>1. outstanding # 0
  BY DEF Flags, InOp
<1>2. committing = 0
  BY <1>1 DEF Flags, TypeOK
<1>3. \A u \in Thread : pc[u] \notin Committing
  BY <1>2 DEF Flags
<1> QED
  BY <1>1, <1>2, <1>3 DEF Installing, Committing

\* What the types say of the header in memory and the one on disk.
LEMMA SeqFacts ==
  ASSUME TypeOK
  PROVE  /\ DOMAIN lh = 1 .. Len(lh) /\ Len(lh) \in Nat
         /\ DOMAIN dhead = 1 .. Len(dhead) /\ Len(dhead) \in Nat
         /\ tail \in Nat /\ tail >= 1
         /\ \A i \in DOMAIN lh : lh[i] \in Block /\ i \in LogSlot
         /\ \A i \in DOMAIN dhead : dhead[i] \in Block /\ i \in LogSlot
BY DEF TypeOK, LogSlot

\* Every step keeps what the log, the disk and the cache hold.
LEMMA NextData ==
  ASSUME TypeOK, Flags, DataInv, [Next]_vars
  PROVE  DataInv'
<1>0. pc \in [Thread -> PCs] /\ outstanding \in Nat /\ committing \in 0 .. 1
  BY Zenon DEF TypeOK
<1>f. disk \in [Block -> Val] /\ cache \in [Block -> Val] /\ dlog \in [LogSlot -> Val]
  BY Zenon DEF TypeOK
<1>1. ASSUME NEW t \in Thread, mode = "up", mode' = "up", Step(t)
      PROVE  DataInv'
  <2>0. UpInv /\ Distinct(lh) /\ Distinct(dhead)
    BY <1>1 DEF DataInv
  <2> DEFINE q == [pc EXCEPT ![t] = "idle"]
  <2>q. q \in [Thread -> PCs]
    BY <1>0 DEF PCs
  <2>w. \A u \in Thread : /\ Woken(q)[u] \in Committing <=> q[u] \in Committing
                          /\ Woken(q)[u] \in Committing => Woken(q)[u] = q[u]
    BY Zenon, <2>q, WokenKeeps
  <2> HIDE DEF q
  <2>1. CASE BeginOp(t)
    <3>1. committing' = 0 /\ outstanding' = 0 => lh = <<>>
      BY <1>0, <2>0, <2>1 DEF BeginOp, UpInv
    <3>2. UNCHANGED <<disk, dlog, dhead, cache, lh, tail>>
      BY Zenon, <2>1 DEF BeginOp, diskVars
    <3>3. \A u \in Thread : pc'[u] \in Committing \/ pc[u] \in Committing
                             => pc'[u] = pc[u]
      BY Zenon, <1>0, <2>1 DEF BeginOp, Committing
    <3> QED
      BY <1>1, <3>1, <3>2, <3>3, DataStays
  <2>2. CASE EndOp(t)
    <3>1. /\ outstanding # 0 /\ committing = 0 /\ ~Installing
          /\ \A u \in Thread : pc[u] \notin Committing
      BY Zenon, <2>2, NoCommitter DEF EndOp
    <3>2. UNCHANGED <<disk, dlog, dhead, cache, lh>>
      BY Zenon, <2>2 DEF EndOp, diskVars
    <3>3. CASE outstanding # 1
      <4>1. \A u \in Thread : pc'[u] \notin Committing
        BY Zenon, <1>0, <2>2, <2>w, <3>1, <3>3 DEF EndOp, Committing, q
      <4>2. tail' = tail /\ outstanding' # 0
        BY <1>0, <2>2, <3>3, <3>1 DEF EndOp
      <4> QED
        BY <1>1, <3>1, <3>2, <4>1, <4>2, DataStays
    <3>4. CASE outstanding = 1
      <4>1. \A u \in Thread : pc'[u] \in Committing => u = t
        BY Zenon, <1>0, <2>2, <3>1, <3>4 DEF EndOp, Committing
      <4>2. pc'[t] = (IF lh = <<>> THEN "committed" ELSE "wlog") /\ tail' = 1
        BY <1>0, <2>2, <3>4 DEF EndOp
      <4>3. ~Installing'
        BY <4>1, <4>2 DEF Installing, Committing
      <4>4. Copied'
        BY <4>2, <3>2, SeqFacts DEF Copied
      <4>5. (\E u \in Thread : pc'[u] = "committed") => lh' = <<>>
        BY <4>1, <4>2, <3>2 DEF Committing
      <4>6. committing' # 0
        BY <2>2, <3>4 DEF EndOp
      <4>7. UpInv'
        BY Zenon, <2>0, <3>1, <3>2, <4>3, <4>4, <4>5, <4>6 DEF UpInv, Logged
      <4> QED
        BY <1>1, <2>0, <3>2, <4>7 DEF DataInv, Distinct
    <3> QED
      BY <3>3, <3>4
  <2>3. ASSUME NEW b \in Block, NEW v \in Val, LogWrite(t, b, v)
        PROVE  DataInv'
    <3>1. /\ outstanding # 0 /\ committing = 0 /\ ~Installing
          /\ \A u \in Thread : pc[u] \notin Committing
      BY Zenon, <2>3, NoCommitter DEF LogWrite, MayWrite
    <3>2. /\ disk' = disk /\ dhead' = dhead /\ pc' = pc
          /\ outstanding' = outstanding
          /\ cache' = [cache EXCEPT ![b] = v]
      BY Zenon, <2>3 DEF LogWrite, diskVars
    <3>3. Logged' = Logged \cup {b} /\ Distinct(lh)'
      <4>1. CASE b \in Logged
        BY <2>0, <2>3, <4>1 DEF LogWrite, Logged, Distinct
      <4>2. CASE b \notin Logged
        <5>1. lh' = Append(lh, b) /\ lh \in Seq(Block)
          BY Zenon, <2>3, <4>2 DEF LogWrite, TypeOK
        <5>2. /\ DOMAIN lh' = DOMAIN lh \cup {Len(lh) + 1}
              /\ lh'[Len(lh) + 1] = b
              /\ \A i \in DOMAIN lh : lh'[i] = lh[i] /\ i # Len(lh) + 1
          BY <5>1
        <5>3. Logged' = Logged \cup {b}
          BY <5>2 DEF Logged
        <5> QED
          BY <2>0, <4>2, <5>2, <5>3 DEF Logged, Distinct
      <4> QED
        BY <4>1, <4>2
    <3>4. ~Installing' /\ \A u \in Thread : pc'[u] \notin Committing
      BY <3>1, <3>2 DEF Installing
    <3>5. \A c \in Block \ Logged' : cache'[c] = disk'[c]
      BY SMTT(30), <2>0, <3>2, <3>3, <1>f DEF UpInv
    <3>6. UpInv'
      BY SMTT(30), <2>0, <3>1, <3>2, <3>4, <3>5 DEF UpInv, Committing
    <3> QED
      BY SMTT(30), <1>1, <2>0, <3>2, <3>3, <3>6 DEF DataInv, Distinct
  <2>4. CASE WriteLog(t)
    <3>1. /\ disk' = disk /\ dhead' = dhead /\ pc' = pc /\ lh' = lh
          /\ cache' = cache /\ outstanding' = outstanding
          /\ committing' = committing
          /\ tail' = tail + 1 /\ tail \in DOMAIN lh /\ tail \in LogSlot
          /\ dlog' = [dlog EXCEPT ![tail] = cache[lh[tail]]]
      BY <2>4, SeqFacts DEF WriteLog
    <3>2. ~Installing
      BY Zenon, <2>4 DEF WriteLog, Flags, Installing, Committing
    <3>3. Copied
      BY Zenon, <2>0, <2>4 DEF UpInv, WriteLog
    <3>4. Copied'
      BY <3>1, <3>3, <1>f, SeqFacts DEF Copied
    <3>5. UpInv'
      BY Zenon, <2>0, <3>1, <3>2, <3>4 DEF UpInv, Installing, Logged
    <3> QED
      BY <1>1, <2>0, <3>1, <3>5 DEF DataInv, Distinct
  <2>5. CASE WriteHead(t)
    <3>1. /\ disk' = disk /\ dlog' = dlog /\ dhead' = lh /\ lh' = lh
          /\ cache' = cache /\ outstanding' = outstanding
          /\ committing' = committing /\ tail' = 1 /\ tail > Len(lh)
          /\ pc' = [pc EXCEPT ![t] = "install"]
      BY <2>5 DEF WriteHead
    <3>2. \A u \in Thread : pc[u] \in Committing => u = t
      BY Zenon, <2>5 DEF WriteHead, Flags, Committing
    <3>3. \A u \in Thread : pc'[u] \notin {"wlog", "committed"}
      BY <1>0, <3>1, <3>2 DEF Committing
    <3>4. Copied
      BY Zenon, <2>0, <2>5 DEF UpInv, WriteHead
    <3>5. \A i \in DOMAIN lh : dlog[i] = cache[lh[i]]
      BY <3>1, <3>4, SeqFacts DEF Copied
    <3>6. Installed'
      BY <3>1, SeqFacts DEF Installed
    <3>7. Installing'
      BY <1>0, <3>1 DEF Installing
    <3>8. UpInv'
      BY <2>0, <3>1, <3>3, <3>5, <3>6, <3>7 DEF UpInv, Logged
    <3> QED
      BY <1>1, <2>0, <3>1, <3>8 DEF DataInv, Distinct
  <2>6. CASE InstallTrans(t)
    <3>1. /\ tail \in DOMAIN lh /\ tail \in LogSlot /\ lh[tail] \in Block
          /\ disk' = [disk EXCEPT ![lh[tail]] = dlog[tail]]
          /\ cache' = [cache EXCEPT ![lh[tail]] = dlog[tail]]
          /\ tail' = tail + 1 /\ dlog' = dlog /\ dhead' = dhead /\ lh' = lh
          /\ pc' = pc /\ outstanding' = outstanding /\ committing' = committing
      BY <2>6, SeqFacts DEF InstallTrans, Install
    <3>2. \A u \in Thread : pc[u] \notin {"wlog", "committed"}
      BY <2>6 DEF InstallTrans, Flags, Committing
    <3>3. Installing /\ Installing'
      BY <2>6, <3>1 DEF InstallTrans, Installing
    <3>4. /\ dhead = lh /\ Installed
          /\ \A i \in DOMAIN lh : dlog[i] = cache[lh[i]]
      BY Zenon, <2>0, <3>3 DEF UpInv
    <3>5. cache' = cache
      BY <3>1, <3>4, <1>f
    <3>6. Installed'
      BY <2>0, <3>1, <3>4, <1>f, SeqFacts DEF Installed, Distinct
    <3>7. \A c \in Block \ Logged : disk'[c] = disk[c]
      BY Zenon, <3>1, <1>f DEF Logged
    <3>8. UpInv'
      BY <2>0, <3>1, <3>2, <3>3, <3>4, <3>5, <3>6, <3>7 DEF UpInv, Logged
    <3> QED
      BY Zenon, <1>1, <2>0, <3>1, <3>8 DEF DataInv, Distinct
  <2>7. CASE EraseHead(t)
    <3>1. /\ tail > Len(lh) /\ lh' = <<>> /\ dhead' = <<>>
          /\ disk' = disk /\ cache' = cache
          /\ pc' = [pc EXCEPT ![t] = "committed"]
      BY <2>7 DEF EraseHead
    <3>2. \A u \in Thread : pc[u] \in Committing => u = t
      BY Zenon, <2>7 DEF EraseHead, Flags, Committing
    <3>3. ~Installing' /\ \A u \in Thread : pc'[u] # "wlog"
      BY <1>0, <3>1, <3>2 DEF Installing, Committing
    <3>4. /\ \A i \in DOMAIN lh : dlog[i] = cache[lh[i]]
          /\ Installed
      BY Zenon, <2>0, <2>7 DEF UpInv, Installing, EraseHead
    <3>5. \A i \in DOMAIN lh : cache[lh[i]] = disk[lh[i]]
      BY <3>1, <3>4, SeqFacts DEF Installed
    <3>6. \A c \in Block : cache[c] = disk[c]
      BY <2>0, <3>5 DEF UpInv, Logged
    <3>7. UpInv'
      BY <3>1, <3>3, <3>6 DEF UpInv, Logged
    <3> QED
      BY <1>1, <3>1, <3>7 DEF DataInv, Distinct
  <2>8. CASE Committed(t)
    <3>1. lh = <<>> /\ UNCHANGED <<disk, dlog, dhead, cache, lh, tail>>
      BY Zenon, <2>0, <2>8 DEF UpInv, Committed, diskVars
    <3>2. \A u \in Thread : pc[u] \in Committing => u = t
      BY Zenon, <2>8 DEF Committed, Flags, Committing
    <3>3. \A u \in Thread : pc'[u] \notin Committing
      BY Zenon, <1>0, <2>8, <2>w, <3>2 DEF Committed, Committing, q
    <3>4. dhead = <<>> /\ ~Installing'
      BY ZenonT(30), <2>0, <2>8, <3>2, <3>3
         DEF UpInv, Committed, Installing, Committing
    <3>5. UpInv'
      BY SMTT(30), <2>0, <3>1, <3>3, <3>4 DEF UpInv, Committing, Logged
    <3> QED
      BY <1>1, <2>0, <3>1, <3>5 DEF DataInv, Distinct
  <2>9. ASSUME UNCHANGED <<diskVars, cache, logVars>>,
               pc[t] \notin Committing, pc'[t] \notin Committing,
               \A u \in Thread \ {t} : pc'[u] = pc[u]
        PROVE  DataInv'
    <3>1. \A u \in Thread : pc'[u] \in Committing \/ pc[u] \in Committing
                             => pc'[u] = pc[u]
      BY <2>9
    <3>2. committing' = 0 /\ outstanding' = 0 => lh = <<>>
      BY Zenon, <2>0, <2>9 DEF UpInv, logVars
    <3>3. UNCHANGED <<disk, dlog, dhead, cache, lh, tail>>
      BY <2>9 DEF diskVars, logVars
    <3> QED
      BY <1>1, <3>1, <3>2, <3>3, DataStays
  <2>10. CASE Sync(t)
    BY <1>0, <2>9, <2>10 DEF Sync, Committing
  <2>11. CASE SyncCheck(t)
    BY <1>0, <2>9, <2>11 DEF SyncCheck, Committing
  <2>12. CASE SyncReturn(t)
    BY <1>0, <2>9, <2>12 DEF SyncReturn, Committing
  <2> QED
    BY <1>1, <2>1, <2>2, <2>3, <2>4, <2>5, <2>6, <2>7, <2>8, <2>10, <2>11,
       <2>12 DEF Step
<1>2. CASE Crash
  BY <1>2 DEF Crash, DataInv, DownInv, Distinct, diskVars
<1>3. CASE ReadHead
  <2>1. DownInv /\ lh = <<>> /\ tail = 1 /\ Distinct(dhead)
    BY <1>3 DEF ReadHead, DataInv, DownInv
  <2>2. /\ lh' = dhead /\ dhead' = dhead /\ tail' = 1 /\ mode' = "recover"
        /\ pc' = pc /\ cache' = cache /\ disk' = disk
    BY <1>3, <2>1 DEF ReadHead, diskVars
  <2>3. Installed'
    BY <2>2, SeqFacts DEF Installed
  <2> QED
    BY <2>1, <2>2, <2>3 DEF DataInv, DownInv, Distinct
<1>4. CASE RecoverInstall
  <2>a. mode = "recover" /\ tail <= Len(lh)
    BY Zenon, <1>4 DEF RecoverInstall, Install
  <2>b. tail \in DOMAIN lh /\ tail \in LogSlot /\ lh[tail] \in Block
    BY <2>a, SeqFacts
  <2>c. /\ mode' = mode
        /\ disk' = [disk EXCEPT ![lh[tail]] = dlog[tail]]
        /\ cache' = [cache EXCEPT ![lh[tail]] = dlog[tail]]
        /\ tail' = tail + 1 /\ dlog' = dlog /\ dhead' = dhead /\ lh' = lh
        /\ pc' = pc
    BY Zenon, <1>4 DEF RecoverInstall, Install
  <2>1. /\ mode = "recover" /\ mode' = mode
        /\ tail \in DOMAIN lh /\ tail \in LogSlot /\ lh[tail] \in Block
        /\ disk' = [disk EXCEPT ![lh[tail]] = dlog[tail]]
        /\ cache' = [cache EXCEPT ![lh[tail]] = dlog[tail]]
        /\ tail' = tail + 1 /\ dlog' = dlog /\ dhead' = dhead /\ lh' = lh
        /\ pc' = pc
    BY Zenon, <2>a, <2>b, <2>c
  <2>2. DownInv /\ Distinct(lh) /\ Distinct(dhead) /\ lh = dhead /\ Installed
    BY Zenon, <2>1 DEF DataInv, DownInv
  <2>3. Installed'
    BY <2>1, <2>2, <1>f, SeqFacts DEF Installed, Distinct
  <2>4. cache' = disk'
    BY <2>1, <2>2 DEF DownInv
  <2> QED
    BY SMTT(30), <2>1, <2>2, <2>3, <2>4 DEF DataInv, DownInv, Distinct
<1>5. CASE RecoverErase
  <2>1. DownInv
    BY <1>5 DEF RecoverErase, DataInv
  <2>2. /\ mode' = "up" /\ lh' = <<>> /\ dhead' = <<>> /\ pc' = pc
        /\ cache' = cache /\ disk' = disk
    BY <1>5 DEF RecoverErase
  <2>3. \A u \in Thread : pc'[u] \notin Committing
    BY <2>1, <2>2 DEF DownInv, Committing
  <2>4. UpInv'
    BY SMTT(30), <2>1, <2>2, <2>3 DEF UpInv, DownInv, Installing, Committing
  <2> QED
    BY <2>2, <2>4 DEF DataInv, Distinct
<1>6. CASE UNCHANGED vars
  BY <1>6 DEF vars, diskVars, logVars, DataInv, UpInv, DownInv, Distinct,
     Installing, Installed, Copied, Logged
<1> QED
  BY <1>1, <1>2, <1>3, <1>4, <1>5, <1>6 DEF Next

-----------------------------------------------------------------------------
(* sys_sync() and the sleepers. *)

\* What the single committer means for nsafe.
LEMMA SafeWhenWritten ==
  ASSUME TypeOK, Flags, SyncInv, NEW t \in Thread,
         pc[t] \in {"install", "committed"}
  PROVE  nsafe = nended /\ outstanding = 0 /\ committing = 1
<1>1. committing = 1 /\ outstanding = 0
  BY DEF Flags, Committing
<1>2. \A u \in Thread : pc[u] # "wlog"
  BY DEF Flags, Committing
<1> QED
  BY <1>1, <1>2 DEF SyncInv

\* A step that leaves the counters alone and moves no thread in or out of
\* sys_sync(), write_log() or a sleep.
LEMMA SyncStays ==
  ASSUME SyncInv, SyncIsDurable, SleepersHaveWaker,
         UNCHANGED <<outstanding, committing, ncommit, nended, nsafe, need, want>>,
         \A u \in Thread :
           \/ pc'[u] = pc[u]
           \/ pc'[u] \notin Asleep \cup {"syncing", "synced"} /\ pc[u] # "wlog"
  PROVE  SyncInv' /\ SyncIsDurable' /\ SleepersHaveWaker'
<1>1. (\E u \in Thread : pc[u] = "wlog") => (\E u \in Thread : pc'[u] = "wlog")
  BY DEF Asleep
<1>2. SyncInv'
  BY Zenon, <1>1 DEF SyncInv, Asleep
<1>3. SyncIsDurable'
  BY Zenon DEF SyncIsDurable
<1>4. SleepersHaveWaker'
  BY Zenon DEF SleepersHaveWaker
<1> QED
  BY <1>2, <1>3, <1>4

\* Every step keeps what sys_sync() waits for, and leaves no sleeper behind.
LEMMA NextSync ==
  ASSUME TypeOK, Flags, DataInv, SyncInv, SyncIsDurable, SleepersHaveWaker,
         [Next]_vars
  PROVE  SyncInv' /\ SyncIsDurable' /\ SleepersHaveWaker'
<1>0. pc \in [Thread -> PCs] /\ outstanding \in Nat /\ committing \in 0 .. 1
  BY Zenon DEF TypeOK
<1>n. /\ nended \in Nat /\ nsafe \in Nat /\ ncommit \in Nat
      /\ want \in [Thread -> Nat] /\ need \in [Thread -> Nat]
  BY Zenon DEF TypeOK
<1>1. ASSUME NEW t \in Thread, mode = "up", mode' = "up", Step(t)
      PROVE  SyncInv' /\ SyncIsDurable' /\ SleepersHaveWaker'
  <2> DEFINE q == [pc EXCEPT ![t] = "idle"]
  <2>q. q \in [Thread -> PCs]
    BY <1>0 DEF PCs
  <2>w. \A u \in Thread :
          /\ Woken(q)[u] \notin Asleep
          /\ Woken(q)[u] = "syncing" => q[u] \in {"syncwait", "syncing"}
          /\ Woken(q)[u] = "synced" <=> q[u] = "synced"
          /\ Woken(q)[u] = "wlog" <=> q[u] = "wlog"
    BY Zenon, <2>q, WokenKeeps
  <2> HIDE DEF q
  <2>1. CASE BeginOp(t)
    <3>1. /\ UNCHANGED <<committing, ncommit, nended, nsafe, need, want>>
          /\ pc[t] \in {"idle", "begin"} /\ pc'[t] \in {"asleep", "in"}
          /\ \A u \in Thread \ {t} : pc'[u] = pc[u]
          /\ outstanding' = outstanding \/ outstanding' = outstanding + 1
      BY Zenon, <1>0, <2>1 DEF BeginOp, histVars
    <3>2. pc'[t] = "asleep" => committing = 1 \/ outstanding > 0
      <4>1. SUFFICES ASSUME committing = 0, outstanding = 0, NoRoom
                     PROVE  FALSE
        BY SMTT(30), <1>0, <2>1 DEF BeginOp
      <4>2. lh = <<>>
        BY <1>1, <4>1 DEF DataInv, UpInv
      <4> QED
        BY <4>1, <4>2 DEF NoRoom
    <3>3. pc'[t] # "asleep" => outstanding' = outstanding + 1
      BY Zenon, <1>0, <2>1 DEF BeginOp
    <3>4. SyncInv'
      BY <1>0, <1>n, <3>1 DEF SyncInv
    <3>5. SyncIsDurable'
      BY Zenon, <3>1 DEF SyncIsDurable
    <3>6. SleepersHaveWaker'
      BY <1>0, <3>1, <3>2, <3>3 DEF SleepersHaveWaker
    <3> QED
      BY <3>4, <3>5, <3>6
  <2>2. CASE EndOp(t)
    <3>1. /\ outstanding # 0 /\ committing = 0
          /\ \A u \in Thread : pc[u] # "wlog"
      BY Zenon, <2>2, NoCommitter DEF EndOp, Committing
    <3>2. /\ ncommit' = ncommit /\ want' = want /\ need' = need
          /\ nended' = nended + 1 /\ outstanding' = outstanding - 1
      BY Zenon, <2>2 DEF EndOp
    <3>3. CASE outstanding = 1
      <4>1. /\ committing' = 1
            /\ nsafe' = (IF lh = <<>> THEN nended + 1 ELSE nsafe)
            /\ pc'[t] = (IF lh = <<>> THEN "committed" ELSE "wlog")
            /\ \A u \in Thread \ {t} : pc'[u] = pc[u]
        BY Zenon, <1>0, <2>2, <3>3 DEF EndOp
      <4>2. nsafe' >= nsafe /\ nsafe' \in Nat /\ nsafe' <= nended'
        BY <1>n, <3>2, <4>1 DEF SyncInv
      <4>3. SyncInv'
        <5>1. outstanding' = 0 =>
                nsafe' = nended' \/ \E u \in Thread : pc'[u] = "wlog"
          BY <3>2, <4>1
        <5>2. ASSUME NEW u \in Thread
              PROVE  /\ need'[u] <= nended'
                     /\ pc'[u] \in {"syncwait", "syncing"} =>
                          nsafe' >= need'[u] \/ ncommit' < want'[u]
                     /\ pc'[u] \in {"syncwait", "syncing"} /\ ncommit' < want'[u] =>
                          want'[u] = ncommit' + 1
          BY <1>n, <3>2, <4>1, <4>2 DEF SyncInv
        <5> QED
          BY Zenon, <4>1, <4>2, <5>1, <5>2 DEF SyncInv
      <4>4. SyncIsDurable'
        BY SMTT(30), <1>n, <3>2, <4>1, <4>2 DEF SyncIsDurable
      <4>5. SleepersHaveWaker'
        BY <4>1 DEF SleepersHaveWaker
      <4> QED
        BY <4>3, <4>4, <4>5
    <3>4. CASE outstanding # 1
      <4>1. pc' = Woken(q) /\ nsafe' = nsafe /\ outstanding' > 0
        BY <1>0, <2>2, <3>1, <3>4 DEF EndOp, q
      <4>2. \A u \in Thread :
              /\ pc'[u] \notin Asleep
              /\ pc'[u] \in {"syncwait", "syncing"} => pc[u] \in {"syncwait", "syncing"}
              /\ pc'[u] = "synced" => pc[u] = "synced"
        BY ZenonT(30), <1>0, <2>w, <4>1 DEF q, Asleep
      <4>3. SyncInv'
        BY SMTT(30), <1>n, <3>2, <4>1, <4>2 DEF SyncInv
      <4>4. SyncIsDurable'
        BY SMTT(30), <3>2, <4>1, <4>2 DEF SyncIsDurable
      <4>5. SleepersHaveWaker'
        BY <4>2 DEF SleepersHaveWaker
      <4> QED
        BY <4>3, <4>4, <4>5
    <3> QED
      BY <3>3, <3>4
  <2>3. ASSUME NEW b \in Block, NEW v \in Val, LogWrite(t, b, v)
        PROVE  SyncInv' /\ SyncIsDurable' /\ SleepersHaveWaker'
    BY Zenon, <2>3, SyncStays DEF LogWrite, histVars
  <2>4. CASE WriteLog(t)
    BY Zenon, <2>4, SyncStays DEF WriteLog, histVars
  <2>5. CASE WriteHead(t)
    <3>1. /\ UNCHANGED <<outstanding, committing, ncommit, nended, need, want>>
          /\ nsafe' = nended /\ pc' = [pc EXCEPT ![t] = "install"]
      BY <2>5 DEF WriteHead
    <3>2. SyncInv'
      BY <1>0, <1>n, <3>1 DEF SyncInv
    <3>3. SyncIsDurable'
      BY <1>0, <1>n, <3>1 DEF SyncIsDurable, SyncInv
    <3>4. SleepersHaveWaker'
      BY <1>0, <3>1 DEF SleepersHaveWaker, Asleep
    <3> QED
      BY <3>2, <3>3, <3>4
  <2>6. CASE InstallTrans(t)
    BY Zenon, <2>6, SyncStays DEF InstallTrans, Install, histVars
  <2>7. CASE EraseHead(t)
    BY Zenon, <1>0, <2>7, SyncStays DEF EraseHead, histVars, Asleep
  <2>8. CASE Committed(t)
    <3>1. /\ UNCHANGED <<outstanding, nended, nsafe, need, want>>
          /\ ncommit' = ncommit + 1 /\ pc' = Woken(q)
      BY <2>8 DEF Committed, histVars, q
    <3>2. nsafe = nended
      BY <2>8, SafeWhenWritten DEF Committed
    <3>3. \A u \in Thread :
            /\ pc'[u] \notin Asleep
            /\ pc'[u] \in {"syncwait", "syncing"} => pc[u] \in {"syncwait", "syncing"}
            /\ pc'[u] = "synced" => pc[u] = "synced"
      BY ZenonT(30), <1>0, <2>w, <3>1 DEF q, Asleep
    <3>4. SyncInv'
      BY SMTT(30), <1>n, <3>1, <3>2, <3>3 DEF SyncInv
    <3>5. SyncIsDurable'
      BY <3>1, <3>3 DEF SyncIsDurable
    <3>6. SleepersHaveWaker'
      BY <3>3 DEF SleepersHaveWaker
    <3> QED
      BY <3>4, <3>5, <3>6
  <2>9. CASE Sync(t)
    <3>1. /\ UNCHANGED <<outstanding, committing, ncommit, nended, nsafe>>
          /\ need' = [need EXCEPT ![t] = nended] /\ pc[t] = "idle"
          /\ \A u \in Thread \ {t} : pc'[u] = pc[u]
      BY Zenon, <1>0, <2>9 DEF Sync, logVars
    <3>2. CASE committing = 1 \/ outstanding > 0
      <4>1. /\ want' = [want EXCEPT ![t] = ncommit + 1]
            /\ pc'[t] = "syncwait"
        BY <1>0, <2>9, <3>2 DEF Sync
      <4>2. SyncInv'
        BY SMTT(30), <1>0, <1>n, <3>1, <3>2, <4>1 DEF SyncInv
      <4>3. SyncIsDurable'
        BY <1>n, <3>1, <4>1 DEF SyncIsDurable
      <4>4. SleepersHaveWaker'
        BY <3>1, <3>2 DEF SleepersHaveWaker
      <4> QED
        BY <4>2, <4>3, <4>4
    <3>3. CASE ~(committing = 1 \/ outstanding > 0)
      <4>1. want' = want /\ pc'[t] = "synced"
        BY <1>0, <2>9, <3>3 DEF Sync
      <4>2. nsafe = nended
        BY <1>0, <3>3 DEF SyncInv, Flags, Committing
      <4>3. SyncInv'
        BY <1>0, <1>n, <3>1, <4>1, <4>2 DEF SyncInv
      <4>4. SyncIsDurable'
        BY <1>n, <3>1, <4>1, <4>2 DEF SyncIsDurable
      <4>5. SleepersHaveWaker'
        BY SMTT(30), <3>1, <4>1 DEF SleepersHaveWaker, Asleep
      <4> QED
        BY <4>3, <4>4, <4>5
    <3> QED
      BY <3>2, <3>3
  <2>10. CASE SyncCheck(t)
    <3>1. /\ UNCHANGED <<outstanding, committing, ncommit, nended, nsafe, need, want>>
          /\ pc[t] = "syncing"
          /\ pc' = [pc EXCEPT ![t] = IF ncommit < want[t] THEN "syncwait" ELSE "synced"]
      BY <2>10 DEF SyncCheck, logVars, histVars
    <3>2. SyncInv'
      BY Zenon, <1>0, <1>n, <3>1 DEF SyncInv
    <3>3. SyncIsDurable'
      BY <1>0, <1>n, <3>1 DEF SyncIsDurable, SyncInv
    <3>4. SleepersHaveWaker'
      BY Zenon, <1>0, <3>1 DEF SleepersHaveWaker, SyncInv, Asleep
    <3> QED
      BY <3>2, <3>3, <3>4
  <2>11. CASE SyncReturn(t)
    <3>1. /\ UNCHANGED <<outstanding, committing, ncommit, nended, nsafe>>
          /\ pc' = [pc EXCEPT ![t] = "idle"] /\ pc[t] = "synced"
          /\ need' = [need EXCEPT ![t] = 0] /\ want' = [want EXCEPT ![t] = 0]
      BY <2>11 DEF SyncReturn, logVars
    <3>2. SyncInv'
      BY <1>0, <1>n, <3>1 DEF SyncInv
    <3>3. SyncIsDurable'
      BY <1>0, <1>n, <3>1 DEF SyncIsDurable
    <3>4. SleepersHaveWaker'
      BY <1>0, <3>1 DEF SleepersHaveWaker, Asleep
    <3> QED
      BY <3>2, <3>3, <3>4
  <2> QED
    BY <1>1, <2>1, <2>2, <2>3, <2>4, <2>5, <2>6, <2>7, <2>8, <2>9, <2>10,
       <2>11 DEF Step
<1>2. CASE Crash
  <2>1. /\ nended' = nsafe /\ nsafe' = nsafe
        /\ \A u \in Thread : pc'[u] = "idle" /\ need'[u] = 0
    BY <1>2 DEF Crash
  <2> QED
    BY <1>n, <2>1 DEF SyncInv, SyncIsDurable, SleepersHaveWaker, Asleep
<1>3. CASE ReadHead
  BY <1>3, SyncStays DEF ReadHead, histVars
<1>4. CASE RecoverInstall
  BY Zenon, <1>4, SyncStays DEF RecoverInstall, Install, histVars
<1>5. CASE RecoverErase
  BY Zenon, <1>5, SyncStays DEF RecoverErase, histVars
<1>6. CASE UNCHANGED vars
  BY Zenon, <1>6, SyncStays DEF vars, logVars, histVars
<1> QED
  BY <1>1, <1>2, <1>3, <1>4, <1>5, <1>6 DEF Next

-----------------------------------------------------------------------------
(* The log implements an atomic disk. *)

\* Two facts that determine what recovery leaves.
LEMMA RecoveredLogged ==
  ASSUME Distinct(dhead), NEW i \in DOMAIN dhead, dhead[i] \in Block
  PROVE  Recovered[dhead[i]] = dlog[i]
<1>1. (CHOOSE j \in DOMAIN dhead : dhead[j] = dhead[i]) = i
  BY DEF Distinct
<1> QED
  BY Zenon, <1>1 DEF Recovered

\* A block that is not in the header stays as it is.
LEMMA RecoveredHome ==
  ASSUME NEW b \in Block, \A i \in DOMAIN dhead : dhead[i] # b
  PROVE  Recovered[b] = disk[b]
BY DEF Recovered

\* With an empty header recovery changes nothing.
LEMMA RecoveredEmpty ==
  ASSUME TypeOK, dhead = <<>>
  PROVE  Recovered = disk
<1>1. \A b \in Block : Recovered[b] = disk[b]
  BY RecoveredHome
<1> QED
  BY SMTT(30), <1>1 DEF Recovered, TypeOK

\* Once every logged block is home, erasing the header changes nothing.
LEMMA RecoveredInstalled ==
  ASSUME TypeOK, Distinct(dhead),
         \A i \in DOMAIN dhead : disk[dhead[i]] = dlog[i]
  PROVE  Recovered = disk
<1>1. ASSUME NEW b \in Block
      PROVE  Recovered[b] = disk[b]
  <2>1. CASE \A i \in DOMAIN dhead : dhead[i] # b
    BY <2>1, RecoveredHome
  <2>2. CASE \E i \in DOMAIN dhead : dhead[i] = b
    BY <2>2, RecoveredLogged
  <2> QED
    BY <2>1, <2>2
<1> QED
  BY <1>1 DEF Recovered, TypeOK

\* Installing one block changes nothing that recovery would leave.
LEMMA RecoveredInstall ==
  ASSUME TypeOK, Install, lh = dhead
  PROVE  Recovered' = Recovered
<1>1. /\ dhead' = dhead /\ dlog' = dlog /\ tail \in DOMAIN dhead
      /\ disk' = [disk EXCEPT ![dhead[tail]] = dlog[tail]]
  BY SeqFacts DEF Install
<1>2. \A b \in Block : (\A i \in DOMAIN dhead : dhead[i] # b) => disk'[b] = disk[b]
  BY SMTT(30), <1>1 DEF TypeOK
<1> QED
  BY <1>1, <1>2 DEF Recovered

\* The log starts as an atomic disk does.
LEMMA InitRefines == Init => Atomic!Init
<1> SUFFICES ASSUME Init PROVE Atomic!Init
  OBVIOUS
<1>1. Recovered = disk
  BY InitType, RecoveredEmpty DEF Init
<1> QED
  BY <1>1 DEF Init, Atomic!Init, InOp

\* Every step of the log is a step of the atomic disk, or none: WriteHead is its
\* Commit, a log_write() its Write.
LEMMA NextRefines ==
  ASSUME TypeOK, TypeOK', Flags, DataInv, DataInv', [Next]_vars
  PROVE  [Atomic!Next]_(Atomic!vars)
<1> DEFINE Mem == IF mode = "up" THEN cache ELSE Recovered
<1>0. /\ TypeOK /\ TypeOK' /\ Flags /\ DataInv /\ DataInv'
      /\ pc \in [Thread -> PCs]
  BY Zenon DEF TypeOK
\* A step that changes neither what operations see nor what a crash leaves.
<1>s. ASSUME Mem' = Mem, Recovered' = Recovered, InOp' = InOp
      PROVE  [Atomic!Next]_(Atomic!vars)
  BY <1>s DEF Atomic!vars
<1>r. ASSUME UNCHANGED <<disk, dlog, dhead>>
      PROVE  Recovered' = Recovered
  BY <1>r DEF Recovered
<1>1. ASSUME NEW t \in Thread, mode = "up", mode' = "up", Step(t)
      PROVE  [Atomic!Next]_(Atomic!vars)
  <2>0. UpInv /\ Distinct(lh) /\ Distinct(dhead)
    BY <1>0, <1>1 DEF DataInv
  <2> DEFINE q == [pc EXCEPT ![t] = "idle"]
  <2>q. q \in [Thread -> PCs]
    BY <1>0 DEF PCs
  <2>w. \A u \in Thread : Woken(q)[u] = "in" <=> q[u] = "in"
    BY Zenon, <2>q, WokenKeeps
  <2> HIDE DEF q
  <2>1. CASE BeginOp(t)
    <3>1. Recovered' = Recovered /\ cache' = cache
      BY <2>1, <1>r DEF BeginOp, diskVars
    <3>2. CASE committing = 1 \/ NoRoom
      <4>1. InOp' = InOp
        BY <1>0, <2>1, <3>2 DEF BeginOp, InOp
      <4> QED
        BY <1>1, <1>s, <3>1, <4>1
    <3>3. CASE ~(committing = 1 \/ NoRoom)
      <4>1. t \notin InOp /\ InOp' = InOp \cup {t}
        BY <1>0, <2>1, <3>3 DEF BeginOp, InOp
      <4>2. Atomic!Begin(t)
        BY <1>1, <3>1, <4>1 DEF Atomic!Begin
      <4> QED
        BY <4>2 DEF Atomic!Next
    <3> QED
      BY <3>2, <3>3
  <2>2. CASE EndOp(t)
    <3>1. Recovered' = Recovered /\ cache' = cache
      BY Zenon, <2>2, <1>r DEF EndOp, diskVars
    <3>2. \A u \in Thread : pc'[u] = "in" <=> pc[u] = "in" /\ u # t
      BY Zenon, <1>0, <2>2, <2>w DEF EndOp, q
    <3>3. t \in InOp /\ InOp' = InOp \ {t}
      BY Zenon, <2>2, <3>2 DEF EndOp, InOp
    <3>4. Atomic!End(t)
      BY <1>1, <3>1, <3>3 DEF Atomic!End
    <3> QED
      BY <3>4 DEF Atomic!Next
  <2>3. ASSUME NEW b \in Block, NEW v \in Val, LogWrite(t, b, v)
        PROVE  [Atomic!Next]_(Atomic!vars)
    <3>1. Recovered' = Recovered /\ cache' = [cache EXCEPT ![b] = v]
      BY Zenon, <2>3, <1>r DEF LogWrite, diskVars
    <3>2. t \in InOp /\ InOp' = InOp
      BY Zenon, <2>3 DEF LogWrite, MayWrite, InOp
    <3>3. Atomic!Write(t, b, v)
      BY <1>1, <3>1, <3>2 DEF Atomic!Write
    <3> QED
      BY <3>3 DEF Atomic!Next
  <2>4. CASE WriteLog(t)
    <3>1. dhead = <<>> /\ dhead' = <<>> /\ disk' = disk /\ cache' = cache
      BY Zenon, <1>0, <2>0, <2>4 DEF UpInv, Installing, WriteLog, Flags, Committing
    <3>2. Recovered' = Recovered
      <4>1. DOMAIN dhead = {} /\ DOMAIN dhead' = {}
        BY <3>1
      <4>2. Recovered = [b \in Block |-> disk[b]]
        BY Zenon, <4>1 DEF Recovered
      <4>3. Recovered' = [b \in Block |-> disk'[b]]
        BY Zenon, <4>1 DEF Recovered
      <4> QED
        BY Zenon, <3>1, <4>2, <4>3
    <3>3. InOp' = InOp
      BY Zenon, <2>4 DEF WriteLog, InOp
    <3> QED
      BY SMTT(30), <1>1, <1>s, <3>1, <3>2, <3>3
  <2>5. CASE WriteHead(t)
    <3>1. /\ disk' = disk /\ dlog' = dlog /\ dhead' = lh /\ cache' = cache
          /\ lh' = lh /\ pc' = [pc EXCEPT ![t] = "install"] /\ pc[t] = "wlog"
      BY <2>5 DEF WriteHead
    <3>2. UpInv' /\ Distinct(dhead')
      BY <1>0, <1>1 DEF DataInv, Distinct
    <3>3. Installing'
      BY <1>0, <3>1 DEF Installing
    <3>4. \A i \in DOMAIN lh : dlog[i] = cache[lh[i]] /\ lh[i] \in Block
      BY Zenon, <1>0, <3>1, <3>2, <3>3, SeqFacts DEF UpInv
    <3>5. ASSUME NEW b \in Block
          PROVE  Recovered'[b] = cache[b]
      <4>1. CASE b \in Logged
        <5>1. PICK i \in DOMAIN lh : lh[i] = b
          BY <4>1 DEF Logged
        <5>2. (CHOOSE j \in DOMAIN lh : lh[j] = b) = i
          BY <2>0, <5>1 DEF Distinct
        <5>3. Recovered'[b] = dlog[i]
          BY Zenon, <3>1, <5>1, <5>2 DEF Recovered
        <5> QED
          BY <3>4, <5>1, <5>3
      <4>2. CASE b \notin Logged
        <5>1. Recovered'[b] = disk[b]
          BY <3>1, <4>2 DEF Recovered, Logged
        <5> QED
          BY Zenon, <2>0, <4>2, <5>1 DEF UpInv
      <4> QED
        BY SMTT(30), <4>1, <4>2
    <3>6. Recovered' = cache
      BY Zenon, <1>0, <3>5 DEF Recovered, TypeOK
    <3>7. InOp = {}
      BY <1>0, <3>1 DEF Flags, Committing
    <3>8. InOp' = InOp
      BY <1>0, <3>1 DEF InOp
    <3>9. Atomic!Commit
      BY <1>1, <3>1, <3>6, <3>7, <3>8 DEF Atomic!Commit
    <3> QED
      BY <3>9 DEF Atomic!Next
  <2>6. CASE InstallTrans(t)
    <3>1. Install /\ Installing /\ dhead = lh
      BY <2>0, <2>6 DEF InstallTrans, Installing, UpInv
    <3>2. Recovered' = Recovered
      BY SMTT(30), <1>0, <3>1, RecoveredInstall
    <3>3. cache' = cache
      <4>1. tail \in DOMAIN lh /\ dlog[tail] = cache[lh[tail]]
        BY <1>0, <2>0, <3>1, SeqFacts DEF Install, UpInv
      <4> QED
        BY Zenon, <1>0, <3>1, <4>1 DEF Install, TypeOK
    <3>4. InOp' = InOp
      BY Zenon, <3>1 DEF Install, InOp
    <3> QED
      BY SMTT(30), <1>1, <1>s, <3>2, <3>3, <3>4
  <2>7. CASE EraseHead(t)
    <3>1. /\ dhead = lh /\ Installed
      BY ZenonT(30), <2>0, <2>7 DEF EraseHead, Installing, UpInv
    <3>2. \A i \in DOMAIN dhead : disk[dhead[i]] = dlog[i]
      <4>1. tail > Len(lh)
        BY <2>7 DEF EraseHead
      <4>2. \A i \in DOMAIN lh : i < tail
        BY <1>0, <4>1, SeqFacts
      <4> QED
        BY <3>1, <4>2 DEF Installed
    <3>3. Recovered = disk
      BY Zenon, <1>0, <2>0, <3>2, RecoveredInstalled
    <3>4. Recovered' = disk'
      <4>1. dhead' = <<>>
        BY <2>7 DEF EraseHead
      <4>2. \A b \in Block : Recovered'[b] = disk'[b]
        BY <4>1 DEF Recovered
      <4> QED
        BY SMTT(30), <1>0, <4>2 DEF Recovered, TypeOK
    <3>5. InOp' = InOp /\ disk' = disk /\ cache' = cache
      BY <1>0, <2>7 DEF EraseHead, InOp
    <3> QED
      BY <1>1, <1>s, <3>3, <3>4, <3>5
  <2>8. CASE Committed(t)
    <3>1. Recovered' = Recovered /\ cache' = cache
      BY <2>8, <1>r DEF Committed, diskVars
    <3>2. \A u \in Thread : pc'[u] = "in" <=> pc[u] = "in"
      BY Zenon, <1>0, <2>8, <2>w DEF Committed, q
    <3>3. InOp' = InOp
      BY <3>2 DEF InOp
    <3> QED
      BY <1>1, <1>s, <3>1, <3>3
  <2>9. CASE Sync(t) \/ SyncCheck(t) \/ SyncReturn(t)
    <3>1. Recovered' = Recovered /\ cache' = cache
      BY Zenon, <2>9, <1>r DEF Sync, SyncCheck, SyncReturn, diskVars
    <3>2. \A u \in Thread : pc'[u] = "in" <=> pc[u] = "in"
      BY <1>0, <2>9 DEF Sync, SyncCheck, SyncReturn
    <3>3. InOp' = InOp
      BY <3>2 DEF InOp
    <3> QED
      BY <1>1, <1>s, <3>1, <3>3
  <2> QED
    BY <1>1, <2>1, <2>2, <2>3, <2>4, <2>5, <2>6, <2>7, <2>8, <2>9 DEF Step
<1>2. CASE Crash
  <2>1. Recovered' = Recovered /\ mode' # "up"
    BY <1>2, <1>r DEF Crash, diskVars
  <2>2. InOp' = {}
    BY <1>2 DEF Crash, InOp
  <2>3. Atomic!Crash
    BY <2>1, <2>2 DEF Atomic!Crash
  <2> QED
    BY <2>3 DEF Atomic!Next
<1>3. CASE ReadHead
  <2>1. Recovered' = Recovered /\ mode # "up" /\ mode' # "up"
    BY <1>3, <1>r DEF ReadHead, diskVars
  <2>2. InOp' = InOp
    BY <1>3 DEF ReadHead, InOp
  <2> QED
    BY <1>s, <2>1, <2>2
<1>4. CASE RecoverInstall
  <2>1. lh = dhead /\ mode # "up" /\ mode' # "up" /\ Install
    BY Zenon, <1>0, <1>4 DEF RecoverInstall, Install, DataInv, DownInv
  <2>2. Recovered' = Recovered
    BY <1>0, <2>1, RecoveredInstall
  <2>3. InOp' = InOp
    BY <2>1 DEF Install, InOp
  <2> QED
    BY <1>s, <2>1, <2>2, <2>3
<1>5. CASE RecoverErase
  <2>1. /\ mode # "up" /\ mode' = "up" /\ lh = dhead /\ Installed
        /\ cache = disk /\ Distinct(dhead) /\ tail > Len(lh)
    BY Zenon, <1>0, <1>5 DEF RecoverErase, DataInv, DownInv
  <2>2. \A i \in DOMAIN dhead : disk[dhead[i]] = dlog[i]
    <3>1. \A i \in DOMAIN lh : i < tail
      BY SMTT(30), <1>0, <2>1, SeqFacts
    <3> QED
      BY <2>1, <3>1 DEF Installed
  <2>3. Recovered = disk
    BY SMTT(30), <1>0, <2>1, <2>2, RecoveredInstalled
  <2>4. Recovered' = disk'
    <3>1. dhead' = <<>>
      BY <1>5 DEF RecoverErase
    <3>2. \A b \in Block : Recovered'[b] = disk'[b]
      BY <3>1 DEF Recovered
    <3> QED
      BY SMTT(30), <1>0, <3>2 DEF Recovered, TypeOK
  <2>5. InOp' = InOp /\ disk' = disk /\ cache' = cache
    BY <1>5 DEF RecoverErase, InOp
  <2> QED
    BY <1>s, <2>1, <2>3, <2>4, <2>5
<1>6. CASE UNCHANGED vars
  <2>1. Recovered' = Recovered /\ InOp' = InOp /\ cache' = cache /\ mode' = mode
    BY <1>6, <1>r DEF vars, diskVars, InOp
  <2> QED
    BY <1>s, <2>1
<1> QED
  BY SMTT(30), <1>1, <1>2, <1>3, <1>4, <1>5, <1>6 DEF Next
=============================================================================
