--------------------------- MODULE ProcTreeProofs ---------------------------
(***************************************************************************)
(* For every size of the process table and every bound on pids: the tree   *)
(* of processes stays rooted at init, sleepers stay registered with their  *)
(* wakers, no exit is missed by a waiting parent, and free slots are blank.*)
(***************************************************************************)
EXTENDS ProcTree, TLAPS

-----------------------------------------------------------------------------
(* The inductive invariant. *)

Ending(p) == state[p] = "RUNNABLE" /\ pc[p] \in {"exit", "zombie"}

\* Where a process may be in each state.
PcState ==
  /\ \A p \in Proc :
       /\ state[p] = "SLEEPING" => pc[p] \in {"wait", "pause"}
       /\ state[p] = "ZOMBIE" => pc[p] = "zombie"
       /\ state[p] \in {"UNUSED", "USED"} => pc[p] \in {"user", "zombie"}
  /\ Live(initproc) /\ pc[initproc] \notin {"exit", "zombie"}

\* The holder of wait_lock is the process between two of the steps that keep it.
Locked ==
  \A p \in Proc : Ending(p) \/ (state[p] = "RUNNABLE" /\ pc[p] = "waitprep")
                    <=> wait_lock = p

\* Every parent is alive and older, init apart; only init, free slots and slots
\* being made have none; and a process that ends has no child.
Parents ==
  \A q \in Proc :
    /\ pid[q] < nextpid
    /\ Ending(q) => \A r \in Proc : parent[r] # q
    /\ q # initproc /\ (Live(q) \/ state[q] = "ZOMBIE") => parent[q] # Null
    /\ parent[q] # Null =>
         /\ q # initproc /\ state[q] # "UNUSED"
         /\ Live(parent[q])
         /\ parent[q] = initproc \/ pid[parent[q]] < pid[q]

\* A process in kfork() owns the slot it makes.
Forking(p) == pc[p] \in {"fork", "forked"}
Forks ==
  \A p \in Proc : Forking(p) =>
    /\ np[p] \in Proc /\ state[np[p]] = "USED"
    /\ pid[p] < pid[np[p]]
    /\ pc[p] = "forked" => parent[np[p]] = p
    /\ \A q \in Proc : Forking(q) /\ np[q] = np[p] => q = p

\* A process on its way to sleep is registered, or has been woken already.
Sleepers ==
  /\ SleepersRegistered
  /\ \A p \in Proc : /\ pc[p] = "waitsleep" => chan[p] \in {p, Null}
                     /\ pc[p] = "pausesleep" => chan[p] \in {TICKS, Null}

\* A parent that relies on a wakeup has no child that will not give it one.
Expects(p) ==
  \/ pc[p] = "waitprep"
  \/ pc[p] = "waitsleep" /\ chan[p] = p
  \/ pc[p] = "wait" /\ state[p] = "SLEEPING"
Over(q) == state[q] = "ZOMBIE" \/ (state[q] = "RUNNABLE" /\ pc[q] = "zombie")
Wakers == \A p, q \in Proc : Expects(p) /\ parent[q] = p => ~Over(q)

\* A free slot is blank, but for the mark of a kill(0).
Blank ==
  \A q \in Proc : state[q] = "UNUSED" =>
    /\ pid[q] = 0 /\ parent[q] = Null /\ chan[q] = Null
    /\ 0 \notin KillPids => killed[q] = 0

IInv == TypeOK /\ PcState /\ Locked /\ Parents /\ Forks /\ Sleepers /\ Wakers /\ Blank

-----------------------------------------------------------------------------
(* The constants, and the operators that search the table. *)

\* The addresses of processes, of ticks and 0 are distinct.
LEMMA Addresses ==
  /\ Proc \subseteq Nat /\ initproc \in Proc
  /\ Null \notin Proc /\ TICKS \notin Proc /\ TICKS # Null /\ initproc # Null
  /\ Chan = {Null, TICKS} \cup Proc
  BY ProcTreeAssumption DEF Proc, initproc, Null, TICKS, Chan

\* What a process in kfork() knows of the slot it makes.
Maker(p) ==
  /\ np[p] \in Proc /\ np[p] # p /\ np[p] # initproc
  /\ state[np[p]] = "USED" /\ pc[np[p]] \in {"user", "zombie"}
  /\ pid[p] < pid[np[p]] /\ state[p] = "RUNNABLE"
  /\ \A q \in Proc : Forking(q) /\ np[q] = np[p] => q = p
  /\ pc[p] = "forked" => parent[np[p]] = p

\* The slot belongs to its maker until it can run.
LEMMA Made ==
  ASSUME TypeOK, PcState, Forks, NEW p \in Proc, pc[p] \in {"fork", "forked"}
  PROVE  Maker(p)
<1>1. /\ np[p] \in Proc /\ state[np[p]] = "USED" /\ pid[p] < pid[np[p]]
      /\ \A q \in Proc : Forking(q) /\ np[q] = np[p] => q = p
      /\ pc[p] = "forked" => parent[np[p]] = p
  BY Zenon DEF Forks, Forking
<1>2. pc[np[p]] \in {"user", "zombie"} /\ state[p] = "RUNNABLE"
  BY <1>1 DEF TypeOK, States, PcState
<1>3. np[p] # initproc
  BY <1>1 DEF PcState, Live
<1> QED
  BY Zenon, <1>1, <1>2, <1>3 DEF Maker

\* What kkill() does to the slot it finds.
Marks(q) ==
  /\ killed' = [killed EXCEPT ![q] = 1]
  /\ state' = IF state[q] = "SLEEPING"
                THEN [state EXCEPT ![q] = "RUNNABLE"] ELSE state
  /\ UNCHANGED <<pid, parent, chan, nextpid, wait_lock, pc, np, sh, panicked>>

\* kkill() marks a slot with the pid it looks for.
LEMMA KillMarks ==
  ASSUME NEW p \in Proc, NEW n \in KillPids, Kill(p, n)
  PROVE  \E q \in Proc : pid[q] = n /\ Marks(q)
  BY Zenon DEF Kill, IsFirst, Marks

\* What kwait() does to the zombie it finds.
Reaps(p, q) ==
  /\ pc[p] = "wait" /\ wait_lock = Null
  /\ state[q] = "ZOMBIE" /\ parent[q] = p
  /\ parent' = [parent EXCEPT ![q] = Null]
  /\ Freed(q)
  /\ sh' = IF p = initproc /\ pid[q] = sh THEN 0 ELSE sh
  /\ pc' = [pc EXCEPT ![p] = "user"]
  /\ UNCHANGED <<nextpid, wait_lock, np, panicked>>

\* kwait() frees a child that is a zombie.
LEMMA WaitReaps ==
  ASSUME NEW p \in Proc, WaitReap(p)
  PROVE  \E q \in Proc : Reaps(p, q)
  BY Zenon DEF WaitReap, IsFirst, Zombies, Kids, Reaps

\* A step that moves one process between user space and its waits.
Quiet(p) ==
  /\ pc[p] \in {"user", "wait", "waitprep", "pause"}
  /\ \E l \in {"user", "wait", "waitprep", "waitsleep", "pause", "pausesleep"} :
       pc' = [pc EXCEPT ![p] = l]
  /\ \E c \in {chan[p], p, TICKS} : chan' = [chan EXCEPT ![p] = c]
  /\ wait_lock' \in {wait_lock, Null, p} /\ panicked' \in {0, 1}
  /\ UNCHANGED <<state, pid, parent, killed, nextpid, np, sh>>

\* The steps of kwait() and sys_pause() that find nothing to do.
LEMMA QuietSteps ==
  ASSUME TypeOK, NEW p \in Proc,
         \/ WaitFault(p) \/ WaitNone(p) \/ WaitPrepare(p) \/ WaitCall(p)
         \/ PauseReturn(p) \/ PausePrepare(p) \/ PauseCall(p)
  PROVE  Quiet(p)
<1> USE DEF Quiet, TypeOK, procVars
<1>1. chan' = chan => chan' = [chan EXCEPT ![p] = chan[p]]
  OBVIOUS
<1>2. CASE WaitFault(p) \/ WaitCall(p) \/ PauseReturn(p) \/ PauseCall(p)
  BY <1>1, <1>2 DEF WaitFault, WaitCall, PauseReturn, PauseCall
<1>3. CASE WaitNone(p)
  BY <1>1, <1>3 DEF WaitNone
<1>4. CASE WaitPrepare(p) \/ PausePrepare(p)
  BY <1>4 DEF WaitPrepare, PausePrepare
<1> QED
  BY Zenon, <1>2, <1>3, <1>4

\* Every step leaves the tree rooted at init.
LEMMA ParentsKept ==
  ASSUME TypeOK, PcState, Locked, Forks, Parents, Blank, NEW p \in Proc,
         Running(p), KernelStep(p) \/ UserStep(p)
  PROVE  Parents'
<1>1. CASE Sleep(p)
  BY <1>1, Addresses
     DEF Sleep, TypeOK, procVars, PcState, Parents, Ending, Live, Running
<1>2. CASE ForkParent(p)
  <2>1. Maker(p)
    BY <1>2, Made DEF ForkParent
  <2> QED
    BY <1>2, <2>1, Addresses
       DEF ForkParent, Maker, TypeOK, procVars, PcState, Parents, Ending, Live,
           Running
<1>3. CASE ForkRunnable(p)
  <2>1. Maker(p)
    BY <1>3, Made DEF ForkRunnable
  <2> QED
    BY <1>3, <2>1, Addresses
       DEF ForkRunnable, Maker, TypeOK, procVars, PcState, Parents, Ending, Live,
           Running
<1>4. CASE WaitReap(p)
  <2>1. PICK q \in Proc : Reaps(p, q)
    BY Zenon, <1>4, WaitReaps
  <2> QED
    BY <2>1, Addresses
       DEF Reaps, Freed, TypeOK, procVars, PcState, Parents, Ending, Live, Running
<1>5. CASE ExitWakeParent(p)
  BY <1>5, Addresses
     DEF ExitWakeParent, WokenState, WokenChan, TypeOK, procVars, PcState, Parents,
         Ending, Live, Running
<1>6. CASE ExitZombie(p)
  BY <1>6, Addresses
     DEF ExitZombie, TypeOK, procVars, PcState, Parents, Ending, Live, Running
<1>7. CASE ExitReparent(p)
  <2>1. pid' = pid /\ nextpid' = nextpid
        /\ \A r \in Proc : parent'[r] = IF parent[r] = p THEN initproc ELSE parent[r]
    BY <1>7 DEF ExitReparent
  <2>2. \A r \in Proc : /\ Live(r) <=> Live(r)'
                        /\ \A s \in {"UNUSED", "ZOMBIE"} : state'[r] = s <=> state[r] = s
    BY <1>7 DEF ExitReparent, WokenState, Live, TypeOK, Running
  <2>3. \A r \in Proc : Ending(r)' => r = p
    BY <1>7, Addresses DEF ExitReparent, WokenState, Ending, Locked, TypeOK, PcState
  <2>4. p # initproc /\ Live(initproc)
    BY <1>7 DEF ExitReparent, PcState
  <2>5. ASSUME NEW r \in Proc, parent'[r] # Null
        PROVE  /\ r # initproc /\ state'[r] # "UNUSED"
               /\ Live(parent[r])'
               /\ parent'[r] = initproc \/ pid'[parent'[r]] < pid'[r]
    <3>1. parent[r] \in Proc /\ parent[r] # Null
      BY <2>1, <2>5, Addresses DEF TypeOK
    <3>2. r # initproc /\ state'[r] # "UNUSED" /\ Live(parent[r])
      BY <2>2, <3>1 DEF Parents
    <3>3. parent'[r] \in Proc /\ Live(parent'[r])
      BY <2>1, <2>4, <3>1, <3>2, Addresses
    <3>4. Live(parent[r])'
      BY Zenon, <2>2, <3>3 DEF Live
    <3>5. parent[r] = initproc \/ pid[parent[r]] < pid[r]
      BY Zenon, <3>1 DEF Parents
    <3> QED
      BY Zenon, <2>1, <3>2, <3>4, <3>5
  <2>6. \A q \in Proc : /\ pid'[q] < nextpid'
                        /\ Ending(q)' => \A r \in Proc : parent'[r] # q
    BY <2>1, <2>3, <2>4 DEF Parents
  <2>7. \A q \in Proc : q # initproc /\ (Live(q)' \/ state'[q] = "ZOMBIE") => parent'[q] # Null
    BY <2>1, <2>2, Addresses DEF Parents
  <2> QED
    BY Zenon, <2>5, <2>6, <2>7 DEF Parents
<1>8. ASSUME NEW q \in Proc, Fork(p, q) PROVE Parents'
  BY <1>8, Addresses
     DEF Fork, TypeOK, procVars, PcState, Parents, Ending, Live, Running
<1>9. ASSUME NEW q \in Proc, ForkOutOfMemory(p, q) PROVE Parents'
  BY <1>9, Addresses
     DEF ForkOutOfMemory, Freed, TypeOK, procVars, PcState, Parents, Ending, Live,
         Running
<1>10. ASSUME NEW n \in KillPids, Kill(p, n) PROVE Parents'
  <2>1. PICK q \in Proc : pid[q] = n /\ Marks(q)
    BY Zenon, <1>10, KillMarks
  <2> QED
    BY <2>1, Addresses
       DEF Marks, TypeOK, procVars, PcState, Parents, Ending, Live, Running
<1>11. CASE Quiet(p)
  BY <1>11, Addresses
     DEF Quiet, TypeOK, procVars, PcState, Parents, Ending, Live, Running
<1> QED
  BY Zenon, QuietSteps, <1>1, <1>2, <1>3, <1>4, <1>5, <1>6, <1>7, <1>8, <1>9, <1>10,
     <1>11
     DEF KernelStep, UserStep

\* No step leaves a parent waiting for a wakeup that has been.
LEMMA WakersKept ==
  ASSUME TypeOK, PcState, Locked, Parents, Forks, Sleepers, Wakers,
         NEW p \in Proc, Running(p), KernelStep(p) \/ UserStep(p)
  PROVE  Wakers'
<1>1. CASE Sleep(p)
  <2>1. \A r \in Proc : Expects(r)' => Expects(r)
    BY <1>1 DEF Sleep, Expects, Sleepers, TypeOK, Running
  <2>2. \A r \in Proc : Over(r)' => Over(r)
    BY <1>1 DEF Sleep, Over, TypeOK
  <2>3. parent' = parent
    BY <1>1 DEF Sleep
  <2> QED
    BY Zenon, <2>1, <2>2, <2>3 DEF Wakers
<1>2. CASE ForkParent(p)
  <2>1. Maker(p)
    BY <1>2, Made DEF ForkParent
  <2> QED
    BY <1>2, <2>1, Addresses
       DEF ForkParent, Maker, TypeOK, procVars, PcState, Wakers, Expects, Over,
           Running
<1>3. CASE ForkRunnable(p)
  <2>1. Maker(p)
    BY <1>3, Made DEF ForkRunnable
  <2> QED
    BY <1>3, <2>1, Addresses
       DEF ForkRunnable, Maker, TypeOK, procVars, PcState, Wakers, Expects, Over,
           Running
<1>4. CASE WaitReap(p)
  <2>1. PICK q \in Proc : Reaps(p, q)
    BY Zenon, <1>4, WaitReaps
  <2> QED
    BY <2>1, Addresses
       DEF Reaps, Freed, TypeOK, procVars, PcState, Wakers, Expects, Over, Running
<1>5. CASE WaitFault(p)
  BY <1>5, Addresses
     DEF WaitFault, TypeOK, procVars, PcState, Wakers, Expects, Over, Running
<1>6. CASE WaitNone(p)
  <2>1. \A r \in Proc : Expects(r)' => Expects(r) \/ (r = p /\ Zombies(p) = {})
    BY <1>6 DEF WaitNone, procVars, Expects, TypeOK
  <2>2. \A r \in Proc : Over(r)' => Over(r)
    BY <1>6 DEF WaitNone, procVars, Over, TypeOK
  <2>3. \A r \in Proc : state[r] = "RUNNABLE" => pc[r] # "zombie"
    BY <1>6, Addresses DEF WaitNone, Locked, Ending
  <2>4. Zombies(p) = {} => \A r \in Proc : parent[r] = p => state[r] # "ZOMBIE"
    BY DEF Zombies, Kids
  <2>5. parent' = parent
    BY <1>6 DEF WaitNone, procVars
  <2> QED
    BY Zenon, <2>1, <2>2, <2>3, <2>4, <2>5 DEF Wakers, Over
<1>7. CASE WaitPrepare(p)
  BY <1>7, Addresses
     DEF WaitPrepare, TypeOK, procVars, PcState, Wakers, Expects, Over, Running
<1>8. CASE PauseReturn(p)
  BY <1>8, Addresses
     DEF PauseReturn, TypeOK, procVars, PcState, Wakers, Expects, Over, Running
<1>9. CASE PausePrepare(p)
  BY <1>9, Addresses
     DEF PausePrepare, TypeOK, procVars, PcState, Wakers, Expects, Over, Running
<1>10. CASE ExitWakeParent(p)
  <2>1. \A r \in Proc : Expects(r)' => Expects(r) /\ r # parent[p]
    <3>1. \A r \in Proc : Expects(r)' => Expects(r)
      BY <1>10, Addresses DEF ExitWakeParent, WokenState, WokenChan, Expects, TypeOK
    <3>2. wait_lock = p
      BY <1>10 DEF ExitWakeParent, Locked, Ending, Running
    <3>3. parent[p] # p
      BY <1>10 DEF ExitWakeParent, Parents, Ending, Running
    <3>4. ASSUME NEW r \in Proc, r = parent[p] PROVE ~Expects(r)'
      <4>1. pc'[r] = pc[r] /\ Live(r)
        BY <1>10, <3>3, <3>4, Addresses DEF ExitWakeParent, TypeOK, Parents
      <4>2. pc[r] # "waitprep"
        BY <3>2, <3>3, <3>4, <4>1 DEF Locked, Live, PcState
      <4>3. chan'[r] # r
        BY <1>10, <3>4, Addresses DEF ExitWakeParent, WokenChan
      <4>4. ~(state'[r] = "SLEEPING" /\ pc'[r] = "wait")
        BY <1>10, <3>4, <4>1
           DEF ExitWakeParent, WokenState, Sleepers, SleepersRegistered
      <4> QED
        BY Zenon, <4>1, <4>2, <4>3, <4>4 DEF Expects
    <3> QED
      BY Zenon, <3>1, <3>4
  <2>2. \A r \in Proc : Over(r)' => Over(r) \/ r = p
    BY <1>10 DEF ExitWakeParent, WokenState, Over, TypeOK, PcState
  <2>3. parent' = parent
    BY <1>10 DEF ExitWakeParent
  <2> QED
    BY Zenon, <2>1, <2>2, <2>3 DEF Wakers
<1>11. CASE ExitZombie(p)
  BY <1>11, Addresses
     DEF ExitZombie, TypeOK, procVars, PcState, Wakers, Expects, Over, Running
<1>12. CASE WaitCall(p)
  BY <1>12, Addresses
     DEF WaitCall, TypeOK, procVars, PcState, Wakers, Expects, Over, Running
<1>13. CASE PauseCall(p)
  BY <1>13, Addresses
     DEF PauseCall, TypeOK, procVars, PcState, Wakers, Expects, Over, Running
<1>14. CASE ExitReparent(p)
  <2>1. \A r \in Proc : Expects(r)' => Expects(r)
    BY <1>14, Addresses DEF ExitReparent, WokenState, WokenChan, Expects, TypeOK
  <2>2. \A r \in Proc : Over(r)' => Over(r)
    BY <1>14 DEF ExitReparent, WokenState, Over, TypeOK, PcState
  <2>3. ASSUME NEW r \in Proc, parent[r] = p PROVE ~Expects(initproc)'
    <3>1. state' = WokenState(initproc) /\ chan' = WokenChan(initproc)
      BY <1>14, <2>3 DEF ExitReparent, Kids
    <3>2. pc'[initproc] = pc[initproc] /\ pc[initproc] # "waitprep"
      BY <1>14, Addresses DEF ExitReparent, Locked, TypeOK, PcState, Live
    <3>3. chan'[initproc] # initproc
      BY <3>1, Addresses DEF WokenChan
    <3>4. ~(state'[initproc] = "SLEEPING" /\ pc'[initproc] = "wait")
      BY <3>1, <3>2, Addresses DEF WokenState, Sleepers, SleepersRegistered
    <3> QED
      BY Zenon, <3>2, <3>3, <3>4 DEF Expects
  <2>4. \A r \in Proc : parent'[r] = IF parent[r] = p THEN initproc ELSE parent[r]
    BY <1>14 DEF ExitReparent
  <2> QED
    BY Zenon, <2>1, <2>2, <2>3, <2>4 DEF Wakers
<1>15. ASSUME NEW q \in Proc, Fork(p, q) PROVE Wakers'
  BY <1>15, Addresses
     DEF Fork, TypeOK, procVars, PcState, Wakers, Expects, Over, Running
<1>16. ASSUME NEW q \in Proc, ForkOutOfMemory(p, q) PROVE Wakers'
  BY <1>16, Addresses
     DEF ForkOutOfMemory, Freed, TypeOK, procVars, PcState, Wakers, Expects, Over,
         Running
<1>17. ASSUME NEW n \in KillPids, Kill(p, n) PROVE Wakers'
  <2>1. PICK q \in Proc : pid[q] = n /\ Marks(q)
    BY Zenon, <1>17, KillMarks
  <2> QED
    BY <2>1, Addresses
       DEF Marks, TypeOK, procVars, PcState, Wakers, Expects, Over, Running
<1> QED
  BY Zenon, <1>1, <1>2, <1>3, <1>4, <1>5, <1>6, <1>7, <1>8, <1>9, <1>10, <1>11,
     <1>12, <1>13, <1>14, <1>15, <1>16, <1>17
     DEF KernelStep, UserStep

\* A slot being made has one maker.
LEMMA ForksKept ==
  ASSUME TypeOK, PcState, Forks, Parents, NEW p \in Proc, Running(p),
         KernelStep(p) \/ UserStep(p)
  PROVE  Forks'
<1>1. CASE Sleep(p)
  BY <1>1, Addresses DEF Sleep, TypeOK, procVars, PcState, Forks, Forking, Running
<1>2. CASE ForkParent(p)
  <2>1. Maker(p)
    BY <1>2, Made DEF ForkParent
  <2> QED
    BY <1>2, <2>1, Addresses
       DEF ForkParent, Maker, TypeOK, procVars, PcState, Forks, Forking, Running
<1>3. CASE ForkRunnable(p)
  <2>1. Maker(p)
    BY <1>3, Made DEF ForkRunnable
  <2> QED
    BY <1>3, <2>1, Addresses
       DEF ForkRunnable, Maker, TypeOK, procVars, PcState, Forks, Forking, Running
<1>4. CASE WaitReap(p)
  <2>1. PICK q \in Proc : Reaps(p, q)
    BY Zenon, <1>4, WaitReaps
  <2> QED
    BY <2>1, Addresses
       DEF Reaps, Freed, TypeOK, procVars, PcState, Forks, Forking, Running
<1>5. CASE ExitWakeParent(p)
  BY <1>5, Addresses
     DEF ExitWakeParent, WokenState, WokenChan, TypeOK, procVars, PcState, Forks,
         Forking, Running
<1>6. CASE ExitZombie(p)
  BY SMTT(30), <1>6, Addresses
     DEF ExitZombie, TypeOK, procVars, PcState, Forks, Forking, Running
<1>7. CASE ExitReparent(p)
  <2>1. \A r \in Proc : Forking(r) =>
          /\ r # p /\ np[r] \in Proc /\ state[np[r]] = "USED"
          /\ parent[np[r]] = r => parent[np[r]] # p
    BY <1>7 DEF Forks, Forking, ExitReparent
  <2>2. \A r \in Proc : /\ pc'[r] \in {"fork", "forked"} => Forking(r) /\ pc'[r] = pc[r]
                        /\ parent[r] # p => parent'[r] = parent[r]
    BY <1>7 DEF ExitReparent, Forking, TypeOK
  <2>3. \A r \in Proc : state[r] = "USED" => state'[r] = "USED"
    BY <1>7 DEF ExitReparent, WokenState, TypeOK
  <2>4. pid' = pid /\ np' = np
    BY SMTT(30), <1>7 DEF ExitReparent
  <2> QED
    BY SMTT(30), <2>1, <2>2, <2>3, <2>4 DEF Forks, Forking
<1>8. ASSUME NEW q \in Proc, Fork(p, q) PROVE Forks'
  <2>1. \A r \in Proc : pc'[r] \in {"fork", "forked"} =>
          \/ r = p /\ pc'[r] = "fork" /\ np'[r] = q
          \/ r # p /\ Forking(r) /\ pc'[r] = pc[r] /\ np'[r] = np[r]
    BY <1>8 DEF Fork, Forking, TypeOK
  <2>2. /\ \A r \in Proc \ {q} : state'[r] = state[r] /\ pid'[r] = pid[r]
        /\ state[q] = "UNUSED" /\ state'[q] = "USED" /\ pid'[q] = nextpid
        /\ parent' = parent /\ state[p] = "RUNNABLE"
    BY <1>8 DEF Fork, TypeOK, Running
  <2>3. \A r \in Proc : pid[r] < nextpid
    BY DEF Parents
  <2>4. \A r \in Proc : Forking(r) => r # q
    BY <2>2 DEF PcState, Forking
  <2>5. \A r \in Proc : Forking(r) => np[r] \in Proc /\ state[np[r]] = "USED"
    BY DEF Forks
  <2> QED
    BY <2>1, <2>2, <2>3, <2>4, <2>5 DEF Forks, Forking
<1>9. ASSUME NEW q \in Proc, ForkOutOfMemory(p, q) PROVE Forks'
  BY <1>9, Addresses
     DEF ForkOutOfMemory, Freed, TypeOK, procVars, PcState, Forks, Forking, Running
<1>10. ASSUME NEW n \in KillPids, Kill(p, n) PROVE Forks'
  <2>1. PICK q \in Proc : pid[q] = n /\ Marks(q)
    BY Zenon, <1>10, KillMarks
  <2> QED
    BY <2>1, Addresses DEF Marks, TypeOK, procVars, PcState, Forks, Forking, Running
<1>11. CASE Quiet(p)
  BY <1>11, Addresses DEF Quiet, TypeOK, procVars, PcState, Forks, Forking, Running
<1> QED
  BY Zenon, QuietSteps, <1>1, <1>2, <1>3, <1>4, <1>5, <1>6, <1>7, <1>8, <1>9, <1>10,
     <1>11
     DEF KernelStep, UserStep

\* The clock wakes the processes in sys_pause(), and changes nothing else.
LEMMA ClockKept ==
  ASSUME IInv, ClockTick
  PROVE  IInv'
<1>1. TypeOK /\ PcState /\ Locked /\ Parents /\ Forks /\ Sleepers /\ Wakers /\ Blank
  BY DEF IInv
<1>2. TypeOK'
  BY <1>1, Addresses DEF ClockTick, WokenState, WokenChan, TypeOK, States
<1>3. /\ UNCHANGED <<pid, parent, killed, nextpid, wait_lock, pc, np>>
      /\ \A r \in Proc :
           /\ state'[r] = state[r] \/ (state[r] = "SLEEPING" /\ state'[r] = "RUNNABLE")
           /\ chan'[r] = chan[r] \/ (chan[r] = TICKS /\ chan'[r] = Null)
           /\ state'[r] = "SLEEPING" => chan'[r] = chan[r]
  BY DEF ClockTick, WokenState, WokenChan
<1>4. PcState' /\ Locked'
  BY SMTT(30), <1>1, <1>3, Addresses DEF PcState, Live, Locked, Ending
<1>5. Parents'
  <2>1. \A r \in Proc : /\ Live(r)' <=> Live(r)
                        /\ \A s \in {"UNUSED", "ZOMBIE"} : state'[r] = s <=> state[r] = s
                        /\ Ending(r)' => Ending(r)
    BY <1>1, <1>3 DEF Live, Ending, PcState
  <2>2. ASSUME NEW r \in Proc, parent[r] # Null
        PROVE  r # initproc /\ state'[r] # "UNUSED" /\ Live(parent[r])'
    <3>1. parent[r] \in Proc /\ r # initproc /\ state[r] # "UNUSED" /\ Live(parent[r])
      BY <1>1, <2>2 DEF Parents, TypeOK
    <3> QED
      BY Zenon, <1>3, <2>1, <3>1 DEF Live
  <2>3. \A r \in Proc : Ending(r)' => \A q \in Proc : parent'[q] # r
    BY Zenon, <1>1, <1>3, <2>1 DEF Parents
  <2>4. \A r \in Proc : r # initproc /\ (Live(r)' \/ state'[r] = "ZOMBIE") => parent'[r] # Null
    BY Zenon, <1>1, <1>3, <2>1 DEF Parents
  <2> QED
    BY <1>1, <1>3, <2>2, <2>3, <2>4 DEF Parents
<1>6. Forks'
  BY <1>1, <1>3 DEF Forks, Forking
<1>7. Sleepers'
  BY <1>1, <1>3, Addresses DEF Sleepers, SleepersRegistered
<1>8. Wakers'
  <2>1. \A r \in Proc : Expects(r)' => Expects(r)
    BY SMTT(30), <1>3, Addresses DEF Expects
  <2>2. \A r \in Proc : Over(r)' => Over(r)
    BY <1>1, <1>3 DEF Over, PcState
  <2> QED
    BY Zenon, <1>1, <1>3, <2>1, <2>2 DEF Wakers
<1>9. Blank'
  BY <1>1, <1>3, Addresses DEF Blank
<1> QED
  BY Zenon, <1>2, <1>4, <1>5, <1>6, <1>7, <1>8, <1>9 DEF IInv

\* A process goes to sleep registered, or not at all.
LEMMA SleepersKept ==
  ASSUME TypeOK, PcState, Sleepers, Forks, NEW p \in Proc, Running(p),
         KernelStep(p) \/ UserStep(p)
  PROVE  Sleepers'
<1>1. CASE Sleep(p)
  BY <1>1, Addresses
     DEF Sleep, TypeOK, procVars, PcState, Sleepers, SleepersRegistered, Running
<1>2. CASE ForkParent(p)
  <2>1. Maker(p)
    BY <1>2, Made DEF ForkParent
  <2> QED
    BY <1>2, <2>1, Addresses
       DEF ForkParent, Maker, TypeOK, procVars, PcState, Sleepers,
           SleepersRegistered, Running
<1>3. CASE ForkRunnable(p)
  <2>1. Maker(p)
    BY <1>3, Made DEF ForkRunnable
  <2> QED
    BY <1>3, <2>1, Addresses
       DEF ForkRunnable, Maker, TypeOK, procVars, PcState, Sleepers,
           SleepersRegistered, Running
<1>4. CASE WaitReap(p)
  <2>1. PICK q \in Proc : Reaps(p, q)
    BY Zenon, <1>4, WaitReaps
  <2> QED
    BY <2>1, Addresses
       DEF Reaps, Freed, TypeOK, procVars, PcState, Sleepers, SleepersRegistered,
           Running
<1>5. CASE WaitFault(p)
  BY <1>5, Addresses
     DEF WaitFault, TypeOK, procVars, PcState, Sleepers, SleepersRegistered, Running
<1>6. CASE WaitNone(p)
  BY <1>6, Addresses
     DEF WaitNone, TypeOK, procVars, PcState, Sleepers, SleepersRegistered, Running
<1>7. CASE WaitPrepare(p)
  BY <1>7, Addresses
     DEF WaitPrepare, TypeOK, procVars, PcState, Sleepers, SleepersRegistered,
         Running
<1>8. CASE PauseReturn(p)
  BY <1>8, Addresses
     DEF PauseReturn, TypeOK, procVars, PcState, Sleepers, SleepersRegistered,
         Running
<1>9. CASE PausePrepare(p)
  BY <1>9, Addresses
     DEF PausePrepare, TypeOK, procVars, PcState, Sleepers, SleepersRegistered,
         Running
<1>10. CASE ExitWakeParent(p)
  BY <1>10, Addresses
     DEF ExitWakeParent, WokenState, WokenChan, TypeOK, procVars, PcState, Sleepers,
         SleepersRegistered, Running
<1>11. CASE ExitZombie(p)
  BY <1>11, Addresses
     DEF ExitZombie, TypeOK, procVars, PcState, Sleepers, SleepersRegistered,
         Running
<1>12. CASE WaitCall(p)
  BY <1>12, Addresses
     DEF WaitCall, TypeOK, procVars, PcState, Sleepers, SleepersRegistered, Running
<1>13. CASE PauseCall(p)
  BY <1>13, Addresses
     DEF PauseCall, TypeOK, procVars, PcState, Sleepers, SleepersRegistered, Running
<1>14. CASE ExitReparent(p)
  BY <1>14, Addresses
     DEF ExitReparent, WokenState, WokenChan, TypeOK, procVars, PcState, Sleepers,
         SleepersRegistered, Running
<1>15. ASSUME NEW q \in Proc, Fork(p, q) PROVE Sleepers'
  BY <1>15, Addresses
     DEF Fork, TypeOK, procVars, PcState, Sleepers, SleepersRegistered, Running
<1>16. ASSUME NEW q \in Proc, ForkOutOfMemory(p, q) PROVE Sleepers'
  BY <1>16, Addresses
     DEF ForkOutOfMemory, Freed, TypeOK, procVars, PcState, Sleepers,
         SleepersRegistered, Running
<1>17. ASSUME NEW n \in KillPids, Kill(p, n) PROVE Sleepers'
  <2>1. PICK q \in Proc : pid[q] = n /\ Marks(q)
    BY Zenon, <1>17, KillMarks
  <2> QED
    BY <2>1, Addresses
       DEF Marks, TypeOK, procVars, PcState, Sleepers, SleepersRegistered, Running
<1> QED
  BY Zenon, <1>1, <1>2, <1>3, <1>4, <1>5, <1>6, <1>7, <1>8, <1>9, <1>10, <1>11,
     <1>12, <1>13, <1>14, <1>15, <1>16, <1>17
     DEF KernelStep, UserStep

\* wait_lock is held by the process between two of its steps, and no other.
LEMMA LockedKept ==
  ASSUME TypeOK, PcState, Forks, Locked, NEW p \in Proc, Running(p),
         KernelStep(p) \/ UserStep(p)
  PROVE  Locked'
<1>1. CASE Sleep(p)
  BY <1>1, Addresses DEF Sleep, TypeOK, procVars, PcState, Locked, Ending, Running
<1>2. CASE ForkParent(p)
  <2>1. Maker(p)
    BY <1>2, Made DEF ForkParent
  <2> QED
    BY <1>2, <2>1, Addresses
       DEF ForkParent, Maker, TypeOK, procVars, PcState, Locked, Ending, Running
<1>3. CASE ForkRunnable(p)
  <2>1. Maker(p)
    BY <1>3, Made DEF ForkRunnable
  <2> QED
    BY <1>3, <2>1, Addresses
       DEF ForkRunnable, Maker, TypeOK, procVars, PcState, Locked, Ending, Running
<1>4. CASE WaitReap(p)
  <2>1. PICK q \in Proc : Reaps(p, q)
    BY Zenon, <1>4, WaitReaps
  <2> QED
    BY <2>1, Addresses
       DEF Reaps, Freed, TypeOK, procVars, PcState, Locked, Ending, Running
<1>5. CASE WaitFault(p)
  BY <1>5, Addresses
     DEF WaitFault, TypeOK, procVars, PcState, Locked, Ending, Running
<1>6. CASE WaitNone(p)
  BY <1>6, Addresses
     DEF WaitNone, TypeOK, procVars, PcState, Locked, Ending, Running
<1>7. CASE WaitPrepare(p)
  BY <1>7, Addresses
     DEF WaitPrepare, TypeOK, procVars, PcState, Locked, Ending, Running
<1>8. CASE PauseReturn(p)
  BY <1>8, Addresses
     DEF PauseReturn, TypeOK, procVars, PcState, Locked, Ending, Running
<1>9. CASE PausePrepare(p)
  BY <1>9, Addresses
     DEF PausePrepare, TypeOK, procVars, PcState, Locked, Ending, Running
<1>10. CASE ExitWakeParent(p)
  BY <1>10, Addresses
     DEF ExitWakeParent, WokenState, WokenChan, TypeOK, procVars, PcState, Locked,
         Ending, Running
<1>11. CASE ExitZombie(p)
  BY <1>11, Addresses
     DEF ExitZombie, TypeOK, procVars, PcState, Locked, Ending, Running
<1>12. CASE WaitCall(p)
  BY <1>12, Addresses
     DEF WaitCall, TypeOK, procVars, PcState, Locked, Ending, Running
<1>13. CASE PauseCall(p)
  BY <1>13, Addresses
     DEF PauseCall, TypeOK, procVars, PcState, Locked, Ending, Running
<1>14. CASE ExitReparent(p)
  BY <1>14, Addresses
     DEF ExitReparent, WokenState, WokenChan, TypeOK, procVars, PcState, Locked,
         Ending, Running
<1>15. ASSUME NEW q \in Proc, Fork(p, q) PROVE Locked'
  BY <1>15, Addresses DEF Fork, TypeOK, procVars, PcState, Locked, Ending, Running
<1>16. ASSUME NEW q \in Proc, ForkOutOfMemory(p, q) PROVE Locked'
  BY <1>16, Addresses
     DEF ForkOutOfMemory, Freed, TypeOK, procVars, PcState, Locked, Ending, Running
<1>17. ASSUME NEW n \in KillPids, Kill(p, n) PROVE Locked'
  <2>1. PICK q \in Proc : pid[q] = n /\ Marks(q)
    BY Zenon, <1>17, KillMarks
  <2> QED
    BY <2>1, Addresses DEF Marks, TypeOK, procVars, PcState, Locked, Ending, Running
<1> QED
  BY Zenon, <1>1, <1>2, <1>3, <1>4, <1>5, <1>6, <1>7, <1>8, <1>9, <1>10, <1>11,
     <1>12, <1>13, <1>14, <1>15, <1>16, <1>17
     DEF KernelStep, UserStep

\* The fields stay in their ranges.
LEMMA TypesKept ==
  ASSUME TypeOK, PcState, Forks, NEW p \in Proc, Running(p),
         KernelStep(p) \/ UserStep(p)
  PROVE  (TypeOK /\ PcState)'
<1>1. CASE Sleep(p)
  BY <1>1, Addresses
     DEF Sleep, TypeOK, procVars, States, PCs, PcState, Live, Running
<1>2. CASE ForkParent(p)
  <2>1. Maker(p)
    BY <1>2, Made DEF ForkParent
  <2> QED
    BY <1>2, <2>1, Addresses
       DEF ForkParent, Maker, TypeOK, procVars, States, PCs, PcState, Live, Running
<1>3. CASE ForkRunnable(p)
  <2>1. Maker(p)
    BY <1>3, Made DEF ForkRunnable
  <2>2. TypeOK'
    BY Zenon, <1>3, <2>1 DEF ForkRunnable, Maker, TypeOK, States, PCs
  <2>3. PcState'
    BY SMTT(30), <1>3, <2>1, Addresses
       DEF ForkRunnable, Maker, TypeOK, PcState, Live
  <2> QED
    BY <2>2, <2>3
<1>4. CASE WaitReap(p)
  <2>1. PICK q \in Proc : Reaps(p, q)
    BY Zenon, <1>4, WaitReaps
  <2> QED
    BY <2>1, Addresses, ProcTreeAssumption
       DEF Reaps, Freed, TypeOK, procVars, States, PCs, PcState, Live, Running
<1>5. CASE ExitWakeParent(p)
  BY <1>5, Addresses
     DEF ExitWakeParent, WokenState, WokenChan, TypeOK, procVars, States, PCs,
         PcState, Live, Running
<1>6. CASE ExitZombie(p)
  BY <1>6, Addresses
     DEF ExitZombie, TypeOK, procVars, States, PCs, PcState, Live, Running
<1>7. CASE ExitReparent(p)
  BY SMTT(30), <1>7, Addresses
     DEF ExitReparent, WokenState, WokenChan, TypeOK, procVars, States, PCs,
         PcState, Live, Running
<1>8. ASSUME NEW q \in Proc, Fork(p, q) PROVE (TypeOK /\ PcState)'
  BY SMTT(30), <1>8, Addresses, ProcTreeAssumption
     DEF Fork, TypeOK, procVars, States, PCs, PcState, Live, Running
<1>9. ASSUME NEW q \in Proc, ForkOutOfMemory(p, q) PROVE (TypeOK /\ PcState)'
  BY SMTT(30), <1>9, Addresses, ProcTreeAssumption
     DEF ForkOutOfMemory, Freed, TypeOK, procVars, States, PCs, PcState, Live,
         Running
<1>10. ASSUME NEW n \in KillPids, Kill(p, n) PROVE (TypeOK /\ PcState)'
  <2>1. PICK q \in Proc : pid[q] = n /\ Marks(q)
    BY Zenon, <1>10, KillMarks
  <2> QED
    BY <2>1, Addresses
       DEF Marks, TypeOK, procVars, States, PCs, PcState, Live, Running
<1>11. CASE Quiet(p)
  BY <1>11, Addresses
     DEF Quiet, TypeOK, procVars, States, PCs, PcState, Live, Running
<1> QED
  BY Zenon, QuietSteps, <1>1, <1>2, <1>3, <1>4, <1>5, <1>6, <1>7, <1>8, <1>9, <1>10,
     <1>11
     DEF KernelStep, UserStep

\* A slot is blank when it becomes free, and stays so.
LEMMA BlankKept ==
  ASSUME TypeOK, PcState, Forks, Blank, NEW p \in Proc, Running(p),
         KernelStep(p) \/ UserStep(p)
  PROVE  Blank'
<1>1. CASE Sleep(p)
  BY <1>1, Addresses DEF Sleep, TypeOK, procVars, Blank, Running
<1>2. CASE ForkParent(p)
  <2>1. Maker(p)
    BY <1>2, Made DEF ForkParent
  <2> QED
    BY <1>2, <2>1, Addresses DEF ForkParent, Maker, TypeOK, procVars, Blank, Running
<1>3. CASE ForkRunnable(p)
  <2>1. Maker(p)
    BY <1>3, Made DEF ForkRunnable
  <2> QED
    BY <1>3, <2>1, Addresses
       DEF ForkRunnable, Maker, TypeOK, procVars, Blank, Running
<1>4. CASE WaitReap(p)
  <2>1. PICK q \in Proc : Reaps(p, q)
    BY Zenon, <1>4, WaitReaps
  <2> QED
    BY <2>1, Addresses DEF Reaps, Freed, TypeOK, procVars, Blank, Running
<1>5. CASE ExitWakeParent(p)
  BY <1>5, Addresses
     DEF ExitWakeParent, WokenState, WokenChan, TypeOK, procVars, Blank, Running
<1>6. CASE ExitZombie(p)
  BY <1>6, Addresses DEF ExitZombie, TypeOK, procVars, Blank, Running
<1>7. CASE ExitReparent(p)
  BY <1>7, Addresses
     DEF ExitReparent, WokenState, WokenChan, TypeOK, procVars, Blank, Running
<1>8. ASSUME NEW q \in Proc, Fork(p, q) PROVE Blank'
  BY <1>8, Addresses DEF Fork, TypeOK, procVars, Blank, Running
<1>9. ASSUME NEW q \in Proc, ForkOutOfMemory(p, q) PROVE Blank'
  BY <1>9, Addresses DEF ForkOutOfMemory, Freed, TypeOK, procVars, Blank, Running
<1>10. ASSUME NEW n \in KillPids, Kill(p, n) PROVE Blank'
  <2>1. PICK q \in Proc : pid[q] = n /\ Marks(q)
    BY Zenon, <1>10, KillMarks
  <2> QED
    BY <2>1, Addresses DEF Marks, TypeOK, procVars, Blank, Running
<1>11. CASE Quiet(p)
  BY <1>11, Addresses DEF Quiet, TypeOK, procVars, Blank, Running
<1> QED
  BY Zenon, QuietSteps, <1>1, <1>2, <1>3, <1>4, <1>5, <1>6, <1>7, <1>8, <1>9, <1>10,
     <1>11
     DEF KernelStep, UserStep

\* Nothing depends on how init ends.
LEMMA PanicKept ==
  ASSUME IInv, UNCHANGED <<procVars, nextpid, wait_lock, pc, np, sh>>, panicked' \in 0 .. 1
  PROVE  IInv'
<1>1. UNCHANGED <<state, pid, parent, chan, killed, nextpid, wait_lock, pc, np, sh>>
  BY DEF procVars
<1>2. TypeOK'
  BY <1>1 DEF IInv, TypeOK
<1>3. PcState' /\ Locked'
  BY <1>1 DEF IInv, PcState, Locked, Ending, Live
<1>4. Parents'
  BY SMTT(30), <1>1 DEF IInv, Parents, Ending, Live
<1>5. Forks' /\ Blank'
  BY <1>1 DEF IInv, Forks, Forking, Blank
<1>6. Sleepers' /\ Wakers'
  BY <1>1 DEF IInv, Sleepers, SleepersRegistered, Wakers, Expects, Over
<1> QED
  BY <1>2, <1>3, <1>4, <1>5, <1>6 DEF IInv

\* One step of any process, or of the clock.
LEMMA StepKept ==
  ASSUME IInv, [Next]_vars
  PROVE  IInv'
<1>1. TypeOK /\ PcState /\ Locked /\ Parents /\ Forks /\ Sleepers /\ Wakers /\ Blank
  BY DEF IInv
<1>2. ASSUME NEW p \in Proc, Running(p), KernelStep(p) \/ UserStep(p)
      PROVE  IInv'
  <2>1. TypeOK' /\ PcState' /\ Locked' /\ Parents'
    BY Zenon, <1>1, <1>2, TypesKept, LockedKept, ParentsKept
  <2>2. Forks' /\ Sleepers' /\ Wakers' /\ Blank'
    BY Zenon, <1>1, <1>2, ForksKept, SleepersKept, WakersKept, BlankKept
  <2> QED
    BY Zenon, <2>1, <2>2 DEF IInv
<1>3. CASE ForkNoSlot \/ ExitInit
  <2>1. UNCHANGED <<procVars, nextpid, wait_lock, pc, np, sh>> /\ panicked' \in 0 .. 1
    BY <1>3 DEF ForkNoSlot, ExitInit
  <2> QED
    BY Zenon, <2>1, PanicKept
<1>4. CASE UNCHANGED vars
  <2>1. UNCHANGED <<procVars, nextpid, wait_lock, pc, np, sh>> /\ panicked' \in 0 .. 1
    BY <1>1, <1>4 DEF vars, TypeOK
  <2> QED
    BY Zenon, <2>1, PanicKept
<1> QED
  BY Zenon, <1>2, <1>3, <1>4, ClockKept DEF Next

\* The first process alone.
LEMMA InitOk == Init => IInv
<1> SUFFICES ASSUME Init PROVE IInv
  OBVIOUS
<1>1. TypeOK
  BY ProcTreeAssumption, Addresses DEF Init, TypeOK, States, PCs
<1>2. PcState /\ Locked /\ Parents
  BY Addresses DEF Init, PcState, Locked, Parents, Ending, Live
<1>3. Forks /\ Sleepers /\ Wakers /\ Blank
  BY Addresses
     DEF Init, Forks, Forking, Sleepers, SleepersRegistered, Wakers, Over, Blank
<1> QED
  BY <1>1, <1>2, <1>3 DEF IInv

-----------------------------------------------------------------------------
(* The theorems. *)

\* The invariant holds in every state, whatever the processes do.
THEOREM Invariant == Spec => []IInv
<1>1. IInv /\ [Next]_vars => IInv'
  BY StepKept
<1> QED
  BY InitOk, <1>1, PTL DEF Spec

\* sleep_prepare() under wait_lock, and kexit() waking its parent under it: a
\* parent asleep in kwait() has no zombie to reap.
THEOREM ExitsSeen == Spec => []NoMissedExit
<1>1. IInv => NoMissedExit
  BY DEF IInv, Wakers, Expects, Over, NoMissedExit, Zombies, Kids
<1> QED
  BY <1>1, Invariant, PTL

\* kfork(), kexit(), reparent(), kwait() and kkill() keep the fields of every
\* slot in their ranges and the tree of living processes and zombies rooted at
\* init; whoever sleeps is registered on the channel it waits for; and a slot
\* given back by freeproc() keeps nothing, unless kill(0) marks it as killed.
THEOREM TableSound == Spec => []ProcInv
<1>1. IInv => FreeIsBlank
  BY DEF IInv, Blank, FreeIsBlank
<1>2. IInv => RootedTree
  BY DEF IInv, Parents, RootedTree
<1>3. IInv => ProcInv
  BY Zenon, <1>1, <1>2 DEF IInv, Sleepers, ProcInv
<1> QED
  BY <1>3, Invariant, PTL
=============================================================================
