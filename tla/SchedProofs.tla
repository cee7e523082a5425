---------------------------- MODULE SchedProofs ----------------------------
(***************************************************************************)
(* Proofs about Sched, for every number of slots, CPUs and queues, every   *)
(* slice table and each of the three policies: types and slices, the       *)
(* hand-over of processes between CPUs and, for one CPU, the order of the  *)
(* policy.                                                                 *)
(***************************************************************************)
EXTENDS Sched, TLAPS

-----------------------------------------------------------------------------
(* Types. *)

\* The end of a loop over proc[] is not a slot, the step of one stays in range,
\* and the first slot, CPU, queue and tick exist.
LEMMA Ranges ==
  /\ NoProc \notin Proc /\ NoCpu \notin Cpu
  /\ 0 \in Proc /\ 0 \in Pri /\ 0 \in Time
  /\ \A p \in Proc : p \in Nat /\ p + 1 \in Proc \cup {NoProc}
  /\ \A n \in Pri : n \in Nat /\ (n < MaxPri => n + 1 \in Pri)
  /\ \A n \in Nat : n % TickMod \in Time
  /\ \A t \in Time : t \in Nat
  BY SchedAssumption DEF NoProc, Proc, NoCpu, Cpu, Pri, Time

\* The types and the program counters hold initially: the table userinit()
\* leaves, every CPU at the top of scheduler().
LEMMA InitType == Init => TypeOK /\ PcOk
  BY SMTT(30), Ranges DEF Init, TypeOK, States, PCs, PcOk

\* Every step keeps the types.  The demotion in mlfq_tick() stops at the lowest
\* queue, and the code that uses myproc() is reached only with a process.
LEMMA NextType == TypeOK /\ PcOk /\ [Next]_vars => TypeOK' /\ PcOk'
<1> SUFFICES ASSUME TypeOK, PcOk, [Next]_vars PROVE TypeOK' /\ PcOk'
  BY Zenon
<1> USE Ranges DEF TypeOK, PcOk, States, PCs, procVars, cpuVars, Goto
<1>1. CASE UNCHANGED vars
  BY Zenon, <1>1 DEF vars
<1>2. ASSUME NEW c \in Cpu, StartScan(c) PROVE TypeOK' /\ PcOk'
  BY Zenon, <1>2 DEF StartScan
<1>3. ASSUME NEW c \in Cpu, ScanSlot(c) PROVE TypeOK' /\ PcOk'
  BY SMTT(30), <1>3 DEF ScanSlot, Enqueued
<1>4. ASSUME NEW c \in Cpu, ScanEnd(c) PROVE TypeOK' /\ PcOk'
  <2>1. TypeOK'
    BY <1>4 DEF ScanEnd, SwitchTo
  <2>2. PcOk'
    BY <1>4 DEF ScanEnd, SwitchTo
  <2> QED
    BY Zenon, <2>1, <2>2
<1>5. ASSUME NEW c \in Cpu, ScanRR(c) PROVE TypeOK' /\ PcOk'
  <2>1. TypeOK'
    BY SMTT(30), <1>5 DEF ScanRR, SwitchTo
  <2>2. PcOk'
    BY <1>5 DEF ScanRR, SwitchTo
  <2> QED
    BY Zenon, <2>1, <2>2
<1>6. ASSUME NEW c \in Cpu, Resume(c) PROVE TypeOK' /\ PcOk'
  BY Zenon, <1>6 DEF Resume
<1>7. ASSUME NEW c \in Cpu, SwitchBack(c) PROVE TypeOK' /\ PcOk'
  BY <1>7 DEF SwitchBack
<1>8. ASSUME NEW c \in Cpu, Yield(c) \/ Sleep(c) \/ Exit(c)
      PROVE TypeOK' /\ PcOk'
  BY SMTT(30), <1>8 DEF Yield, Sleep, Exit, LeaveCpu
<1>9. ASSUME NEW c \in Cpu, NEW p \in Proc,
             Wakeup(c, p) \/ Allocproc(c, p) \/ ForkRunnable(c, p) \/ Reap(c, p)
      PROVE TypeOK' /\ PcOk'
  BY SMTT(30), <1>9 DEF Wakeup, Allocproc, ForkRunnable, Reap
<1>10. ASSUME NEW c \in Cpu, Timer(c) PROVE TypeOK' /\ PcOk'
  <2>1. (ticks + 1) % TickMod \in Time
    OBVIOUS
  <2> QED
    BY SMTT(30), <1>10, <2>1 DEF Timer, AfterClock
<1>11. ASSUME NEW c \in Cpu, ClockWake(c) PROVE TypeOK' /\ PcOk'
  BY SMTT(30), <1>11 DEF ClockWake, AfterClock
<1>12. ASSUME NEW c \in Cpu, Boost(c) PROVE TypeOK' /\ PcOk'
  BY SMTT(30), <1>12 DEF Boost, AfterClock
<1>13. ASSUME NEW c \in Cpu, MlfqTick(c) PROVE TypeOK' /\ PcOk'
  BY <1>13 DEF MlfqTick
<1>14. ASSUME NEW c \in Cpu, HigherRunnable(c) PROVE TypeOK' /\ PcOk'
  BY SMTT(30), <1>14 DEF HigherRunnable, HigherReturns
<1> QED
  BY Zenon, <1>1, <1>2, <1>3, <1>4, <1>5, <1>6, <1>7, <1>8, <1>9, <1>10, <1>11,
     <1>12,
     <1>13, <1>14 DEF Next

\* TypeOK is an invariant of the scheduler, whatever the policy.
THEOREM TypeCorrect == Spec => []TypeOK
  BY InitType, NextType, PTL DEF Spec

-----------------------------------------------------------------------------
(* Slices. *)

\* A process stays inside the slice of the queue it is in, for every table of
\* slices of at least one tick.
THEOREM SlicesBounded == Spec => []SliceBound
<1>1. Init => SliceBound
  BY SMTT(30), SchedAssumption, Ranges DEF Init, SliceBound
<1>2. TypeOK /\ PcOk /\ SliceBound /\ [Next]_vars => SliceBound'
  <2> SUFFICES ASSUME TypeOK, PcOk, SliceBound, [Next]_vars PROVE SliceBound'
    BY Zenon
  <2> USE SchedAssumption, Ranges DEF TypeOK, SliceBound
  <2>1. CASE UNCHANGED <<priority, slice_used>>
    BY Zenon, <2>1
  <2>2. ASSUME NEW c \in Cpu, NEW p \in Proc, Allocproc(c, p) PROVE SliceBound'
    BY SMTT(30), <2>2 DEF Allocproc
  <2>3. ASSUME NEW c \in Cpu, Boost(c) PROVE SliceBound'
    <3>1. CASE UNCHANGED <<priority, slice_used>>
      BY Zenon, <2>1, <3>1
    <3>2. CASE /\ ipos[c] \in Proc
               /\ priority' = [priority EXCEPT ![ipos[c]] = 0]
               /\ slice_used' = [slice_used EXCEPT ![ipos[c]] = 0]
      BY SMTT(30), <3>2
    <3>3. \/ UNCHANGED <<priority, slice_used>>
          \/ /\ ipos[c] # NoProc
             /\ priority' = [priority EXCEPT ![ipos[c]] = 0]
             /\ slice_used' = [slice_used EXCEPT ![ipos[c]] = 0]
      BY Zenon, <2>3 DEF Boost
    <3>4. ipos[c] \in Proc \cup {NoProc}
      BY Zenon, <2>3
    <3> QED
      BY Zenon, <3>1, <3>2, <3>3, <3>4
  <2>4. ASSUME NEW c \in Cpu, MlfqTick(c) PROVE SliceBound'
    BY SMTT(30), <2>4 DEF MlfqTick, PcOk
  <2>5. ASSUME NEW c \in Cpu,
               \/ StartScan(c) \/ ScanSlot(c) \/ ScanEnd(c) \/ ScanRR(c)
               \/ Resume(c) \/ SwitchBack(c) \/ Yield(c) \/ Sleep(c) \/ Exit(c)
               \/ Timer(c) \/ ClockWake(c) \/ HigherRunnable(c)
        PROVE UNCHANGED <<priority, slice_used>>
    <3>1. CASE StartScan(c) \/ ScanSlot(c) \/ ScanEnd(c) \/ ScanRR(c)
      BY SMTT(30), <3>1 DEF procVars, StartScan, ScanSlot, ScanEnd, ScanRR
    <3>2. CASE Resume(c) \/ SwitchBack(c) \/ Yield(c) \/ Sleep(c) \/ Exit(c)
      BY SMTT(30), <3>2
         DEF procVars, Resume, SwitchBack, Yield, Sleep, Exit, LeaveCpu
    <3>3. CASE Timer(c) \/ ClockWake(c) \/ HigherRunnable(c)
      BY Zenon, <3>3 DEF procVars, Timer, ClockWake, HigherRunnable
    <3> QED
      BY ZenonT(30), <2>5, <3>1, <3>2, <3>3
  <2>6. ASSUME NEW c \in Cpu, NEW p \in Proc,
               Wakeup(c, p) \/ ForkRunnable(c, p) \/ Reap(c, p)
        PROVE UNCHANGED <<priority, slice_used>>
    BY Zenon, <2>6 DEF Wakeup, ForkRunnable, Reap
  <2>7. CASE UNCHANGED vars
    BY Zenon, <2>1, <2>7 DEF vars, procVars
  <2> QED
    BY Zenon, <2>1, <2>2, <2>3, <2>4, <2>5, <2>6, <2>7 DEF Next
<1> QED
  BY <1>1, <1>2, InitType, NextType, PTL DEF Spec

-----------------------------------------------------------------------------
(* The hand-over of processes between CPUs. *)

\* The part of IInv that is not about types.
Excl == HeldOk /\ LockOrder /\ OneCpuPerProcess /\ StackInUse /\ NoneLost

\* Each step of scheduler()'s scan keeps the mutual exclusion part of the invariant.
LEMMA ScanExcl ==
  ASSUME IInv, TypeOK', PcOk', NEW k \in Cpu,
         StartScan(k) \/ ScanSlot(k) \/ ScanEnd(k) \/ ScanRR(k)
  PROVE  Excl'
<1> USE Ranges DEF IInv, TypeOK, PcOk, Excl, HeldOk, LockOrder,
       OneCpuPerProcess, StackInUse, NoneLost, procVars, cpuVars, Goto
<1>1. ASSUME NEW c \in Cpu, StartScan(c) PROVE Excl'
  BY SMTT(30), <1>1 DEF StartScan
<1>2. ASSUME NEW c \in Cpu, ScanSlot(c) PROVE Excl'
  <2>1. pos[c] \in Proc /\ lock[pos[c]] = NoCpu
    BY <1>2 DEF ScanSlot, Unlocked
  <2>2. UNCHANGED <<policy, state, pc, cproc>> /\ pos' = [pos EXCEPT ![c] = pos[c] + 1]
    BY Zenon, <1>2 DEF ScanSlot
  <2>3. CASE UNCHANGED <<lock, best>>
    <3>1. ASSUME NEW d \in Cpu, NEW q \in Proc, lock'[q] = d
          PROVE \/ pc'[d] = "scan" /\ best'[d] = q /\ q < pos'[d]
                \/ pc'[d] \in {"resumed", "swtch"} /\ cproc'[d] = q
      <4>1. CASE d = c
        <5>1. pc[c] = "scan" /\ best[c] = q /\ q < pos[c]
          BY <1>2, <2>3, <3>1, <4>1 DEF ScanSlot
        <5>2. q < pos[c] + 1
          <6>1. q \in Nat /\ pos[c] \in Nat
            BY ONLY <2>1, Ranges, q \in Proc
          <6> QED
            BY ONLY <5>1, <6>1
        <5> QED
          BY SMTT(30), <2>2, <2>3, <4>1, <5>1, <5>2
      <4>2. CASE d # c
        BY SMTT(30), <2>2, <2>3, <3>1, <4>2
      <4> QED
        BY Zenon, <4>1, <4>2
    <3>2. HeldOk' /\ OneCpuPerProcess' /\ StackInUse' /\ NoneLost'
      BY <2>2, <2>3
    <3> QED
      BY Zenon, <3>1, <3>2
  <2>4. CASE /\ state[pos[c]] = "RUNNABLE"
             /\ lock' = [q \in Proc |-> IF q = pos[c] THEN c
                                        ELSE IF q = best[c] THEN NoCpu
                                        ELSE lock[q]]
             /\ best' = [best EXCEPT ![c] = pos[c]]
    <3>1. ASSUME NEW d \in Cpu, d # c, NEW q \in Proc
          PROVE lock'[q] = d <=> lock[q] = d
      BY SMTT(30), <2>1, <2>4, <3>1
    <3>2. HeldOk'
      BY SMTT(30), <1>2, <2>1, <2>2, <2>4, <3>1 DEF ScanSlot
    <3>3. LockOrder'
      BY <1>2, <2>1, <2>2, <2>4, <3>1 DEF ScanSlot
    <3>4. OneCpuPerProcess' /\ NoneLost'
      BY <2>2
    <3>5. StackInUse'
      BY <2>1, <2>2, <2>4, <3>1
    <3> QED
      BY Zenon, <3>2, <3>3, <3>4, <3>5
  <2> QED
    BY Zenon, <1>2, <2>3, <2>4 DEF ScanSlot
<1>3. ASSUME NEW c \in Cpu, ScanEnd(c) PROVE Excl'
  <2>1. HeldOk'
    BY SMTT(30), <1>3 DEF ScanEnd, SwitchTo
  <2>2. LockOrder'
    BY <1>3 DEF ScanEnd, SwitchTo
  <2>3. OneCpuPerProcess'
    BY SMTT(30), <1>3 DEF ScanEnd, SwitchTo
  <2>4. StackInUse'
    BY SMTT(30), <1>3 DEF ScanEnd, SwitchTo
  <2>5. NoneLost'
    BY SMTT(30), <1>3 DEF ScanEnd, SwitchTo
  <2> QED
    BY Zenon, <2>1, <2>2, <2>3, <2>4, <2>5
<1>4. ASSUME NEW c \in Cpu, ScanRR(c) PROVE Excl'
  <2>1. HeldOk'
    BY SMTT(30), <1>4 DEF ScanRR, SwitchTo, Unlocked
  <2>2. LockOrder'
    BY SMTT(30), <1>4 DEF ScanRR, SwitchTo, Unlocked
  <2>3. OneCpuPerProcess'
    BY SMTT(30), <1>4 DEF ScanRR, SwitchTo, Unlocked
  <2>4. StackInUse'
    BY SMTT(30), <1>4 DEF ScanRR, SwitchTo, Unlocked
  <2>5. NoneLost'
    BY <1>4 DEF ScanRR, SwitchTo, Unlocked
  <2> QED
    BY Zenon, <2>1, <2>2, <2>3, <2>4, <2>5
<1> QED
  BY Zenon, <1>1, <1>2, <1>3, <1>4

\* Init establishes the invariant: no lock is held and nothing runs.
LEMMA InitInv == Init => IInv
  BY InitType, Ranges
  DEF Init, IInv, TypeOK, HeldOk, LockOrder, OneCpuPerProcess, StackInUse, NoneLost

\* A slot whose lock is free and which is not RUNNING is no CPU's business:
\* wakeup(), kfork(), allocproc() and kwait() may change its state.
LEMMA ChangeUnattended ==
  ASSUME IInv, NEW p \in Proc, Unlocked(p), state[p] # "RUNNING",
         NEW s \in States, s # "RUNNING",
         state' = [state EXCEPT ![p] = s],
         UNCHANGED <<policy, lock, pc, cproc, pos, best>>
  PROVE  Excl'
<1> USE Ranges DEF IInv, TypeOK, PcOk, Unlocked
<1>1. \A c \in Cpu : cproc[c] # p /\ best[c] # p
  BY DEF StackInUse, HeldOk
<1>2. HeldOk'
  BY <1>1 DEF HeldOk
<1>3. LockOrder' /\ OneCpuPerProcess'
  BY DEF LockOrder, OneCpuPerProcess
<1>4. StackInUse'
  BY <1>1 DEF StackInUse
<1>5. NoneLost'
  BY SMTT(30), <1>1 DEF NoneLost
<1> QED
  BY Zenon, <1>2, <1>3, <1>4, <1>5 DEF Excl

\* Every step keeps the mutual exclusion part of the invariant.
LEMMA NextExcl == IInv /\ TypeOK' /\ PcOk' /\ [Next]_vars => Excl'
<1> SUFFICES ASSUME IInv, TypeOK', PcOk', [Next]_vars PROVE Excl'
  BY Zenon
<1> USE Ranges DEF IInv, TypeOK, PcOk, Excl, HeldOk, LockOrder,
       OneCpuPerProcess, StackInUse, NoneLost, procVars, cpuVars, Goto
<1>1. CASE UNCHANGED vars
  BY <1>1 DEF vars
<1>2. ASSUME NEW c \in Cpu, StartScan(c) \/ ScanSlot(c) \/ ScanEnd(c) \/ ScanRR(c)
      PROVE  Excl'
  BY Zenon, <1>2, ScanExcl
<1>3. ASSUME NEW c \in Cpu, Resume(c) PROVE Excl'
  BY SMTT(30), <1>3 DEF Resume
<1>4. ASSUME NEW c \in Cpu, SwitchBack(c) PROVE Excl'
  BY SMTT(30), <1>4 DEF SwitchBack
<1>5. ASSUME NEW c \in Cpu, Yield(c) \/ Sleep(c) \/ Exit(c) PROVE Excl'
  <2>1. HeldOk'
    BY SMTT(30), <1>5 DEF Yield, Sleep, Exit, LeaveCpu, Unlocked
  <2>2. LockOrder'
    BY <1>5 DEF Yield, Sleep, Exit, LeaveCpu, Unlocked
  <2>3. OneCpuPerProcess'
    BY SMTT(30), <1>5 DEF Yield, Sleep, Exit, LeaveCpu, Unlocked
  <2>4. StackInUse'
    BY SMTT(30), <1>5 DEF Yield, Sleep, Exit, LeaveCpu, Unlocked
  <2>5. NoneLost'
    BY SMTT(30), <1>5 DEF Yield, Sleep, Exit, LeaveCpu, Unlocked
  <2> QED
    BY Zenon, <2>1, <2>2, <2>3, <2>4, <2>5
<1>6. ASSUME NEW c \in Cpu, NEW p \in Proc,
             Wakeup(c, p) \/ Allocproc(c, p) \/ ForkRunnable(c, p) \/ Reap(c, p)
      PROVE Excl'
  <2> HIDE DEF IInv, TypeOK, PcOk, Excl, HeldOk, LockOrder, OneCpuPerProcess,
               StackInUse, NoneLost
  <2>1. PICK s \in {"RUNNABLE", "USED", "UNUSED"} :
             state' = [state EXCEPT ![p] = s]
    BY Zenon, <1>6 DEF Wakeup, Allocproc, ForkRunnable, Reap
  <2>2. Unlocked(p) /\ state[p] # "RUNNING"
    BY SMTT(30), <1>6 DEF Wakeup, Allocproc, ForkRunnable, Reap
  <2>3. UNCHANGED <<policy, lock, pc, cproc, pos, best>>
    BY Zenon, <1>6 DEF Wakeup, Allocproc, ForkRunnable, Reap
  <2> QED
    BY Zenon, <2>1, <2>2, <2>3, ChangeUnattended DEF States
<1>7. ASSUME NEW c \in Cpu, Timer(c) PROVE Excl'
  BY SMTT(30), <1>7 DEF Timer, AfterClock
<1>8. ASSUME NEW c \in Cpu, ClockWake(c) PROVE Excl'
  <2>1. CASE UNCHANGED state
    BY SMTT(30), <1>8, <2>1 DEF ClockWake, AfterClock
  <2>2. CASE /\ ipos[c] # NoProc /\ Unlocked(ipos[c])
             /\ state[ipos[c]] = "SLEEPING"
             /\ state' = [state EXCEPT ![ipos[c]] = "RUNNABLE"]
             /\ UNCHANGED pc
    <3> HIDE DEF IInv, TypeOK, PcOk, Excl, HeldOk, LockOrder, OneCpuPerProcess,
                 StackInUse, NoneLost
    <3>1. ipos[c] \in Proc
      BY Zenon, <2>2 DEF IInv, TypeOK
    <3>2. UNCHANGED <<policy, lock, pc, cproc, pos, best>>
      BY Zenon, <1>8, <2>2 DEF ClockWake
    <3>3. "RUNNABLE" \in States /\ "RUNNABLE" # "RUNNING"
      BY SMTT(30) DEF States
    <3>4. Unlocked(ipos[c]) /\ state[ipos[c]] # "RUNNING"
      BY Zenon, <2>2
    <3>5. state' = [state EXCEPT ![ipos[c]] = "RUNNABLE"]
      BY Zenon, <2>2
    <3> QED
      BY Zenon, <3>1, <3>2, <3>3, <3>4, <3>5, ChangeUnattended
  <2> HIDE DEF IInv, TypeOK, PcOk, Excl, HeldOk, LockOrder, OneCpuPerProcess,
               StackInUse, NoneLost
  <2> QED
    BY SMTT(30), <1>8, <2>1, <2>2 DEF ClockWake
<1>9. ASSUME NEW c \in Cpu, Boost(c) PROVE Excl'
  BY SMTT(30), <1>9 DEF Boost, AfterClock
<1>10. ASSUME NEW c \in Cpu, MlfqTick(c) PROVE Excl'
  BY SMTT(30), <1>10 DEF MlfqTick
<1>11. ASSUME NEW c \in Cpu, HigherRunnable(c) PROVE Excl'
  BY SMTT(30), <1>11 DEF HigherRunnable, HigherReturns
<1> QED
  BY Zenon, <1>1, <1>2, <1>3, <1>4, <1>5, <1>6, <1>7, <1>8, <1>9, <1>10, <1>11
  DEF Next

\* The invariant is inductive.
LEMMA NextInv == IInv /\ [Next]_vars => IInv'
  BY Zenon, NextType, NextExcl DEF IInv, Excl

\* scheduler(), sched() and their callers keep IInv: every hand-over of a process
\* between a CPU's scan and its kernel thread is covered by p->lock.
THEOREM Invariant == Spec => []IInv
  BY InitInv, NextInv, PTL DEF Spec

\* No process is ever on two CPUs.
THEOREM MutualExclusion == Spec => []OneCpuPerProcess
<1>1. IInv => OneCpuPerProcess
  BY DEF IInv
<1> QED
  BY <1>1, Invariant, PTL

\* A kernel stack in use is never free for reuse by kwait() or allocproc().
THEOREM StackSafety == Spec => []StackInUse
<1>1. IInv => StackInUse
  BY DEF IInv
<1> QED
  BY <1>1, Invariant, PTL

\* A RUNNING process is on a CPU.
THEOREM NoLostProcess == Spec => []NoneLost
<1>1. IInv => NoneLost
  BY Zenon DEF IInv
<1> QED
  BY <1>1, Invariant, PTL

\* The lock order that keeps the scans of several CPUs from deadlocking.
THEOREM OrderedLocks == Spec => []LockOrder
<1>1. IInv => LockOrder
  BY DEF IInv
<1> QED
  BY <1>1, Invariant, PTL

-----------------------------------------------------------------------------
(* The order of the policy, on one CPU. *)

\* What the loops of one CPU have found so far: best comes before every RUNNABLE
\* process already passed, and mlfq_higher_runnable() has passed no process that
\* the current one must give way to.
Scanned ==
  \A c \in Cpu :
    /\ pc[c] = "scan" /\ policy # "RR" =>
         \A q \in Proc : q < pos[c] /\ state[q] = "RUNNABLE" =>
           best[c] # NoProc /\ Before(best[c], q)
    /\ pc[c] = "higher" =>
         /\ pri[c] = priority[cproc[c]]
         /\ \A q \in Proc : q < ipos[c] /\ state[q] = "RUNNABLE" => pri[c] <= priority[q]

\* One iteration of scheduler()'s loop keeps best the first of those passed.
LEMMA ScanSlotOrder ==
  ASSUME IInv, Scanned, NEW c \in Cpu, ScanSlot(c),
         NEW q \in Proc, q < pos'[c], state'[q] = "RUNNABLE"
  PROVE  best'[c] # NoProc /\ Before(best[c], q)'
<1> DEFINE p == pos[c]
<1>1. /\ TypeOK /\ p \in Proc /\ policy \in {"FIFO", "MLFQ"}
      /\ pos'[c] = p + 1 /\ state' = state /\ priority' = priority /\ ctime' = ctime
      /\ policy' = policy /\ best[c] \in Proc \cup {NoProc} /\ p \in Nat /\ q \in Nat
  BY Zenon, SchedAssumption, Ranges DEF IInv, TypeOK, ScanSlot
<1>2. /\ \A r \in Proc : priority[r] \in Nat /\ ctime[r] \in Nat /\ enq_time[r] \in Nat
      /\ ticks \in Nat
  BY SchedAssumption DEF IInv, TypeOK, Pri, Time
<1>3. ASSUME best[c] # NoProc
      PROVE  best[c] \in Proc /\ best[c] # p /\ lock[best[c]] = c
  <2>1. best[c] \in Proc /\ lock[best[c]] = c
    BY Zenon, <1>1, <1>3 DEF IInv, HeldOk
  <2>2. lock[p] = NoCpu /\ NoCpu \notin Cpu
    BY Zenon, Ranges DEF ScanSlot, Unlocked
  <2> QED
    BY Zenon, <2>1, <2>2
<1>4. /\ policy = "MLFQ" /\ state[p] = "RUNNABLE" => enq_time'[p] = Enqueued(p)
      /\ \A r \in Proc : r # p => enq_time'[r] = enq_time[r]
      /\ enq_time'[p] \in Nat
  BY SMTT(30), <1>1, <1>2 DEF ScanSlot, TypeOK, Enqueued
<1>5. q = p \/ q < p
  BY <1>1
<1>6. ASSUME q < p
      PROVE  best[c] # NoProc /\ Before(best[c], q)
  BY Zenon, <1>1, <1>6 DEF Scanned, ScanSlot
<1>7. CASE state[p] = "RUNNABLE" /\ Better(c, p)
  <2>1. best'[c] = p /\ p # NoProc
    BY Zenon, <1>1, <1>7, Ranges DEF ScanSlot, TypeOK
  <2>2. CASE q = p
    <3>1. CASE policy = "FIFO"
      BY <1>1, <1>2, <2>1, <2>2, <3>1 DEF Before
    <3>2. CASE policy = "MLFQ"
      BY <1>1, <1>2, <1>4, <2>1, <2>2, <3>2 DEF Before
    <3> QED
      BY Zenon, <1>1, <3>1, <3>2
  <2>3. CASE q < p
    <3>1. CASE policy = "FIFO"
      BY <1>1, <1>2, <1>3, <1>6, <1>7, <2>1, <2>3, <3>1 DEF Before, Better
    <3>2. CASE policy = "MLFQ"
      BY <1>1, <1>2, <1>3, <1>4, <1>6, <1>7, <2>1, <2>3, <3>2 DEF Before, Better
    <3> QED
      BY Zenon, <1>1, <3>1, <3>2
  <2> QED
    BY Zenon, <1>5, <2>2, <2>3
<1>8. CASE ~(state[p] = "RUNNABLE" /\ Better(c, p))
  <2>1. best' = best
    BY Zenon, <1>8 DEF ScanSlot
  <2>2. CASE q = p
    <3>1. best[c] # NoProc /\ state[p] = "RUNNABLE" /\ ~Better(c, p)
      BY Zenon, <1>1, <1>8, <2>2 DEF Better
    <3>2. CASE policy = "FIFO"
      BY <1>1, <1>2, <1>3, <2>1, <2>2, <3>1, <3>2 DEF Before, Better
    <3>3. CASE policy = "MLFQ"
      BY <1>1, <1>2, <1>3, <1>4, <2>1, <2>2, <3>1, <3>3 DEF Before, Better, Enqueued
    <3> QED
      BY Zenon, <1>1, <3>2, <3>3
  <2>3. CASE q < p
    <3>1. CASE policy = "FIFO"
      BY Zenon, <1>1, <1>6, <2>1, <2>3, <3>1 DEF Before
    <3>2. CASE policy = "MLFQ"
      BY <1>1, <1>3, <1>4, <1>6, <2>1, <2>3, <3>2 DEF Before
    <3> QED
      BY Zenon, <1>1, <3>1, <3>2
  <2> QED
    BY Zenon, <1>5, <2>2, <2>3
<1> QED
  BY Zenon, <1>7, <1>8
\* Every step of the only CPU keeps what its loops have found.
LEMMA NextScanned ==
  ASSUME NCPU = 1, IInv, Scanned, [Next]_vars
  PROVE  Scanned'
<1>1. ASSUME NEW c \in Cpu, NEW d \in Cpu PROVE c = d
  BY <1>1 DEF Cpu
<1>2. TypeOK /\ pc \in [Cpu -> PCs]
  BY Zenon DEF IInv, TypeOK
<1>3. CASE UNCHANGED vars
  BY Zenon, <1>3 DEF vars, procVars, cpuVars, Scanned, Before
<1>4. ASSUME NEW c \in Cpu, ScanSlot(c)
      PROVE  Scanned'
  <2>1. \A d \in Cpu : d = c /\ pc'[d] = "scan"
    BY Zenon, <1>1, <1>4 DEF ScanSlot
  <2>2. \A q \in Proc : q < pos'[c] /\ state'[q] = "RUNNABLE" =>
          best'[c] # NoProc /\ Before(best[c], q)'
    BY Zenon, <1>4, ScanSlotOrder
  <2> QED
    BY Zenon, <2>1, <2>2 DEF Scanned
<1>5. ASSUME NEW c \in Cpu, StartScan(c)
      PROVE  Scanned'
  <2>1. \A d \in Cpu : d = c /\ pc'[d] = "scan" /\ pos'[d] = 0
    BY Zenon, <1>1, <1>2, <1>5 DEF StartScan, Goto, TypeOK
  <2>2. \A q \in Proc : ~(q < 0)
    BY DEF Proc
  <2> QED
    BY Zenon, <2>1, <2>2 DEF Scanned
<1>6. ASSUME NEW c \in Cpu, MlfqTick(c)
      PROVE  Scanned'
  <2>1. \A d \in Cpu : d = c /\ pc'[d] # "scan"
    BY Zenon, <1>1, <1>2, <1>6 DEF MlfqTick, Goto
  <2>2. pc'[c] = "higher" => pri'[c] = priority'[cproc'[c]] /\ ipos'[c] = 0
    <3>1. cproc[c] \in Proc
      BY Zenon, <1>2, <1>6 DEF MlfqTick, IInv, PcOk, TypeOK
    <3> QED
      BY Zenon, <1>2, <1>6, <3>1 DEF MlfqTick, Goto, TypeOK
  <2>3. \A q \in Proc : ~(q < 0)
    BY DEF Proc
  <2> QED
    BY Zenon, <2>1, <2>2, <2>3 DEF Scanned
<1>7. ASSUME NEW c \in Cpu, HigherRunnable(c)
      PROVE  Scanned'
  <2>1. \A d \in Cpu : d = c /\ pc'[d] # "scan"
    BY Zenon, <1>1, <1>2, <1>7 DEF HigherRunnable, HigherReturns, Goto
  <2>2. ASSUME pc'[c] = "higher"
        PROVE  /\ pri'[c] = priority'[cproc'[c]]
               /\ \A q \in Proc : q < ipos'[c] /\ state'[q] = "RUNNABLE" =>
                                 pri'[c] <= priority'[q]
    <3>1. /\ ipos[c] \in Proc /\ ipos'[c] = ipos[c] + 1 /\ pri' = pri
          /\ UNCHANGED <<state, priority, cproc>>
          /\ ~(ipos[c] # cproc[c] /\ state[ipos[c]] = "RUNNABLE"
               /\ priority[ipos[c]] < pri[c])
      BY Zenon, <1>2, <1>7, <2>2
         DEF HigherRunnable, HigherReturns, Goto, TypeOK, procVars
    <3>2. /\ pri[c] = priority[cproc[c]]
          /\ \A q \in Proc : q < ipos[c] /\ state[q] = "RUNNABLE" => pri[c] <= priority[q]
      BY Zenon, <1>7 DEF Scanned, HigherRunnable
    <3>3. state[cproc[c]] # "RUNNABLE"
      BY Zenon, <1>7 DEF HigherRunnable, IInv, StackInUse, PcOk
    <3>4. \A q \in Proc : q \in Nat /\ priority[q] \in Nat /\ pri[c] \in Nat
      BY <1>2, SchedAssumption DEF TypeOK, Proc, Pri
    <3> QED
      BY <3>1, <3>2, <3>3, <3>4
  <2> QED
    BY Zenon, <2>1, <2>2 DEF Scanned
<1>8. ASSUME NEW c \in Cpu,
             pc'[c] \notin {"scan", "higher"} \/ (policy' = "RR" /\ pc'[c] # "higher")
      PROVE  Scanned'
  BY Zenon, <1>1, <1>8 DEF Scanned
<1>9. ASSUME NEW c \in Cpu,
             \/ ScanEnd(c) \/ ScanRR(c) \/ Resume(c) \/ SwitchBack(c)
             \/ Yield(c) \/ Sleep(c) \/ Exit(c)
             \/ \E p \in Proc :
                  Wakeup(c, p) \/ Allocproc(c, p) \/ ForkRunnable(c, p) \/ Reap(c, p)
             \/ Timer(c) \/ ClockWake(c) \/ Boost(c)
      PROVE  pc'[c] \notin {"scan", "higher"} \/ (policy' = "RR" /\ pc'[c] # "higher")
  <2>1. AfterClock(c) \notin {"scan", "higher"}
    BY DEF AfterClock
  <2>2. CASE ScanEnd(c) \/ ScanRR(c)
    BY Zenon, <1>2, <2>2 DEF ScanEnd, ScanRR, SwitchTo, Goto
  <2>3. CASE Resume(c) \/ SwitchBack(c) \/ Yield(c) \/ Sleep(c) \/ Exit(c)
    BY Zenon, <1>2, <2>3 DEF Resume, SwitchBack, Yield, Sleep, Exit, LeaveCpu, Goto
  <2>4. ASSUME NEW p \in Proc,
               Wakeup(c, p) \/ Allocproc(c, p) \/ ForkRunnable(c, p) \/ Reap(c, p)
        PROVE  pc'[c] \notin {"scan", "higher"}
    BY Zenon, <2>4 DEF Wakeup, Allocproc, ForkRunnable, Reap, cpuVars
  <2>5. CASE Timer(c) \/ ClockWake(c) \/ Boost(c)
    BY Zenon, <1>2, <2>1, <2>5 DEF Timer, ClockWake, Boost, Goto
  <2> QED
    BY Zenon, <1>9, <2>2, <2>3, <2>4, <2>5
<1> QED
  BY Zenon, <1>3, <1>4, <1>5, <1>6, <1>7, <1>8, <1>9 DEF Next

\* The loops have found nothing yet.
LEMMA InitScanned == Init => Scanned
BY Zenon DEF Init, Scanned

\* c is given a process only at the end of a scan, or by the round robin loop.
LEMMA DispatchedBy ==
  ASSUME IInv, Next, NEW c \in Cpu, Dispatches(c)
  PROVE  \/ ScanEnd(c) /\ best[c] # NoProc /\ cproc'[c] = best[c]
         \/ policy = "RR"
<1>0. TypeOK /\ cproc \in [Cpu -> Proc \cup {NoProc}]
  BY Zenon DEF IInv, TypeOK
<1>1. cproc[c] = NoProc /\ cproc'[c] # NoProc
  BY DEF Dispatches
<1>2. PICK d \in Cpu :
    \/ StartScan(d) \/ ScanSlot(d) \/ ScanEnd(d) \/ ScanRR(d)
    \/ Resume(d) \/ SwitchBack(d)
    \/ Yield(d) \/ Sleep(d) \/ Exit(d)
    \/ \E p \in Proc :
         Wakeup(d, p) \/ Allocproc(d, p) \/ ForkRunnable(d, p) \/ Reap(d, p)
    \/ Timer(d) \/ ClockWake(d) \/ Boost(d) \/ MlfqTick(d) \/ HigherRunnable(d)
  BY Zenon DEF Next
<1>3. ScanEnd(d) \/ policy = "RR" \/ SwitchBack(d) \/ cproc' = cproc
  BY Zenon, <1>2
     DEF StartScan, ScanSlot, ScanRR, Resume, Yield, Sleep, Exit, LeaveCpu,
     Wakeup, Allocproc, ForkRunnable, Reap, Timer, ClockWake, Boost, MlfqTick,
     HigherRunnable, cpuVars
<1>4. CASE ScanEnd(d)
  BY Zenon, <1>0, <1>1, <1>4 DEF ScanEnd, SwitchTo
<1>5. CASE SwitchBack(d)
  BY Zenon, <1>0, <1>1, <1>5 DEF SwitchBack
<1> QED
  BY Zenon, <1>1, <1>3, <1>4, <1>5

\* A CPU leaves mlfq_higher_runnable() for its process only past the last slot.
LEMMA ResumedBy ==
  ASSUME IInv, Next, NEW c \in Cpu, pc[c] = "higher", pc'[c] = "run"
  PROVE  ipos[c] = NoProc
<1>0. pc \in [Cpu -> PCs] /\ cproc[c] # NoProc
  BY Zenon DEF IInv, TypeOK, PcOk
<1>1. PICK d \in Cpu :
    \/ StartScan(d) \/ ScanSlot(d) \/ ScanEnd(d) \/ ScanRR(d)
    \/ Resume(d) \/ SwitchBack(d)
    \/ Yield(d) \/ Sleep(d) \/ Exit(d)
    \/ \E p \in Proc :
         Wakeup(d, p) \/ Allocproc(d, p) \/ ForkRunnable(d, p) \/ Reap(d, p)
    \/ Timer(d) \/ ClockWake(d) \/ Boost(d) \/ MlfqTick(d) \/ HigherRunnable(d)
  BY Zenon DEF Next
<1>2. pc' # pc
  BY <1>0
<1>3. \E l \in PCs : pc' = [pc EXCEPT ![d] = l]
  BY Zenon, <1>1, <1>2
     DEF StartScan, ScanSlot, ScanEnd, ScanRR, SwitchTo, Resume, SwitchBack,
     Yield, Sleep, Exit, LeaveCpu, Wakeup, Allocproc, ForkRunnable, Reap, Timer,
     ClockWake, Boost, AfterClock, MlfqTick, HigherRunnable, HigherReturns, cpuVars,
     Goto, PCs
<1>4. d = c
  BY <1>0, <1>3
<1>5. HigherRunnable(c)
  BY Zenon, <1>0, <1>1, <1>2, <1>4 DEF StartScan, ScanSlot, ScanEnd, ScanRR, Resume,
     SwitchBack, Yield, Sleep, Exit, Wakeup, Allocproc, ForkRunnable, Reap, Timer,
     ClockWake, Boost, MlfqTick, cpuVars
<1> QED
  BY Zenon, <1>0, <1>5 DEF HigherRunnable, HigherReturns, Goto

\* On one CPU the process that scheduler() dispatches is the first, in the order
\* of the policy, of all those that are RUNNABLE at that moment.
THEOREM DispatchOrder == ASSUME NCPU = 1 PROVE Spec => PicksFirst
<1>1. IInv /\ Scanned /\ [Next]_vars => Scanned'
  BY NextScanned
<1>2. ASSUME IInv, Scanned, [Next]_vars
      PROVE  [\A c \in Cpu : Dispatches(c) =>
                \A q \in Proc : state[q] = "RUNNABLE" => Before(cproc'[c], q)]_vars
  <2> SUFFICES ASSUME Next, NEW c \in Cpu, Dispatches(c),
                      NEW q \in Proc, state[q] = "RUNNABLE"
               PROVE  Before(cproc'[c], q)
    BY Zenon, <1>2
  <2>1. CASE policy = "RR"
    BY <2>1 DEF Before
  <2>2. CASE policy # "RR" /\ ScanEnd(c) /\ best[c] # NoProc /\ cproc'[c] = best[c]
    <3>1. q < pos[c] /\ pc[c] = "scan"
      BY <2>2, SchedAssumption DEF ScanEnd, NoProc, Proc
    <3> QED
      BY Zenon, <1>2, <2>2, <3>1 DEF Scanned
  <2> QED
    BY Zenon, <1>2, <2>1, <2>2, DispatchedBy
<1> QED
  BY <1>1, <1>2, InitScanned, Invariant, PTL DEF Spec, PicksFirst

\* On one CPU a process that mlfq_tick() lets go on is in a queue no lower than
\* that of any RUNNABLE process.
THEOREM YieldsToHigher == ASSUME NCPU = 1 PROVE Spec => GivesWay
<1>1. IInv /\ Scanned /\ [Next]_vars => Scanned'
  BY NextScanned
<1>2. ASSUME IInv, Scanned, [Next]_vars
      PROVE  [\A c \in Cpu : pc[c] = "higher" /\ pc'[c] = "run" =>
                \A q \in Proc : state[q] = "RUNNABLE" =>
                  priority[cproc[c]] <= priority[q]]_vars
  <2> SUFFICES ASSUME Next, NEW c \in Cpu, pc[c] = "higher", pc'[c] = "run",
                      NEW q \in Proc, state[q] = "RUNNABLE"
               PROVE  priority[cproc[c]] <= priority[q]
    BY Zenon, <1>2
  <2>1. q < ipos[c]
    BY <1>2, ResumedBy, SchedAssumption DEF NoProc, Proc
  <2> QED
    BY Zenon, <1>2, <2>1 DEF Scanned
<1> QED
  BY <1>1, <1>2, InitScanned, Invariant, PTL DEF Spec, GivesWay
=============================================================================
