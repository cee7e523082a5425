------------------------------- MODULE Sched -------------------------------
(***************************************************************************)
(* The xv6 process scheduler: the per-CPU loop of scheduler(), the hand    *)
(* over of p->lock through swtch(), the timer interrupt, and the three     *)
(* policies the kernel can be built with (#ifdef FIFO, MLFQ, else RR).     *)
(* Source: src/xv6/kernel/proc.c and trap.c.                               *)
(*                                                                         *)
(* A step is one critical section of one p->lock.  A loop over proc[] that *)
(* takes the locks one at a time is therefore one step per slot, and the   *)
(* other CPUs run between two of its steps.  acquire() is the guard        *)
(* lock[p] = NoCpu; a section that takes and drops the lock without        *)
(* keeping it leaves lock as it was.  Interrupts are off in the scheduler  *)
(* (except at "idle"), in the timer handler and while a lock is held, so   *)
(* a timer interrupt is taken only at "idle" and at "run".                 *)
(***************************************************************************)
EXTENDS Naturals

CONSTANTS NPROC,          \* slots of proc[]
          NCPU,           \* CPUs
          Policies,       \* builds of the kernel: "FIFO", "MLFQ", "RR"
          MaxPri,         \* lowest MLFQ queue (3 in the code)
          mlfq_slice,     \* ticks per queue ({1, 4, 8, 16})
          BoostInterval,  \* MLFQ_BOOST_INTERVAL (48)
          TickMod         \* ticks is a uint: 2^32

Proc == 0 .. NPROC - 1
Cpu == 0 .. NCPU - 1
Pri == 0 .. MaxPri
Time == 0 .. TickMod - 1

\* Past the last slot: no process, and the end of a loop over proc[].
NoProc == NPROC
NoCpu == NCPU

ASSUME SchedAssumption ==
  /\ NPROC \in Nat \ {0}
  /\ NCPU \in Nat \ {0}
  /\ Policies \subseteq {"FIFO", "MLFQ", "RR"}
  /\ MaxPri \in Nat
  /\ mlfq_slice \in [Pri -> Nat \ {0}]
  /\ BoostInterval \in Nat \ {0}
  /\ TickMod \in Nat \ {0}

VARIABLES policy,  \* the scheduler compiled in
          ticks,
          state, priority, slice_used, queued, enq_time, ctime, \* struct proc
          lock,    \* the CPU that holds p->lock
          pc,      \* where each CPU is
          cproc,   \* c->proc
          pos,     \* p of the loop in scheduler()
          best,    \* best of the loop in scheduler(): its lock is held
          ipos,    \* loop variable of the timer handler
          pri      \* local of mlfq_tick()

procVars == <<state, priority, slice_used, queued, enq_time, ctime>>
cpuVars == <<pc, cproc, pos, best, ipos, pri>>
vars == <<policy, ticks, procVars, lock, cpuVars>>

States == {"UNUSED", "USED", "SLEEPING", "RUNNABLE", "RUNNING", "ZOMBIE"}

(***************************************************************************)
(* idle     top of the loop in scheduler(), interrupts on, or wfi          *)
(* scan     in the loop over proc[]                                        *)
(* resumed  switched to the process, which still holds p->lock             *)
(* run      the process runs and holds no lock                             *)
(* clkwake  wakeup(&ticks) in clockintr()                                  *)
(* boost    mlfq_boost()                                                   *)
(* tick     mlfq_tick()                                                    *)
(* higher   mlfq_higher_runnable()                                         *)
(* yield    entering yield()                                               *)
(* swtch    in sched(): state changed, lock held, still on p's stack       *)
(***************************************************************************)
PCs == {"idle", "scan", "resumed", "run", "clkwake", "boost", "tick",
        "higher", "yield", "swtch"}

Unlocked(p) == lock[p] = NoCpu
Goto(c, l) == pc' = [pc EXCEPT ![c] = l]

Init ==
  /\ policy \in Policies
  /\ ticks = 0
  /\ state = [p \in Proc |-> IF p = 0 THEN "RUNNABLE" ELSE "UNUSED"]
  /\ priority = [p \in Proc |-> 0]
  /\ slice_used = [p \in Proc |-> 0]
  /\ queued = [p \in Proc |-> 0]
  /\ enq_time = [p \in Proc |-> 0]
  /\ ctime = [p \in Proc |-> 0]
  /\ lock = [p \in Proc |-> NoCpu]
  /\ pc = [c \in Cpu |-> "idle"]
  /\ cproc = [c \in Cpu |-> NoProc]
  /\ pos = [c \in Cpu |-> 0]
  /\ best = [c \in Cpu |-> NoProc]
  /\ ipos = [c \in Cpu |-> 0]
  /\ pri = [c \in Cpu |-> 0]

-----------------------------------------------------------------------------
(* scheduler() *)

StartScan(c) ==
  /\ pc[c] = "idle"
  /\ Goto(c, "scan")
  /\ pos' = [pos EXCEPT ![c] = 0]
  /\ UNCHANGED <<policy, ticks, procVars, lock, cproc, best, ipos, pri>>

\* The tick p joined the tail of its queue, stamped when a scan first meets it.
Enqueued(p) == IF queued[p] = 0 THEN ticks ELSE enq_time[p]

\* Mutant: FIFO order inside a queue forgotten.
BetterAnyOrder(c, p) ==
  best[c] = NoProc \/ (policy = "MLFQ" /\ priority[p] <= priority[best[c]])

\* Does slot p replace best?  A tie leaves the lower slot in place.
Better(c, p) ==
  \/ best[c] = NoProc
  \/ /\ policy = "FIFO"
     /\ ctime[p] < ctime[best[c]]
  \/ /\ policy = "MLFQ"
     /\ \/ priority[p] < priority[best[c]]
        \/ /\ priority[p] = priority[best[c]]
           /\ Enqueued(p) < enq_time[best[c]]

\* Mutant: the lock of the old best is never released.
ScanSlotLeaksLock(c) ==
  /\ pc[c] = "scan" /\ policy # "RR" /\ pos[c] # NoProc /\ Unlocked(pos[c])
  /\ IF state[pos[c]] = "RUNNABLE" /\ Better(c, pos[c])
       THEN /\ lock' = [lock EXCEPT ![pos[c]] = c]
            /\ best' = [best EXCEPT ![c] = pos[c]]
       ELSE UNCHANGED <<lock, best>>
  /\ pos' = [pos EXCEPT ![c] = @ + 1]
  /\ UNCHANGED <<policy, ticks, procVars, pc, cproc, ipos, pri>>

\* One iteration of the FIFO or MLFQ loop.
ScanSlot(c) ==
  LET p == pos[c] IN
  /\ pc[c] = "scan"
  /\ policy # "RR"
  /\ p # NoProc
  /\ Unlocked(p)
  /\ IF policy = "MLFQ" /\ state[p] = "RUNNABLE"
       THEN /\ enq_time' = [enq_time EXCEPT ![p] = Enqueued(p)]
            /\ queued' = [queued EXCEPT ![p] = 1]
       ELSE UNCHANGED <<enq_time, queued>>
  /\ IF state[p] = "RUNNABLE" /\ Better(c, p)
       THEN /\ lock' = [q \in Proc |-> IF q = p THEN c
                                       ELSE IF q = best[c] THEN NoCpu
                                       ELSE lock[q]]
            /\ best' = [best EXCEPT ![c] = p]
       ELSE UNCHANGED <<lock, best>>
  /\ pos' = [pos EXCEPT ![c] = p + 1]
  /\ UNCHANGED <<policy, ticks, state, priority, slice_used, ctime, pc, cproc, ipos,
                 pri>>

SwitchTo(c, p) ==
  /\ state' = [state EXCEPT ![p] = "RUNNING"]
  /\ cproc' = [cproc EXCEPT ![c] = p]
  /\ Goto(c, "resumed")

\* The end of the FIFO or MLFQ loop: run best, or wfi if there is none.
ScanEnd(c) ==
  /\ pc[c] = "scan"
  /\ policy # "RR"
  /\ pos[c] = NoProc
  /\ IF best[c] = NoProc
       THEN /\ Goto(c, "idle")
            /\ UNCHANGED <<state, cproc>>
       ELSE SwitchTo(c, best[c])
  /\ best' = [best EXCEPT ![c] = NoProc]
  /\ pos' = [pos EXCEPT ![c] = 0]
  /\ UNCHANGED <<policy, ticks, priority, slice_used, queued, enq_time, ctime, lock,
                 ipos, pri>>

\* One iteration of the round robin loop, which runs what it finds.
ScanRR(c) ==
  LET p == pos[c] IN
  /\ pc[c] = "scan"
  /\ policy = "RR"
  /\ IF p = NoProc
       THEN /\ Goto(c, "idle")
            /\ pos' = [pos EXCEPT ![c] = 0]
            /\ UNCHANGED <<state, cproc, lock>>
       ELSE /\ Unlocked(p)
            /\ IF state[p] = "RUNNABLE"
                 THEN /\ SwitchTo(c, p)
                      /\ lock' = [lock EXCEPT ![p] = c]
                      /\ UNCHANGED pos
                 ELSE /\ pos' = [pos EXCEPT ![c] = p + 1]
                      /\ UNCHANGED <<state, cproc, lock, pc>>
  /\ UNCHANGED <<policy, ticks, priority, slice_used, queued, enq_time, ctime, best,
                 ipos, pri>>

\* The process, now on its own stack, drops the lock the scheduler took:
\* the end of yield() and sleep(), or the start of forkret().
Resume(c) ==
  /\ pc[c] = "resumed"
  /\ Goto(c, "run")
  /\ lock' = [lock EXCEPT ![cproc[c]] = NoCpu]
  /\ UNCHANGED <<policy, ticks, procVars, cproc, pos, best, ipos, pri>>

\* Mutant: the scheduler forgets to release the lock.
SwitchBackKeepsLock(c) ==
  /\ pc[c] = "swtch"
  /\ cproc' = [cproc EXCEPT ![c] = NoProc]
  /\ Goto(c, "idle")
  /\ UNCHANGED <<policy, ticks, procVars, lock, pos, best, ipos, pri>>

\* Mutant: round robin starts every round at slot 0.
SwitchBackRestarts(c) ==
  /\ pc[c] = "swtch"
  /\ cproc' = [cproc EXCEPT ![c] = NoProc]
  /\ lock' = [lock EXCEPT ![cproc[c]] = NoCpu]
  /\ pos' = [pos EXCEPT ![c] = 0]
  /\ Goto(c, "idle")
  /\ UNCHANGED <<policy, ticks, procVars, best, ipos, pri>>

\* After the switch back the scheduler drops the lock the process took.
SwitchBack(c) ==
  /\ pc[c] = "swtch"
  /\ cproc' = [cproc EXCEPT ![c] = NoProc]
  /\ lock' = [lock EXCEPT ![cproc[c]] = NoCpu]
  /\ IF policy = "RR"
       THEN /\ Goto(c, "scan")
            /\ pos' = [pos EXCEPT ![c] = cproc[c] + 1]
       ELSE /\ Goto(c, "idle")
            /\ UNCHANGED pos
  /\ UNCHANGED <<policy, ticks, procVars, best, ipos, pri>>

-----------------------------------------------------------------------------
(* What a process does. *)

\* Mutants: the lock is dropped before swtch(); the state is not changed.
LeaveCpuUnlocked(c, s) ==
  /\ Unlocked(cproc[c])
  /\ state' = [state EXCEPT ![cproc[c]] = s]
  /\ Goto(c, "swtch")
  /\ UNCHANGED <<policy, ticks, priority, slice_used, queued, enq_time, ctime, lock,
                 cproc, pos, best, ipos, pri>>
LeaveCpuRunning(c, s) ==
  /\ Unlocked(cproc[c])
  /\ lock' = [lock EXCEPT ![cproc[c]] = c]
  /\ Goto(c, "swtch")
  /\ UNCHANGED <<policy, ticks, procVars, cproc, pos, best, ipos, pri>>

\* Take p->lock, set the state and enter sched() with the lock held.
LeaveCpu(c, s) ==
  LET p == cproc[c] IN
  /\ Unlocked(p)
  /\ lock' = [lock EXCEPT ![p] = c]
  /\ state' = [state EXCEPT ![p] = s]
  /\ Goto(c, "swtch")
  /\ UNCHANGED <<policy, ticks, priority, slice_used, queued, enq_time, ctime, cproc,
                 pos, best, ipos, pri>>

Yield(c) == pc[c] = "yield" /\ LeaveCpu(c, "RUNNABLE")

\* sleep() when no wakeup has come since sleep_prepare().
Sleep(c) == pc[c] = "run" /\ LeaveCpu(c, "SLEEPING")

\* initproc (slot 0) never exits: kexit() panics.
Exit(c) == pc[c] = "run" /\ cproc[c] # 0 /\ LeaveCpu(c, "ZOMBIE")

\* One iteration of wakeup() that finds p waiting on the channel, called by a
\* process or by a device interrupt.
Wakeup(c, p) ==
  /\ pc[c] \in {"run", "idle"}
  /\ Unlocked(p)
  /\ state[p] = "SLEEPING"
  /\ state' = [state EXCEPT ![p] = "RUNNABLE"]
  /\ UNCHANGED <<policy, ticks, priority, slice_used, queued, enq_time, ctime, lock,
                 cpuVars>>

\* allocproc(): a new process, under construction.  When memory runs out
\* freeproc() gives the slot back, its scheduling fields already set.
Allocproc(c, p) ==
  /\ pc[c] = "run"
  /\ Unlocked(p)
  /\ state[p] = "UNUSED"
  /\ \E s \in {"USED", "UNUSED"} : state' = [state EXCEPT ![p] = s]
  /\ priority' = [priority EXCEPT ![p] = 0]
  /\ slice_used' = [slice_used EXCEPT ![p] = 0]
  /\ queued' = [queued EXCEPT ![p] = 0]
  /\ enq_time' = [enq_time EXCEPT ![p] = ticks]
  /\ ctime' = [ctime EXCEPT ![p] = ticks]
  /\ UNCHANGED <<policy, ticks, lock, cpuVars>>

\* The last section of kfork().
ForkRunnable(c, p) ==
  /\ pc[c] = "run"
  /\ Unlocked(p)
  /\ state[p] = "USED"
  /\ state' = [state EXCEPT ![p] = "RUNNABLE"]
  /\ UNCHANGED <<policy, ticks, priority, slice_used, queued, enq_time, ctime, lock,
                 cpuVars>>

\* kwait() reaps a zombie with freeproc(): its stack and slot can be reused.
Reap(c, p) ==
  /\ pc[c] = "run"
  /\ Unlocked(p)
  /\ state[p] = "ZOMBIE"
  /\ state' = [state EXCEPT ![p] = "UNUSED"]
  /\ UNCHANGED <<policy, ticks, priority, slice_used, queued, enq_time, ctime, lock,
                 cpuVars>>

-----------------------------------------------------------------------------
(* The timer interrupt. *)

\* Where the handler goes once clockintr() is done.
AfterClock(c) ==
  IF cproc[c] = NoProc THEN "idle"
  ELSE IF policy = "FIFO" THEN "run"
  ELSE IF policy = "MLFQ" THEN "tick"
  ELSE "yield"

\* clockintr(): CPU 0 keeps the time.
Timer(c) ==
  /\ pc[c] \in {"run", "idle"}
  /\ IF c = 0
       THEN /\ ticks' = (ticks + 1) % TickMod
            /\ Goto(c, "clkwake")
       ELSE /\ Goto(c, AfterClock(c))
            /\ UNCHANGED ticks
  /\ ipos' = [ipos EXCEPT ![c] = 0]
  /\ UNCHANGED <<policy, procVars, lock, cproc, pos, best, pri>>

\* One iteration of wakeup(&ticks); a sleeper may wait on another channel.
ClockWake(c) ==
  LET p == ipos[c] IN
  /\ pc[c] = "clkwake"
  /\ IF p = NoProc
       THEN /\ IF policy = "MLFQ" /\ ticks % BoostInterval = 0
                 THEN Goto(c, "boost")
                 ELSE Goto(c, AfterClock(c))
            /\ ipos' = [ipos EXCEPT ![c] = 0]
            /\ UNCHANGED state
       ELSE /\ Unlocked(p)
            /\ \/ UNCHANGED state
               \/ /\ state[p] = "SLEEPING"
                  /\ state' = [state EXCEPT ![p] = "RUNNABLE"]
            /\ ipos' = [ipos EXCEPT ![c] = p + 1]
            /\ UNCHANGED pc
  /\ UNCHANGED <<policy, ticks, priority, slice_used, queued, enq_time, ctime, lock,
                 cproc, pos, best, pri>>

\* One iteration of mlfq_boost().
Boost(c) ==
  LET p == ipos[c] IN
  /\ pc[c] = "boost"
  /\ IF p = NoProc
       THEN /\ Goto(c, AfterClock(c))
            /\ ipos' = [ipos EXCEPT ![c] = 0]
            /\ UNCHANGED <<priority, slice_used>>
       ELSE /\ Unlocked(p)
            /\ IF state[p] # "UNUSED"
                 THEN /\ priority' = [priority EXCEPT ![p] = 0]
                      /\ slice_used' = [slice_used EXCEPT ![p] = 0]
                 ELSE UNCHANGED <<priority, slice_used>>
            /\ ipos' = [ipos EXCEPT ![c] = p + 1]
            /\ UNCHANGED pc
  /\ UNCHANGED <<policy, ticks, state, queued, enq_time, ctime, lock, cproc, pos, best,
                 pri>>

\* Mutants: a slice one tick too long; no lowest queue.
MlfqTickLate(c) ==
  LET p == cproc[c] IN
  /\ pc[c] = "tick" /\ Unlocked(p)
  /\ slice_used' = [slice_used EXCEPT ![p] =
                      IF @ + 1 > mlfq_slice[priority[p]] THEN 0 ELSE @ + 1]
  /\ Goto(c, "yield")
  /\ UNCHANGED <<policy, ticks, state, priority, queued, enq_time, ctime, lock, cproc,
                 pos, best, ipos, pri>>
MlfqTickSinks(c) ==
  /\ pc[c] = "tick" /\ Unlocked(cproc[c])
  /\ priority' = [priority EXCEPT ![cproc[c]] = @ + 1]
  /\ Goto(c, "yield")
  /\ UNCHANGED <<policy, ticks, state, slice_used, queued, enq_time, ctime, lock,
                 cproc, pos, best, ipos, pri>>

\* The first section of mlfq_tick(): charge the tick, demote when the slice
\* is used up.
MlfqTick(c) ==
  LET p == cproc[c]
      used == slice_used[p] + 1
      expired == used >= mlfq_slice[priority[p]]
      newpri == IF expired /\ priority[p] < MaxPri THEN priority[p] + 1
                                                   ELSE priority[p]
  IN
  /\ pc[c] = "tick"
  /\ Unlocked(p)
  /\ slice_used' = [slice_used EXCEPT ![p] = IF expired THEN 0 ELSE used]
  /\ priority' = [priority EXCEPT ![p] = newpri]
  /\ enq_time' = [enq_time EXCEPT ![p] = IF expired THEN ticks ELSE @]
  /\ IF expired
       THEN /\ Goto(c, "yield")
            /\ UNCHANGED pri
       ELSE /\ Goto(c, "higher")
            /\ pri' = [pri EXCEPT ![c] = newpri]
  /\ ipos' = [ipos EXCEPT ![c] = 0]
  /\ UNCHANGED <<policy, ticks, state, queued, ctime, lock, cproc, pos, best>>

HigherReturns(c, l) ==
  /\ Goto(c, l)
  /\ ipos' = [ipos EXCEPT ![c] = 0]
  /\ pri' = [pri EXCEPT ![c] = 0]

\* Mutant: the loop stops at the process's own slot.
HigherRunnableBelow(c) ==
  LET q == ipos[c] IN
  /\ pc[c] = "higher"
  /\ IF q = cproc[c]
       THEN HigherReturns(c, "run")
       ELSE /\ Unlocked(q)
            /\ IF state[q] = "RUNNABLE" /\ priority[q] < pri[c]
                 THEN HigherReturns(c, "yield")
                 ELSE ipos' = [ipos EXCEPT ![c] = q + 1] /\ UNCHANGED <<pc, pri>>
  /\ UNCHANGED <<policy, ticks, procVars, lock, cproc, pos, best>>

\* One iteration of mlfq_higher_runnable().
HigherRunnable(c) ==
  LET q == ipos[c] IN
  /\ pc[c] = "higher"
  /\ IF q = NoProc
       THEN HigherReturns(c, "run")
       ELSE /\ q # cproc[c] => Unlocked(q)
            /\ IF q # cproc[c] /\ state[q] = "RUNNABLE" /\ priority[q] < pri[c]
                 THEN HigherReturns(c, "yield")
                 ELSE /\ ipos' = [ipos EXCEPT ![c] = q + 1]
                      /\ UNCHANGED <<pc, pri>>
  /\ UNCHANGED <<policy, ticks, procVars, lock, cproc, pos, best>>

-----------------------------------------------------------------------------
Next ==
  \E c \in Cpu :
    \/ StartScan(c) \/ ScanSlot(c) \/ ScanEnd(c) \/ ScanRR(c)
    \/ Resume(c) \/ SwitchBack(c)
    \/ Yield(c) \/ Sleep(c) \/ Exit(c)
    \/ \E p \in Proc :
         Wakeup(c, p) \/ Allocproc(c, p) \/ ForkRunnable(c, p) \/ Reap(c, p)
    \/ Timer(c) \/ ClockWake(c) \/ Boost(c) \/ MlfqTick(c) \/ HigherRunnable(c)

Spec == Init /\ [][Next]_vars

\* What a CPU does without being asked, until its code has nothing to do.
CpuStep(c) ==
  \/ StartScan(c) \/ ScanSlot(c) \/ ScanEnd(c) \/ ScanRR(c)
  \/ Resume(c) \/ SwitchBack(c) \/ Yield(c)
  \/ ClockWake(c) \/ Boost(c) \/ MlfqTick(c) \/ HigherRunnable(c)

\* A CPU executes its code; its timer keeps firing, but 100 ms apart, so the
\* loop at "idle" gets past the interrupts.  A process may run, sleep or exit
\* as it likes.
Fairness ==
  \A c \in Cpu : WF_vars(CpuStep(c)) /\ WF_vars(Timer(c)) /\ SF_vars(StartScan(c))
FairSpec == Spec /\ Fairness

-----------------------------------------------------------------------------
(* Properties. *)

\* The ranges of the fields and of the per-CPU variables.
TypeOK ==
  /\ policy \in Policies
  /\ ticks \in Time
  /\ state \in [Proc -> States]
  /\ priority \in [Proc -> Pri]
  /\ slice_used \in [Proc -> Nat]
  /\ queued \in [Proc -> {0, 1}]
  /\ enq_time \in [Proc -> Time]
  /\ ctime \in [Proc -> Time]
  /\ lock \in [Proc -> Cpu \cup {NoCpu}]
  /\ pc \in [Cpu -> PCs]
  /\ cproc \in [Cpu -> Proc \cup {NoProc}]
  /\ pos \in [Cpu -> Proc \cup {NoProc}]
  /\ best \in [Cpu -> Proc \cup {NoProc}]
  /\ ipos \in [Cpu -> Proc \cup {NoProc}]
  /\ pri \in [Cpu -> Pri]

\* A CPU has a current process exactly where its code needs one; the timer
\* handler is entered with and without.
PcOk ==
  \A c \in Cpu :
    /\ pc[c] \in {"idle", "scan"} => cproc[c] = NoProc
    /\ cproc[c] = NoProc => pc[c] \in {"idle", "scan", "clkwake", "boost"}

\* Whose lock a CPU holds, where it holds one.
HeldOk ==
  \A c \in Cpu :
    /\ best[c] # NoProc => /\ pc[c] = "scan" /\ policy # "RR"
                           /\ lock[best[c]] = c
                           /\ state[best[c]] = "RUNNABLE"
    /\ pc[c] = "resumed" => lock[cproc[c]] = c
    /\ pc[c] = "swtch" => /\ lock[cproc[c]] = c
                          /\ state[cproc[c]] # "RUNNING"

\* No process is on two CPUs, although it is RUNNABLE (or a reapable ZOMBIE)
\* from the moment yield(), sleep() or kexit() sets its state until it has
\* left its stack: p->lock, taken there and released by the scheduler on the
\* other side of swtch(), closes the gap.
OneCpuPerProcess ==
  \A c, d \in Cpu : cproc[c] = cproc[d] /\ cproc[c] # NoProc => c = d

\* The kernel stack a CPU runs on is never free for reuse: its process is
\* RUNNING, or is leaving with its lock held, so neither kwait() nor
\* allocproc() can have got hold of the slot.
StackInUse ==
  \A c \in Cpu : cproc[c] # NoProc =>
    \/ state[cproc[c]] = "RUNNING"
    \/ pc[c] = "swtch" /\ lock[cproc[c]] = c

\* A RUNNING process is on some CPU: the scan never marks a process RUNNING
\* and then loses it, which would leave it unscheduled for ever.
NoneLost == \A p \in Proc : state[p] = "RUNNING" => \E c \in Cpu : cproc[c] = p

\* The argument of the comment in scheduler() that the scan cannot deadlock:
\* a CPU that waits for the lock of a slot holds at most the lock of a lower
\* slot, and only the scan holds a lock while it waits.
LockOrder ==
  \A c \in Cpu, p \in Proc : lock[p] = c =>
    \/ pc[c] = "scan" /\ best[c] = p /\ p < pos[c]
    \/ pc[c] \in {"resumed", "swtch"} /\ cproc[c] = p

\* The inductive invariant behind the mutual exclusion properties.
IInv ==
  /\ TypeOK /\ PcOk /\ HeldOk /\ LockOrder /\ OneCpuPerProcess /\ StackInUse
  /\ NoneLost

\* No process keeps a CPU past the slice of its queue, across demotions and
\* boosts that change the queue under it.
SliceBound == \A p \in Proc : slice_used[p] < mlfq_slice[priority[p]]

Before(p, q) ==
  CASE policy = "FIFO" -> ctime[p] <= ctime[q]
    [] policy = "MLFQ" -> \/ priority[p] < priority[q]
                          \/ priority[p] = priority[q]
                             /\ enq_time[p] <= enq_time[q]
    [] policy = "RR" -> TRUE

\* wakeup() or kkill() takes a process out of sleep().
WakesUp(p) == state[p] = "SLEEPING" /\ state'[p] = "RUNNABLE"

\* What the comment in scheduler() says of a process that just woke up: it is
\* not yet in the queueing network, so that the scan puts it at the tail.
WokenIsUnqueued == [][\A p \in Proc : WakesUp(p) => queued[p] = 0]_vars

Dispatches(c) == cproc[c] = NoProc /\ cproc'[c] # NoProc

\* The process the loop dispatches is the first in the order of the policy
\* among all that are RUNNABLE at that moment: the earliest created under
\* FIFO; the front of the highest non-empty queue under MLFQ.
PicksFirst ==
  [][\A c \in Cpu : Dispatches(c) =>
       \A q \in Proc : state[q] = "RUNNABLE" => Before(cproc'[c], q)]_vars

\* Under round robin every RUNNABLE process is dispatched sooner or later.
NoStarvation ==
  \A p \in Proc : (policy = "RR" /\ state[p] = "RUNNABLE") ~> state[p] = "RUNNING"

\* A process that mlfq_tick() lets go on is not below a RUNNABLE process.
GivesWay ==
  [][\A c \in Cpu : pc[c] = "higher" /\ pc'[c] = "run" =>
       \A q \in Proc : state[q] = "RUNNABLE" =>
         priority[cproc[c]] <= priority[q]]_vars
=============================================================================
