------------------------------ MODULE ProcTree ------------------------------
(***************************************************************************)
(* The life of processes: kfork, kexit, kwait, reparent, kkill, and the    *)
(* sleep_prepare/sleep/wakeup protocol they block with.                    *)
(* Source: src/xv6/kernel/proc.c, sysproc.c, trap.c and user/init.c.       *)
(*                                                                         *)
(* A step is one critical section of p->lock.  wait_lock is modelled where *)
(* it is held from one step to the next.  RUNNING and RUNNABLE are one     *)
(* state here (module Sched separates them): a process that is RUNNABLE    *)
(* may take its next step.                                                 *)
(***************************************************************************)
EXTENDS Integers

CONSTANTS NPROC,     \* slots of the process table
          MaxPid,    \* bound: the last pid handed out
          KillPids   \* arguments of kill()

ASSUME ProcTreeAssumption ==
  NPROC \in Nat /\ NPROC >= 2 /\ MaxPid \in Nat \ {0} /\ KillPids \subseteq 0 .. MaxPid

Proc == 1 .. NPROC
initproc == 1
Null == 0
TICKS == NPROC + 1          \* the address of ticks, as a channel
Chan == {Null, TICKS} \cup Proc

VARIABLES state, pid, parent, chan, killed,  \* struct proc
          nextpid,
          wait_lock,   \* its holder, or Null
          pc,          \* where each process is
          np,          \* np in kfork()
          sh,          \* pid of the shell in init's main(), 0 to start one
          panicked

procVars == <<state, pid, parent, chan, killed>>
vars == <<procVars, nextpid, wait_lock, pc, np, sh, panicked>>

PCs == {"user", "fork", "forked", "wait", "waitprep", "waitsleep", "pause",
        "pausesleep", "exit", "zombie"}
States == {"UNUSED", "USED", "SLEEPING", "RUNNABLE", "ZOMBIE"}

Kids(p) == {q \in Proc : parent[q] = p}
Zombies(p) == {q \in Kids(p) : state[q] = "ZOMBIE"}
\* The slot of S that a loop over the table meets first.
IsFirst(q, S) == q \in S /\ \A r \in S : q <= r

Init ==
  /\ state = [q \in Proc |-> IF q = initproc THEN "RUNNABLE" ELSE "UNUSED"]
  /\ pid = [q \in Proc |-> IF q = initproc THEN 1 ELSE 0]
  /\ parent = [q \in Proc |-> Null]
  /\ chan = [q \in Proc |-> Null]
  /\ killed = [q \in Proc |-> 0]
  /\ nextpid = 2
  /\ wait_lock = Null
  /\ pc = [q \in Proc |-> "user"]
  /\ np = [q \in Proc |-> Null]
  /\ sh = 0
  /\ panicked = 0

-----------------------------------------------------------------------------
(* Sleep and wakeup. *)

\* What wakeup(c) makes of the states and the channels.
WokenState(c) == [q \in Proc |-> IF chan[q] = c /\ state[q] = "SLEEPING"
                                   THEN "RUNNABLE" ELSE state[q]]
WokenChan(c) == [q \in Proc |-> IF chan[q] = c THEN Null ELSE chan[q]]

\* Mutant: sleep() does not look at the channel.
SleepAlways(p) ==
  /\ pc[p] \in {"waitsleep", "pausesleep"}
  /\ state' = [state EXCEPT ![p] = "SLEEPING"]
  /\ pc' = [pc EXCEPT ![p] = IF pc[p] = "waitsleep" THEN "wait" ELSE "pause"]
  /\ UNCHANGED <<pid, parent, chan, killed, nextpid, wait_lock, np, sh, panicked>>

\* sleep(): the loops of kwait() and sys_pause() come back to their test.
Sleep(p) ==
  /\ pc[p] \in {"waitsleep", "pausesleep"}
  /\ state' = IF chan[p] # Null THEN [state EXCEPT ![p] = "SLEEPING"] ELSE state
  /\ pc' = [pc EXCEPT ![p] = IF pc[p] = "waitsleep" THEN "wait" ELSE "pause"]
  /\ UNCHANGED <<pid, parent, chan, killed, nextpid, wait_lock, np, sh, panicked>>

-----------------------------------------------------------------------------
(* kfork() *)

\* init forks only to start a shell.
MayFork(p) == p = initproc => sh = 0

\* Which UNUSED slot allocproc() meets depends on what other CPUs free meanwhile.
Fork(p, q) ==
  /\ pc[p] = "user" /\ killed[p] = 0 /\ MayFork(p)
  /\ nextpid <= MaxPid
  /\ state[q] = "UNUSED"
  /\ pid' = [pid EXCEPT ![q] = nextpid]
  /\ nextpid' = nextpid + 1
  /\ state' = [state EXCEPT ![q] = "USED"]
  /\ np' = [np EXCEPT ![p] = q]
  /\ pc' = [pc EXCEPT ![p] = "fork"]
  /\ UNCHANGED <<parent, chan, killed, wait_lock, sh, panicked>>

\* Mutant: killed and chan keep the values of the last process.
FreedStale(q) ==
  /\ pid' = [pid EXCEPT ![q] = 0]
  /\ state' = [state EXCEPT ![q] = "UNUSED"]
  /\ UNCHANGED <<chan, killed>>

\* What freeproc() makes of the fields of q.
Freed(q) ==
  /\ pid' = [pid EXCEPT ![q] = 0]
  /\ chan' = [chan EXCEPT ![q] = Null]
  /\ killed' = [killed EXCEPT ![q] = 0]
  /\ state' = [state EXCEPT ![q] = "UNUSED"]

\* Memory runs out in allocproc() or uvmcopy(): the slot is given back.  init
\* exits when its fork() fails, and that panics.
ForkOutOfMemory(p, q) ==
  /\ pc[p] = "user" /\ killed[p] = 0 /\ MayFork(p)
  /\ nextpid <= MaxPid
  /\ state[q] = "UNUSED"
  /\ nextpid' = nextpid + 1
  /\ Freed(q)
  /\ panicked' = IF p = initproc THEN 1 ELSE 0
  /\ UNCHANGED <<parent, wait_lock, pc, np, sh>>

\* No slot is free.  For another process than init nothing changes.
ForkNoSlot ==
  /\ pc[initproc] = "user" /\ sh = 0
  /\ \A q \in Proc : state[q] # "UNUSED"
  /\ panicked' = 1
  /\ UNCHANGED <<procVars, nextpid, wait_lock, pc, np, sh>>

\* Mutant: allocpid() is called a second time.
ForkParentTwice(p) ==
  /\ pc[p] = "fork"
  /\ wait_lock = Null
  /\ parent' = [parent EXCEPT ![np[p]] = p]
  /\ nextpid' = nextpid + 1
  /\ pc' = [pc EXCEPT ![p] = "forked"]
  /\ UNCHANGED <<state, pid, chan, killed, wait_lock, np, sh, panicked>>

ForkParent(p) ==
  /\ pc[p] = "fork"
  /\ wait_lock = Null
  /\ parent' = [parent EXCEPT ![np[p]] = p]
  /\ pc' = [pc EXCEPT ![p] = "forked"]
  /\ UNCHANGED <<state, pid, chan, killed, nextpid, wait_lock, np, sh, panicked>>

ForkRunnable(p) ==
  /\ pc[p] = "forked"
  /\ state' = [state EXCEPT ![np[p]] = "RUNNABLE"]
  /\ pc' = [pc EXCEPT ![p] = "user", ![np[p]] = "user"]
  /\ np' = [np EXCEPT ![p] = Null]
  /\ sh' = IF p = initproc THEN pid[np[p]] ELSE sh
  /\ UNCHANGED <<pid, parent, chan, killed, nextpid, wait_lock, panicked>>

-----------------------------------------------------------------------------
(* kwait(), and kwaitx(), which differs only in what it reports. *)

\* init waits once it has started a shell (or, by the bound, cannot).
WaitCall(p) ==
  /\ pc[p] = "user" /\ killed[p] = 0
  /\ p = initproc => sh # 0 \/ nextpid > MaxPid
  /\ pc' = [pc EXCEPT ![p] = "wait"]
  /\ UNCHANGED <<procVars, nextpid, wait_lock, np, sh, panicked>>

\* A pass over the table finds a zombie child: it is freed.
WaitReap(p) ==
  /\ pc[p] = "wait"
  /\ wait_lock = Null
  /\ \E q \in Proc :
       /\ IsFirst(q, Zombies(p))
       /\ parent' = [parent EXCEPT ![q] = Null]
       /\ Freed(q)
       /\ sh' = IF p = initproc /\ pid[q] = sh THEN 0 ELSE sh
  /\ pc' = [pc EXCEPT ![p] = "user"]
  /\ UNCHANGED <<nextpid, wait_lock, np, panicked>>

\* The status cannot be copied out: the zombie stays.  init passes no address.
WaitFault(p) ==
  /\ pc[p] = "wait" /\ p # initproc
  /\ wait_lock = Null
  /\ Zombies(p) # {}
  /\ pc' = [pc EXCEPT ![p] = "user"]
  /\ UNCHANGED <<procVars, nextpid, wait_lock, np, sh, panicked>>

\* Mutant: wait_lock is released before sleep_prepare().
WaitNoneUnlocked(p) ==
  /\ pc[p] = "wait"
  /\ wait_lock = Null
  /\ Zombies(p) = {}
  /\ pc' = [pc EXCEPT ![p] = IF Kids(p) = {} \/ killed[p] = 1
                               THEN "user" ELSE "waitprep"]
  /\ UNCHANGED <<procVars, nextpid, wait_lock, np, sh, panicked>>

\* The pass finds none: return, or prepare to sleep with wait_lock held.  When
\* wait() fails, init exits, and that panics.
WaitNone(p) ==
  /\ pc[p] = "wait"
  /\ wait_lock = Null
  /\ Zombies(p) = {}
  /\ IF Kids(p) = {} \/ killed[p] = 1
       THEN /\ pc' = [pc EXCEPT ![p] = "user"]
            /\ panicked' = IF p = initproc THEN 1 ELSE 0
            /\ UNCHANGED wait_lock
       ELSE /\ pc' = [pc EXCEPT ![p] = "waitprep"]
            /\ wait_lock' = p
            /\ UNCHANGED panicked
  /\ UNCHANGED <<procVars, nextpid, np, sh>>

WaitPrepare(p) ==
  /\ pc[p] = "waitprep"
  /\ chan' = [chan EXCEPT ![p] = p]
  /\ wait_lock' = Null
  /\ pc' = [pc EXCEPT ![p] = "waitsleep"]
  /\ UNCHANGED <<state, pid, parent, killed, nextpid, np, sh, panicked>>

-----------------------------------------------------------------------------
(* sys_pause() and the clock *)

PauseCall(p) ==
  /\ pc[p] = "user" /\ killed[p] = 0 /\ p # initproc
  /\ pc' = [pc EXCEPT ![p] = "pause"]
  /\ UNCHANGED <<procVars, nextpid, wait_lock, np, sh, panicked>>

\* The time is over, or the process has been killed.
PauseReturn(p) ==
  /\ pc[p] = "pause"
  /\ pc' = [pc EXCEPT ![p] = "user"]
  /\ UNCHANGED <<procVars, nextpid, wait_lock, np, sh, panicked>>

PausePrepare(p) ==
  /\ pc[p] = "pause" /\ killed[p] = 0
  /\ chan' = [chan EXCEPT ![p] = TICKS]
  /\ pc' = [pc EXCEPT ![p] = "pausesleep"]
  /\ UNCHANGED <<state, pid, parent, killed, nextpid, wait_lock, np, sh, panicked>>

ClockTick ==
  /\ \E q \in Proc : chan[q] = TICKS
  /\ state' = WokenState(TICKS)
  /\ chan' = WokenChan(TICKS)
  /\ UNCHANGED <<pid, parent, killed, nextpid, wait_lock, pc, np, sh, panicked>>

-----------------------------------------------------------------------------
(* kexit() and kkill() *)

\* Mutant: reparent() does not wake init.
ExitReparentSilent(p) ==
  /\ pc[p] = "user" /\ p # initproc
  /\ wait_lock = Null
  /\ wait_lock' = p
  /\ parent' = [q \in Proc |-> IF parent[q] = p THEN initproc ELSE parent[q]]
  /\ pc' = [pc EXCEPT ![p] = "exit"]
  /\ UNCHANGED <<state, pid, chan, killed, nextpid, np, sh, panicked>>

\* Mutant: only living children are given to init.
ExitReparentLiving(p) ==
  /\ pc[p] = "user" /\ p # initproc
  /\ wait_lock = Null
  /\ wait_lock' = p
  /\ parent' = [q \in Proc |-> IF parent[q] = p /\ state[q] # "ZOMBIE"
                                 THEN initproc ELSE parent[q]]
  /\ state' = WokenState(initproc) /\ chan' = WokenChan(initproc)
  /\ pc' = [pc EXCEPT ![p] = "exit"]
  /\ UNCHANGED <<pid, killed, nextpid, np, sh, panicked>>

\* From the exit() call, or usertrap() seeing p->killed, to the end of
\* reparent(); wait_lock stays held.
ExitReparent(p) ==
  /\ pc[p] = "user" /\ p # initproc
  /\ wait_lock = Null
  /\ wait_lock' = p
  /\ parent' = [q \in Proc |-> IF parent[q] = p THEN initproc ELSE parent[q]]
  /\ IF Kids(p) # {} THEN state' = WokenState(initproc) /\ chan' = WokenChan(initproc)
                     ELSE UNCHANGED <<state, chan>>
  /\ pc' = [pc EXCEPT ![p] = "exit"]
  /\ UNCHANGED <<pid, killed, nextpid, np, sh, panicked>>

\* Mutant: kexit() does not wake its parent.
ExitWakeParentSilent(p) ==
  /\ pc[p] = "exit"
  /\ pc' = [pc EXCEPT ![p] = "zombie"]
  /\ UNCHANGED <<procVars, nextpid, wait_lock, np, sh, panicked>>

ExitWakeParent(p) ==
  /\ pc[p] = "exit"
  /\ state' = WokenState(parent[p])
  /\ chan' = WokenChan(parent[p])
  /\ pc' = [pc EXCEPT ![p] = "zombie"]
  /\ UNCHANGED <<pid, parent, killed, nextpid, wait_lock, np, sh, panicked>>

ExitZombie(p) ==
  /\ pc[p] = "zombie"
  /\ state' = [state EXCEPT ![p] = "ZOMBIE"]
  /\ wait_lock' = Null
  /\ UNCHANGED <<pid, parent, chan, killed, nextpid, pc, np, sh, panicked>>

\* A killed init exits.
ExitInit ==
  /\ pc[initproc] = "user" /\ killed[initproc] = 1
  /\ panicked' = 1
  /\ UNCHANGED <<procVars, nextpid, wait_lock, pc, np, sh>>

\* The first slot whose pid matches.
Kill(p, n) ==
  /\ pc[p] = "user" /\ killed[p] = 0 /\ p # initproc
  /\ \E q \in Proc :
       /\ IsFirst(q, {r \in Proc : pid[r] = n})
       /\ killed' = [killed EXCEPT ![q] = 1]
       /\ state' = IF state[q] = "SLEEPING"
                     THEN [state EXCEPT ![q] = "RUNNABLE"] ELSE state
  /\ UNCHANGED <<pid, parent, chan, nextpid, wait_lock, pc, np, sh, panicked>>

-----------------------------------------------------------------------------
\* Steps inside the kernel, which end; and what a user program may ask for.
KernelStep(p) ==
  \/ Sleep(p) \/ ForkParent(p) \/ ForkRunnable(p)
  \/ WaitReap(p) \/ WaitFault(p) \/ WaitNone(p) \/ WaitPrepare(p)
  \/ PauseReturn(p) \/ PausePrepare(p)
  \/ ExitWakeParent(p) \/ ExitZombie(p)

UserStep(p) ==
  \/ \E q \in Proc : Fork(p, q) \/ ForkOutOfMemory(p, q)
  \/ WaitCall(p) \/ PauseCall(p) \/ ExitReparent(p)
  \/ \E n \in KillPids : Kill(p, n)

Running(p) == state[p] = "RUNNABLE" /\ panicked = 0

Next ==
  \/ \E p \in Proc : Running(p) /\ (KernelStep(p) \/ UserStep(p))
  \/ Running(initproc) /\ (ForkNoSlot \/ ExitInit)
  \/ panicked = 0 /\ ClockTick

Spec == Init /\ [][Next]_vars

(***************************************************************************)
(* Every process in the kernel goes on.  init, which spins for wait_lock,  *)
(* gets it in the end: its holders only run short sections.  init's main() *)
(* never stops, and a killed init exits at its next trap.                  *)
(***************************************************************************)
Fairness ==
  /\ \A p \in Proc \ {initproc} : WF_vars(Running(p) /\ KernelStep(p))
  /\ SF_vars(Running(initproc) /\ KernelStep(initproc))
  /\ WF_vars(Running(initproc) /\ (UserStep(initproc) \/ ForkNoSlot \/ ExitInit))
FairSpec == Spec /\ Fairness

-----------------------------------------------------------------------------
(* Properties. *)

\* The ranges of the fields of struct proc and of the local variables.
TypeOK ==
  /\ state \in [Proc -> States]
  /\ pid \in [Proc -> 0 .. MaxPid]
  /\ parent \in [Proc -> {Null} \cup Proc]
  /\ chan \in [Proc -> Chan]
  /\ killed \in [Proc -> 0 .. 1]
  /\ nextpid \in 2 .. MaxPid + 1
  /\ wait_lock \in {Null} \cup Proc
  /\ pc \in [Proc -> PCs]
  /\ np \in [Proc -> {Null} \cup Proc]
  /\ sh \in 0 .. MaxPid
  /\ panicked \in 0 .. 1

Live(p) == state[p] \in {"RUNNABLE", "SLEEPING"}

\* reparent() leaves no orphan: the parent of every process that runs, sleeps
\* or waits to be reaped is alive, and the tree of parents is rooted at init.
RootedTree ==
  \A q \in Proc \ {initproc} : Live(q) \/ state[q] = "ZOMBIE" =>
    /\ parent[q] # Null
    /\ Live(parent[q])
    /\ parent[q] = initproc \/ pid[parent[q]] < pid[q]

\* A parent asleep in kwait() has no child left to reap, whatever the order of
\* its sleep_prepare() and sleep() and of the child's wakeup() and exit.
NoMissedExit ==
  \A p \in Proc : state[p] = "SLEEPING" /\ pc[p] = "wait" /\ wait_lock = Null
                    => Zombies(p) = {}

\* A process that sleeps is registered on the channel it waits for, also after
\* wakeups meant for its earlier sleeps and after a kill().
SleepersRegistered ==
  \A p \in Proc : state[p] = "SLEEPING" =>
    chan[p] = IF pc[p] = "wait" THEN p ELSE TICKS

\* A slot that is UNUSED keeps nothing of its last process.  It is marked as
\* killed only where kill(0) is called, which finds a free slot by its pid.
FreeIsBlank ==
  \A q \in Proc : state[q] = "UNUSED" =>
    /\ pid[q] = 0 /\ parent[q] = Null /\ chan[q] = Null
    /\ killed[q] = 1 => 0 \in KillPids

\* The process table at every step: the fields in their ranges, no orphan, every
\* sleeper registered with its waker, and free slots blank.
ProcInv == TypeOK /\ RootedTree /\ SleepersRegistered /\ FreeIsBlank

\* init reaps every zombie it is given, until none is left.
InitReaps == Zombies(initproc) # {} ~> Zombies(initproc) = {} \/ panicked = 1
=============================================================================
