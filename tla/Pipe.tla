-------------------------------- MODULE Pipe --------------------------------
(***************************************************************************)
(* A pipe: the ring of bytes, its two ends, and the processes that read    *)
(* from, write to and close it.                                            *)
(* Source: src/xv6/kernel/pipe.c.                                          *)
(*                                                                         *)
(* A step is one turn of a loop: pi->lock is explicit, because kkill()     *)
(* does not take it and can set p->killed between two bytes.  The counters *)
(* are unsigned and wrap at WORD.  A process holds one end, as the file    *)
(* table lets it, and pipeclose() comes with the last one.                 *)
(***************************************************************************)
EXTENDS Integers, Sequences, FiniteSets

CONSTANTS Readers, Writers,
          Byte,
          PIPESIZE,
          WORD,       \* 2^32 in the code
          Requests,   \* bound: for each process, the numbers of bytes it asks for
          Mortal,     \* bound: the processes that are killed
          None

ASSUME PipeAssumption ==
  /\ PIPESIZE \in Nat \ {0} /\ WORD \in Nat
  /\ WORD > PIPESIZE /\ WORD % PIPESIZE = 0
  /\ Requests \in [Readers \cup Writers -> SUBSET (Nat \ {0})] /\ Byte # {}
  /\ Readers \cap Writers = {} /\ None \notin Readers \cup Writers

Proc == Readers \cup Writers
Slot == 0 .. PIPESIZE - 1

VARIABLES data, nread, nwrite, readopen, writeopen, lock,  \* struct pipe
          freed,     \* kfree() has been called on it
          pc, i, n,  \* of piperead() and pipewrite(), for each process
          chan,      \* "", "nread" or "nwrite"
          killed

pipeVars == <<data, nread, nwrite, readopen, writeopen>>
vars == <<pipeVars, lock, freed, pc, i, n, chan, killed>>

\* The process has no call under way, is at the lock's door, inside, has
\* prepared to sleep, sleeps, or has closed its end.
PCs == {"idle", "enter", "loop", "prepared", "asleep", "closed"}

Init ==
  /\ data = [s \in Slot |-> CHOOSE b \in Byte : TRUE]
  /\ nread = 0 /\ nwrite = 0 /\ readopen = 1 /\ writeopen = 1
  /\ lock = None /\ freed = 0
  /\ pc = [p \in Proc |-> "idle"]
  /\ i = [p \in Proc |-> 0] /\ n = [p \in Proc |-> 0]
  /\ chan = [p \in Proc |-> ""]
  /\ killed = [p \in Proc |-> 0]

Empty == nread = nwrite

\* Mutant: the counters are compared without wrapping.
FullUnwrapped == nwrite = nread + PIPESIZE

Full == nwrite = (nread + PIPESIZE) % WORD

\* wakeup(c), whatever the step also does to pc.
Wakeup(c, pcs) ==
  /\ chan' = [p \in Proc |-> IF chan[p] = c THEN "" ELSE chan[p]]
  /\ pc' = [p \in Proc |-> IF chan[p] = c /\ pcs[p] = "asleep" THEN "enter" ELSE pcs[p]]

Call(p, m) ==
  /\ pc[p] = "idle" /\ killed[p] = 0
  /\ pc' = [pc EXCEPT ![p] = "enter"]
  /\ i' = [i EXCEPT ![p] = 0] /\ n' = [n EXCEPT ![p] = m]
  /\ UNCHANGED <<pipeVars, lock, freed, chan, killed>>

\* acquire(&pi->lock), at the start or after sleep()
Acquire(p) ==
  /\ pc[p] = "enter" /\ lock = None
  /\ lock' = p
  /\ pc' = [pc EXCEPT ![p] = "loop"]
  /\ UNCHANGED <<pipeVars, freed, i, n, chan, killed>>

Inside(p) == pc[p] = "loop" /\ lock = p

\* sleep_prepare(c), then release()
SleepOn(p, c, pcs, chans) ==
  /\ lock' = None
  /\ pc' = [pcs EXCEPT ![p] = "prepared"]
  /\ chan' = [chans EXCEPT ![p] = c]

Sleep(p) ==
  /\ pc[p] = "prepared"
  /\ pc' = [pc EXCEPT ![p] = IF chan[p] = "" THEN "enter" ELSE "asleep"]
  /\ UNCHANGED <<pipeVars, lock, freed, i, n, chan, killed>>

Reset(p) == i' = [i EXCEPT ![p] = 0] /\ n' = [n EXCEPT ![p] = 0]

\* wakeup(c), release(), return
Return(p, c) ==
  /\ Wakeup(c, [pc EXCEPT ![p] = "idle"])
  /\ lock' = None
  /\ Reset(p)
  /\ UNCHANGED <<freed, killed>>

\* release(), return -1
Fail(p) ==
  /\ pc' = [pc EXCEPT ![p] = "idle"]
  /\ lock' = None
  /\ Reset(p)
  /\ UNCHANGED <<pipeVars, freed, chan, killed>>

-----------------------------------------------------------------------------
(* pipewrite() *)

WriteFails(p) ==
  /\ p \in Writers /\ Inside(p) /\ i[p] < n[p]
  /\ readopen = 0 \/ killed[p] = 1
  /\ Fail(p)

MayWrite(p) ==
  p \in Writers /\ Inside(p) /\ i[p] < n[p] /\ readopen = 1 /\ killed[p] = 0

\* Mutant: readers are woken only when all has been written.
WriteFullSilent(p) ==
  /\ MayWrite(p) /\ Full
  /\ SleepOn(p, "nwrite", pc, chan)
  /\ UNCHANGED <<pipeVars, freed, i, n, killed>>

WriteFull(p) ==
  /\ MayWrite(p) /\ Full
  /\ LET woken == {q \in Proc : chan[q] = "nread"} IN
       SleepOn(p, "nwrite",
               [q \in Proc |-> IF q \in woken /\ pc[q] = "asleep"
                                 THEN "enter" ELSE pc[q]],
               [q \in Proc |-> IF q \in woken THEN "" ELSE chan[q]])
  /\ UNCHANGED <<pipeVars, freed, i, n, killed>>

WriteByte(p, b) ==
  /\ MayWrite(p) /\ ~Full
  /\ data' = [data EXCEPT ![nwrite % PIPESIZE] = b]
  /\ nwrite' = (nwrite + 1) % WORD
  /\ i' = [i EXCEPT ![p] = i[p] + 1]
  /\ UNCHANGED <<nread, readopen, writeopen, lock, freed, pc, n, chan, killed>>

\* All is written, or copyin() fails.
WriteReturns(p) ==
  /\ p \in Writers /\ Inside(p)
  /\ i[p] = n[p] \/ (MayWrite(p) /\ ~Full)
  /\ Return(p, "nread")
  /\ UNCHANGED pipeVars

-----------------------------------------------------------------------------
(* piperead() *)

\* The reader is still in its first loop.
ReadWaits(p) == p \in Readers /\ Inside(p) /\ i[p] = 0 /\ Empty /\ writeopen = 1

ReadFails(p) == ReadWaits(p) /\ killed[p] = 1 /\ Fail(p)

ReadEmpty(p) ==
  /\ ReadWaits(p) /\ killed[p] = 0
  /\ SleepOn(p, "nread", pc, chan)
  /\ UNCHANGED <<pipeVars, freed, i, n, killed>>

\* Mutant: reads past the last byte.
ReadByteMore(p) ==
  /\ p \in Readers /\ Inside(p) /\ i[p] <= n[p] /\ ~Empty
  /\ nread' = (nread + 1) % WORD
  /\ i' = [i EXCEPT ![p] = i[p] + 1]
  /\ UNCHANGED <<data, nwrite, readopen, writeopen, lock, freed, pc, n, chan, killed>>

ReadByte(p) ==
  /\ p \in Readers /\ Inside(p) /\ i[p] < n[p] /\ ~Empty
  /\ nread' = (nread + 1) % WORD
  /\ i' = [i EXCEPT ![p] = i[p] + 1]
  /\ UNCHANGED <<data, nwrite, readopen, writeopen, lock, freed, pc, n, chan, killed>>

\* n bytes are read, none is left, or copyout() fails.
ReadReturns(p) ==
  /\ p \in Readers /\ Inside(p) /\ ~ReadWaits(p)
  /\ Return(p, "nwrite")
  /\ UNCHANGED pipeVars

-----------------------------------------------------------------------------
(* pipeclose() and kkill() *)

Last(p) == \A q \in Proc : q # p /\ (q \in Readers <=> p \in Readers) => pc[q] = "closed"

\* Mutant: the pipe is freed with its first end.
CloseFrees(p) ==
  /\ pc[p] = "idle" /\ lock = None /\ Last(p)
  /\ freed' = 1
  /\ pc' = [pc EXCEPT ![p] = "closed"]
  /\ UNCHANGED <<pipeVars, lock, i, n, chan, killed>>

\* Mutant: closing the write end wakes nobody.
CloseSilent(p) ==
  /\ pc[p] = "idle" /\ lock = None
  /\ readopen' = IF p \in Readers /\ Last(p) THEN 0 ELSE readopen
  /\ writeopen' = IF p \in Writers /\ Last(p) THEN 0 ELSE writeopen
  /\ pc' = [pc EXCEPT ![p] = "closed"]
  /\ UNCHANGED <<data, nread, nwrite, lock, freed, i, n, chan, killed>>

\* A process closes its end, or exits.
Close(p) ==
  /\ pc[p] = "idle" /\ lock = None
  /\ IF Last(p)
       THEN /\ readopen' = IF p \in Readers THEN 0 ELSE readopen
            /\ writeopen' = IF p \in Writers THEN 0 ELSE writeopen
            /\ Wakeup(IF p \in Writers THEN "nread" ELSE "nwrite",
                      [pc EXCEPT ![p] = "closed"])
            /\ freed' = IF readopen' = 0 /\ writeopen' = 0 THEN 1 ELSE 0
       ELSE /\ pc' = [pc EXCEPT ![p] = "closed"]
            /\ UNCHANGED <<readopen, writeopen, chan, freed>>
  /\ UNCHANGED <<data, nread, nwrite, lock, i, n, killed>>

Kill(p) ==
  /\ p \in Mortal /\ pc[p] # "closed" /\ killed[p] = 0
  /\ killed' = [killed EXCEPT ![p] = 1]
  /\ pc' = [pc EXCEPT ![p] = IF pc[p] = "asleep" THEN "enter" ELSE pc[p]]
  /\ UNCHANGED <<pipeVars, lock, freed, i, n, chan>>

-----------------------------------------------------------------------------
Step(p) ==
  \/ Acquire(p) \/ Sleep(p)
  \/ WriteFails(p) \/ WriteFull(p) \/ (\E b \in Byte : WriteByte(p, b)) \/ WriteReturns(p)
  \/ ReadFails(p) \/ ReadEmpty(p) \/ ReadByte(p) \/ ReadReturns(p)

Next ==
  \E p \in Proc :
    \/ Step(p) \/ Close(p) \/ Kill(p)
    \/ \E m \in Requests[p] : Call(p, m)

Spec == Init /\ [][Next]_vars

\* A process in a call goes on when it can.
FairSpec == Spec /\ \A p \in Proc : WF_vars(Step(p))

-----------------------------------------------------------------------------
(* Properties. *)

\* The ring, the counters and the open flags of struct pipe; no call moves more
\* bytes than it was asked to.
TypeOK ==
  /\ data \in [Slot -> Byte]
  /\ nread \in 0 .. WORD - 1 /\ nwrite \in 0 .. WORD - 1
  /\ readopen \in {0, 1} /\ writeopen \in {0, 1} /\ freed \in {0, 1}
  /\ lock \in Proc \cup {None}
  /\ pc \in [Proc -> PCs]
  /\ i \in [Proc -> Nat] /\ n \in [Proc -> Nat]
  /\ \A p \in Proc : i[p] <= n[p]
  /\ chan \in [Proc -> {"", "nread", "nwrite"}]
  /\ killed \in [Proc -> {0, 1}]

Count == (nwrite - nread) % WORD
Contents == [j \in 1 .. Count |-> data[(nread + j - 1) % PIPESIZE]]

Stream == INSTANCE ByteStream
            WITH Capacity <- PIPESIZE, queue <- Contents, ropen <- readopen,
                 wopen <- writeopen

\* The ring, its wrapping counters and its two flags are a bounded queue.
ImplementsByteStream == Stream!Spec

Waits(p, c) == chan[p] = c /\ pc[p] \in {"prepared", "asleep"}

\* A process that waits has a reason to: a reader that the pipe is empty and
\* can still be written, a writer that it is full and can still be read; or
\* the process inside the pipe is about to wake it.  And a process that sleeps
\* is registered on one of the two channels.  The exception is a writer
\* that is killed between two bytes: pipewrite() then returns without the
\* wakeup for the bytes it has put in.
NoLostWakeup ==
  \A p \in Proc :
    /\ Waits(p, "nread") => \/ Empty /\ writeopen = 1
                            \/ lock \in Writers
                            \/ \E w \in Writers : killed[w] = 1
    /\ Waits(p, "nwrite") => \/ Full /\ readopen = 1
                             \/ lock \in Readers
    /\ pc[p] = "asleep" => chan[p] # ""

\* Nobody is in a call on a pipe that has been freed.
NoUseAfterFree == freed = 1 => \A p \in Proc : pc[p] = "closed"

\* Whoever holds pi->lock is inside, and only that process is.
LockOk == \A p \in Proc : pc[p] = "loop" <=> lock = p

\* Readers and writers use their own channel; a reader that is not inside has
\* read nothing yet.
RoleOk ==
  /\ \A p \in Proc : /\ chan[p] = "nread" => p \in Readers
                     /\ chan[p] = "nwrite" => p \in Writers
  /\ \A p \in Readers : pc[p] # "loop" => i[p] = 0

\* An end is open as long as somebody holds it.
EndsOk ==
  /\ \A p \in Readers : pc[p] # "closed" => readopen = 1
  /\ \A p \in Writers : pc[p] # "closed" => writeopen = 1
  /\ freed = 1 => readopen = 0 /\ writeopen = 0

\* A writer waits for a full pipe until a reader has taken a byte.
WritersWait ==
  \A p \in Proc : Waits(p, "nwrite") =>
    (Full /\ readopen = 1) \/ (lock \in Readers /\ i[lock] > 0)

\* The inductive invariant behind NoLostWakeup and NoUseAfterFree.
PipeInv ==
  TypeOK /\ LockOk /\ RoleOk /\ EndsOk /\ WritersWait /\ NoLostWakeup

\* Once the write end is closed every read returns.
ReadEnds ==
  \A p \in Readers :
    (writeopen = 0 /\ pc[p] # "idle") ~> pc[p] \in {"idle", "closed"}
=============================================================================
