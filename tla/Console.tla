------------------------------ MODULE Console ------------------------------
\* The console of xv6 (console.c) and the serial port under it (uart.c): readers
\* that wait for a line in a ring of characters, writers that wait for the
\* transmitter, the interrupt handler that edits the ring, echoes and wakes, and
\* a device that sends and receives on its own.
\*
\* The ring's indices are unsigned and wrap, at IDX here. cons.lock is a
\* variable, since the handler keeps it while it spins for the transmitter. The
\* sleep lock of the transmitter is taken when it is free (its own protocol is
\* in Disk).
EXTENDS Naturals, Sequences, FiniteSets, FiniteSetsExt

CONSTANTS
    Proc,           \* processes that use the console
    Readers,        \* those that read; any of them may write
    INPUT_BUF_SIZE, \* characters in the ring
    IDX,            \* 2^32: the indices wrap here
    Key,            \* what may be typed
    BATCH,          \* bytes consolewrite moves at a time (32)
    RXFIFO,         \* bound: bytes the device keeps for the handler
    MaxRead,        \* bound: bytes of a read
    MaxWrite,       \* bound: bytes of a write
    MaxWork         \* bound: characters typed, reads, and writes twice

ASSUME ConsoleAssumption ==
    /\ INPUT_BUF_SIZE \in Nat \ {0} /\ BATCH \in Nat \ {0} /\ RXFIFO \in Nat \ {0}
    /\ IDX \in Nat /\ IDX > INPUT_BUF_SIZE /\ IDX % INPUT_BUF_SIZE = 0
    /\ MaxRead \in Nat \ {0} /\ MaxWrite \in Nat /\ MaxWork \in Nat
    /\ Readers \subseteq Proc
    /\ Key \subseteq {"a", "b", "nl", "cr", "eof", "erase", "kill", "procdump", "nul"}

VARIABLES
    buf, r, w, e,   \* cons: the ring, where to read, end of lines, end of typing
    lock,           \* cons.lock: a process, "intr" or "none"
    pc, chan, dead, \* of each process: what it does, its wait channel, killed
    call,           \* of each process: bytes asked for and done; the batch
    tx_lock,        \* the writer that sends
    intr,           \* the handler: what it does, characters to echo, a line done
    tx, txirq,      \* the device: bytes to send, interrupt because all are sent
    rx,             \*  and bytes received
    wire,           \* the last byte sent of a batch that is not complete
    work            \* what was typed and called so far

cons == <<buf, r, w, e>>
device == <<tx, txirq, rx, wire>>
vars == <<cons, lock, pc, chan, dead, call, tx_lock, intr, device, work>>

NoCall == [n |-> 0, done |-> <<>>, i |-> 0, nn |-> 0]
Quiet == [pc |-> "off", echo |-> 0, line |-> FALSE]

\* All that was typed has been read, and the indices are about to wrap.
Init ==
    /\ buf = [k \in 0 .. (INPUT_BUF_SIZE - 1) |-> "nul"]
    /\ r = IDX - 1 /\ w = r /\ e = r /\ lock = "none"
    /\ pc = [p \in Proc |-> "idle"] /\ chan = [p \in Proc |-> "none"]
    /\ dead = [p \in Proc |-> FALSE] /\ call = [p \in Proc |-> NoCall]
    /\ tx_lock = "none" /\ intr = Quiet
    /\ tx = <<>> /\ txirq = FALSE /\ rx = <<>> /\ wire = <<>>
    /\ work = 0

-----------------------------------------------------------------------------
\* Indices and what lies between them.
Diff(x, y) == (x + IDX - y) % IDX
Inc(x) == (x + 1) % IDX
Dec(x) == (x + IDX - 1) % IDX
Slot(x) == x % INPUT_BUF_SIZE
Between(x, y) == [k \in 1 .. Diff(y, x) |-> buf[Slot((x + k - 1) % IDX)]]

\* wakeup: sleepers run again, and one about to sleep will not.
Awake(s) == CASE s = "r asleep" -> "read" [] s = "w asleep" -> "prepare" [] OTHER -> s
Wakeup(ch) ==
    /\ chan' = [p \in Proc |-> IF chan[p] = ch THEN "none" ELSE chan[p]]
    /\ pc' = [p \in Proc |-> IF chan[p] = ch THEN Awake(pc[p]) ELSE pc[p]]

Goto(p, s) == pc' = [pc EXCEPT ![p] = s]

\* The call returns; a killed process exits, and another may have its slot. A
\* channel that is left over is set anew before the next sleep.
Leave(p) ==
    /\ Goto(p, "idle")
    /\ call' = [call EXCEPT ![p] = NoCall]
    /\ dead' = [dead EXCEPT ![p] = FALSE]
    /\ chan' = [chan EXCEPT ![p] = "none"]

-----------------------------------------------------------------------------
\* consoleread.
Reading(p) == pc[p] \in {"read", "reading", "r sleep", "r asleep"}
Read(p) ==
    /\ pc[p] = "idle" /\ p \in Readers /\ work < MaxWork
    /\ \E n \in 1 .. MaxRead : call' = [call EXCEPT ![p] = [NoCall EXCEPT !.n = n]]
    /\ work' = work + 1
    /\ Goto(p, "read")
    /\ UNCHANGED <<cons, lock, chan, dead, tx_lock, intr, device>>

ReadLock(p) ==
    /\ pc[p] = "read" /\ lock = "none"
    /\ lock' = p /\ Goto(p, "reading")
    /\ UNCHANGED <<cons, chan, dead, call, tx_lock, intr, device, work>>

\* Nothing to read: back with -1 if killed, or register for the wakeup before
\* the lock is released.
ReadWait(p) ==
    /\ pc[p] = "reading" /\ r = w
    /\ lock' = "none"
    /\ IF dead[p]
       THEN Leave(p)
       ELSE Goto(p, "r sleep") /\ chan' = [chan EXCEPT ![p] = "r"] /\ UNCHANGED <<call, dead>>
    /\ UNCHANGED <<cons, tx_lock, intr, device, work>>

\* Mutant: one character more than asked for.
ReadCharOver(p) ==
    /\ pc[p] = "reading" /\ r # w
    /\ LET c == buf[Slot(r)]
           got == Append(call[p].done, c)
       IN  \/ /\ c = "eof"
              /\ r' = IF call[p].done = <<>> THEN Inc(r) ELSE r
              /\ Leave(p) /\ lock' = "none"
           \/ /\ c # "eof" /\ r' = Inc(r)
              /\ \/ Leave(p) /\ lock' = "none"
                 \/ /\ c # "nl" /\ Len(got) <= call[p].n
                    /\ call' = [call EXCEPT ![p].done = got]
                    /\ UNCHANGED <<pc, lock, chan, dead>>
    /\ UNCHANGED <<buf, w, e, tx_lock, intr, device, work>>
\* One character; either_copyout may fail.
ReadChar(p) ==
    /\ pc[p] = "reading" /\ r # w
    /\ LET c == buf[Slot(r)]
           got == Append(call[p].done, c)
       IN  \/ /\ c = "eof"
              /\ r' = IF call[p].done = <<>> THEN Inc(r) ELSE r
              /\ Leave(p) /\ lock' = "none"
           \/ /\ c # "eof" /\ r' = Inc(r)
              /\ \/ Leave(p) /\ lock' = "none"
                 \/ /\ c # "nl" /\ Len(got) < call[p].n
                    /\ call' = [call EXCEPT ![p].done = got]
                    /\ UNCHANGED <<pc, lock, chan, dead>>
    /\ UNCHANGED <<buf, w, e, tx_lock, intr, device, work>>

-----------------------------------------------------------------------------
\* consolewrite, in batches, and uartwrite for each.
Write(p) ==
    /\ pc[p] = "idle" /\ work + 2 <= MaxWork
    /\ call' = [call EXCEPT ![p] = [NoCall EXCEPT !.n = MaxWrite]]
    /\ work' = work + 2
    /\ Goto(p, "batch")
    /\ UNCHANGED <<cons, lock, chan, dead, tx_lock, intr, device>>

\* All is written, or either_copyin fails.
WriteEnd(p) ==
    /\ pc[p] = "batch"
    /\ Leave(p)
    /\ UNCHANGED <<cons, lock, tx_lock, intr, device, work>>
WriteBatch(p) ==
    /\ pc[p] = "batch" /\ call[p].n > 0 /\ tx_lock = "none"
    /\ tx_lock' = p
    /\ LET nn == IF call[p].n < BATCH THEN call[p].n ELSE BATCH
       IN  call' = [call EXCEPT ![p].n = @ - nn, ![p].i = 0, ![p].nn = nn]
    /\ Goto(p, "prepare")
    /\ UNCHANGED <<cons, lock, chan, dead, intr, device, work>>

\* sleep_prepare comes before the look at the transmitter.
Prepare(p) ==
    /\ pc[p] = "prepare"
    /\ chan' = [chan EXCEPT ![p] = "tx"] /\ Goto(p, "look")
    /\ UNCHANGED <<cons, lock, dead, call, tx_lock, intr, device, work>>
Look(p) ==
    /\ pc[p] = "look"
    /\ Goto(p, IF tx = <<>> THEN "put" ELSE "w sleep")
    /\ UNCHANGED <<cons, lock, chan, dead, call, tx_lock, intr, device, work>>
\* Mutant: the lock of the transmitter is given up after every byte.
PutReleases(p) ==
    LET i == call[p].i + 1
        last == i = call[p].nn
    IN  /\ pc[p] = "put"
        /\ tx' = Append(tx, <<p, i, call[p].nn>>)
        /\ call' = [call EXCEPT ![p].i = i]
        /\ Goto(p, IF last THEN "batch" ELSE "prepare")
        /\ tx_lock' = "none"
        /\ txirq' = FALSE
        /\ UNCHANGED <<cons, lock, chan, dead, intr, rx, wire, work>>
Put(p) ==
    LET i == call[p].i + 1
        last == i = call[p].nn
    IN  /\ pc[p] = "put"
        /\ tx' = Append(tx, <<p, i, call[p].nn>>)
        /\ call' = [call EXCEPT ![p].i = i]
        /\ Goto(p, IF last THEN "batch" ELSE "prepare")
        /\ tx_lock' = IF last THEN "none" ELSE tx_lock
        /\ txirq' = FALSE
        /\ UNCHANGED <<cons, lock, chan, dead, intr, rx, wire, work>>

\* Mutant: sleep() does not look whether the wakeup has come.
SleepAnyway(p) ==
    /\ \/ pc[p] = "r sleep" /\ Goto(p, "r asleep")
       \/ pc[p] = "w sleep" /\ Goto(p, IF chan[p] = "none" THEN "prepare" ELSE "w asleep")
    /\ UNCHANGED <<cons, lock, chan, dead, call, tx_lock, intr, device, work>>
\* sleep: not if the wakeup has come already.
Sleep(p) ==
    /\ \/ pc[p] = "r sleep" /\ Goto(p, IF chan[p] = "none" THEN "read" ELSE "r asleep")
       \/ pc[p] = "w sleep" /\ Goto(p, IF chan[p] = "none" THEN "prepare" ELSE "w asleep")
    /\ UNCHANGED <<cons, lock, chan, dead, call, tx_lock, intr, device, work>>

\* kkill: a sleeper runs, its channel stays. (A writer would only look again.)
Kkill(p) ==
    /\ Reading(p) /\ ~dead[p]
    /\ dead' = [dead EXCEPT ![p] = TRUE] /\ Goto(p, Awake(pc[p]))
    /\ UNCHANGED <<cons, lock, chan, call, tx_lock, intr, device, work>>

-----------------------------------------------------------------------------
\* uartintr, on whichever CPU takes the interrupt, one at a time.

\* Reading ISR acknowledges: input comes first, and leaves the other pending.
IntrAck ==
    /\ intr.pc = "off" /\ (txirq \/ rx # <<>>)
    /\ txirq' = (txirq /\ rx # <<>>)
    /\ intr' = [intr EXCEPT !.pc = "ack"]
    /\ UNCHANGED <<cons, lock, pc, chan, dead, call, tx_lock, tx, rx, wire, work>>
\* Mutant: the handler does not wake the writer when input came too.
IntrTxSilent ==
    /\ intr.pc = "ack"
    /\ intr' = [intr EXCEPT !.pc = "get"]
    /\ IF tx = <<>> /\ rx = <<>> THEN Wakeup("tx") ELSE UNCHANGED <<pc, chan>>
    /\ UNCHANGED <<cons, lock, dead, call, tx_lock, device, work>>
IntrTx ==
    /\ intr.pc = "ack"
    /\ intr' = [intr EXCEPT !.pc = "get"]
    /\ IF tx = <<>> THEN Wakeup("tx") ELSE UNCHANGED <<pc, chan>>
    /\ UNCHANGED <<cons, lock, dead, call, tx_lock, device, work>>
IntrEnd ==
    /\ intr.pc = "get" /\ rx = <<>>
    /\ intr' = Quiet
    /\ UNCHANGED <<cons, lock, pc, chan, dead, call, tx_lock, device, work>>

\* consoleintr: what it makes of the ring, the characters it echoes (three to
\* erase one on the screen, one for all of procdump's listing), and whether a
\* line is done.
Edited(e2, echo) == e' = e2 /\ intr' = [pc |-> "echo", echo |-> echo, line |-> FALSE]
                    /\ UNCHANGED <<buf, w>>
Kill ==
    LET typed == Between(w, e)
        keep == Max({0} \cup {k \in DOMAIN typed : typed[k] = "nl"})
    IN  Edited((w + keep) % IDX, 3 * (Len(typed) - keep))
\* Mutant: backspace goes past the start of the line.
EraseAlways == IF e # r THEN Edited(Dec(e), 3) ELSE Edited(e, 0)
Erase == IF e # w THEN Edited(Dec(e), 3) ELSE Edited(e, 0)
\* Mutant: a full ring is not a line.
StoreUnfinished(c) ==
    LET done == c \in {"nl", "eof"}
    IN  /\ buf' = [buf EXCEPT ![Slot(e)] = c]
        /\ e' = Inc(e)
        /\ w' = IF done THEN Inc(e) ELSE w
        /\ intr' = [pc |-> "echo", echo |-> 1, line |-> done]
Store(c) ==
    LET done == c \in {"nl", "eof"} \/ Diff(Inc(e), r) = INPUT_BUF_SIZE
    IN  /\ buf' = [buf EXCEPT ![Slot(e)] = c]
        /\ e' = Inc(e)
        /\ w' = IF done THEN Inc(e) ELSE w
        /\ intr' = [pc |-> "echo", echo |-> 1, line |-> done]
Default(c) ==
    IF c # "nul" /\ Diff(e, r) < INPUT_BUF_SIZE THEN Store(IF c = "cr" THEN "nl" ELSE c) ELSE Edited(e, 0)
Consoleintr ==
    /\ intr.pc = "get" /\ rx # <<>> /\ lock = "none"
    /\ lock' = "intr"
    /\ rx' = Tail(rx)
    /\ CASE Head(rx) = "procdump" -> Edited(e, 1)
         [] Head(rx) = "kill" -> Kill
         [] Head(rx) = "erase" -> Erase
         [] OTHER -> Default(Head(rx))
    /\ UNCHANGED <<r, pc, chan, dead, call, tx_lock, tx, txirq, wire, work>>

\* Mutant: uartputc_sync() does not wait for the transmitter.
EchoAtOnce ==
    /\ intr.pc = "echo" /\ intr.echo > 0
    /\ intr' = [intr EXCEPT !.pc = "put"]
    /\ UNCHANGED <<cons, lock, pc, chan, dead, call, tx_lock, device, work>>
\* uartputc_sync: spin until the transmitter is idle, then write to it.
EchoLook ==
    /\ intr.pc = "echo" /\ intr.echo > 0 /\ tx = <<>>
    /\ intr' = [intr EXCEPT !.pc = "put"]
    /\ UNCHANGED <<cons, lock, pc, chan, dead, call, tx_lock, device, work>>
EchoPut ==
    /\ intr.pc = "put"
    /\ tx' = Append(tx, <<>>)
    /\ txirq' = FALSE
    /\ intr' = [intr EXCEPT !.pc = "echo", !.echo = @ - 1]
    /\ UNCHANGED <<cons, lock, pc, chan, dead, call, tx_lock, rx, wire, work>>
\* Mutant: a line does not wake the readers.
EchoEndSilent ==
    /\ intr.pc = "echo" /\ intr.echo = 0
    /\ lock' = "none"
    /\ UNCHANGED <<pc, chan>>
    /\ intr' = [Quiet EXCEPT !.pc = "get"]
    /\ UNCHANGED <<cons, dead, call, tx_lock, device, work>>
EchoEnd ==
    /\ intr.pc = "echo" /\ intr.echo = 0
    /\ lock' = "none"
    /\ IF intr.line THEN Wakeup("r") ELSE UNCHANGED <<pc, chan>>
    /\ intr' = [Quiet EXCEPT !.pc = "get"]
    /\ UNCHANGED <<cons, dead, call, tx_lock, device, work>>

-----------------------------------------------------------------------------
\* The device.
Sent(byte) == IF byte[2] = byte[3] THEN <<>> ELSE byte
Drain ==
    /\ tx # <<>>
    /\ tx' = Tail(tx)
    /\ wire' = IF Head(tx) = <<>> THEN wire ELSE Sent(Head(tx))
    /\ txirq' = (txirq \/ Tail(tx) = <<>>)
    /\ UNCHANGED <<cons, lock, pc, chan, dead, call, tx_lock, intr, rx, work>>
Type ==
    /\ work < MaxWork /\ Len(rx) < RXFIFO
    /\ \E c \in Key : rx' = Append(rx, c)
    /\ work' = work + 1
    /\ UNCHANGED <<cons, lock, pc, chan, dead, call, tx_lock, intr, tx, txirq, wire>>

Step(p) ==
    \/ ReadLock(p) \/ ReadWait(p) \/ ReadChar(p) \/ Sleep(p)
    \/ WriteEnd(p) \/ WriteBatch(p) \/ Prepare(p) \/ Look(p) \/ Put(p)
Handler == IntrAck \/ IntrTx \/ IntrEnd \/ Consoleintr \/ EchoLook \/ EchoPut \/ EchoEnd

Next ==
    \/ \E p \in Proc : Read(p) \/ Write(p) \/ Step(p) \/ Kkill(p)
    \/ Handler \/ Drain \/ Type

Spec == Init /\ [][Next]_vars

\* Runnable processes run, interrupts are taken, the transmitter sends.
FairSpec ==
    /\ Spec /\ WF_vars(Handler) /\ WF_vars(Drain)
    /\ \A p \in Proc : WF_vars(Step(p))

-----------------------------------------------------------------------------
\* The ring, the locks, the handler and the device hold what they may hold.
TypeOK ==
    /\ {r, w, e} \subseteq 0 .. (IDX - 1)
    /\ lock \in Proc \cup {"none", "intr"} /\ tx_lock \in Proc \cup {"none"}
    /\ \A k \in DOMAIN buf : buf[k] \in Key \cup {"nul", "nl"}
    /\ \A p \in Proc : call[p].n \in Nat /\ call[p].i \in 0 .. call[p].nn
                       /\ Reading(p) => Len(call[p].done) < call[p].n
    /\ intr.echo \in 0 .. (3 * INPUT_BUF_SIZE)

\* Read index, end of the last line and end of the typing stay in this order
\* around the ring, also when the indices wrap and when consoleread() puts an end
\* of file back: never more characters than the ring has room for, and none
\* unfinished in a full ring.
RingOrdered ==
    /\ Diff(w, r) + Diff(e, w) = Diff(e, r)
    /\ Diff(e, r) <= INPUT_BUF_SIZE
    /\ Diff(e, r) = INPUT_BUF_SIZE => w = e

\* Nobody sleeps for what has come: a sleeping reader has nothing to read or the
\* handler is about to wake it; a sleeping writer waits for bytes that are being
\* sent or for an interrupt that is pending or has just been acknowledged.
SleepersHaveCause ==
    \A p \in Proc :
        /\ pc[p] = "r asleep" => chan[p] = "r" /\ (r = w \/ (lock = "intr" /\ intr.line))
        /\ pc[p] = "w asleep" => chan[p] = "tx" /\ (tx # <<>> \/ txirq \/ intr.pc = "ack")

\* Writers and echo look at the transmitter before they write to it, but not in
\* one step: at most the two of them find it idle at a time, so two places in the
\* device's FIFO are enough.
NoOverrun == Len(tx) <= 2

\* A batch of a write is sent as a whole and in order: between two of its bytes
\* there may be echoes, but no byte of another writer.
BatchesWhole ==
    [][wire' # wire =>
        IF wire = <<>> THEN wire'[2] = 1
        ELSE LET next == [wire EXCEPT ![2] = @ + 1] IN wire' = Sent(next)]_vars

\* Every write to the console ends, whatever is echoed in between: as there are
\* finitely many, some time none is left.
Writing(p) == pc[p] \in {"batch", "prepare", "look", "put", "w sleep", "w asleep"}
WritesFinish == []<>(\A p \in Proc : ~Writing(p))

\* A line that has been typed does not wait beside a reader: some time it has
\* been read or nobody wants it.
LinesDelivered == []<>(r = w \/ \A p \in Proc : ~Reading(p))

\* Ring, indices and editing are the queue of lines LineInput promises.
Promise == INSTANCE LineInput WITH
    Size <- INPUT_BUF_SIZE, MaxN <- MaxRead, line <- Between(w, e), ready <- Between(r, w),
    reader <- [p \in Proc |-> IF Reading(p) THEN [want |-> call[p].n, got |-> call[p].done] ELSE <<>>]
ImplementsLineInput == Promise!Spec

\* The input ring and the transmitter at every step: the indices in order, no
\* more than two bytes in the transmitter, and whoever sleeps has a reason to.
ConsoleInv == TypeOK /\ RingOrdered /\ SleepersHaveCause /\ NoOverrun

\* Every write ends, and a reader gets the line that was typed for it.
CallsEnd == WritesFinish /\ LinesDelivered
=============================================================================
