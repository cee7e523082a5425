# Verification of the xv6 kernel and the C shell

This directory holds a TLA+ model of the two programs of the repository: an
xv6-riscv kernel (`src/xv6`) with three schedulers and a changed sleep/wakeup
interface, its user programs, and a job-control shell for Linux
(`src/c-shell`). Each component has a module translated from its source and is
checked by TLC on small instances; for the scheduler, the process life cycle,
the log, the buffer cache with the disk driver, and the pipes TLAPS checks
proofs for every value of the constants. `PROJECT.json` gives for
every definition the source lines it models, and lists the hazards of the code
with the properties that cover them.

## The system

### Kernel

| part | state | operations | what makes it hard |
|---|---|---|---|
| scheduler (`proc.c`, `trap.c`) | `proc[]` states and MLFQ fields, one loop per CPU, `p->lock` | `scheduler`, `sched`, `yield`, `sleep`, `kexit`, `clockintr`, `mlfq_*` | locks taken one slot at a time; `p->lock` handed over through `swtch` |
| process life cycle (`proc.c`, `user/init.c`) | parent tree, `pid`, `chan`, `killed`, `wait_lock` | `kfork`, `kexit`, `reparent`, `kwait(x)`, `kkill`, `sys_pause`, `sleep_prepare`/`sleep`/`wakeup` | exits racing waits, kills racing sleeps, orphans |
| memory (`kalloc.c`, `vm.c`, `exec.c`) | free list, page tables | `kalloc`, `kfree`, `uvmcopy`, `kexec`, `sbrk`, page faults | every failure path must give pages back |
| inodes, directories, files (`fs.c`, `file.c`, `sysfile.c`) | disk inodes, bitmap, inode table, file table | `iget`, `iput`, `ialloc`, `ireclaim`, `link`, `unlink`, `create`, ... | locks taken one at a time on a path, unlinked open files, crash before the last close |
| log (`log.c`) | header in memory and on disk, `outstanding`, `committing`, `ncommit` | `begin_op`, `log_write`, `end_op`, `commit`, `sys_sync`, recovery | crash between any two disk writes; group commit |
| buffer cache, sleep locks, virtio disk (`bio.c`, `sleeplock.c`, `virtio_disk.c`) | buffers and reference counts, descriptors, rings | `bget`, `brelse`, `virtio_disk_rw`, `virtio_disk_intr` | completions out of order, all descriptors in use |
| pipes (`pipe.c`) | ring with wrapping counters, two open flags | `pipewrite`, `piperead`, `pipeclose` | sleeping outside the lock, kill between two bytes, free with the last end |
| console and UART (`console.c`, `uart.c`) | one ring with three indices, a transmitter | `consoleread`, `consolewrite`, `consoleintr`, `uartwrite`, `uartintr` | handler against reader and writers |
| user programs (`user/`) | | `sh`, `umalloc`, `grep`, `init` | recursive parser, descriptors of pipes, free list, partial reads |

The scheduler dispatches the processes whose life `ProcTree` describes. Log,
pipes, console, sleep locks and disk all block with the same
`sleep_prepare`/`sleep`/`wakeup`. Files are built on inodes, inodes on the log,
the log on the buffer cache, and the cache on the disk driver. The modules meet
in the abstract specifications: `Disk` implements `BlockStore`, whose blocks are
what `Log` reads and writes; `Log` implements `AtomicDisk`, whose atomic
operations are what `FileSys` assumes of a transaction; `Pipe` implements
`ByteStream`, and `grep` reads any such stream. The compositions are made by
these promises, not by one large model.

### C shell

| part | state | operations | what makes it hard |
|---|---|---|---|
| job control (`d1d2.c`, `resume.c`, `execute.c`, `c3c4.c`, `ping.c`, `snoop.c`, `main.c`) | job table, terminal's group, timer, the traced process | foreground, background, `resume`, `ping`, `snoop`, SIGCHLD handler, end of file | reports that merge or wait while SIGCHLD is blocked; timer against `waitpid`; a full table |
| lexer, parser, dispatch (`lexer.c`, `parser.c`, `d1d2.c`, `c3c4.c`, `redirection.c`) | stages with their words and files | `lex_line`, `parse_tokens`, `run_tokens`, `make_stages`, `collect_command` | quoting, every stage needs its words and files exactly once |
| `hop` and its history (`func.c`) | a file of visits that several shells share | `do_hop`, `record_visit`, `find_visit` | read, emptied and rewritten without a lock |
| `peek` (`func.c`) | | forward, backward by chunks | newlines at the edge of a chunk |
| `locate`, `activities`, `spy`, `reveal`, prompt | none of their own | print | - |

## Modules

| module | models | role |
|---|---|---|
| `Sched`, `MCSched`; `SchedProofs` | the per-CPU scheduler, timer and MLFQ accounting | component, instance, theorems |
| `ProcTree`, `MCProcTree`; `ProcTreeProofs` | process life cycle and init | component, instance, theorems |
| `AtomicDisk`, `Log`, `MCLog`; `LogSteps`, `LogProofs` | what the log promises, the log | abstract specification, component, instance, theorems |
| `BlockStore`, `Disk`, `MCDisk`; `DiskSteps`, `DiskDriver`, `DiskProofs` | what cache and driver promise; buffer cache, sleep locks, virtio driver | abstract specification, component, instance, theorems |
| `FileSys`, `MCFileSys` | inodes, directories, paths, file table, system calls | component, instance |
| `AddrSpace`, `Memory`, `MCMemory` | what programs are promised of memory; pages and page tables | abstract specification, component, instance |
| `ByteStream`, `Pipe`, `MCPipe`; `PipeProofs` | what a pipe promises, pipes | abstract specification, component, instance, theorems |
| `LineInput`, `Console`, `MCConsole` | what the console promises of input; console and UART | abstract specification, component, instance |
| `Jobs`, `MCJobs` | job control of the shell | component, instance |
| `CmdLine` | lexer, parser and command set-up of the C shell | algorithms and their references |
| `Hop`, `Peek` | `hop` with its shared history; `peek` | component; algorithm |
| `Sh`, `Grep`, `Heap` | xv6 `sh`, `grep` and `malloc` | algorithms; component |
| `MCUser` | the six above | instance |

Variables and actions keep the names of the source. In every module a step is
one critical section: what the code does between taking and dropping a lock,
one turn of a loop where something outside the lock can intervene, or one disk
write where a crash can. Definitions whose name says how they differ from the
one after them, with a comment that begins "Mutant:", are variants of a
definition with a plausible error. They are used to confirm that each property
can fail, and no specification uses them.

### Sched

`pc[c]` says where CPU `c` is: `idle` and `scan` are `scheduler()`, `swtch`
the way back into it, `resumed` the process just after `swtch()` with its lock
held, `run` user or kernel code with interrupts on, and the others the timer
handler. `lock[p]` is the CPU that holds `p->lock`; `best[c]` is the candidate
whose lock the FIFO and MLFQ scans keep while they go on. The three builds are
the three initial values of `policy`, which never changes. `ScanSlot`,
`ScanEnd` and `ScanRR` are the turns of the three loops; `Yield`, `Sleep` and
`Exit` enter `sched()`; `Timer` to `HigherReturns` are `clockintr()` and
`mlfq_tick()` with the lock dropped where the code drops it. `ticks` wraps at
`TickMod`.

### ProcTree

One step is one section of `p->lock`; `wait_lock` is explicit because `kexit()`
and `kwait()` hold it across several. RUNNING and RUNNABLE are one state: which
process runs is the business of `Sched`. init is the process in slot 1 and runs
the loop of `user/init.c`; every other process forks, waits, pauses, kills and
exits at will. The address of the process, or that of `ticks`, is the channel.

### Log

One step is one section of `log.lock` or one `bwrite()`. `dhead` and `dlog` are
the header and blocks of the log on disk, `disk` the home locations, `cache`
the buffer cache. `Crash` loses everything but the disk; `ReadHead`,
`RecoverInstall` and `RecoverErase` are recovery, which can crash too. The
history variables `nended`, `nsafe` and `need` count operations for `sys_sync`.
An operation logs at most `OpBlocks` different blocks.

### Disk

Threads use the cache as `fs.c` and `log.c` do: `bread`, then a change that the
log pins, a write, or nothing, then `brelse`. A step is one section of
`bcache.lock`, of a sleep lock's spin lock or of `vdisk_lock`; the completion
handler holds `vdisk_lock` over the turns of its loop, in which the device may
complete more requests. `lru` is the list from `bcache.head`: `Victim` is the
buffer the backward loop of `bget()` finds, `ToHead` the relinking in
`brelse()`. `Alloc3Desc` is a successful `alloc3_desc()`. Threads keep to what
`fs.c` promises the cache (`MayUse`): all together use and pin at most `NBUF`
blocks at a time, without which `bget()` panics. `avail` is the
set of requests the device has, because it may complete them in any order;
`used` is the ring the handler reads.

### FileSys

A step is what runs under one inode lock; the unlock and the `iput()` of an
`iunlockput()` are two. `iget()` panics when all `NINODE` entries of the table
are in use (`Panicked`), and the machine stops there. `dinode` and `bitmap` are
the disk through the log, `itab` is `itable` (`ref`, `valid`, the lock),
`th[p]` says where a process is in its call, path name included. `iput()` is
its three sections. `Crash` happens when no call is inside a transaction, which
is what `AtomicDisk` says a crash leaves; then `ireclaim()` frees the orphans
one inode at a time. The initial state is the image `mkfs.c` writes. What files
contain is left out; which blocks they have is not.

### Memory

A page has no identity: `free` is the length of the free list, and a process
has page-table pages (`nodes`) and leaves (`map`). A call is one step, and each
`kalloc()` in it fails when no page is left; `Others` takes and returns pages
for the rest of the kernel, so that every call meets every number of pages.
Page tables have `PTES` entries and three levels, so the top two pages hold
trampoline and trapframe as in `memlayout.h`.

### Pipe

One step is one turn of the loop of `pipewrite()` or `piperead()`. `lock` is
`pi->lock`; `Kill` does not take it. The counters wrap at `WORD`. `Last` and
`Close` are the last `fileclose()` of an end with its `pipeclose()`.

### Console

`buf`, `r`, `w`, `e` are `cons`; the indices wrap at `IDX`. The handler keeps
`cons.lock` while `uartputc_sync()` spins for the transmitter, so its loops are
steps (`Echo...`, `Intr...`). The device sends a byte (`Drain`), receives one
and raises its interrupts by itself. `wire` is the part of a batch already
sent. What the kernel itself prints with `printk()`, Ctrl-P's listing included,
also goes through `uartputc_sync()` and is left out: it may fall between the
bytes of a batch.

### Jobs

`ps[g][m]` is the state of process `m` of group `g` as the operating system
knows it, `news` the report `waitpid()` has not delivered. The actions that
stand for the operating system (`ProcessExit`, `ProcessStop`, `Signal`, the
terminal) are external and modelled from how the shell uses them. The shell is
one thread; `handle_sigchld()` is a step of its own that happens at the prompt
only, because commands run with SIGCHLD blocked. A process is not stopped
before it has run its own `giveterminal()` (`young`); without this a child
continued by `resume %n bg` would take the terminal while the shell is at its
prompt. `snoop` is there for what it does to jobs: it attaches to a process
(`SnoopAttach`) or starts one (`SnoopCommand`), takes its exit status in its own
`waitpid()` and tells the table (`SnoopExit`, `NoteTracedExit`), or lets it go at
Ctrl-C (`SnoopDetach`). Which system calls it counts is left out, and so is a
second Ctrl-C while `detach()` waits. `lost` records the groups of which the
table is wrong and why: a timeout of `resume`, a full table, a `detach()` that
reaped the process.

### User programs

`CmdLine`, `Sh`, `Grep` and `Peek` are operators that follow the functions of
the source, next to reference definitions written from what the function is
for: `LexerAgrees` compares `lex_line()` with a definition by cases of the
quoting state, `GrammarAgrees` the parser with the grammar, `WordsUsedOnce`
says that every word of an accepted line whose names can all be run and opened
becomes an argument or a file of exactly one command, except the words of a
background command for which the job table has no entry, those that `runbuff()`
cuts off and the redirections of `hop`, `ShParserAgrees` compares the recursive
descent of `sh.c` with the grammar's tree, `ShPlumbing` the descriptors of the
processes `runcmd()` leaves, `GrepPrintsMatches` the printed lines with those a
direct definition of the expression matches, `PeekReverses` the output with the
lines in reverse. Their inputs grow by one character or token in a step. `Heap`
and `Hop` are state machines: `malloc`, `free` and other uses of `sbrk`, where
`HeapTiled` says that the free and the given blocks tile what `morecore()` got
and that no two free blocks touch; and several processes in `do_hop()`, each of
which may be killed between the opening that empties the history and the
`fclose()` that writes it.

## Runs

| run | instance | checks |
|---|---|---|
| `sched_smp` | 2 slots, 2 CPUs, 2 queues, the three builds | `IInv`: one CPU per process, its stack not reused while in use, no process lost, lock order; `SliceBound` |
| `sched_order` | 3 slots, 1 CPU, the three builds | `PicksFirst`, order of dispatch; `GivesWay`, preemption by a higher queue; `NoStarvation` under round robin |
| `sched_woken` | 2 slots, 1 CPU, MLFQ | violated: `WokenIsUnqueued`, see below |
| `log` | 2 threads, 4 blocks, 2 values, log of 4, 5 operations, crashes anywhere | `LogInv`; `NoPanic`, the reservation is enough; `ImplementsAtomicDisk` |
| `proc` | 4 slots, 4 pids, kills of init, of another and of pid 0 | `ProcInv`: rooted tree, registered sleepers, blank free slots; `NoMissedExit`; `InitReaps` |
| `jobs` | 3 groups of 1 or 2 processes, 4 in all, table of 2 | `JobsInv`: no zombie, no unlisted or phantom job but where the table was full or `detach()` reaped, the terminal comes back; `NothingLeftStopped`; `TimeoutEnds` |
| `pipe` | 1 reader, 2 writers, ring of 2, counters of 4 | `PipeInv`: no lost wakeup, no use after free; `ImplementsByteStream`; `ReadEnds` |
| `disk` | 3 threads, 3 blocks, 2 buffers, 4 descriptors | `DiskInv`: no panic, exact counts, nothing unsaved recycled, descriptors and requests accounted for; `WaitsForCause`; `ImplementsBlockStore` |
| `fs` | 2 processes, 4 inodes, 3 entries for them, 6 blocks, 4 calls, crashes | `DiskConsistent`: links, tree, orphans, blocks, holes; `TablesConsistent`: reference counts, no panic but that of a full inode table; `InUseStays`. No deadlock of inode locks: TLC's own check |
| `mem` | 3 slots, 26 pages, three programs | `MemInv`: pages conserved, size covers table, text intact; `NoPanic`; `ImplementsAddrSpace` |
| `console` | 2 processes, ring of 2, indices of 4, 4 calls or keys | `ConsoleInv`; `BatchesWhole`; `ImplementsLineInput`; `CallsEnd` |
| `user` | lines of 6 characters or 5 tokens, expressions of 3 on texts of 4, files of 6, a heap of 9 units, 2 shells with 4 hops | the seven comparisons above; `HeapTiled`; `HistoryHonest` and `HopGoesToBest` |

An invariant such as `DiskInv` or `JobsInv` is the conjunction of the claims
defined, each with its comment, before it.

Bounds. Two CPUs and two slots are enough for each of the races of the
scheduler, which involve one process and two CPUs; order needs three slots, one
that runs and two that compete, and one CPU, since on two the scan promises
less (see Observations). Two queues give every comparison of queues and both
sides of the demotion at the last one. Four slots hold init, a shell, its child
and a grandchild, the smallest tree in which `reparent()` moves a process whose
parent has a living parent. In `log` four blocks against a log of four are
needed to fill it, and five operations let three end inside one group while
another is open; operations log one block each, below MAXOPBLOCKS = 2, and what
a crash may split is the group. That operations of several blocks are atomic
too is `Refinement`, proved for every `OpBlocks`. Three bytes per write exceed
a ring of two, so writers sleep in the middle; `WORD` is twice the ring, so
counters wrap on every second round. In `disk` three threads compete for two
buffers, and four descriptors hold one chain of three, so threads wait for
buffers' locks and for descriptors; `Home` leaves one block to the log's own
area. In `fs` a block holds two directory entries, a file two direct blocks and
one indirect, so that directories and files grow into the next block and the
indirect one; inodes, the entries of the inode table, blocks, files,
descriptors and links all run out within four calls. In `jobs` three groups
against a table of two fill it, so that a third that stops finds no entry; four
processes let one of the three be a pipeline. In `mem` a third process finds
from zero to nine of the 26 pages free, and three together leave from zero to
three, so that `fork()` fails at the trapframe and later and succeeds; pages of
two bytes make sizes that end inside a page. In `console` a ring of two fills
with one unfinished line, and its indices wrap at four. In `user`, lines reach
a quoted word with an escape and an operator; chunks of `peek` (3) and the
buffer of `grep` (4) are smaller than the files; nested lines of `sh` are
longer (7) over fewer characters; with `ARGV` 4, `runbuff()` cuts off the
fourth word; and `WordsUsedOnce` is stated for every number of free entries of
the job table. The history of `hop` is one that fits a buffer of stdio, so that
`fclose()` writes it at once. The bounds on pids, groups, operations, calls,
keys and hops (`MaxPid`, `Groups`, `MaxProcs`, `MaxOps`, `MaxCalls`, `MaxWork`,
`MaxHops`, ...) stop unbounded counters only; where they make the model stop,
`CHECK_DEADLOCK` is off (`ProcTree`, `Jobs`, `Pipe`, `Console`, `User`), and
elsewhere, `FileSys` and `Disk` included, deadlock is checked.

Symmetry: threads and blocks are interchangeable in `log`, threads, values,
home blocks and the blocks of the log's area in `disk`, processes in `fs`, the
processes other than init in `mem`, the shells in `user`. No liveness property
is checked under symmetry.

Fairness. `Sched`: a CPU goes on, the timer keeps firing, and a CPU that keeps
returning to `scheduler()` starts its next scan. `ProcTree`: a process in the
kernel goes on when it can; init, which contends for `wait_lock` with processes
that take it again and again, gets it in the end, because it is a spin lock
whose holders run short sections; init's `main()` never stops, and a killed
init exits at its next trap. `Pipe`: a process in a call goes on when it can.
`Console`: so does a process in a call, the handler runs once its interrupt is
raised, and the device sends what it was given. `Jobs`: the shell goes on when
a child or the timer gives it something to do, and the interval timer of
`resume` fires. User code is never assumed to do anything. The number of pids
bounds the births in `proc`, so `InitReaps` does not speak of processes that
are born for ever faster than init reaps.

### The violated run

`sched_woken`: `queued` is cleared only in `allocproc()`, so the scan never
re-stamps a process that wakes up, although the comment at `proc.c:587` and
`report.md:54` say that it goes to the tail of its queue.

## Observations

Facts about the code that the models show and that restrict what the passing
properties say. Each can be seen again by changing one constant or dropping one
condition, as given.

- On two CPUs the scan, which takes the locks one at a time, can dispatch from a
  lower queue although a process of a higher one became RUNNABLE in a slot
  already passed; `src/README.md:93` says the highest non-empty queue is
  always served. In the same way `mlfq_higher_runnable()` misses a process that
  wakes up behind it. `PicksFirst` and `GivesWay` are therefore checked and
  proved for one CPU (`NCPU = 2` in `SchedOrder.cfg` violates both).
- `kkill(0)` finds a free slot, whose pid is 0, sets `killed` in it and returns
  0; `allocproc()` does not clear the flag, so the next process in that slot
  starts killed. `FreeIsBlank` lets `killed` be set in a free slot when some
  call names pid 0, as in the run; without that clause `ProcInv` fails.
- `add_stopped_job()` enters a pipeline whose leader has been reaped as if the
  leader lived; the entry is never cleared, and `main()` warns of stopped jobs
  when there is none. `NoPhantomJob` and `StoppedKnown` are about jobs of one
  process (`Single`); without that condition `JobsInv` fails.
- When the job table is full, `add_stopped_job()` (`d1d2.c:247`) does nothing: a
  foreground group that stops then is in no list, cannot be resumed, and
  `shutdown_jobs()` does not continue it. `ActiveListed` and
  `NothingLeftStopped` exempt the groups in `GivenUp`, and `ActiveListed` says
  that this needs a full table. In the same state `runbuff()` starts nothing.
- A traced process that ends just as Ctrl-C makes `snoop` let it go is reaped in
  `detach()` (`snoop.c:49`), which tells nobody: a job of that process stays in
  the table. `NoPhantomJob` exempts the groups with "detach" in `lost`.
- The inode table has 50 entries and the file table 100, so `iget()` can find no
  free entry and panic (`fs.c:268`); `NoPanic` of `FileSys` is about every other
  panic.
- `runbuff()` passes at most 63 words of a simple background command on and
  drops the others without a message.
- The reservation of `begin_op()` leaves no slack: operations that each log all
  of MAXOPBLOCKS blocks can fill the log, and `log_write()` tests for a full log
  (`log.c:229`) before it looks for the block in it, so a further write of a
  block already logged panics. `param.h:9` calls MAXOPBLOCKS the number of
  blocks any operation writes; `NoPanic` holds for operations that stay below
  it (`OpBlocks = 2` in `Log.cfg` violates it).
- A writer killed between two bytes makes `pipewrite()` return -1 without the
  wakeup for the bytes it has put in; `NoLostWakeup` of `Pipe` exempts the
  readers of a pipe with a killed writer. The next write, or the last close of
  the write end, wakes them.
- When a file of a pipeline cannot be opened, `free_stages()` (`c3c4.c:192`)
  closes the descriptors of all stages; those of the stages not yet reached
  are 0, and the shell's standard input is closed (`stdinClosed` in
  `CmdLine`).
- `run_tokens()` stops after a foreground command that is not found; the
  commands after the next `;` are not run.
- `hop` takes its arguments from the words before its first redirection only;
  and it cannot leave a current directory that has been removed, since
  `getcwd()` fails.
- `peek -r` on a regular file drops an empty first line (`func.c:510` prints
  what is left only when it is not empty), although `src/README.md:45` says that
  it prints lines in reverse; from a pipe it does not end an unterminated last
  line. `PeekReverses` compares all lines when the file begins with a character,
  the lines that are not empty otherwise, and speaks of pipes only when the last
  line is terminated (without `content[1] # "nl"` it fails).
- A history of `hop` that is longer than a buffer of stdio is written in pieces,
  which may end inside a line; a shell killed between two of them, or two shells
  that write at once, leave a path cut short. `Hop` does not model this, and
  `HistoryHonest` and `HopGoesToBest` say nothing of it.
- In xv6's `sh`, of several redirections of one kind the leftmost one decides.

## Proofs

All are for every value of the constants, under the named assumption of each
module:

| assumption | says | in the code |
|---|---|---|
| `SchedAssumption` | at least one slot, CPU and tick; slices are positive | `NPROC`, `NCPU`, `mlfq_slice` |
| `ProcTreeAssumption` | at least two slots | `NPROC` is 64 |
| `LogAssumption` | finitely many threads; an operation logs at most `MAXOPBLOCKS` blocks, and these fit into the log | `param.h` |
| `DiskAssumption` | finitely many threads, at least one buffer, at least three descriptors | `NPROC`, `NBUF`, `NUM` is 8 |
| `PipeAssumption` | the ring's size divides the number of counter values and is smaller | 512 and 2^32 |

Three theorems have one hypothesis more, without which what they say is false:
`LogNeverFull`, `DispatchOrder` and `YieldsToHigher` (see Observations). The
bounds that only cut off counters (`MaxOps`, `MaxPid`) are arbitrary. In each
module the argument is one inductive invariant, a lemma for each group of
steps, and then one theorem for each property it implies. The invariants that
only the proofs define (`IInv` of `ProcTreeProofs` and `DiskProofs`, `Scanned`,
`Reserved`, `RingOk`) hold on the instances of the runs as well. Leaves without
arithmetic name the prover Zenon, which is the cheaper one there.

**Scheduler** (`SchedProofs`). `IInv` adds to mutual exclusion
(`OneCpuPerProcess`, `StackInUse`, `NoneLost`) where a CPU has a current process
(`PcOk`), whose lock it holds where (`HeldOk`), and that no other lock is held
(`LockOrder`). Mutual exclusion is not inductive alone: between `yield()`
setting RUNNABLE and `swtch()` nothing but the lock keeps another CPU away.
Proved: `Invariant` (`IInv`), and from it `TypeCorrect`, `MutualExclusion`,
`StackSafety`, `NoLostProcess`, `OrderedLocks`; and `SlicesBounded`. All hold
for the three builds, any number of slots, CPUs and queues and any slice table.
For one CPU, `Scanned` says what the loops have found so far: `best` comes
before every RUNNABLE process in a slot already passed, and
`mlfq_higher_runnable()` has passed nothing above its caller. It is inductive
because nothing else moves while the only CPU scans with interrupts off, and at
the end of the loop it is `DispatchOrder` (`PicksFirst`) and `YieldsToHigher`
(`GivesWay`).

**Process life cycle** (`ProcTreeProofs`). `IInv` says who holds `wait_lock`
(`Locked`), that every parent is alive and older than its child, or init
(`Parents`), that a process in `kfork()` owns the slot it makes (`Forks`), that
a process on its way to sleep is registered or woken already (`Sleepers`), and
that the child of a parent which relies on a wakeup has not passed the point
where it gives it (`Wakers`). `Wakers` is what makes `NoMissedExit` inductive:
`kwait()` registers under `wait_lock` after it saw no zombie, and `kexit()`
wakes its parent under the same lock. Proved: `Invariant`,
`ExitsSeen` (`NoMissedExit`) and `TableSound` (`ProcInv`), whatever pids the
calls of `kill()` name.

**Log** (`LogSteps`, `LogProofs`). `LogInv` says what the header, the log
blocks, the home blocks and the cache hold at each stage of a commit (`UpInv`)
and of recovery (`DownInv`), that the counters agree with the threads
(`Counted`), and what a `sys_sync()` still waits for (`SyncInv`). `LogSteps` has
what each step does to the types, the contents, the callers of `sys_sync()` and
the atomic disk; it needs of the counters only what `Flags` says. `LogProofs`
counts. Proved: `Invariant`; `Refinement`, that the log implements `AtomicDisk`
with the disk as recovery would leave it as the durable state; `SyncDurable`;
`CleanBlocks`; `NoLostWakeup`; and `LogNeverFull` (`NoPanic`), for operations
that log fewer than `MAXOPBLOCKS` blocks. Its invariant `Reserved` says that the
blocks logged, and a place for every block that an operation under way may still
log (`Room`), fit into the log together: `begin_op()` makes that room, and a
`log_write()` that appends uses one place of it up.

**Buffer cache, sleep locks and disk driver** (`DiskSteps`, `DiskDriver`,
`DiskProofs`). `Base` says what holds without counting: no block is cached twice
(`Cache`), a thread between `bget()` and `brelse()` has a buffer that holds its
block (`Users`), a sleep lock belongs to the thread inside its section (`Locks`),
a thread waits for the buffer the disk owns (`Requests`), every request has
three descriptors of its own (`Chains`), it is with the device or in the used
ring and not in both (`Queues`), and what differs from the disk is pinned or on
its way (`Clean`). `bget()` keeps it because a buffer whose count is 0 has no
user and no pin (`Referenced`), which is the reason for the two counts of
`DiskProofs`: a buffer's references are its users and its pin (`RefCounts`), and
free descriptors and three for each request make `NUM` (`Slots`). Proved:
`Invariant`; `DiskSafe` (`DiskInv`), no panic of the cache included as long as
the file system keeps its part (`MayUse`); `NoLostWakeup` (`WaitsForCause`);
and `Refinement`, that cache and driver implement `BlockStore`, where the
content of a block is that of its valid buffer and of the disk when it has none.

**Pipes** (`PipeProofs`). `PipeInv` adds to `NoLostWakeup` that the lock says who is
inside (`LockOk`), that readers and writers wait on their own channel and a
reader outside has read nothing (`RoleOk`), that an end is open while somebody
holds it (`EndsOk`), and that a writer waits only on a full pipe or while a
reader that has taken a byte is still inside (`WritersWait`). The last is what
makes it inductive: a reader that leaves without having read leaves without a
wakeup. Proved: `PipeSafe`, `WakeupKept`, `FreedUnused`, for any number of
readers and writers and any size of ring and counters; and `Refinement`
(`ImplementsByteStream`), for which the ring never holds more than `PIPESIZE`
bytes (`RingOk`): a byte written goes to the slot after the last, a byte read
comes from the first, also where the counters pass `WORD`, since the ring's size
divides it.

Only model-checked:

- liveness (`NoStarvation`, `InitReaps`, `TimeoutEnds`, `ReadEnds`, `CallsEnd`),
  which needs fairness and is out of the prover's reach;
- `FileSys`, `Memory`, `Console` and `Jobs`, invariants and refinements
  (`ImplementsAddrSpace`, `ImplementsLineInput`): their calls are sequences of
  steps over records and sums whose invariants are larger than those proved
  here, and no proof of them has been made;
- the algorithms and state machines of the user programs: recursion over the
  input is out of the prover's reach.

So every safety property that the runs of the scheduler, the process life cycle,
the log, the disk and the pipes check is also proved, except the violated one.

## Not modelled

`PROJECT.json` lists every component with its state and the reason.

- Assembly, boot code, registers and the PLIC: set-up without later state.
  `swtch` is in `Sched` as the hand-over of a CPU; the kernel's own page table,
  built once, is not modelled.
- `push_off`/`pop_off` nesting: a counter of one CPU that only it changes.
- The times `waitx` returns: counters nothing else reads.
- Formatting and printing (`printk.c`, `printf.c`), byte loops (`string.c`,
  `ulib.c`), filters (`cat`, `wc`, `ls`), and the test programs.
- The contents of files and of pipes between processes of the C shell: the
  loops that copy several inputs together or to several outputs.
- What `snoop` counts and prints of system calls; `locate`, `activities`,
  `spy`, `reveal` and the prompt read and print.
- Failures of `malloc`, `fork` and `pipe` in the user programs, and 64-bit
  wrap-around of user addresses.
