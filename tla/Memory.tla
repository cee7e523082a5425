------------------------------ MODULE Memory ------------------------------
\* Physical pages and address spaces of xv6: the page allocator (kalloc.c), page
\* tables and the operations on them (vm.c), and the calls that make, grow,
\* copy, replace and free a process's memory (proc.c, sysproc.c, exec.c,
\* sys_exec), each of which may run out of pages at any kalloc.
\*
\* A page has no identity: what counts is how many are free and what every other
\* one is used for. A page table is its nodes (the page-table pages below the
\* root) and its leaves (map). A call is one step: what other processes may do
\* to it in between is take the pages it wants, which Others does before it.
EXTENDS Integers, FiniteSets, Sequences, TLC, FiniteSetsExt

CONSTANTS
    Proc,       \* slots of the process table
    Initproc,   \* the first process: it forks and waits, and never exits
    NPAGES,     \* physical pages for processes
    PGSIZE,     \* bytes in a page
    PTES,       \* entries in a page-table page (512)
    USERSTACK,  \* pages of a user stack
    Images,     \* programs: the segments of an ELF file
    Initcode,   \* the program /init
    Deltas,     \* arguments of sbrk
    UserVal,    \* what programs write to a page
    MaxArgs,    \* bound: arguments of an exec
    MaxOthers   \* bound: pages others hold

ASSUME MemoryAssumption ==
    /\ NPAGES \in Nat /\ PGSIZE \in Nat \ {0} /\ PTES \in Nat \ {0, 1}
    /\ USERSTACK \in Nat \ {0} /\ Deltas \subseteq Int /\ UserVal \subseteq Nat
    /\ MaxArgs \in Nat /\ MaxOthers \in Nat
    /\ Initproc \in Proc /\ Initcode \in Images

\* Physical memory is smaller than the addresses below the trapframe (128 MB of
\* 256 GB), so that no program that could be loaded reaches it.
ASSUME ImagesAssumption ==
    \A image \in Images : \A k \in DOMAIN image :
        image[k].vaddr + image[k].memsz + (USERSTACK + 1) * PGSIZE <= (PTES * PTES * PTES - 2) * PGSIZE

VARIABLES
    free,       \* pages on the free list
    others,     \* pages the kernel uses elsewhere (pipes, kernel stacks)
    proc,       \* size, page table and trapframe of each process
    panic       \* a panic of the functions below

vars == <<free, others, proc, panic>>

MAXPAGE == PTES * PTES * PTES
TRAMPOLINE == MAXPAGE - 1
TRAPFRAME == MAXPAGE - 2

PGROUNDUP(sz) == (sz + PGSIZE - 1) \div PGSIZE     \* in pages

-----------------------------------------------------------------------------
\* Page tables. s is a state of the allocator and one page table: free pages,
\* nodes, leaves, whether the last operation succeeded, and panics.

Table(fr, pt) == [free |-> fr, nodes |-> pt.nodes, map |-> pt.map, sz |-> 0,
                  ok |-> TRUE, panic |-> FALSE]
PtOf(s) == [nodes |-> s.nodes, map |-> s.map]
Empty == [nodes |-> {}, map |-> <<>>]

\* Mutant: kalloc does not notice that the list is empty.
KallocAlways(s) == [s EXCEPT !.free = @ - 1]
Kalloc(s) == IF s.free = 0 THEN [s EXCEPT !.ok = FALSE] ELSE [s EXCEPT !.free = @ - 1]
Kfree(s, n) == [s EXCEPT !.free = @ + n]
Fail(s) == [s EXCEPT !.ok = FALSE]
Panic(s) == [s EXCEPT !.ok = FALSE, !.panic = TRUE]

\* walk with alloc: the page-table page of one level, then that of the next; the
\* first stays when there is no page for the second.
Node(level, va) == <<level, IF level = 2 THEN va \div (PTES * PTES) ELSE va \div PTES>>
AddNode(s, node) == IF s.ok THEN [s EXCEPT !.nodes = @ \cup {node}] ELSE s
WalkLevel(s, node) ==
    IF ~s.ok \/ node \in s.nodes THEN s ELSE AddNode(Kalloc(s), node)
Walk(s, va) == WalkLevel(WalkLevel(s, Node(2, va)), Node(1, va))

\* walkaddr: is the page mapped for the user?
Walkaddr(s, va) == va \in DOMAIN s.map /\ s.map[va].u
Ismapped(s, va) == va \in DOMAIN s.map

Leaf(val, u, w) == [val |-> val, u |-> u, w |-> w]
SetLeaf(s, va, leaf) ==
    IF ~s.ok THEN s
    ELSE IF va \in DOMAIN s.map THEN Panic(s)
    ELSE [s EXCEPT !.map = @ @@ (va :> leaf)]
Mappages(s, va, leaf) == SetLeaf(Walk(s, va), va, leaf)

Uvmunmap(s, S, doFree) ==
    LET gone == S \cap DOMAIN s.map
    IN  [s EXCEPT !.map = [va \in (DOMAIN @) \ gone |-> @[va]],
                  !.free = IF doFree THEN @ + Cardinality(gone) ELSE @]

\* Mutant: uvmdealloc rounds to the page after.
UvmdeallocLess(s, oldsz, newsz) ==
    IF newsz >= oldsz THEN [s EXCEPT !.sz = oldsz]
    ELSE [Uvmunmap(s, (newsz \div PGSIZE + 1) .. (PGROUNDUP(oldsz) - 1), TRUE) EXCEPT !.sz = newsz]
Uvmdealloc(s, oldsz, newsz) ==
    IF newsz >= oldsz THEN [s EXCEPT !.sz = oldsz]
    ELSE [Uvmunmap(s, PGROUNDUP(newsz) .. (PGROUNDUP(oldsz) - 1), TRUE) EXCEPT !.sz = newsz]

\* One page of uvmalloc: a page without a place in the table goes back, and so
\* do the pages the call has mapped since from.
Undo(s, from, a) == Fail(Uvmunmap(s, from .. (a - 1), TRUE))
\* Mutant: uvmalloc keeps the page it could not map.
GotPlaceLeaks(s, from, a) == IF s.ok \/ s.panic THEN s ELSE Undo(s, from, a)
GotPlace(s, from, a) == IF s.ok \/ s.panic THEN s ELSE Undo(Kfree(s, 1), from, a)
GotPage(s, from, a, leaf) ==
    IF s.ok THEN GotPlace(Mappages(s, a, leaf), from, a) ELSE Undo(s, from, a)
NextPage(s, from, a, leaf) == IF s.ok THEN GotPage(Kalloc(s), from, a, leaf) ELSE s
Uvmalloc(s, oldsz, newsz, w) ==
    LET from == PGROUNDUP(oldsz)
        upTo[a \in Nat] ==
            IF a = from THEN s ELSE NextPage(upTo[a - 1], from, a - 1, Leaf(0, TRUE, w))
    IN  IF newsz < oldsz THEN [s EXCEPT !.sz = oldsz]
        ELSE IF newsz = 0 THEN Fail(s)
        ELSE [upTo[PGROUNDUP(newsz)] EXCEPT !.sz = newsz]

\* uvmfree: the user's pages, then the page-table pages and the root.
Freewalk(s) ==
    IF s.map # <<>> THEN Panic(s)
    ELSE [Kfree(s, Cardinality(s.nodes) + 1) EXCEPT !.nodes = {}]
Uvmfree(s, sz) == Freewalk(Uvmunmap(s, 0 .. (PGROUNDUP(sz) - 1), TRUE))

\* Mutant: uvmcopy stops at the first page that is not there.
UvmcopyStops(s, old, sz) ==
    LET upTo[a \in Nat] ==
            IF a = 0 \/ \E b \in 0 .. (a - 1) : b \notin DOMAIN old.map THEN s
            ELSE NextPage(upTo[a - 1], 0, a - 1, old.map[a - 1])
    IN  upTo[PGROUNDUP(sz)]
\* uvmcopy: the pages the parent has, with their permissions; the caller frees the
\* page-table pages of a failed copy.
Uvmcopy(s, old, sz) ==
    LET upTo[a \in Nat] ==
            IF a = 0 THEN s
            ELSE IF a - 1 \notin DOMAIN old.map THEN upTo[a - 1]
            ELSE NextPage(upTo[a - 1], 0, a - 1, old.map[a - 1])
    IN  upTo[PGROUNDUP(sz)]

\* vmfault: a zero page for an address below the size that has none.
FaultPlace(s) == IF s.ok \/ s.panic THEN s ELSE Kfree(s, 1)
FaultPage(s, va) == IF s.ok THEN FaultPlace(Mappages(s, va, Leaf(0, TRUE, TRUE))) ELSE s
Vmfault(s, sz, addr) ==
    IF addr >= sz \/ Ismapped(s, addr \div PGSIZE) THEN Fail(s)
    ELSE FaultPage(Kalloc(s), addr \div PGSIZE)
Touch(s, sz, va) == IF Walkaddr(s, va) THEN s ELSE Vmfault(s, sz, va * PGSIZE)

\* Mutant: copyout does not look for PTE_W.
PutAnywhere(s, va, v) == IF s.ok THEN [s EXCEPT !.map[va].val = v] ELSE s
\* One page of copyout: what is not mapped is faulted in, text is not written.
Put(s, va, v) ==
    IF ~s.ok THEN s
    ELSE IF ~s.map[va].w THEN Fail(s) ELSE [s EXCEPT !.map[va].val = v]
CopyoutPage(s, sz, va, v) == IF s.ok THEN Put(Touch(s, sz, va), va, v) ELSE s
Copyout(s, sz, va, n, v) ==
    LET upTo[k \in Nat] == IF k = 0 THEN s ELSE CopyoutPage(upTo[k - 1], sz, va + k - 1, v)
    IN  upTo[n]
\* copyin and copyinstr fault in the same pages and change none.
CopyinPage(s, sz, va) == IF s.ok THEN Touch(s, sz, va) ELSE s
Copyin(s, sz, va, n) ==
    LET upTo[k \in Nat] == IF k = 0 THEN s ELSE CopyinPage(upTo[k - 1], sz, va + k - 1)
    IN  upTo[n]

-----------------------------------------------------------------------------
\* Page tables of processes.

\* proc_pagetable: a root, then the trampoline and the trapframe, whose pages
\* are not the table's to free. Afterwards not ok if any of it failed.
OrFree(s) == IF s.ok THEN s ELSE Fail(Freewalk(Uvmunmap(s, {TRAMPOLINE}, FALSE)))
MapTrapframe(s) == IF s.ok THEN Mappages(s, TRAPFRAME, Leaf(0, FALSE, TRUE)) ELSE s
ProcPagetable(s) ==
    IF s.free = 0 THEN Fail(s)
    ELSE OrFree(MapTrapframe(Mappages(Kalloc(s), TRAMPOLINE, Leaf(0, FALSE, FALSE))))
ProcFreepagetable(s, sz) == Uvmfree(Uvmunmap(s, {TRAMPOLINE, TRAPFRAME}, FALSE), sz)

UNUSED == [state |-> "UNUSED", sz |-> 0, pt |-> Empty]

\* allocproc: a page for the trapframe and a page table, or neither.
OrFreeproc(s) == IF s.ok THEN s ELSE Kfree(s, 1)
Allocproc(fr) ==
    LET s == Kalloc(Table(fr, Empty))
    IN  IF s.ok THEN OrFreeproc(ProcPagetable(s)) ELSE s
Freeproc(s, sz) == ProcFreepagetable(Kfree(s, 1), sz)

-----------------------------------------------------------------------------
\* A program in a new page table.

\* loadseg: the file's pages of a segment; panics when a page is not
\* mapped, fails when the file ends before.
Loadseg(s, seg) ==
    LET va == seg.vaddr \div PGSIZE
        S == va .. (va + PGROUNDUP(seg.filesz) - 1)
    IN  IF ~s.ok THEN s
        ELSE IF \E a \in S : ~Walkaddr(s, a) THEN Panic(s)
        ELSE IF ~seg.whole THEN Fail(s)
        ELSE [s EXCEPT !.map = [a \in DOMAIN @ |-> IF a \in S THEN [@[a] EXCEPT !.val = seg.val]
                                                   ELSE @[a]]]
\* Mutant: the result of uvmalloc is assigned to the size at once.
KeepSizeLost(s, sz) == IF s.ok THEN s ELSE [s EXCEPT !.sz = 0]
\* The segments; s.sz is the size so far, also when one of them fails.
KeepSize(s, sz) == IF s.ok THEN s ELSE [s EXCEPT !.sz = sz]
LoadOne(s, seg) ==
    IF ~s.ok THEN s
    ELSE IF seg.memsz < seg.filesz \/ seg.vaddr % PGSIZE # 0 THEN Fail(s)
    ELSE Loadseg(KeepSize(Uvmalloc(s, s.sz, seg.vaddr + seg.memsz, seg.w), s.sz), seg)
Segments(s, segs) ==
    LET upTo[k \in Nat] == IF k = 0 THEN s ELSE LoadOne(upTo[k - 1], segs[k])
    IN  upTo[Len(segs)]

\* The stack and its guard page, which the user cannot reach.
Guard(s) ==
    IF ~s.ok THEN s
    ELSE [s EXCEPT !.map[PGROUNDUP(s.sz) - (USERSTACK + 1)].u = FALSE]
Stack(s) ==
    IF ~s.ok THEN s
    ELSE LET sz == PGROUNDUP(s.sz) * PGSIZE
         IN  Guard(KeepSize(Uvmalloc(s, sz, sz + (USERSTACK + 1) * PGSIZE, TRUE), sz))
\* The arguments go to the top of the stack; they may be too long for it.
Arguments(s, fits) ==
    IF ~s.ok THEN s
    ELSE IF ~fits THEN Fail(s)
    ELSE Copyout(s, s.sz, PGROUNDUP(s.sz) - 1, 1, 1)

NewTable(s, image, fits) == Arguments(Stack(Segments(s, image)), fits)

-----------------------------------------------------------------------------
\* The first process, once it has executed /init.
Init ==
    LET s == NewTable(Allocproc(NPAGES), Initcode, TRUE)
    IN  /\ s.ok
        /\ free = s.free
        /\ proc = [q \in Proc |-> IF q = Initproc
                     THEN [state |-> "USED", sz |-> s.sz, pt |-> PtOf(s)] ELSE UNUSED]
        /\ others = 0 /\ panic = FALSE

\* p goes on with the table of s and size sz.
Becomes(p, s, sz) ==
    /\ proc' = [proc EXCEPT ![p].pt = PtOf(s), ![p].sz = sz]
    /\ free' = s.free
    /\ panic' = s.panic
    /\ UNCHANGED others
Alive(p) == p # Initproc /\ proc[p].state = "USED" /\ ~panic
Running(p) == Alive(p) /\ proc[p].sz > 0
Mine(p) == Table(free, proc[p].pt)

-----------------------------------------------------------------------------
\* sys_sbrk: growproc maps or frees at once, ...
Grown(p, s) == Becomes(p, s, IF s.ok THEN s.sz ELSE proc[p].sz)
SbrkEager(p) ==
    /\ Running(p)
    /\ \E n \in Deltas :
        LET sz == proc[p].sz
        IN  /\ sz + n >= 0
            /\ \/ n > 0 /\ sz + n <= TRAPFRAME * PGSIZE /\ Grown(p, Uvmalloc(Mine(p), sz, sz + n, TRUE))
               \/ n < 0 /\ Grown(p, Uvmdealloc(Mine(p), sz, sz + n))

\* ... a lazy one only moves the size.
SbrkLazy(p) ==
    /\ Running(p)
    /\ \E n \in Deltas : 
        /\ n > 0 /\ proc[p].sz + n <= TRAPFRAME * PGSIZE
        /\ Becomes(p, Mine(p), proc[p].sz + n)

\* A user's store or load; one that usertrap cannot resolve kills the process.
Faulted(p, s, va, v) ==
    IF s.ok THEN Becomes(p, [s EXCEPT !.map[va].val = v], proc[p].sz)
    ELSE /\ proc' = [proc EXCEPT ![p].pt = PtOf(s), ![p].state = "ZOMBIE"]
         /\ free' = s.free /\ panic' = s.panic /\ UNCHANGED others
Addrs == 0 .. (TRAPFRAME * PGSIZE - 1)
Writable(p, va) == Walkaddr(proc[p].pt, va) /\ proc[p].pt.map[va].w
Store(p) ==
    /\ Running(p)
    /\ \E addr \in Addrs, v \in UserVal :
        IF Writable(p, addr \div PGSIZE)
        THEN Becomes(p, [Mine(p) EXCEPT !.map[addr \div PGSIZE].val = v], proc[p].sz)
        ELSE Faulted(p, Vmfault(Mine(p), proc[p].sz, addr), addr \div PGSIZE, v)
Load(p) ==
    /\ Running(p)
    /\ \E addr \in Addrs :
        /\ ~Walkaddr(proc[p].pt, addr \div PGSIZE)
        /\ Faulted(p, Vmfault(Mine(p), proc[p].sz, addr), addr \div PGSIZE, 0)

\* A system call copies to or from the pages from va on; it may stop half-way.
Spans == {<<va, n>> \in (0 .. (TRAPFRAME - 1)) \X {1, 2} : va + n <= TRAPFRAME}
CopyoutCall(p) ==
    /\ Running(p)
    /\ \E s \in {Copyout(Mine(p), proc[p].sz, span[1], span[2], v) : span \in Spans, v \in UserVal} :
        Becomes(p, s, proc[p].sz)
CopyinCall(p) ==
    /\ Running(p)
    /\ \E s \in {Copyin(Mine(p), proc[p].sz, span[1], span[2]) : span \in Spans} :
        Becomes(p, s, proc[p].sz)

\* Pages for pipes and the arguments of calls come and go.
Others ==
    /\ ~panic
    /\ \/ free > 0 /\ others < MaxOthers /\ free' = free - 1 /\ others' = others + 1
       \/ others > 0 /\ free' = free + 1 /\ others' = others - 1
    /\ UNCHANGED <<proc, panic>>

-----------------------------------------------------------------------------
\* kfork: a process, a copy of the memory, or nothing.
Forked(p, q, s) ==
    /\ proc' = [proc EXCEPT ![q] = [state |-> "USED", sz |-> proc[p].sz, pt |-> PtOf(s)]]
    /\ free' = s.free /\ panic' = s.panic /\ UNCHANGED others
NotForked(s) == free' = s.free /\ panic' = s.panic /\ UNCHANGED <<proc, others>>
Copied(p, q, s) == IF s.ok THEN Forked(p, q, s) ELSE NotForked(Freeproc(s, 0))
Kfork(p) ==
    /\ Running(p) \/ (p = Initproc /\ ~panic)
    /\ \E q \in Proc :
        LET s == Allocproc(free)
        IN  /\ proc[q].state = "UNUSED"
            /\ IF s.ok THEN Copied(p, q, Uvmcopy(s, proc[p].pt, proc[p].sz))
               ELSE NotForked(s)

\* kexit leaves the memory to the parent's wait, which frees it.
Kexit(p) ==
    /\ Alive(p)
    /\ proc' = [proc EXCEPT ![p].state = "ZOMBIE"]
    /\ UNCHANGED <<free, others, panic>>
Freed(p, s) ==
    /\ proc' = [proc EXCEPT ![p] = UNUSED]
    /\ free' = s.free /\ panic' = s.panic /\ UNCHANGED others
Kwait(p) ==
    /\ proc[p].state = "ZOMBIE" /\ ~panic
    /\ Freed(p, Freeproc(Mine(p), proc[p].sz))

-----------------------------------------------------------------------------
\* kexec: commit to the new image and free the old one, or free the new one.
\* now is the process's table with the free pages, args the pages that hold the
\* arguments of the call and go back in the end.
Committed(p, s, old, args) ==
    /\ proc' = [proc EXCEPT ![p].pt = PtOf(s), ![p].sz = s.sz]
    /\ free' = old.free + args /\ panic' = old.panic
Refused(p, now, fr, wrong, args) ==
    /\ proc' = [proc EXCEPT ![p].pt = PtOf(now)]
    /\ free' = fr + args /\ panic' = wrong
Bad(p, now, s, args) == Refused(p, now, s.free, s.panic, args)
Executed(p, now, s, args) ==
    IF s.ok THEN Committed(p, s, ProcFreepagetable([now EXCEPT !.free = s.free], proc[p].sz), args)
    ELSE Bad(p, now, ProcFreepagetable(s, s.sz), args)
LoadProgram(p, now, s, image, fits, args) ==
    IF s.ok THEN Executed(p, now, NewTable(s, image, fits), args)
    ELSE Bad(p, now, s, args)
Kexec(p, now, image, fits, args) ==
    IF now.ok THEN LoadProgram(p, now, ProcPagetable(Table(now.free, Empty)), image, fits, args)
    ELSE Bad(p, now, now, args)

\* sys_exec: a page for each argument, copied from the user's memory, which may
\* fault; the file may not be there or no program at all.
SysExec(p) ==
    /\ Running(p)
    /\ \E args \in {n \in 0 .. MaxArgs : n <= free} :
        \E now \in {Touch([Mine(p) EXCEPT !.free = @ - args], proc[p].sz, va) : va \in 0 .. (TRAPFRAME - 1)} :
            \/ Bad(p, now, now, args)
            \/ \E image \in Images, fits \in BOOLEAN : Kexec(p, now, image, fits, args)
    /\ UNCHANGED others

Next ==
    \/ \E p \in Proc :
        \/ SbrkEager(p) \/ SbrkLazy(p) \/ Store(p) \/ Load(p)
        \/ CopyoutCall(p) \/ CopyinCall(p)
        \/ Kfork(p) \/ Kexit(p) \/ Kwait(p) \/ SysExec(p)
    \/ Others

Spec == Init /\ [][Next]_vars

-----------------------------------------------------------------------------
\* Every process has a size, page tables of nodes and leaves, and so many pages
\* are free.
TypeOK ==
    /\ free \in 0 .. NPAGES
    /\ others \in 0 .. MaxOthers
    /\ panic \in BOOLEAN
    /\ \A p \in Proc :
        /\ proc[p].state \in {"UNUSED", "USED", "ZOMBIE"}
        /\ proc[p].sz \in 0 .. (TRAPFRAME * PGSIZE)
        /\ proc[p].pt.nodes \subseteq ({1, 2} \X (0 .. (PTES * PTES - 1)))
        /\ DOMAIN proc[p].pt.map \subseteq 0 .. TRAMPOLINE
        /\ \A va \in DOMAIN proc[p].pt.map :
            proc[p].pt.map[va] \in [val : Nat, u : BOOLEAN, w : BOOLEAN]

\* No page is lost and none is free and in use, however many of the kallocs of
\* fork, exec, sbrk and page faults fail: each one is free, held elsewhere, a
\* trapframe, a root, a page-table page or a user's page of one process.
Held(pt) == 2 + Cardinality(pt.nodes) + Cardinality(DOMAIN pt.map \ {TRAMPOLINE, TRAPFRAME})
PagesConserved ==
    LET used == {p \in Proc : proc[p].state # "UNUSED"}
    IN  free + others + MapThenSumSet(LAMBDA p : Held(proc[p].pt), used) = NPAGES

\* mappages never meets a mapped page, freewalk no leaf that is left and loadseg
\* no page that is missing, whichever step of a call failed.
NoPanic == ~panic

\* What a process has mapped lies below its size, in page-table pages that are
\* there, so that the size is enough to find and free all of it; its trampoline
\* and trapframe are mapped and not the user's.
SizeCoversTable ==
    \A p \in Proc : proc[p].state # "UNUSED" =>
        LET pt == proc[p].pt
        IN  /\ {va \in DOMAIN pt.map : va < TRAPFRAME} \subseteq 0 .. (PGROUNDUP(proc[p].sz) - 1)
            /\ \A va \in DOMAIN pt.map : {Node(2, va), Node(1, va)} \subseteq pt.nodes
            /\ \A va \in {TRAMPOLINE, TRAPFRAME} : va \in DOMAIN pt.map /\ ~pt.map[va].u

\* What exec leaves: the file's part of every segment, zeros, a guard page, the
\* stack with the arguments at its top.
Program(image) ==
    LET top == Max({0} \cup {image[k].vaddr + image[k].memsz : k \in DOMAIN image})
        n == PGROUNDUP(top) + USERSTACK + 1
        From(i) == {k \in DOMAIN image : /\ image[k].vaddr <= i * PGSIZE
                                         /\ i * PGSIZE < image[k].vaddr + image[k].filesz}
    IN  [i \in 0 .. (n - 1) |->
            IF i = n - 1 THEN 1 ELSE IF From(i) = {} THEN 0 ELSE image[Max(From(i))].val]

\* Read-only text keeps what exec loaded: no store, no copyout of a system call,
\* no fork and no resizing changes it.
TextIntact ==
    \A p \in Proc : \A va \in DOMAIN proc[p].pt.map :
        LET leaf == proc[p].pt.map[va]
        IN  va < TRAPFRAME /\ ~leaf.w =>
                \E image \in Images : va \in DOMAIN Program(image) /\ Program(image)[va] = leaf.val

\* The kernel keeps the promise of AddrSpace: lazily allocated pages, failed
\* calls and the order in which pages are mapped do not show in what programs
\* read; a page below the size without a frame reads as zero.
Contents(p) == [i \in 0 .. (PGROUNDUP(proc[p].sz) - 1) |->
                  IF i \in DOMAIN proc[p].pt.map THEN proc[p].pt.map[i].val ELSE 0]
Promise == INSTANCE AddrSpace WITH
    Val <- {0, 1} \cup UserVal \cup UNION {{image[k].val : k \in DOMAIN image} : image \in Images},
    Pages <- TRAPFRAME, Programs <- {Program(image) : image \in Images},
    mem <- [p \in Proc |-> IF proc[p].state = "USED" THEN Contents(p) ELSE <<"no process">>]
ImplementsAddrSpace == Promise!Spec

\* Physical and user memory at every step: no page lost or used twice, each
\* table maps what its process's size covers, and no program text is changed.
MemInv == TypeOK /\ PagesConserved /\ SizeCoversTable /\ TextIntact
=============================================================================
