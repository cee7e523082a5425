----------------------------- MODULE AddrSpace -----------------------------
\* What user programs are promised of memory: every process has pages of its
\* own, a number it may change at the end; new pages are zero, a child starts
\* with a copy, exec replaces all of them or none, and no process changes those
\* of another. When a page is mapped, and where it comes from, does not show.
EXTENDS Naturals

CONSTANTS
    Proc,       \* processes
    Val,        \* what a page may hold; 0 in a new one
    Pages,      \* pages a process may have
    Programs    \* the pages exec may leave

VARIABLE mem    \* the pages of each process, None if there is no process

None == <<"no process">>

Init == \E p \in Proc, first \in Programs :
            mem = [q \in Proc |-> IF q = p THEN first ELSE None]

Alive(p) == mem[p] # None

Write(p) ==
    /\ DOMAIN mem'[p] = DOMAIN mem[p]
    /\ \E v \in Val : \A i \in DOMAIN mem[p] : mem'[p][i] \in {mem[p][i], v}
Resize(p) ==
    /\ \E n \in 0 .. Pages : DOMAIN mem'[p] = 0 .. (n - 1)
    /\ \A i \in DOMAIN mem'[p] :
        mem'[p][i] = IF i \in DOMAIN mem[p] THEN mem[p][i] ELSE 0
Exec(p) == mem'[p] \in Programs
Exit(p) == mem'[p] = None
Fork(p) == \E q \in Proc : mem[q] = None /\ mem' = [mem EXCEPT ![q] = mem[p]]

\* A process changes its own memory, or makes a process.
Next ==
    \E p \in Proc :
        /\ Alive(p)
        /\ \/ /\ mem' = [mem EXCEPT ![p] = mem'[p]]
              /\ Write(p) \/ Resize(p) \/ Exec(p) \/ Exit(p)
           \/ Fork(p)

Spec == Init /\ [][Next]_mem
=============================================================================
