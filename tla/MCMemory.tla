----------------------------- MODULE MCMemory -----------------------------
\* Memory with a program of text and data, one with a gap between its segments,
\* and one that cannot be loaded to the end.
EXTENDS Memory

Seg(vaddr, filesz, memsz, w, val, whole) ==
    [vaddr |-> vaddr, filesz |-> filesz, memsz |-> memsz, w |-> w, val |-> val, whole |-> whole]

MCInitcode == <<Seg(0, 2, 2, FALSE, 2, TRUE)>>
MCImages == {MCInitcode,
             <<Seg(0, 2, 2, FALSE, 2, TRUE), Seg(4, 1, 1, TRUE, 1, TRUE)>>,
             <<Seg(0, 2, 2, FALSE, 2, TRUE), Seg(2, 2, 2, TRUE, 1, FALSE)>>}

MCDeltas == {-3, -2, 3}

Sym == Permutations(Proc \ {Initproc})
=============================================================================
