-------------------------------- MODULE Heap --------------------------------
\* malloc() and free() of the xv6 user library: a circular list of free blocks in
\* the order of their addresses, searched from where the last search ended.
\*
\* Memory is counted in headers.  Address 0 is the static header base, which lies
\* below the heap; Nil is a null pointer.  What a unit that is not the header of a
\* block holds is the program's and is not kept; nor is the ptr of a given block.
EXTENDS Naturals, FiniteSets

CONSTANTS Units,        \* the sizes asked for, in headers, with the block's own
          NU,           \* what morecore() asks for at least
          HeapMax       \* sbrk() fails beyond this address

ASSUME HeapAssumption ==
  /\ Units \subseteq Nat \ {0}
  /\ NU \in Nat \ {0} /\ HeapMax \in Nat

Nil == HeapMax + 1

VARIABLES heap,         \* the headers (ptr, size), freep and the break
          taken,        \* the blocks given out: address -> size asked for
          cells         \* the units morecore() has got from sbrk()

HeapInit ==
  /\ heap = [ptr |-> [a \in 0 .. HeapMax |-> 0], size |-> [a \in 0 .. HeapMax |-> 0],
             freep |-> Nil, brk |-> 1]
  /\ taken = <<>>
  /\ cells = {}

\* The block after which bp belongs: around it, or the last before the list wraps.
RECURSIVE PlaceFor(_, _, _)
PlaceFor(h, p, bp) ==
  LET next == h.ptr[p] IN
  IF (bp > p /\ bp < next) \/ (p >= next /\ (bp > p \/ bp < next)) THEN p
  ELSE PlaceFor(h, next, bp)

\* Mutant: joins with the block below only.
ReleaseBelow(h, bp) ==
  LET p == PlaceFor(h, h.freep, bp) IN
  IF p + h.size[p] = bp THEN [h EXCEPT !.size = [@ EXCEPT ![p] = @ + h.size[bp], ![bp] = 0], !.freep = p]
  ELSE [h EXCEPT !.ptr = [@ EXCEPT ![bp] = h.ptr[p], ![p] = bp], !.freep = p]

\* free(): joins bp with the free block above and with the one below; a header
\* that is joined to another is one no longer.
Release(h, bp) ==
  LET p == PlaceFor(h, h.freep, bp)
      next == h.ptr[p]
      up == bp + h.size[bp] = next
      down == p + h.size[p] = bp
      size == h.size[bp] + IF up THEN h.size[next] ELSE 0
      after == IF up THEN h.ptr[next] ELSE next
      above == IF up THEN {next} ELSE {}
      first == IF down THEN p ELSE bp IN
  [h EXCEPT !.size = [a \in DOMAIN @ |-> IF a = first THEN size + IF down THEN @[p] ELSE 0
                                       ELSE IF a \in above \cup {bp} THEN 0 ELSE @[a]],
            !.ptr = [a \in DOMAIN @ |-> IF a = first THEN after
                                      ELSE IF a \in above \cup {bp} THEN 0
                                      ELSE IF a = p THEN bp ELSE @[a]],
            !.freep = p]

\* morecore(): a new block at the break, freed into the list.
Asked(n) == IF n < NU THEN NU ELSE n

Morecore(h, n) ==
  Release([h EXCEPT !.size[h.brk] = Asked(n), !.brk = @ + Asked(n)], h.brk)

\* malloc()'s list the first time: base alone.
Started(h) ==
  IF h.freep # Nil THEN h
  ELSE [h EXCEPT !.ptr[0] = 0, !.size[0] = 0, !.freep = 0]

\* The loop of malloc(): the first block that is large enough, cut from its end
\* when it is larger; once around without one, morecore().
RECURSIVE Search(_, _, _)
Search(h, prevp, n) ==
  LET p == h.ptr[prevp] IN
  IF h.size[p] = n
  THEN [h |-> [h EXCEPT !.ptr = [@ EXCEPT ![p] = 0, ![prevp] = h.ptr[p]], !.freep = prevp], at |-> p]
  ELSE IF h.size[p] > n
  THEN LET at == p + h.size[p] - n IN
       [h |-> [h EXCEPT !.size = [@ EXCEPT ![p] = @ - n, ![at] = n], !.freep = prevp], at |-> at]
  ELSE IF p # h.freep THEN Search(h, p, n)
  ELSE IF h.brk + Asked(n) > HeapMax + 1 THEN [h |-> h, at |-> Nil]
  ELSE Search(Morecore(h, n), Morecore(h, n).freep, n)

Malloc(n) ==
  LET h == Started(heap)
      got == Search(h, h.freep, n) IN
  /\ heap' = got.h
  /\ cells' = cells \cup IF got.h.brk = h.brk THEN {} ELSE h.brk .. got.h.brk - 1
  /\ taken' = [a \in DOMAIN taken \cup ({got.at} \ {Nil}) |-> IF a = got.at THEN n ELSE taken[a]]

Free(bp) ==
  /\ bp \in DOMAIN taken
  /\ heap' = Release(heap, bp)
  /\ taken' = [a \in DOMAIN taken \ {bp} |-> taken[a]]
  /\ UNCHANGED cells

\* The program calls sbrk() itself: the next block of morecore() lies elsewhere.
OtherSbrk ==
  /\ heap.brk <= HeapMax
  /\ heap' = [heap EXCEPT !.brk = @ + 1]
  /\ UNCHANGED <<taken, cells>>

HeapNext ==
  \/ \E n \in Units : Malloc(n)
  \/ \E bp \in DOMAIN taken : Free(bp)
  \/ OtherSbrk

-----------------------------------------------------------------------------
\* The blocks of the list, from freep around.
FreeList ==
  LET seen[k \in 0 .. HeapMax] == IF k = 0 THEN heap.freep ELSE heap.ptr[seen[k - 1]] IN
  {seen[k] : k \in 0 .. HeapMax}

Extent(a) == a .. a + heap.size[a] - 1

\* The free and the given blocks share no unit and are together all that
\* morecore() ever got; a given block has the size asked for; the list runs once
\* around in the order of addresses; no two free blocks touch, so that whatever
\* is free in one piece can be given in one piece.
HeapTiled ==
  heap.freep # Nil =>
    LET free == FreeList \ {0}
        blocks == free \cup DOMAIN taken IN
    /\ 0 \in FreeList /\ free \cap DOMAIN taken = {}
    /\ \A a \in DOMAIN taken : heap.size[a] = taken[a]
    /\ \A a, b \in blocks : a # b => Extent(a) \cap Extent(b) = {}
    /\ UNION {Extent(a) : a \in blocks} = cells
    /\ \A a \in FreeList : \A b \in FreeList : (a < b => ~(heap.ptr[a] > b \/ heap.ptr[a] <= a))
    /\ \A a, b \in free : a + heap.size[a] # b
=============================================================================
