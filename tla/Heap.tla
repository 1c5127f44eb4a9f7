-------------------------------- MODULE Heap --------------------------------
(***************************************************************************)
(* The boundary-tag allocator of lab_7/mm.c, with mem_sbrk of memlib.c.    *)
(*                                                                         *)
(* Addresses and sizes count words of WSIZE bytes, so that DSIZE is 2.  A  *)
(* word of the heap holds a tag, something a caller stored, or junk.       *)
(***************************************************************************)
EXTENDS Integers, FiniteSetsExt, Functions

CONSTANTS
    MAX_HEAP,   \* the words mem_sbrk can give, 262144 in the code
    CHUNKSIZE,  \* the words the heap grows by, at least, 1024 in the code
    Requests,   \* the sizes callers ask for
    INT_MAX     \* what the argument of mem_sbrk holds, 2^31 - 1 bytes in the code

ASSUME HeapAssumption ==
    /\ MAX_HEAP \in Nat /\ CHUNKSIZE \in Nat /\ INT_MAX \in Nat
    /\ CHUNKSIZE % 2 = 0 /\ CHUNKSIZE >= 4 /\ 4 + CHUNKSIZE <= MAX_HEAP /\ MAX_HEAP <= INT_MAX
    \* a larger request does not fit in a tag
    /\ Requests \subseteq 0 .. 2 * INT_MAX - 4

VARIABLES mem,    \* the words
          brk,    \* how many of them mem_sbrk has given
          owned   \* what callers hold: address -> size they asked for

heapVars == <<mem, brk, owned>>

DSIZE == 2
heap_listp == 2      \* the block of the prologue
Tag(size, alloc) == [size |-> size, alloc |-> alloc]      \* PACK
Bytes(p) == [caller |-> p]      \* what the caller that has the block at p stores
Junk == [junk |-> 0]

\* Header, footer and neighbours of the block at p.
HDRP(p) == p - 1
Size(m, p) == m[HDRP(p)].size                             \* GET_SIZE(HDRP(p))
Alloc(m, p) == m[HDRP(p)].alloc
FTRP(m, p) == p + Size(m, p) - DSIZE
NEXT_BLKP(m, p) == p + Size(m, p)
PREV_BLKP(m, p) == p - m[p - DSIZE].size

\* Both tags of the block at p.
PutTags(m, p, size, alloc) ==
    [m EXCEPT ![HDRP(p)] = Tag(size, alloc), ![p + size - DSIZE] = Tag(size, alloc)]

-----------------------------------------------------------------------------

\* (mutant) The block after p is joined with it, free or not.
CoalesceInUse(m, p) ==
    LET prev == PREV_BLKP(m, p)
        before == IF Alloc(m, prev) THEN 0 ELSE Size(m, prev)
    IN  [mem |-> PutTags(m, p - before, before + Size(m, p) + Size(m, NEXT_BLKP(m, p)), FALSE), bp |-> p - before]

\* coalesce: the free blocks beside p are joined with it.
Coalesce(m, p) ==
    LET prev == PREV_BLKP(m, p)
        next == NEXT_BLKP(m, p)
        before == IF Alloc(m, prev) THEN 0 ELSE Size(m, prev)
        after == IF Alloc(m, next) THEN 0 ELSE Size(m, next)
    IN  [mem |-> PutTags(m, p - before, before + Size(m, p) + after, FALSE), bp |-> p - before]

\* mem_sbrk: the size is converted to int.
Sbrk(size) == size <= INT_MAX /\ brk + size <= MAX_HEAP

\* extend_heap: the old epilogue becomes the header of the new block.
Extended(words) ==
    LET size == IF words % 2 = 0 THEN words ELSE words + 1
        m == PutTags(mem, brk, size, FALSE)
    IN  Coalesce([m EXCEPT ![brk + size - 1] = Tag(0, TRUE)], brk)

\* The blocks from the prologue on, up to the epilogue.
Blocks ==
    LET seen[n \in 0 .. brk] ==      \* after at most n of them
          IF n = 0 THEN {heap_listp}
          ELSE LET s == seen[n - 1]
               IN  s \cup {NEXT_BLKP(mem, p) : p \in {q \in s : Size(mem, q) # 0}}
    IN  {p \in seen[brk] : Size(mem, p) # 0}
Fits(size) == {p \in Blocks : ~Alloc(mem, p) /\ Size(mem, p) >= size}

\* place: what is left over becomes a free block when it is large enough.
Place(m, p, size) ==
    LET rest == Size(m, p) - size
    IN  IF rest >= 2 * DSIZE THEN PutTags(PutTags(m, p, size, TRUE), p + size, rest, FALSE)
                             ELSE PutTags(m, p, Size(m, p), TRUE)

\* mm_malloc: room for the tags, and a multiple of DSIZE.
BlockSize(n) == IF n <= DSIZE THEN 2 * DSIZE ELSE DSIZE * ((n + DSIZE + 1) \div DSIZE)

\* The caller stores into all of what it got.
Given(m, p, n) ==
    /\ mem' = [w \in DOMAIN m |-> IF w \in p .. p + n - 1 THEN Bytes(p) ELSE Place(m, p, BlockSize(n))[w]]
    /\ owned' = [q \in DOMAIN owned \cup {p} |-> IF q = p THEN n ELSE owned[q]]

MallocFits(n) ==
    /\ n > 0 /\ Fits(BlockSize(n)) # {}
    /\ Given(mem, Min(Fits(BlockSize(n))), n)
    /\ UNCHANGED brk

MallocExtends(n) ==
    /\ n > 0 /\ Fits(BlockSize(n)) = {}
    /\ LET words == Max({BlockSize(n), CHUNKSIZE})
       IN  /\ Sbrk(words)
           /\ brk' = brk + words
           /\ Given(Extended(words).mem, Extended(words).bp, n)

\* NULL
MallocFails(n) ==
    /\ n = 0 \/ (Fits(BlockSize(n)) = {} /\ ~Sbrk(Max({BlockSize(n), CHUNKSIZE})))
    /\ UNCHANGED heapVars

Free(p) ==
    /\ p \in DOMAIN owned
    /\ mem' = Coalesce(PutTags(mem, p, Size(mem, p), FALSE), p).mem
    /\ owned' = Restrict(owned, DOMAIN owned \ {p})
    /\ UNCHANGED brk

\* After mm_init: the prologue, one free block, the epilogue.
HeapInit ==
    /\ brk = 4 + CHUNKSIZE
    /\ mem = [w \in 0 .. MAX_HEAP - 1 |->
                CASE w \in {1, 2} -> Tag(DSIZE, TRUE)
                  [] w \in {3, 2 + CHUNKSIZE} -> Tag(CHUNKSIZE, FALSE)
                  [] w = 3 + CHUNKSIZE -> Tag(0, TRUE)
                  [] OTHER -> Junk]
    /\ owned = [p \in {} |-> 0]

HeapNext ==
    \/ \E n \in Requests : MallocFits(n) \/ MallocExtends(n) \/ MallocFails(n)
    \/ \E p \in DOMAIN owned : Free(p)

HeapSpec == HeapInit /\ [][HeapNext]_heapVars

-----------------------------------------------------------------------------

\* The blocks fill the heap from the prologue to the epilogue, header and
\* footer of each agree, no two free ones are neighbours, and the blocks in
\* use are those callers hold: nothing is lost, whatever the order of
\* mm_malloc and mm_free.
BlocksTile ==
    /\ \A p \in Blocks :
         /\ mem[FTRP(mem, p)] = mem[HDRP(p)]
         /\ ~Alloc(mem, p) /\ NEXT_BLKP(mem, p) \in Blocks => Alloc(mem, NEXT_BLKP(mem, p))
    /\ mem[brk - 1] = Tag(0, TRUE)
    /\ NEXT_BLKP(mem, Max(Blocks)) = brk
    /\ {p \in Blocks : Alloc(mem, p)} = DOMAIN owned \cup {heap_listp}

\* What a caller stored stays as it is until it frees the block: no tag, and
\* no block given to somebody else, lies in it.
PayloadsKept == \A p \in DOMAIN owned : \A w \in p .. p + owned[p] - 1 : mem[w] = Bytes(p)

\* The heap is whole: mm_malloc and mm_free lose no word and give none twice.
HeapWhole == BlocksTile /\ PayloadsKept
=============================================================================
