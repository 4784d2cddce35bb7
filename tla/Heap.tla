-------------------------------- MODULE Heap --------------------------------
(***************************************************************************)
(* mm.c and memlib.c: an allocator with boundary tags and segregated,      *)
(* unordered free lists.  A heap is an array of words that holds the heads *)
(* of the lists, headers, footers, the links of free blocks and the data   *)
(* of allocated ones, all in the same words.  Addresses and sizes count    *)
(* words, so that DSIZE, which every size is a multiple of, is 2, and the  *)
(* allocated bit of a tag is its last bit.  The operators take a heap      *)
(* h = [m |-> the words, brk |-> mem_brk] and return the heap after the    *)
(* call, with the result p where there is one.                             *)
(***************************************************************************)
EXTENDS Integers, Sequences, FiniteSetsExt

CONSTANTS
  MAX_HEAP,   \* words of the simulated memory
  CHUNKSIZE,  \* words by which the heap grows
  Uninit      \* what is in a word nobody has written, a number

ASSUME HeapAssumption ==
  /\ MAX_HEAP \in Nat /\ Uninit \in Nat
  /\ CHUNKSIZE \in Nat /\ CHUNKSIZE >= 4 /\ CHUNKSIZE % 2 = 0

NULL == 0
Failed == -1
DSIZE == 2
MIN_BLOCK == 2 * DSIZE
BYTES == 4                      \* per word
free_list_size == 10
mem_start_brk == DSIZE          \* where malloc put the memory: aligned, not NULL
mem_max_addr == mem_start_brk + MAX_HEAP
Memory == mem_start_brk .. mem_max_addr - 1
MaxBlocks == MAX_HEAP \div MIN_BLOCK

Larger(x, y) == IF x > y THEN x ELSE y

PUT(h, p, v) == [h EXCEPT !.m[p] = v]
PACK(size, alloc) == size + alloc
GET_SIZE(h, p) == h.m[p] - (h.m[p] % 2)
IS_FREE(h, p) == h.m[p] % 2 = 0

HDRP(bp) == bp - 1
SIZE(h, bp) == GET_SIZE(h, HDRP(bp))
FTRP(h, bp) == bp + SIZE(h, bp) - DSIZE
NEXT_BLKP(h, bp) == bp + SIZE(h, bp)
PREV_BLKP(h, bp) == bp - GET_SIZE(h, bp - DSIZE)
SUCC(h, bp) == h.m[bp]
PRED(h, bp) == h.m[bp + 1]

\* Header and footer of a block, which the code always writes together.
TAG(h, bp, size, alloc) ==
  LET v == PACK(size, alloc) IN PUT(PUT(h, HDRP(bp), v), bp + size - DSIZE, v)

mem_init == [m |-> [w \in Memory |-> Uninit], brk |-> mem_start_brk]
mem_reset_brk(h) == [h EXCEPT !.brk = mem_start_brk]
mem_sbrk(h, incr) ==
  IF incr < 0 \/ h.brk + incr > mem_max_addr
  THEN [h |-> h, p |-> Failed]
  ELSE [h |-> [h EXCEPT !.brk = @ + incr], p |-> h.brk]
mem_heap_hi(h) == h.brk - 1
mem_heapsize(h) == h.brk - mem_start_brk

----------------------------------------------------------------------------
(* The free lists: the head of list i is word i of the heap.               *)

HEAD(i) == mem_start_brk + i

\* floor(log2(bytes)), at most 9, less 3: lists 0 and 7 to 9 stay empty.
get_free_list_idx(size) ==
  (CHOOSE i \in 0 .. free_list_size - 1 :
     /\ 2 ^ i <= BYTES * size
     /\ i = free_list_size - 1 \/ BYTES * size < 2 ^ (i + 1)) - 3

insert_node(h, bp) ==
  LET head == HEAD(get_free_list_idx(SIZE(h, bp)))
      first == h.m[head]
      h1 == IF first = NULL THEN h ELSE PUT(h, first + 1, bp)
  IN  PUT(PUT(PUT(h1, bp + 1, NULL), bp, first), head, bp)

delete_node(h, bp) ==
  LET pred == PRED(h, bp)
      succ == SUCC(h, bp)
      h1 == IF succ = NULL THEN h ELSE PUT(h, succ + 1, pred)
  IN  PUT(h1, IF pred = NULL THEN HEAD(get_free_list_idx(SIZE(h, bp))) ELSE pred, succ)

\* The blocks of list i, in order; NULL after the last one.
Node(h, i) ==
  LET node[k \in 0 .. MaxBlocks] ==
        IF k = 0 THEN h.m[HEAD(i)]
        ELSE LET bp == node[k - 1]
             IN  IF bp = NULL \/ ~IS_FREE(h, HDRP(bp)) THEN NULL ELSE SUCC(h, bp)
  IN  node

\* The places in list i of blocks that are large enough.
Fits(h, i, asize) ==
  {k \in 0 .. MaxBlocks :
     LET bp == Node(h, i)[k] IN bp # NULL /\ IS_FREE(h, HDRP(bp)) /\ asize <= SIZE(h, bp)}
\* The first block that is large enough, from the first list that has one.
FirstFit(h, lists, asize) ==
  LET found == {i \in lists : Fits(h, i, asize) # {}}
  IN  IF found = {} THEN NULL ELSE Node(h, Min(found))[Min(Fits(h, Min(found), asize))]

\* MUTANT: only the list of the size itself is searched
FitInOwnList(h, asize) == FirstFit(h, {get_free_list_idx(asize)}, asize)
find_fit(h, asize) == FirstFit(h, get_free_list_idx(asize) .. free_list_size - 1, asize)

\* The four cases: a neighbour that is free leaves its list and joins bp.
Join(h, start, size) == [h |-> insert_node(TAG(h, start, size, 0), start), p |-> start]
\* MUTANT: the next block joins without leaving its list
JoinNextListed(h, start, size, next) ==
  IF IS_FREE(h, HDRP(next)) THEN Join(h, start, size + SIZE(h, next)) ELSE Join(h, start, size)
JoinNext(h, start, size, next) ==
  IF IS_FREE(h, HDRP(next)) THEN Join(delete_node(h, next), start, size + SIZE(h, next))
  ELSE Join(h, start, size)
JoinBoth(h, bp, prev) ==
  IF IS_FREE(h, FTRP(h, prev))
  THEN JoinNext(delete_node(h, prev), prev, SIZE(h, bp) + SIZE(h, prev), NEXT_BLKP(h, bp))
  ELSE JoinNext(h, bp, SIZE(h, bp), NEXT_BLKP(h, bp))
coalesce(h, bp) == JoinBoth(h, bp, PREV_BLKP(h, bp))

----------------------------------------------------------------------------
(* The heap grows; a block is placed; the three calls.                     *)

extend_heap(h, words) ==
  LET size == words + (words % 2)
      s == mem_sbrk(h, size)
  IN  IF s.p = Failed THEN [h |-> h, p |-> NULL]
      ELSE coalesce(PUT(TAG(s.h, s.p, size, 0), s.p + size - 1, PACK(0, 1)), s.p)

place(h, bp, asize) ==
  LET csize == SIZE(h, bp)
      h1 == delete_node(h, bp)
  IN  IF csize - asize >= MIN_BLOCK
      THEN coalesce(TAG(TAG(h1, bp, asize, 1), bp + asize, csize - asize, 0), bp + asize).h
      ELSE TAG(h1, bp, csize, 1)

\* 40 bytes for the heads, padding, the prologue and the epilogue, a first chunk.
mm_init(h) ==
  LET lists == mem_sbrk(h, free_list_size)
      pro == mem_sbrk([lists.h EXCEPT !.m = [w \in Memory |->
               IF w \in HEAD(0) .. HEAD(free_list_size - 1) THEN NULL ELSE @[w]]], 4)
      tagged == PUT(PUT(PUT(PUT(pro.h, pro.p, 0), pro.p + 1, PACK(DSIZE, 1)),
                        pro.p + 2, PACK(DSIZE, 1)), pro.p + 3, PACK(0, 1))
  IN  CASE lists.p = Failed -> [h |-> h, p |-> NULL]
        [] lists.p # Failed /\ pro.p = Failed -> [h |-> pro.h, p |-> NULL]
        [] OTHER -> extend_heap(tagged, CHUNKSIZE)

heap_listp == mem_start_brk + free_list_size + DSIZE

asize(size) ==
  IF size <= DSIZE THEN MIN_BLOCK ELSE DSIZE * ((size + DSIZE + (DSIZE - 1)) \div DSIZE)

\* The answer r of find_fit or extend_heap becomes a block, if there is one.
Placed(r, size) == IF r.p = NULL THEN r ELSE [r EXCEPT !.h = place(r.h, r.p, size)]

mm_malloc(h, size) ==
  LET fit == find_fit(h, asize(size))
  IN  IF size = 0 THEN [h |-> h, p |-> NULL]
      ELSE Placed(IF fit # NULL THEN [h |-> h, p |-> fit]
                  ELSE extend_heap(h, Larger(asize(size), CHUNKSIZE)), asize(size))

mm_free(h, bp) ==
  IF bp = NULL THEN h ELSE coalesce(TAG(h, bp, SIZE(h, bp), 0), bp).h

Copy(h, from, to, n) ==
  [h EXCEPT !.m = [w \in Memory |-> IF w \in to .. to + n - 1 THEN h.m[w - to + from] ELSE @[w]]]

\* The contents go to a new block, the old one is freed.
Moved(new, ptr, size, oldsize) ==
  IF new.p = NULL THEN new
  ELSE [new EXCEPT !.h = mm_free(Copy(@, ptr, new.p, IF size < oldsize THEN size ELSE oldsize), ptr)]
MoveBlock(h, ptr, size) == Moved(mm_malloc(h, size), ptr, size, SIZE(h, ptr))

Shrink(h, ptr, reqsize) ==
  LET rest == SIZE(h, ptr) - reqsize
  IN  [h |-> IF rest < MIN_BLOCK THEN h
             ELSE mm_free(TAG(TAG(h, ptr, reqsize, 1), ptr + reqsize, rest, 1), ptr + reqsize),
       p |-> ptr]

\* The next block is free, or the block is the last and the heap grows behind
\* it: the block takes all of what follows, unless that is just what it needs.
\* MUTANT: the next block is taken without leaving its list
JoinedListed(r, ptr, size, nsize) ==
  CASE r.p = NULL -> r
    [] r.p # NULL /\ nsize > asize(size) -> [h |-> TAG(r.h, ptr, nsize, 1), p |-> ptr]
    [] OTHER -> MoveBlock(r.h, ptr, size)
Joined(r, ptr, size, nsize) ==
  CASE r.p = NULL -> r
    [] r.p # NULL /\ nsize > asize(size) -> [h |-> TAG(delete_node(r.h, r.p), ptr, nsize, 1), p |-> ptr]
    [] OTHER -> MoveBlock(r.h, ptr, size)
Grow(h, ptr, size) ==
  LET nbp == NEXT_BLKP(h, ptr)
      last == SIZE(h, nbp) = 0
      extendsize == Larger(asize(size) - SIZE(h, ptr), CHUNKSIZE)
  IN  IF last \/ IS_FREE(h, HDRP(nbp))
      THEN Joined(IF last THEN extend_heap(h, extendsize) ELSE [h |-> h, p |-> nbp],
                  ptr, size, SIZE(h, ptr) + (IF last THEN extendsize ELSE SIZE(h, nbp)))
      ELSE MoveBlock(h, ptr, size)

mm_realloc(h, ptr, size) ==
  CASE size = 0   -> [h |-> mm_free(h, ptr), p |-> NULL]
    [] size # 0 /\ ptr = NULL -> mm_malloc(h, size)
    [] OTHER -> IF asize(size) <= SIZE(h, ptr) THEN Shrink(h, ptr, asize(size))
                ELSE Grow(h, ptr, size)

----------------------------------------------------------------------------
(* What a heap between two calls looks like.                               *)

\* The blocks from the prologue to the epilogue, by their headers: the walk
\* stays at the block where it ends.
Walk(h) ==
  LET bp[k \in 0 .. MaxBlocks] ==
        IF k = 0 THEN heap_listp
        ELSE LET p == bp[k - 1] IN IF SIZE(h, p) = 0 \/ NEXT_BLKP(h, p) > h.brk THEN p ELSE NEXT_BLKP(h, p)
  IN  bp
Blocks(h) == LET bp == Walk(h) IN {bp[k] : k \in 0 .. MaxBlocks}

\* Boundary tags: the walk ends at the epilogue, which is the last word of the
\* heap, and a header, its footer and the next header tell the same.
Tagged(h) ==
  /\ h.brk \in Blocks(h) /\ h.m[h.brk - 1] = PACK(0, 1)
  /\ \A bp \in Blocks(h) \ {h.brk} : h.m[FTRP(h, bp)] = h.m[HDRP(bp)]

Coalesced(h) ==
  \A bp \in Blocks(h) \ {h.brk} :
    ~(IS_FREE(h, HDRP(bp)) /\ IS_FREE(h, HDRP(NEXT_BLKP(h, bp))))

FreeOf(h, i) ==
  {bp \in Blocks(h) \ {h.brk} : IS_FREE(h, HDRP(bp)) /\ get_free_list_idx(SIZE(h, bp)) = i}

\* List i holds each free block of its sizes once, linked both ways.
Listed(h) ==
  \A i \in 0 .. free_list_size - 1 :
    LET node == Node(h, i)
        list == {k \in 0 .. MaxBlocks : node[k] # NULL}
    IN  /\ \A j, k \in list : node[j] = node[k] => j = k
        /\ {node[k] : k \in list} = FreeOf(h, i)
        /\ \A k \in list : PRED(h, node[k]) = IF k = 0 THEN NULL ELSE node[k - 1]
=============================================================================
