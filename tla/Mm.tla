-------------------------------- MODULE Mm --------------------------------
(***************************************************************************)
(* The malloc package, malloc lab/mm.c, over the simulated memory of       *)
(* malloc lab/memlib.c: boundary tags, segregated free lists, best fit.    *)
(*                                                                         *)
(* Its routines are operators on a heap h: the words of memory, addressed  *)
(* by byte offset from mem_start_brk, the list heads and mem_brk.  Tags,   *)
(* links and payload share the words, as in the code, so that a write in   *)
(* the wrong place does here what it does there.  The compiler builds for  *)
(* 32 bits (malloc lab/Makefile, -m32): a pointer takes one word.          *)
(***************************************************************************)
EXTENDS Integers, FiniteSetsExt, SequencesExt

CONSTANTS
    MAX_HEAP,       \* bytes of simulated memory
    CLASS_SIZE      \* number of free lists (32; even, for the alignment)

ASSUME ClassSizeAssumption == CLASS_SIZE \in Nat \ {0} /\ CLASS_SIZE % 2 = 0
ASSUME MaxHeapAssumption == MAX_HEAP \in Nat /\ MAX_HEAP >= 4 * CLASS_SIZE + 32

WSIZE   == 4
DSIZE   == 8
NULL    == 0
Classes == 0 .. CLASS_SIZE - 1

heap_listp == WSIZE                                 \* after the padding word
prologue   == heap_listp + (CLASS_SIZE + 1) * WSIZE \* its block pointer

(* No block is smaller than 16 bytes.                                      *)
MaxBlocks == MAX_HEAP \div (2 * DSIZE)

(* The list heads lie below the prologue and are kept in free_list.        *)
Words == {a \in prologue - WSIZE .. MAX_HEAP - 1 : a % WSIZE = 0}

----------------------------------------------------------------------------
(* Words, tags and links.                                                  *)

PUT(h, a, w)    == [h EXCEPT !.mem[a] = w]
PACK(size, bit) == size + bit
GETSIZE(h, a)   == h.mem[a] - (h.mem[a] % DSIZE)
GETALLOC(h, a)  == h.mem[a] % 2

HDRP(bp)         == bp - WSIZE
FTRP(h, bp)      == bp + GETSIZE(h, HDRP(bp)) - 2 * WSIZE
PREV_BLKP(h, bp) == bp - GETSIZE(h, HDRP(bp) - WSIZE)
NEXT_BLKP(h, bp) == bp + GETSIZE(h, HDRP(bp))

LIST_PREVP(h, bp) == h.mem[bp]
LIST_NEXTP(h, bp) == h.mem[bp + WSIZE]
SetPrev(h, bp, p) == PUT(h, bp, p)
SetNext(h, bp, p) == PUT(h, bp + WSIZE, p)

(* The header, then the footer that the new header points at.              *)
SetTags(h, bp, size, bit) ==
    LET t == PUT(h, HDRP(bp), PACK(size, bit))
    IN  PUT(t, FTRP(t, bp), PACK(size, bit))

----------------------------------------------------------------------------
(* The free lists.                                                         *)

find_class(size) == Min({c \in Classes : c = CLASS_SIZE - 1 \/ size <= 2 ^ (c + 1)})

(* Push bp on its list.                                                    *)
insert_list(h, bp) ==
    IF GETALLOC(h, HDRP(bp)) = 1 THEN h
    ELSE LET c    == find_class(GETSIZE(h, HDRP(bp)))
             next == h.free_list[c]
             t    == SetPrev(SetNext([h EXCEPT !.free_list[c] = bp], bp, next), bp, NULL)
         IN  IF next = NULL THEN t ELSE SetPrev(t, next, bp)

(* Unlink bp from the list of its size.                                    *)
remove_list(h, bp) ==
    LET c    == find_class(GETSIZE(h, HDRP(bp)))
        prev == LIST_PREVP(h, bp)
        next == LIST_NEXTP(h, bp)
        t    == IF prev = NULL THEN [h EXCEPT !.free_list[c] = next]
                ELSE SetNext(h, prev, next)
        u    == IF next = NULL THEN t ELSE SetPrev(t, next, prev)
    IN  IF GETALLOC(h, HDRP(bp)) = 1 \/ h.free_list[c] = NULL THEN h
        ELSE SetPrev(SetNext(u, bp, NULL), bp, NULL)

(* The blocks of list c in order.                                          *)
Chain(h, c) ==
    LET follow[i \in 1 .. MaxBlocks] ==
            IF i = 1 THEN h.free_list[c]
            ELSE LET bp == follow[i - 1]
                 IN  IF bp = NULL THEN NULL ELSE LIST_NEXTP(h, bp)
    IN  [i \in {k \in 1 .. MaxBlocks : follow[k] # NULL} |-> follow[i]]

----------------------------------------------------------------------------
(* Mutant: the next block stays on its list.                               *)
coalesceKeepsNext(h, bp) ==
    LET prev == PREV_BLKP(h, bp)
        next == NEXT_BLKP(h, bp)
        prev_alloc == GETALLOC(h, FTRP(h, prev)) = 1
        next_alloc == GETALLOC(h, HDRP(next)) = 1
        t == IF prev_alloc THEN h ELSE remove_list(h, prev)
        prev_s == IF prev_alloc THEN 0 ELSE GETSIZE(h, FTRP(h, prev))
        next_s == IF next_alloc THEN 0 ELSE GETSIZE(h, HDRP(next))
        size == prev_s + GETSIZE(h, HDRP(bp)) + next_s
    IN  [h |-> insert_list(SetTags(t, bp - prev_s, size, 0), bp - prev_s), bp |-> bp - prev_s]

(* Merge the free block bp with its free neighbours and list the result.   *)
coalesce(h, bp) ==
    LET prev == PREV_BLKP(h, bp)
        next == NEXT_BLKP(h, bp)
        prev_alloc == GETALLOC(h, FTRP(h, prev)) = 1
        next_alloc == GETALLOC(h, HDRP(next)) = 1
        t == IF prev_alloc THEN h ELSE remove_list(h, prev)
        u == IF next_alloc THEN t ELSE remove_list(t, next)
        prev_s == IF prev_alloc THEN 0 ELSE GETSIZE(h, FTRP(h, prev))
        next_s == IF next_alloc THEN 0 ELSE GETSIZE(h, HDRP(next))
        new == bp - prev_s
        size == prev_s + GETSIZE(h, HDRP(bp)) + next_s
    IN  IF prev_alloc /\ next_alloc
        THEN [h |-> insert_list(h, bp), bp |-> bp]
        ELSE [h |-> insert_list(SetTags(u, new, size, 0), new), bp |-> new]

(* mem_sbrk gives the old break, or fails at the end of memory.            *)
mem_sbrk(h, incr) ==
    IF incr < 0 \/ h.brk + incr > MAX_HEAP
    THEN [ok |-> FALSE, h |-> h, bp |-> NULL]
    ELSE [ok |-> TRUE, h |-> [h EXCEPT !.brk = @ + incr], bp |-> h.brk]

(* The old epilogue becomes the header of the new block.                   *)
extend_heap(h, words) ==
    LET size == IF words % 2 = 0 THEN words * WSIZE ELSE (words + 1) * WSIZE
        m == mem_sbrk(h, size)
        t == SetTags(m.h, m.bp, size, 0)
        r == coalesce(PUT(t, HDRP(NEXT_BLKP(t, m.bp)), PACK(0, 1)), m.bp)
    IN  IF m.ok THEN [ok |-> TRUE, h |-> r.h, bp |-> r.bp] ELSE m

(* Mutant: the overhead is left out of the comparison.                     *)
FitsPayload(size, asize) == size >= asize - DSIZE

(* A block is used if it is exact or can be split.                         *)
Fits(size, asize) == size = asize \/ size >= asize + 2 * DSIZE

(* Best fit: the smallest block, the first met among equals.               *)
find_fit(h, asize) ==
    LET list  == [c \in Classes |-> Chain(h, c)]
        size(f) == GETSIZE(h, HDRP(list[f[1]][f[2]]))
        found == {f \in (find_class(asize) .. CLASS_SIZE - 1) \X (1 .. MaxBlocks) :
                      f[2] \in DOMAIN list[f[1]] /\ Fits(size(f), asize)}
        best  == CHOOSE f \in found : \A g \in found :
                    \/ size(f) < size(g)
                    \/ size(f) = size(g) /\ (f[1] < g[1] \/ (f[1] = g[1] /\ f[2] <= g[2]))
    IN  IF found = {} THEN NULL ELSE list[best[1]][best[2]]

(* Make prev_size bytes at bp an allocated block of asize bytes and, when  *)
(* a block is left over, a free one behind it that is yet to be listed.    *)
LeavesBlock(prev_size, asize) == prev_size - asize >= 2 * DSIZE

Split(h, bp, prev_size, asize) ==
    IF LeavesBlock(prev_size, asize)
    THEN SetTags(SetTags(h, bp, asize, 1), bp + asize, prev_size - asize, 0)
    ELSE SetTags(h, bp, prev_size, 1)

SplitAndList(h, bp, prev_size, asize) ==
    LET t == Split(h, bp, prev_size, asize)
    IN  IF LeavesBlock(prev_size, asize) THEN insert_list(t, bp + asize) ELSE t

place(h, bp, asize) ==
    SplitAndList(remove_list(h, bp), bp, GETSIZE(h, HDRP(bp)), asize)

(* Memory as mem_reset_brk leaves it, here zeroed, laid out by mm_init: no *)
(* list, the prologue, the epilogue and a first free block.                *)
mm_init ==
    LET empty == [mem |-> [a \in Words |-> 0], free_list |-> [c \in Classes |-> NULL],
                  brk |-> prologue + DSIZE]
        t == PUT(SetTags(empty, prologue, DSIZE, 1), HDRP(prologue + DSIZE), PACK(0, 1))
    IN  extend_heap(t, (2 * DSIZE) \div WSIZE).h

(* The block that serves a request of size bytes.                          *)
Adjust(size) ==
    IF size <= DSIZE THEN 2 * DSIZE
    ELSE DSIZE * ((size + DSIZE + (DSIZE - 1)) \div DSIZE)

mm_malloc(h, size) ==
    LET asize == Adjust(size)
        fit == find_fit(h, asize)
        more == extend_heap(h, asize \div WSIZE)
    IN  IF size <= 0 THEN [h |-> h, p |-> NULL]
        ELSE IF fit # NULL THEN [h |-> place(h, fit, asize), p |-> fit]
        ELSE IF more.ok THEN [h |-> place(more.h, more.bp, asize), p |-> more.bp]
        ELSE [h |-> h, p |-> NULL]

(* Mutant: the footer still says allocated.                                *)
mm_freeHeaderOnly(h, p) ==
    IF p = NULL THEN h
    ELSE coalesce(PUT(h, HDRP(p), PACK(GETSIZE(h, HDRP(p)), 0)), p).h

mm_free(h, p) ==
    IF p = NULL THEN h
    ELSE coalesce(SetTags(h, p, GETSIZE(h, HDRP(p)), 0), p).h

memcpy(h, dst, src, n) ==
    [h EXCEPT !.mem = [a \in Words |-> IF a \in dst .. dst + n - 1
                                       THEN h.mem[src + (a - dst)] ELSE @[a]]]

(* Mutants: a moved block is not freed; it is freed before the move.       *)
mm_reallocKeepsOld(h, p, size) ==
    LET prev_size == GETSIZE(h, HDRP(p))
        new == mm_malloc(h, Adjust(size))
    IN  IF prev_size >= Adjust(size) THEN [h |-> h, p |-> p]
        ELSE IF new.p = NULL THEN [h |-> h, p |-> NULL]
        ELSE [h |-> memcpy(new.h, new.p, p, prev_size - 2 * WSIZE), p |-> new.p]

mm_reallocFreeFirst(h, p, size) ==
    LET prev_size == GETSIZE(h, HDRP(p))
        new == mm_malloc(mm_free(h, p), Adjust(size))
    IN  IF prev_size >= Adjust(size) THEN [h |-> h, p |-> p]
        ELSE IF new.p = NULL THEN new
        ELSE [h |-> memcpy(new.h, new.p, p, prev_size - 2 * WSIZE), p |-> new.p]

(* Shrink in place, grow into a free next block, or move.                  *)
mm_realloc(h, p, size) ==
    LET asize == Adjust(size)
        prev_size == GETSIZE(h, HDRP(p))
        next == NEXT_BLKP(h, p)
        prev_alloc == GETALLOC(h, FTRP(h, PREV_BLKP(h, p))) = 1
        next_alloc == GETALLOC(h, HDRP(next)) = 1
        both == prev_size + GETSIZE(h, HDRP(next))
        cut == Split(h, p, prev_size, asize)
        new == mm_malloc(h, asize)
    IN  IF p = NULL THEN mm_malloc(h, size)
        ELSE IF size = 0 THEN [h |-> mm_free(h, p), p |-> NULL]
        ELSE IF prev_size >= asize
        THEN [h |-> IF LeavesBlock(prev_size, asize) THEN coalesce(cut, p + asize).h ELSE cut,
              p |-> p]
        ELSE IF prev_alloc /\ ~next_alloc /\ both >= asize
        THEN [h |-> SplitAndList(remove_list(h, next), p, both, asize), p |-> p]
        ELSE IF new.p = NULL THEN [h |-> h, p |-> NULL]
        ELSE [h |-> mm_free(memcpy(new.h, new.p, p, prev_size - 2 * WSIZE), p), p |-> new.p]
=============================================================================
