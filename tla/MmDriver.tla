----------------------------- MODULE MmDriver -----------------------------
(***************************************************************************)
(* A trace of requests run against the malloc package, as eval_mm_valid    *)
(* of malloc lab/mdriver.c does: it remembers every block with its size,   *)
(* fills it with a byte that names it, checks ranges and contents, and     *)
(* gives up at the first request that fails.                               *)
(***************************************************************************)
EXTENDS Mm

CONSTANTS
    Ids,            \* indices of blocks in a trace
    Sizes           \* sizes of requests, in bytes

ASSUME IdsAssumption == Ids \subseteq 1 .. 255
ASSUME SizesAssumption == Sizes \subseteq Nat

VARIABLES
    heap,           \* the package's memory
    blocks,         \* trace->blocks, NULL for an index that is not allocated
    block_sizes,    \* trace->block_sizes
    ranges,         \* the list of payload extents
    outcome         \* the trace runs, a request failed, or a check did

vars == <<heap, blocks, block_sizes, ranges, outcome>>

Init ==
    /\ heap = mm_init
    /\ blocks = [i \in Ids |-> NULL] /\ block_sizes = [i \in Ids |-> 0]
    /\ ranges = {}
    /\ outcome = "running"

ALIGNMENT == 8
mem_heap_lo == 0
mem_heap_hi(h) == h.brk - 1

Overlaps(lo, hi, r) == lo \in r.lo .. r.hi \/ hi \in r.lo .. r.hi

(* The checks that add_range makes before it records a payload.            *)
RangeOK(h, rs, lo, size) ==
    LET hi == lo + size - 1
    IN  /\ lo % ALIGNMENT = 0
        /\ {lo, hi} \subseteq mem_heap_lo .. mem_heap_hi(h)
        /\ \A r \in rs : ~Overlaps(lo, hi, r)

add_range(rs, lo, size) == rs \cup {[lo |-> lo, hi |-> lo + size - 1]}
remove_range(rs, lo)    == {r \in rs : r.lo # lo}

(* A word stands for its four bytes, which hold the same index.            *)
Payload(p, size) == {a \in Words : a \in p .. p + size - 1}

memset(h, p, index, size) ==
    [h EXCEPT !.mem = [a \in Words |-> IF a \in Payload(p, size) THEN index ELSE @[a]]]

MinOf(a, b) == IF a < b THEN a ELSE b

(* What the driver does with the answer of mm_malloc or mm_realloc: fail,  *)
(* find it wrong, or fill the block and remember it.  Bytes keep of the    *)
(* block must hold the index already.                                      *)
Answer(r, rs, index, size, keep) ==
    IF r.p = NULL
    THEN /\ outcome' = "failed" /\ heap' = r.h
         /\ UNCHANGED <<blocks, block_sizes, ranges>>
    ELSE IF RangeOK(r.h, rs, r.p, size) /\ \A a \in Payload(r.p, keep) : r.h.mem[a] = index
    THEN /\ heap' = memset(r.h, r.p, index, size)
         /\ ranges' = add_range(rs, r.p, size)
         /\ blocks' = [blocks EXCEPT ![index] = r.p]
         /\ block_sizes' = [block_sizes EXCEPT ![index] = size]
         /\ UNCHANGED outcome
    ELSE /\ outcome' = "invalid" /\ heap' = r.h
         /\ UNCHANGED <<blocks, block_sizes, ranges>>

(* A trace numbers its blocks in the order of their allocation.            *)
Alloc(index, size) ==
    /\ outcome = "running" /\ blocks[index] = NULL
    /\ \A i \in Ids : i < index => blocks[i] # NULL
    /\ Answer(mm_malloc(heap, size), ranges, index, size, 0)

Realloc(index, size) ==
    /\ outcome = "running" /\ blocks[index] # NULL
    /\ Answer(mm_realloc(heap, blocks[index], size), remove_range(ranges, blocks[index]),
              index, size, MinOf(size, block_sizes[index]))

Free(index) ==
    /\ outcome = "running" /\ blocks[index] # NULL
    /\ heap' = mm_free(heap, blocks[index])
    /\ ranges' = remove_range(ranges, blocks[index])
    /\ blocks' = [blocks EXCEPT ![index] = NULL]
    /\ block_sizes' = [block_sizes EXCEPT ![index] = 0]
    /\ UNCHANGED outcome

(* The driver goes on to the next trace with an empty heap.                *)
NextTrace ==
    /\ heap' = mm_init
    /\ blocks' = [i \in Ids |-> NULL] /\ block_sizes' = [i \in Ids |-> 0]
    /\ ranges' = {} /\ outcome' = "running"

Next ==
    \/ \E i \in Ids, size \in Sizes : Alloc(i, size) \/ Realloc(i, size)
    \/ \E i \in Ids : Free(i)
    \/ NextTrace

Spec == Init /\ [][Next]_vars

----------------------------------------------------------------------------
Live == {i \in Ids : blocks[i] # NULL}

Pointers == {a \in Words : a % ALIGNMENT = 0} \cup {NULL}

TypeOK ==
    /\ heap.mem \in [Words -> Nat] /\ heap.free_list \in [Classes -> Pointers]
    /\ heap.brk \in prologue .. MAX_HEAP
    /\ blocks \in [Ids -> Pointers] /\ block_sizes \in [Ids -> Nat]
    /\ \A r \in ranges : r \in [lo : Nat, hi : Nat]
    /\ outcome \in {"running", "failed", "invalid"}

(* The blocks from the prologue to the epilogue, found through headers.    *)
BlockSet ==
    LET reached[i \in 1 .. MaxBlocks] ==
            IF i = 1 THEN {prologue + DSIZE}
            ELSE LET bs == reached[i - 1]
                 IN  bs \cup {b \in {NEXT_BLKP(heap, a) : a \in bs} : b < heap.brk}
    IN  reached[MaxBlocks]

FreeBlocks == {b \in BlockSet : GETALLOC(heap, HDRP(b)) = 0}

(* What mm_check means to check (mm.c:451, 481, 512, 525): the blocks fill *)
(* the heap up to the epilogue, each as large as a block must be and with  *)
(* a footer that repeats its header, and no two neighbours are free; every *)
(* word, list head and block keeps its type.                               *)
HeapWellFormed ==
    /\ TypeOK
    /\ heap.mem[HDRP(heap.brk)] = PACK(0, 1)
    /\ \A b \in BlockSet :
          /\ b % ALIGNMENT = 0 /\ GETSIZE(heap, HDRP(b)) >= 2 * DSIZE
          /\ NEXT_BLKP(heap, b) <= heap.brk
          /\ heap.mem[FTRP(heap, b)] = heap.mem[HDRP(b)]
    /\ \A b \in FreeBlocks : NEXT_BLKP(heap, b) \notin FreeBlocks

(* mm.c:434, 469, 493: the lists hold every free block once, in the list   *)
(* of its size, and are linked both ways.                                  *)
FreeListsExact ==
    \A c \in Classes :
        LET s == Chain(heap, c)
        IN  /\ ToSet(s) = {b \in FreeBlocks : find_class(GETSIZE(heap, HDRP(b))) = c}
            /\ IsInjective(s)
            /\ \A i \in DOMAIN s :
                  LIST_PREVP(heap, s[i]) = IF i = 1 THEN NULL ELSE s[i - 1]

(* While the trace runs, the allocated blocks are the ones the program     *)
(* holds, each large enough: nothing is lost, nothing handed out twice.    *)
BlocksAccounted ==
    outcome = "running" =>
        /\ BlockSet \ FreeBlocks = {blocks[i] : i \in Live}
        /\ \A i, k \in Live : blocks[i] = blocks[k] => i = k
        /\ \A i \in Live : GETSIZE(heap, HDRP(blocks[i])) >= block_sizes[i] + DSIZE

(* The package never writes into a payload that the program holds, and     *)
(* realloc moves it unharmed.                                              *)
ContentsIntact ==
    outcome # "invalid" =>
        \A i \in Live : \A a \in Payload(blocks[i], block_sizes[i]) : heap.mem[a] = i

(* No trace makes the driver report the package as incorrect.              *)
TraceValid == outcome # "invalid"

(* A request that fails changes nothing the program or the next request    *)
(* could notice.                                                           *)
FailureHarmless == [][outcome' = "failed" => heap' = heap]_vars
=============================================================================
