------------------------------ MODULE Mdriver -------------------------------
(***************************************************************************)
(* The malloc driver as the judge of a package it knows nothing about:     *)
(* mm_malloc and mm_realloc may return any address, copy a block's bytes   *)
(* or not, and fail at any request.  Every trace is run for correctness,   *)
(* then for utilization, then for speed, once; before, by libc (-l).       *)
(***************************************************************************)
EXTENDS Integers, FiniteSetsExt, SequencesExt

CONSTANTS TraceFiles,     \* sequences of requests [type, index, size]
          NumTraces,
          HeapHi,         \* mem_heap_hi(): the heap is 0 .. HeapHi
          Addresses       \* what the package may return

(* The blocks that k requests of a trace leave allocated.  A trace resizes *)
(* and frees what is allocated, allocates what is not, and asks for bytes. *)
HeldAfter(t, k) ==
    {t[i].index : i \in {j \in 1 .. k : \A l \in j .. k : t[l].index = t[j].index => t[l].type # "f"}}

ASSUME TraceAssumption ==
    \A t \in TraceFiles :
        /\ t \in Seq([type : {"a", "r", "f"}, index : Nat, size : Nat])
        /\ \A k \in 1 .. Len(t) :
              /\ t[k].type = "a" <=> t[k].index \notin HeldAfter(t, k - 1)
              /\ t[k].type # "f" => t[k].size > 0
ASSUME DriverAssumption == NumTraces \in Nat \ {0} /\ HeapHi \in Nat /\ Addresses \subseteq Int

VARIABLES evaluation,     \* "libc_valid", "libc_speed", "valid", "util", "speed", "finished", "exited"
          tracenum, trace, opnum,
          mm_blocks, mm_sizes,    \* trace->blocks and trace->block_sizes
          payloads,       \* the range list, the latest first
          bytes,          \* what is in the heap
          total_size, max_total_size,
          mm_errors, numcorrect, perfindex,
          broken,         \* whether the package has broken its contract
          enclosed        \* whether it has put a payload around one that was there
mdriverVars == <<evaluation, tracenum, trace, opnum, mm_blocks, mm_sizes, payloads, bytes,
                 total_size, max_total_size, mm_errors, numcorrect, perfindex, broken, enclosed>>

NIL   == -1
Heap  == 0 .. HeapHi
Align == 8
Low(index) == index % 256               \* index & 0xFF
Extent(lo, size) == [lo |-> lo, hi |-> lo + size - 1]
Within(r) == {a \in Heap : r.lo <= a /\ a <= r.hi}

read_trace(t) ==
    /\ trace' = t /\ opnum' = 1
    /\ mm_blocks' = <<>> /\ mm_sizes' = <<>> /\ payloads' = <<>>
    /\ bytes' = [a \in Heap |-> 0]
    /\ total_size' = 0 /\ max_total_size' = 0

MdriverInit ==
    /\ evaluation = "libc_valid" /\ tracenum = 1 /\ trace \in TraceFiles /\ opnum = 1
    /\ mm_blocks = <<>> /\ mm_sizes = <<>> /\ payloads = <<>>
    /\ bytes = [a \in Heap |-> 0]
    /\ total_size = 0 /\ max_total_size = 0
    /\ mm_errors = 0 /\ numcorrect = 0 /\ perfindex = "none"
    /\ broken = FALSE /\ enclosed = FALSE

Op == trace[opnum]
Requested(stages, type) == evaluation \in stages /\ opnum <= Len(trace) /\ Op.type = type
Replay == {"libc_valid", "libc_speed", "speed"}
Put(f, x, y) == [z \in DOMAIN f \cup {x} |-> IF z = x THEN y ELSE f[z]]

-----------------------------------------------------------------------------
(* eval_mm_valid: the checks on an answer, and what the contract asks.     *)
LowEndIn(r, p) == r.lo >= p.lo /\ r.lo <= p.hi                  \* mutant
Overlap(r, p)  == LowEndIn(r, p) \/ (r.hi >= p.lo /\ r.hi <= p.hi)

RangeError(r, list) ==
    \/ r.lo % Align # 0
    \/ r.lo \notin Heap \/ r.hi \notin Heap
    \/ \E i \in DOMAIN list : Overlap(r, list[i])

Removed(list, lo) ==
    LET hits == {i \in DOMAIN list : list[i].lo = lo}
    IN  IF hits = {} THEN list ELSE RemoveAt(list, Min(hits))

Others(index) == {Extent(mm_blocks[i], mm_sizes[i]) : i \in DOMAIN mm_blocks \ {index}}
Encloses(r, list) == \E i \in DOMAIN list : r.lo < list[i].lo /\ list[i].hi < r.hi
HonoursContract(r, index) ==
    /\ r.lo % Align = 0 /\ r.lo \in Heap /\ r.hi \in Heap
    /\ \A o \in Others(index) : Within(r) \cap Within(o) = {}

(* The heap after realloc has copied keep bytes to p, or has not.          *)
Copied(from, p, keep, done) ==
    [a \in Heap |-> IF done /\ a \in p .. p + keep - 1 THEN bytes[from + a - p] ELSE bytes[a]]
Preserved(heap, p, keep, index) ==
    \A a \in {b \in Heap : p <= b /\ b < p + keep} : heap[a] = Low(index)

malloc_error == mm_errors' = mm_errors + 1

(* mdriver gives a trace up at the first error and reads the next one.     *)
NextTrace(stats) ==
    IF tracenum < NumTraces
    THEN /\ tracenum' = tracenum + 1 /\ evaluation' = "valid"
         /\ \E t \in TraceFiles : read_trace(t)
         /\ UNCHANGED perfindex
    ELSE /\ evaluation' = "finished"
         /\ perfindex' = IF stats = 0 THEN "scored" ELSE "zero"
         /\ UNCHANGED <<tracenum, trace, opnum, mm_blocks, mm_sizes, payloads, bytes,
                        total_size, max_total_size>>

(* An answer p of the package, after which heap is in memory and list are  *)
(* the ranges of the other blocks; keep bytes must have stayed.            *)
Judge(p, index, size, list, heap, keep) ==
    LET r == Extent(p, size)
    IN  /\ broken' = \/ broken \/ p = NIL \/ ~HonoursContract(r, index)
                     \/ ~Preserved(heap, p, keep, index)
        /\ enclosed' = (enclosed \/ (p # NIL /\ Encloses(r, list)))
        /\ UNCHANGED numcorrect
        /\ IF p = NIL \/ RangeError(r, list) \/ ~Preserved(heap, p, keep, index)
           THEN malloc_error /\ NextTrace(mm_errors')
           ELSE /\ payloads' = <<r>> \o list
                /\ bytes' = [a \in Heap |-> IF a \in Within(r) THEN Low(index) ELSE heap[a]]
                /\ mm_blocks' = Put(mm_blocks, index, p) /\ mm_sizes' = Put(mm_sizes, index, size)
                /\ opnum' = opnum + 1
                /\ UNCHANGED <<evaluation, tracenum, trace, total_size, max_total_size, mm_errors, perfindex>>

InitFails ==
    /\ evaluation = "valid" /\ opnum = 1
    /\ malloc_error /\ NextTrace(mm_errors') /\ broken' = TRUE
    /\ UNCHANGED <<numcorrect, enclosed>>

ValidAlloc == \E p \in Addresses \cup {NIL} :
    /\ Requested({"valid"}, "a")
    /\ Judge(p, Op.index, Op.size, payloads, bytes, 0)

ValidRealloc == \E p \in Addresses \cup {NIL}, copies \in BOOLEAN :
    /\ Requested({"valid"}, "r")
    /\ LET old  == mm_blocks[Op.index]
           keep == Min({Op.size, mm_sizes[Op.index]})
       IN  Judge(p, Op.index, Op.size, Removed(payloads, old),
                 Copied(old, p, keep, copies), keep)

Without(f, x) == [z \in DOMAIN f \ {x} |-> f[z]]
ValidFree ==
    /\ Requested({"valid"}, "f")
    /\ payloads' = Removed(payloads, mm_blocks[Op.index])
    /\ mm_blocks' = Without(mm_blocks, Op.index) /\ mm_sizes' = Without(mm_sizes, Op.index)
    /\ opnum' = opnum + 1
    /\ UNCHANGED <<evaluation, tracenum, trace, bytes, total_size, max_total_size, mm_errors,
                   numcorrect, perfindex, broken, enclosed>>

-----------------------------------------------------------------------------
(* eval_mm_util asks again, checks nothing, and ends the program if a      *)
(* request fails; block_sizes it overwrites.                               *)
AddsNewSize(size) == total_size + size                          \* mutant
Grown(size) ==
    total_size + size - (IF Op.type = "r" THEN mm_sizes[Op.index] ELSE 0)

app_error == /\ evaluation' = "exited"
             /\ UNCHANGED <<tracenum, trace, opnum, mm_blocks, mm_sizes, payloads, bytes,
                            total_size, max_total_size, mm_errors, numcorrect, perfindex,
                            broken, enclosed>>

UtilRequest ==
    /\ \/ Requested({"util"}, "a")
       \/ Requested({"util"}, "r")
    /\ total_size' = Grown(Op.size)
    /\ max_total_size' = Max({total_size', max_total_size})
    /\ mm_sizes' = Put(mm_sizes, Op.index, Op.size)
    /\ opnum' = opnum + 1
    /\ UNCHANGED <<evaluation, tracenum, trace, mm_blocks, payloads, bytes, mm_errors,
                   numcorrect, perfindex, broken, enclosed>>

UtilFree ==
    /\ Requested({"util"}, "f")
    /\ total_size' = total_size - mm_sizes[Op.index]
    /\ opnum' = opnum + 1
    /\ UNCHANGED <<evaluation, tracenum, trace, mm_blocks, mm_sizes, payloads, bytes, max_total_size,
                   mm_errors, numcorrect, perfindex, broken, enclosed>>

(* eval_mm_speed and the two evaluations of libc look at no answer at all. *)
ReplayRequest ==
    /\ evaluation \in Replay /\ opnum <= Len(trace)
    /\ opnum' = opnum + 1
    /\ UNCHANGED <<evaluation, tracenum, trace, mm_blocks, mm_sizes, payloads, bytes, total_size,
                   max_total_size, mm_errors, numcorrect, perfindex, broken, enclosed>>

(* eval_libc_valid counts an error first, which the exit makes of no use.  *)
RequestFails ==
    /\ evaluation \in Replay \cup {"util"} /\ opnum <= Len(trace) /\ Op.type # "f"
    /\ app_error

-----------------------------------------------------------------------------
(* What main does when an evaluation has come to the end of a trace.       *)
EndOf(stage) == evaluation = stage /\ opnum > Len(trace)
Restart(stage) ==
    /\ evaluation' = stage /\ opnum' = 1
    /\ UNCHANGED <<tracenum, trace, mm_blocks, payloads, bytes, total_size, max_total_size,
                   mm_errors, perfindex, broken, enclosed>>

Valid ==
    /\ EndOf("valid") /\ Restart("util")
    /\ numcorrect' = numcorrect + 1 /\ UNCHANGED mm_sizes

EvaluatedUtil == EndOf("util") /\ Restart("speed") /\ UNCHANGED <<numcorrect, mm_sizes>>
LibcValid     == EndOf("libc_valid") /\ Restart("libc_speed") /\ UNCHANGED <<numcorrect, mm_sizes>>

EvaluatedSpeed ==
    /\ EndOf("speed") /\ NextTrace(mm_errors)
    /\ UNCHANGED <<mm_errors, numcorrect, broken, enclosed>>

(* All the traces run in libc before the first one does in mm; their order *)
(* is of no account, and one stands for all.                               *)
LibcSpeed ==
    /\ EndOf("libc_speed") /\ evaluation' = "valid"
    /\ \E t \in TraceFiles : read_trace(t)
    /\ UNCHANGED <<tracenum, mm_errors, numcorrect, perfindex, broken, enclosed>>

MdriverNext ==
    \/ InitFails \/ ValidAlloc \/ ValidRealloc \/ ValidFree \/ UtilRequest \/ UtilFree \/ ReplayRequest
    \/ RequestFails \/ Valid \/ EvaluatedUtil \/ EvaluatedSpeed \/ LibcValid \/ LibcSpeed
MdriverSpec == MdriverInit /\ [][MdriverNext]_mdriverVars

-----------------------------------------------------------------------------
(* The driver reports an error exactly when the package has broken its     *)
(* contract, which is to start, and to return aligned blocks in the heap,  *)
(* apart from every other, with the old bytes in them; and it scores the   *)
(* package exactly when no trace had one.  The one thing it may miss is a  *)
(* payload put around another with room on both sides (add_range asks only *)
(* whether an end of the new one lies in the old).                         *)
VerdictExact ==
    ~enclosed => /\ mm_errors > 0 <=> broken
                 /\ evaluation = "finished" =>
                       (perfindex = "scored" <=> numcorrect = NumTraces)

(* The utilization counts the most bytes the trace ever has allocated.     *)
AllocatedAfter(k) ==
    LET last(index) == {i \in 1 .. k : trace[i].index = index}
        live == {i \in 1 .. k : i = Max(last(trace[i].index)) /\ trace[i].type # "f"}
    IN  MapThenSumSet(LAMBDA i : trace[i].size, live)

HighWaterMark ==
    evaluation = "util" =>
        /\ total_size = AllocatedAfter(opnum - 1)
        /\ max_total_size = Max({AllocatedAfter(k) : k \in 0 .. opnum - 1})
=============================================================================
