------------------------------- MODULE Trans --------------------------------
(***************************************************************************)
(* The transpositions of trans.c under test-trans: tracegen calls one of   *)
(* them between two markers and validates the result, the accesses in      *)
(* between go through a direct-mapped cache of 32 blocks of 32 bytes       *)
(* (csim-ref), and the misses of the submission become its score           *)
(* (driver.py).  One step is one pass of the innermost loop that is        *)
(* written as such; matrices lie row by row in memory as the linker has    *)
(* placed them for trace.f0: 256*256 ints of A, as many of B, then the     *)
(* variables of tracegen and func_list.                                    *)
(***************************************************************************)
EXTENDS Integers, SequencesExt

CONSTANT Sizes            \* of matrices: pairs <<M, N>>, A has N rows of M

ASSUME SizesAssumption == Sizes \subseteq (Nat \ {0}) \X (Nat \ {0})

VARIABLES M, N, func, stage, n, B, cache, misses, results
transVars == <<M, N, func, stage, n, B, cache, misses, results>>

func_list == <<"transpose_submit", "trans">>
INT_MAX   == 2147483647
Sets      == 32
Cells     == 0 .. 67 * 67         \* of a matrix, or behind it in its array

A(cell) == cell                   \* initMatrix: the values tell cells apart
Junk    == -1

-----------------------------------------------------------------------------
(* Accesses: a load into one of a0 ... a7 (here 1 to 8), a store from it.  *)
LoadA(r, c, a)  == [op |-> "L", of |-> "A", cell |-> r * M + c, a |-> a]
LoadB(r, c, a)  == [op |-> "L", of |-> "B", cell |-> r * N + c, a |-> a]
StoreB(r, c, a) == [op |-> "S", of |-> "B", cell |-> r * N + c, a |-> a]
Copy(r, c) == <<LoadA(r, c, 1), StoreB(c, r, 1)>>

(* N = 32: row ii of an 8 x 8 block of A to a column of B.                 *)
Pass32Direct(q) ==                                              \* mutant
    LET i == 8 * (q \div 32)  j == 8 * ((q \div 8) % 4)  ii == i + (q % 8)
    IN  FlattenSeq([k \in 1 .. 8 |-> Copy(ii, j + k - 1)])
Pass32SameColumn(q) ==                                          \* mutant: i where ii is meant
    LET i == 8 * (q \div 32)  j == 8 * ((q \div 8) % 4)  ii == i + (q % 8)
    IN  [k \in 1 .. 8 |-> LoadA(ii, j + k - 1, k)] \o [k \in 1 .. 8 |-> StoreB(j + k - 1, i, k)]
Pass32(q) ==
    LET i == 8 * (q \div 32)  j == 8 * ((q \div 8) % 4)  ii == i + (q % 8)
    IN  [k \in 1 .. 8 |-> LoadA(ii, j + k - 1, k)] \o [k \in 1 .. 8 |-> StoreB(j + k - 1, ii, k)]

(* N = 64: the upper half of the block, its right quarter parked to the    *)
(* right of where the left one goes; then, column by column, the parked    *)
(* quarter moves down and the lower left one takes its place; then the     *)
(* lower right quarter.                                                    *)
Upper(i, j, ii) ==
    [k \in 1 .. 8 |-> LoadA(ii, j + k - 1, k)]
    \o [k \in 1 .. 4 |-> StoreB(j + k - 1, ii, k)] \o [k \in 1 .. 4 |-> StoreB(j + k - 1, ii + 4, k + 4)]

Middle(i, j, jj) ==
    [k \in 1 .. 4 |-> LoadB(jj, i + 4 + k - 1, k)] \o [k \in 1 .. 4 |-> LoadA(i + 4 + k - 1, jj, k + 4)]
    \o [k \in 1 .. 4 |-> StoreB(jj, i + 4 + k - 1, k + 4)] \o [k \in 1 .. 4 |-> StoreB(jj + 4, i + k - 1, k)]

LowerRowsOff(i, j, ii) ==                                       \* mutant
    [k \in 1 .. 4 |-> LoadA(ii + 4, j + 4 + k - 1, k)] \o [k \in 1 .. 4 |-> StoreB(j + k - 1, ii + 4, k)]
Lower(i, j, ii) ==
    [k \in 1 .. 4 |-> LoadA(ii + 4, j + 4 + k - 1, k)] \o [k \in 1 .. 4 |-> StoreB(j + 4 + k - 1, ii + 4, k)]

Pass64(q) ==
    LET i == 8 * (q \div 96)  j == 8 * ((q \div 12) % 8)  p == q % 12
    IN  CASE p < 4 -> Upper(i, j, i + p)
          [] p \in 4 .. 7 -> Middle(i, j, j + p - 4)
          [] p > 7 -> Lower(i, j, i + p - 8)

(* N = 67: blocks of 16 x 16, cut off at the last row and column.          *)
Pass67(q) ==
    LET i == 16 * (q \div 64)  j == 16 * ((q \div 16) % 4)  ii == i + (q % 16)
    IN  IF ii >= 67 THEN <<>>
        ELSE FlattenSeq([c \in 1 .. (IF j + 16 < 61 THEN 16 ELSE 61 - j) |-> Copy(ii, j + c - 1)])

(* What the chosen function does, pass after pass.                         *)
Passes == IF func_list[func] = "trans" THEN N
          ELSE CASE N = 32 -> 128  [] N = 64 -> 768  [] N = 67 -> 320
                 [] OTHER -> 0
Pass(k) == IF func_list[func] = "trans" THEN FlattenSeq([c \in 1 .. M |-> Copy(k, c - 1)])
           ELSE CASE N = 32 -> Pass32(k)  [] N = 64 -> Pass64(k)  [] N = 67 -> Pass67(k)

-----------------------------------------------------------------------------
Block(x) == (IF x.of = "A" THEN 0 ELSE 8192) + x.cell \div 8

(* csim-ref -s 5 -E 1 -b 5: what the accesses do to cache and misses.      *)
Touch(c, block) ==
    IF c.cache[block % Sets] = block THEN c
    ELSE [cache |-> [c.cache EXCEPT ![block % Sets] = block], misses |-> c.misses + 1]
Cached(blocks) ==
    LET after[k \in 0 .. Len(blocks)] ==
            IF k = 0 THEN [cache |-> cache, misses |-> misses] ELSE Touch(after[k-1], blocks[k])
    IN  after[Len(blocks)]

(* What they do to the variables a0 ... a7 and to B.                       *)
Perform(s, x) ==
    CASE x.op = "S" -> [s EXCEPT !.B[x.cell] = s.a[x.a]]
      [] x.op = "L" /\ x.of = "A" -> [s EXCEPT !.a[x.a] = A(x.cell)]
      [] x.op = "L" /\ x.of = "B" -> [s EXCEPT !.a[x.a] = s.B[x.cell]]
Performed(xs) ==
    LET after[k \in 0 .. Len(xs)] ==
            IF k = 0 THEN [B |-> B, a |-> [v \in 1 .. 8 |-> Junk]] ELSE Perform(after[k-1], xs[k])
    IN  after[Len(xs)].B

Tracegen == <<16384, 16385, 16384, 16384>>    \* MARKER_START, func_ptr, N, M
TracegenEnd == <<16384>>                      \* MARKER_END

EmptyCache == [s \in 0 .. Sets - 1 |-> Junk]
Unknown    == [correct |-> 0, misses |-> INT_MAX]

TransInit ==
    /\ M = 0 /\ N = 0 /\ func = 1 /\ stage = "start" /\ n = 0
    /\ B = <<>>
    /\ cache = EmptyCache /\ misses = 0
    /\ results = Unknown

Start ==
    /\ stage = "start" /\ stage' = "called"
    /\ \E s \in Sizes : M' = s[1] /\ N' = s[2]
    /\ UNCHANGED <<func, n, B, cache, misses, results>>

Call ==
    /\ stage = "called" /\ stage' = "running" /\ n' = 0
    /\ B' = [c \in Cells |-> Junk]
    /\ LET c == Cached(Tracegen)  IN cache' = c.cache /\ misses' = c.misses
    /\ UNCHANGED <<M, N, func, results>>

RunPass ==
    /\ stage = "running" /\ n < Passes
    /\ B' = Performed(Pass(n))
    /\ LET xs == Pass(n)  c == Cached([k \in DOMAIN xs |-> Block(xs[k])])
       IN  cache' = c.cache /\ misses' = c.misses
    /\ n' = n + 1
    /\ UNCHANGED <<M, N, func, stage, results>>

Return ==
    /\ stage = "running" /\ n = Passes /\ stage' = "evaluated"
    /\ LET c == Cached(TracegenEnd)  IN cache' = c.cache /\ misses' = c.misses
    /\ UNCHANGED <<M, N, func, n, B, results>>

Transposed(r, c) == B[c * N + r] = A(r * M + c)
validate == \A r \in 0 .. N - 1, c \in 0 .. M - 1 : Transposed(r, c)

(* eval_perf records the submission's result and goes on to the next       *)
(* function, in a process of its own; its matrices are the same again.     *)
Evaluate ==
    /\ stage = "evaluated"
    /\ results' = IF func_list[func] # "transpose_submit" THEN results
                  ELSE IF validate THEN [correct |-> 1, misses |-> misses]
                  ELSE Unknown
    /\ IF func < Len(func_list) THEN func' = func + 1 /\ stage' = "called"
       ELSE stage' = "done" /\ UNCHANGED func
    /\ B' = <<>> /\ cache' = EmptyCache /\ misses' = 0
    /\ UNCHANGED <<M, N, n>>

TransNext == Start \/ Call \/ RunPass \/ Return \/ Evaluate
TransSpec == TransInit /\ [][TransNext]_transVars

-----------------------------------------------------------------------------
(* driver.py: full points up to this many misses.                          *)
Handout == {<<32, 32>>, <<64, 64>>, <<61, 67>>}
lower   == [s \in Handout |-> CASE s = <<32, 32>> -> 300 [] s = <<64, 64>> -> 1300 [] s = <<61, 67>> -> 2000]

(* Each function has transposed A when it returns, for the sizes that the  *)
(* driver asks for: 64 loses nothing that it parks in B and reads back.    *)
(* A size that the submission does nothing for is not taken for correct.   *)
Transposes ==
    /\ stage = "evaluated" /\ <<M, N>> \in Handout => validate
    /\ stage = "done" /\ N \notin {32, 64, 67} => results = Unknown

(* An element of B that is right stays right: no pass of a blocked         *)
(* transposition undoes what another has finished.                         *)
RightStaysRight ==
    [][stage = "running" /\ <<M, N>> \in Handout =>
        \A x \in 0 .. M * N - 1 : B[x] # B'[x] => ~Transposed(x % N, x \div N)]_transVars

(* The blocks are worth their trouble: cold, in the cache of the handout,  *)
(* the submission misses at most as often as full points allow.            *)
FullPoints ==
    stage = "done" /\ <<M, N>> \in Handout => results.misses <= lower[<<M, N>>]
=============================================================================
