------------------------------- MODULE Btest --------------------------------
(***************************************************************************)
(* btest: the driver of the bit puzzles.  main takes its options one by    *)
(* one, run_tests takes the functions of test_set (decl.c) one by one, and *)
(* SIGALRM may come whenever an alarm has been set.                        *)
(*                                                                         *)
(* Nothing cancels the alarm of a function that returns in time, and       *)
(* nothing renews envbuf until the next function has its test values: in   *)
(* between, the handler would jump into a frame that is no more ("gone").  *)
(***************************************************************************)
EXTENDS Bits, Sequences

CONSTANTS TEST_RANGE,    \* windows that gen_vals samples, 500000 in btest.c
          Randoms,       \* what random_val may return
          ArgVals,       \* what -1, -2, -3 may give: a sequence of three sets
          MaxTimeouts    \* bound on the timeouts explored

(* Windows short of the next exponent; options and random_val give ints.   *)
ASSUME RangeAssumption  == TEST_RANGE \in 1 .. 2 ^ 23
ASSUME ValuesAssumption == Randoms \subseteq int /\ \A k \in 1 .. 3 : ArgVals[k] \subseteq int

VARIABLES pc, test_fname, timeout_limit, argval, i, random, terrors, expired,
          armed, errors, points, max_points, timeouts
btestVars == <<pc, test_fname, timeout_limit, argval, i, random, terrors, expired,
               armed, errors, points, max_points, timeouts>>

Puzzle(name, args, rating, isfloat) ==
    [name |-> name, args |-> args, rating |-> rating, isfloat |-> isfloat]

test_set == << Puzzle("bitXor", 2, 1, FALSE),        Puzzle("tmin", 0, 1, FALSE),
               Puzzle("isTmax", 1, 1, FALSE),        Puzzle("allOddBits", 1, 2, FALSE),
               Puzzle("negate", 1, 2, FALSE),        Puzzle("isAsciiDigit", 1, 3, FALSE),
               Puzzle("conditional", 3, 3, FALSE),   Puzzle("isLessOrEqual", 2, 3, FALSE),
               Puzzle("logicalNeg", 1, 4, FALSE),    Puzzle("howManyBits", 1, 4, FALSE),
               Puzzle("floatScale2", 1, 4, TRUE),    Puzzle("floatFloat2Int", 1, 4, TRUE),
               Puzzle("floatPower2", 1, 4, TRUE) >>

(* An int as a float's fields and as a number.                             *)
u2f(x) == F(IF 31 \in x THEN 1 ELSE 0, Value({b - 23 : b \in x \cap 23 .. 30}),
            Value(x \cap 0 .. 22))
Number(x) == (IF 31 \in x THEN INT_MIN ELSE 0) + Value(x \ {31})

Agree(name, a) ==
    LET x == a[1]  y == a[2]  z == a[3]
    IN  CASE name = "bitXor"         -> bitXor(x, y) = test_bitXor(x, y)
          [] name = "tmin"           -> tmin = test_tmin
          [] name = "isTmax"         -> isTmax(x) = test_isTmax(x)
          [] name = "allOddBits"     -> allOddBits(x) = test_allOddBits(x)
          [] name = "negate"         -> negate(x) = test_negate(x)
          [] name = "isAsciiDigit"   -> isAsciiDigit(x) = test_isAsciiDigit(x)
          [] name = "conditional"    -> conditional(x, y, z) = test_conditional(x, y, z)
          [] name = "isLessOrEqual"  -> isLessOrEqual(x, y) = test_isLessOrEqual(x, y)
          [] name = "logicalNeg"     -> logicalNeg(x) = test_logicalNeg(x)
          [] name = "howManyBits"    -> howManyBits(x) = test_howManyBits(x)
          [] name = "floatScale2"    -> floatScale2(u2f(x)) = test_floatScale2(u2f(x))
          [] name = "floatFloat2Int" -> floatFloat2Int(u2f(x)) = test_floatFloat2Int(u2f(x))
          [] name = "floatPower2"    -> floatPower2(Number(x)) = test_floatPower2(Number(x))

-----------------------------------------------------------------------------
(* gen_vals: windows around the boundaries, around zero and at random, or  *)
(* the given argument alone.                                               *)
Minus(x, n)   == Plus(x, negate(Num(n)))
Around(x, n)  == {Plus(x, Num(n)), Minus(x, n)}
EitherSign(S) == S \cup {{31} \cup x : x \in S}

FloatVals(range) ==
    EitherSign({Num(n) : n \in 0 .. range - 1}
               \cup (UNION {Around({23}, n) : n \in 0 .. range - 1})
               \cup (UNION {Around(23 .. 29, n) : n \in 0 .. range - 1})
               \cup {Minus(24 .. 30, n) : n \in 0 .. range - 1}
               \cup {23 .. 30, 22 .. 30})

IntVals(range, r) == {r} \cup UNION {{Plus({31}, Num(n)), Minus(0 .. 30, n), Num(n), Minus(ZERO, n)}
                                       : n \in 0 .. range - 1}

gen_vals(k, t, range, r) ==
    IF k \in DOMAIN argval THEN {argval[k]}
    ELSE IF t.isfloat THEN FloatVals(range) ELSE IntVals(range, r)

Root(k) == Max({1} \cup {r \in 1 .. TEST_RANGE : r ^ k <= TEST_RANGE})

(* The tuples a puzzle is tested on; what is no argument is ZERO.          *)
Tested(t, r) ==
    LET S(k) == IF k <= t.args THEN gen_vals(k, t, Root(t.args), r) ELSE {ZERO}
    IN  S(1) \X S(2) \X S(3)

-----------------------------------------------------------------------------
NoArgs == [k \in {} |-> ZERO]

BtestInit ==
    /\ pc = "main" /\ test_fname = "all" /\ timeout_limit = TRUE /\ argval = NoArgs
    /\ i = 1 /\ random = ZERO /\ terrors = 0 /\ expired = FALSE
    /\ armed = FALSE
    /\ errors = 0 /\ points = 0 /\ max_points = 0 /\ timeouts = 0

Config == <<test_fname, timeout_limit, argval>>
Totals == <<i, errors, points, max_points>>
Alarms == <<armed, timeouts>>
Result == <<random, terrors, expired>>

(* getopt's loop.  get_num_val refuses an integer for which *valp is not   *)
(* zero any more: a second -1, unless the first was 0.  It does not refuse *)
(* a float, whose text may give any word but a NaN.                        *)
OptionName ==
    /\ pc = "main"
    /\ \E k \in DOMAIN test_set : test_fname' = test_set[k].name
    /\ UNCHANGED <<pc, timeout_limit, argval, Totals, Alarms, Result>>

OptionNoTimeout ==
    /\ pc = "main" /\ timeout_limit' = FALSE
    /\ UNCHANGED <<pc, test_fname, argval, Totals, Alarms, Result>>

OptionArg(k, v) ==
    /\ pc = "main"
    /\ LET given == k \in DOMAIN argval /\ argval[k] # ZERO
       IN  \/ /\ given => u2f(v).exp # 255 \/ u2f(v).frac = 0
              /\ argval' = [j \in DOMAIN argval \cup {k} |-> IF j = k THEN v ELSE argval[j]]
              /\ UNCHANGED pc
           \/ given /\ pc' = "exit" /\ UNCHANGED argval
    /\ UNCHANGED <<test_fname, timeout_limit, Totals, Alarms, Result>>

RunTests ==
    /\ pc = "main" /\ pc' = "next"
    /\ UNCHANGED <<Config, Totals, Alarms, Result>>

Chosen(t) == test_fname \in {"all", t.name}

(* test_function up to sigsetjmp: the test values.                         *)
GenVals ==
    /\ pc = "next" /\ i <= Len(test_set) /\ Chosen(test_set[i])
    /\ \E r \in Randoms : random' = r
    /\ pc' = "setjmp"
    /\ UNCHANGED <<Config, Totals, Alarms, terrors, expired>>

Skip ==
    /\ pc = "next" /\ i <= Len(test_set) /\ ~Chosen(test_set[i])
    /\ i' = i + 1
    /\ UNCHANGED <<pc, Config, errors, points, max_points, Alarms, Result>>

SetAlarm ==
    /\ pc = "setjmp" /\ pc' = "testing"
    /\ armed' = (armed \/ timeout_limit)
    /\ UNCHANGED <<Config, Totals, timeouts, Result>>

(* The loops over the values, which the first difference ends.             *)
TestFunction ==
    /\ pc = "testing" /\ pc' = "score"
    /\ LET t == test_set[i]
       IN  terrors' = IF \A a \in Tested(t, random) : Agree(t.name, a) THEN 0 ELSE 1
    /\ expired' = FALSE
    /\ UNCHANGED <<Config, Totals, Alarms, random>>

Score ==
    /\ pc = "score" /\ pc' = "next"
    /\ errors' = errors + terrors
    /\ points' = points + (IF terrors = 0 THEN test_set[i].rating ELSE 0)
    /\ max_points' = max_points + test_set[i].rating
    /\ i' = i + 1
    /\ UNCHANGED <<Config, Alarms, Result>>

Exit ==
    /\ pc = "next" /\ i > Len(test_set) /\ pc' = "exit"
    /\ UNCHANGED <<Config, Totals, Alarms, Result>>

(* SIGALRM: siglongjmp to envbuf, which lives while the function is tested.*)
Alarm ==
    /\ armed /\ pc # "exit" /\ timeouts < MaxTimeouts
    /\ armed' = FALSE /\ timeouts' = timeouts + 1
    /\ IF pc = "testing"
       THEN pc' = "score" /\ terrors' = 1 /\ expired' = TRUE
       ELSE pc' = "gone" /\ UNCHANGED <<terrors, expired>>
    /\ UNCHANGED <<Config, Totals, random>>

BtestNext == OptionName \/ OptionNoTimeout \/ (\E k \in 1 .. 3 : \E v \in ArgVals[k] : OptionArg(k, v))
             \/ RunTests \/ GenVals \/ Skip \/ SetAlarm \/ TestFunction \/ Score \/ Exit \/ Alarm

BtestSpec == BtestInit /\ [][BtestNext]_btestVars

-----------------------------------------------------------------------------
(* Inputs that bits.c gets wrong.  floatScale2 keeps the fraction when the *)
(* exponent becomes 255 and returns NaN for infinity; floatFloat2Int       *)
(* shifts out of range when the exponent is 31; floatPower2 takes every    *)
(* negative power for one too small to represent.                          *)
Missed(name, a) ==
    \/ name = "floatScale2" /\ u2f(a[1]).exp = 254 /\ u2f(a[1]).frac # 0
    \/ name = "floatFloat2Int" /\ u2f(a[1]).exp = 158 /\ u2f(a[1]).frac # 0
    \/ name = "floatPower2" /\ Number(a[1]) \in -149 .. -1

(* A verdict that btest gives in time is an error exactly if it has tried  *)
(* an input that the puzzle misses: outside these, bits.c agrees with      *)
(* tests.c on whatever values -1, -2 and -3 give and gen_vals generates.   *)
WrongExactlyWhenMissed ==
    pc = "score" /\ ~expired =>
        (terrors = 1 <=> \E a \in Tested(test_set[i], random) : Missed(test_set[i].name, a))

(* The windows of gen_vals never reach a missed input: a session without   *)
(* options that stays in time ends with full marks, whatever the random    *)
(* values; points are lost to a timeout only, and no rating counts twice.  *)
FullMarks ==
    pc = "exit" /\ i > Len(test_set) /\ test_fname = "all" /\ argval = NoArgs =>
        /\ timeouts = 0 => points = max_points /\ errors = 0
        /\ errors = timeouts
        /\ max_points = MapThenSumSet(LAMBDA k : test_set[k].rating, DOMAIN test_set)
=============================================================================
