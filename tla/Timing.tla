------------------------------- MODULE Timing -------------------------------
(***************************************************************************)
(* The timing package of the malloc driver: fsecs measures a function with *)
(* the cycle counter and the K-best scheme (fcyc.c, clock.c), with the     *)
(* interval timer or with gettimeofday (ftimer.c).  Times are integers: a  *)
(* cycle, or a microsecond, is 1; an average is kept as the sum it is of.  *)
(***************************************************************************)
EXTENDS Integers, FiniteSetsExt, SequencesExt

CONSTANTS WORD,         \* 2^32: the values of each half of the cycle counter
          SECOND,       \* microseconds of a second
          MAX_ETIME,    \* seconds the interval timer starts from
          KBEST, MAXSAMPLES,
          TEN,          \* runs that ftimer averages
          Tolerance,    \* 1 + epsilon, as <<numerator, denominator>>
          StartTimes,   \* what the clock may show at first
          Durations,    \* what one call of the function may take
          TickCosts     \* what callibrate may find a timer interrupt to cost

ASSUME TimingAssumption ==
    /\ {WORD, SECOND, KBEST, MAXSAMPLES} \subseteq Nat \ {0}
    /\ {MAX_ETIME, TEN} \cup StartTimes \cup Durations \cup TickCosts \subseteq Nat

VARIABLES timer,        \* "fcyc", "itimer" or "gettod"
          compensate,
          tphase,       \* "start", "run", "stop", "done" or "killed"
          clock, utime, \* the machine's clock and the process's ticks
          reading,      \* the clock as read by start_counter or ftimer
          start_tick, cyc_per_tick,
          values, samplecount,
          runs,         \* the calls since the reading: <<duration, ticks>>
          history,      \* each measurement, with what the runs really took
          result
timingVars == <<timer, compensate, tphase, clock, utime, reading, start_tick,
                cyc_per_tick, values, samplecount, runs, history, result>>

Counter == [hi |-> (clock \div WORD) % WORD, lo |-> clock % WORD]
TimeOfDay == [sec |-> clock \div SECOND, usec |-> clock % SECOND]

TimingInit ==
    /\ timer \in {"fcyc", "itimer", "gettod"}
    /\ compensate \in (IF timer = "fcyc" THEN BOOLEAN ELSE {FALSE})
    /\ tphase = "start" /\ clock \in StartTimes /\ utime = 0
    /\ reading = 0 /\ start_tick = 0 /\ cyc_per_tick = 0
    /\ values = <<>> /\ samplecount = 0 /\ runs = <<>> /\ history = <<>> /\ result = 0

-----------------------------------------------------------------------------
(* start_comp_counter measures the cost of a tick unless it has one.  It   *)
(* reads ticks and counter, one after the other, at one instant here.      *)
start_comp_counter ==
    /\ cyc_per_tick' \in (IF compensate /\ cyc_per_tick = 0 THEN TickCosts ELSE {cyc_per_tick})
    /\ start_tick' = utime

init_etime == [sec |-> MAX_ETIME, usec |-> 0]

StartTimer ==
    /\ tphase = "start" /\ tphase' = "run" /\ runs' = <<>>
    /\ CASE timer = "fcyc"   -> reading' = Counter /\ start_comp_counter
         [] timer = "itimer" -> reading' = init_etime /\ UNCHANGED <<start_tick, cyc_per_tick>>
         [] timer = "gettod" -> reading' = TimeOfDay /\ UNCHANGED <<start_tick, cyc_per_tick>>
    /\ UNCHANGED <<timer, compensate, clock, utime, values, samplecount, history, result>>

(* The function runs: once for fcyc, n times for ftimer.                   *)
Calls   == IF timer = "fcyc" THEN 1 ELSE TEN
Function == \E d \in Durations, ticks \in (IF compensate THEN {0, 1} ELSE {0}) :
    /\ tphase = "run"
    /\ clock' = clock + d /\ utime' = utime + ticks
    /\ runs' = Append(runs, <<d, ticks>>)
    /\ tphase' = IF Len(runs') = Calls THEN "stop" ELSE "run"
    /\ UNCHANGED <<timer, compensate, reading, start_tick, cyc_per_tick, values,
                   samplecount, history, result>>

-----------------------------------------------------------------------------
Modulo(n) == n % WORD
WithoutBorrow(n) == Modulo(n.hi - reading.hi) * WORD + Modulo(n.lo - reading.lo)   \* mutant
get_counter(n) ==
    LET lo     == Modulo(n.lo - reading.lo)
        borrow == IF lo > n.lo THEN 1 ELSE 0
    IN  Modulo(n.hi - reading.hi - borrow) * WORD + lo
get_comp_counter(n) ==
    get_counter(n) - (IF compensate THEN (utime - start_tick) * cyc_per_tick ELSE 0)

(* add_sample: one more value, or one in place of the largest, sorted in.  *)
AppendOnly(val) ==                                              \* mutant
    IF samplecount < KBEST THEN Append(values, val)
    ELSE IF val < values[KBEST] THEN [values EXCEPT ![KBEST] = val] ELSE values
add_sample(val) ==
    LET kept  == IF samplecount < KBEST THEN values
                 ELSE IF val < values[KBEST] THEN Front(values) ELSE <<>>
        place == Cardinality({i \in DOMAIN kept : kept[i] <= val})
    IN  IF samplecount >= KBEST /\ val >= values[KBEST] THEN values
        ELSE InsertAt(kept, place + 1, val)

has_converged(vals, count) ==
    count >= KBEST /\ Tolerance[1] * vals[1] >= Tolerance[2] * vals[KBEST]

fcyc ==
    /\ tphase = "stop" /\ timer = "fcyc"
    /\ LET cyc == get_comp_counter(Counter)
       IN  /\ values' = add_sample(cyc) /\ samplecount' = samplecount + 1
           /\ history' = Append(history, [measured |-> cyc, run |-> runs[1], cost |-> cyc_per_tick])
    /\ IF ~has_converged(values', samplecount') /\ samplecount' < MAXSAMPLES
       THEN tphase' = "start" /\ UNCHANGED result
       ELSE tphase' = "done" /\ result' = values'[1]
    /\ UNCHANGED <<timer, compensate, clock, utime, reading, start_tick, cyc_per_tick, runs>>

Between(first, last) == SECOND * (last.sec - first.sec) + (last.usec - first.usec)

ftimer_gettod ==
    /\ tphase = "stop" /\ timer = "gettod" /\ tphase' = "done"
    /\ result' = Between(reading, TimeOfDay)
    /\ UNCHANGED <<timer, compensate, clock, utime, reading, start_tick, cyc_per_tick,
                   values, samplecount, runs, history>>

(* The interval timer counts down; nobody handles its SIGALRM.             *)
TimeRun   == LET total[i \in 0 .. Len(runs)] == IF i = 0 THEN 0 ELSE total[i - 1] + runs[i][1]
             IN  total[Len(runs)]
Remaining == LET r == MAX_ETIME * SECOND - TimeRun
             IN  [sec |-> r \div SECOND, usec |-> r % SECOND]
ftimer_itimer ==
    /\ tphase = "stop" /\ timer = "itimer"
    /\ IF TimeRun >= MAX_ETIME * SECOND THEN tphase' = "killed" /\ UNCHANGED result
       ELSE tphase' = "done" /\ result' = Between(Remaining, reading)
    /\ UNCHANGED <<timer, compensate, clock, utime, reading, start_tick, cyc_per_tick,
                   values, samplecount, runs, history>>

TimingNext == StartTimer \/ Function \/ fcyc \/ ftimer_gettod \/ ftimer_itimer
TimingSpec == TimingInit /\ [][TimingNext]_timingVars

-----------------------------------------------------------------------------
(* Wherever the halves of the counter, or the seconds, wrap between two    *)
(* readings, a measurement is the time that the function took; with        *)
(* compensation, less the cost then known of the ticks that fell into it.  *)
MeasuresElapsedTime ==
    /\ \A i \in DOMAIN history :
          history[i].measured = history[i].run[1] - history[i].run[2] * history[i].cost
    /\ tphase = "done" /\ timer # "fcyc" => result = TimeRun

(* In whatever order the samples come, values holds the smallest of them   *)
(* in order, and fcyc returns the very smallest of all it has taken, at    *)
(* most maxsamples: k within the tolerance, or no such k at the limit.     *)
KeepsKBest ==
    LET smaller(i, j) == \/ history[i].measured < history[j].measured
                         \/ history[i].measured = history[j].measured /\ i < j
        rank(i) == Cardinality({j \in DOMAIN history : smaller(j, i)}) + 1
    IN  /\ samplecount <= MAXSAMPLES
        /\ \A i \in DOMAIN history :
              rank(i) <= KBEST => values[rank(i)] = history[i].measured
        /\ tphase = "done" /\ timer = "fcyc" =>
              /\ \A i \in DOMAIN history : result <= history[i].measured
              /\ samplecount = MAXSAMPLES \/ has_converged(values, samplecount)
=============================================================================
