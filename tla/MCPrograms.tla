----------------------------- MODULE MCPrograms -----------------------------
(***************************************************************************)
(* Small instances, for TLC, of programs that share nothing: a behaviour   *)
(* runs one of them, which the variable program names, and the others stay *)
(* at a first state of theirs.                                             *)
(***************************************************************************)
EXTENDS JobListClient, Btest, Yas, Trans, Hcl, Timing, Mdriver, Csim

(* btest: words as sets of bits.  Of the float patterns, those with        *)
(* exponents 149, 150, 157 and 158 are on both sides of the edges of       *)
(* floatFloat2Int: shifts by -1, 0 and 7, and the first that overflows.    *)
MCFloats == {sign \cup exp \cup frac :
                sign \in {{}, {31}}, frac \in {{}, {0}}, exp \in {{30, 27, 26, 25, 23}, 24 .. 27 \cup {30}}}
            \cup {{30, 27, 25, 23, 0}, {30, 27, 25, 24, 0}, {31, 30, 27, 25, 24}}
MCArg1 == {ZERO, ONE, 0 .. 30, {31}, 0 .. 31, 1 .. 31, {4, 5}, {0, 3, 4, 5}, {1, 3, 4, 5},
           {k \in Bit : k % 2 = 1}, 24 .. 30, {0} \cup 24 .. 30, 23 .. 30,
           Bit \ {7}, {30, 26, 22, 3}} \cup MCFloats
MCArgVals == <<MCArg1, {{31}}, {{2, 31}}>>
MCRandoms == {{1, 5, 30}}

(* yas: the lines of a source.                                             *)
MnemonicOf(name) == <<"INSTR", name>>
Rg(r)   == <<"REG", r>>
Nr(k)   == <<"NUM", k>>
Id(x)   == <<"IDENT", x>>
Pt(c)   == <<"PUNCT", c>>
MCLines ==
    {<<>>, <<Id("a"), Pt(":")>>, <<Id("a"), Pt(":"), MnemonicOf("irmovq"), Id("b"), Pt(","), Rg(3)>>,
     <<Id("b"), Pt(":"), MnemonicOf("nop")>>, <<MnemonicOf("jle"), Id("a")>>, <<MnemonicOf("call"), Nr(-2)>>,
     <<MnemonicOf("mrmovq"), Id("b"), Pt("("), Rg(5), Pt(")"), Pt(","), Rg(6)>>,
     <<MnemonicOf("mrmovq"), Nr(8), Pt(","), Rg(6), Rg(7)>>,
     <<MnemonicOf("rmmovq"), Rg(1), Pt(","), Pt("("), Rg(2), Pt(")")>>,
     <<MnemonicOf("rmmovq"), Rg(1), Pt(","), Pt("("), Rg(2)>>,
     <<MnemonicOf("popq"), Rg(4), Nr(5)>>, <<MnemonicOf("xorq"), Rg(1), Pt(","), Rg(2)>>,
     <<MnemonicOf("cmovg"), Rg(1), Rg(2)>>, <<Id("b"), MnemonicOf("nop")>>, <<Rg(3)>>,
     <<MnemonicOf("pos"), Nr(4094)>>, <<MnemonicOf("pos"), Nr(-8)>>, <<MnemonicOf("pos"), Nr(65536)>>,
     <<MnemonicOf("align"), Nr(8)>>, <<MnemonicOf("align"), Nr(0)>>, <<MnemonicOf("pos"), Nr(8190)>>,
     <<MnemonicOf("long"), Id("b")>>, <<MnemonicOf("nop"), Invalid>>, <<Invalid>>,
     <<MnemonicOf("pushq"), Nr(3)>>,
     <<MnemonicOf("nop")>> \o [k \in 1 .. 12 |-> Rg(1)]}

(* trans: the graded sizes, and one that the submission does nothing for.  *)
MCSizes == {<<32, 32>>, <<64, 64>>, <<61, 67>>, <<32, 16>>}

(* hcl2c: definitions as productions, bottom up.                           *)
Signal(name, isbool, v) == [name |-> name, isbool |-> isbool, value |-> v]
MCSignals == {Signal("w", FALSE, 2), Signal("b", TRUE, 0), Signal("b", TRUE, 1)}

Pr(name)  == <<<<name, 0>>>>
Word      == <<<<"var", "w">>>>
Flag      == <<<<"var", "b">>>>
Nm(k)     == <<<<"num", k>>>>
Leaves    == {Word, Flag, <<<<"var", "u">>>>, Nm(1), Nm(2)}
Empty     == Pr("[") \o Pr("]")
Paired(S) == {x \o y \o Pr(op) : x \in S, y \in S, op \in {"and", "or", "comp"}}
Ele(e, t) == IF Len(t) = 1 THEN e \o t[1] \o Pr("first") \o Pr("ele")
             ELSE e \o t[1] \o Pr("first") \o FlattenSeq([k \in 1 .. Len(t) - 1 |-> t[k + 1] \o Pr("next")]) \o Pr("ele")
Case(t)   == Pr("[") \o FlattenSeq([k \in 1 .. Len(t) |-> t[k][1] \o t[k][2] \o Pr("case")]) \o Pr("]")
Tests     == {Flag, Nm(1), Flag \o Pr("not"), Ele(Word, <<Nm(2)>>), Empty}
Cases     == {Empty, Case(<<<<Flag, Nm(2)>>>>), Case(<<<<Flag \o Pr("not"), Nm(1)>>>>),
              Case(<<<<Flag, Word>>, <<Nm(1), Flag>>>>)}
MCDefinitions ==
    Leaves \cup Paired(Leaves) \cup Paired(Tests)
    \cup {e \o Pr("not") : e \in Leaves \cup Paired({Flag, Nm(1), Empty})}
    \cup {Ele(e, <<x, y, z>>) : e \in {Word, Nm(1)}, x \in {Word, Nm(1)}, y \in {Flag, Nm(2)}, z \in {Word, Nm(1)}}
    \cup {Ele(Word, <<x, y>>) : x \in Cases, y \in Cases \cup {Word}}
    \cup {Ele(x, <<Nm(2)>>) : x \in Cases}
    \cup {Case(<<<<x, v>>, <<y, Word>>>>) : x \in Tests, y \in Tests, v \in Leaves}
    \cup {Case(<<<<x, Nm(2)>>, <<y, Word>>, <<z, Nm(1)>>>>) : x \in Tests, y \in Tests, z \in Tests}

(* The timers: a tolerance of a quarter.                                   *)
MCTolerance == <<5, 4>>

(* mdriver: the traces.                                                    *)
Rq(t, i_, w) == [type |-> t, index |-> i_, size |-> w]
MCTraces ==
    {<<Rq("a", 0, w), Rq("a", 1, 8), Rq("a", 2, u)>> : w \in {1, 8}, u \in {8, 17}}
    \cup {<<Rq("a", 0, w), Rq("a", 1, t), Rq("r", 0, u)>> : w \in {1, 8}, t \in {1, 8}, u \in {1, 9}}
    \cup {<<Rq("a", 1, w), Rq("f", 1, 0), Rq("a", 0, 8)>> : w \in {1, 17}}
    \cup {<<Rq("a", 1, w), Rq("r", 1, u), Rq("a", 257, 8), Rq("f", 1, 0)>> : w \in {1, 8}, u \in {1, 17}}

(* csim: memory from malloc that holds old data but no line that looks     *)
(* valid.                                                                  *)
ASSUME NoAliases
MCLeftovers == {[valid |-> FALSE, tag |-> 2, callTime |-> MaxTimer]}

-----------------------------------------------------------------------------
VARIABLE program
allVars == <<program, vars, btestVars, yasVars, transVars, hclVars, timingVars, mdriverVars, csimVars>>

OneFirstState ==
    /\ program # "timing"  => timer = "gettod" /\ clock = 0
    /\ program # "mdriver" => trace = <<Rq("a", 1, 1), Rq("f", 1, 0), Rq("a", 0, 8)>>

ProgramsInit ==
    /\ program \in {"jobs", "btest", "yas", "trans", "hcl", "timing", "mdriver", "csim"}
    /\ Init /\ BtestInit /\ YasInit /\ TransInit /\ HclInit /\ TimingInit /\ MdriverInit /\ CsimInit
    /\ OneFirstState

(* The variables of every program but the one named.                       *)
Idle(name) ==
    /\ IF name # "jobs"    THEN UNCHANGED vars        ELSE TRUE
    /\ IF name # "btest"   THEN UNCHANGED btestVars   ELSE TRUE
    /\ IF name # "yas"     THEN UNCHANGED yasVars     ELSE TRUE
    /\ IF name # "trans"   THEN UNCHANGED transVars   ELSE TRUE
    /\ IF name # "hcl"     THEN UNCHANGED hclVars     ELSE TRUE
    /\ IF name # "timing"  THEN UNCHANGED timingVars  ELSE TRUE
    /\ IF name # "mdriver" THEN UNCHANGED mdriverVars ELSE TRUE
    /\ IF name # "csim"    THEN UNCHANGED csimVars    ELSE TRUE

ProgramsNext ==
    /\ UNCHANGED program
    /\ \/ program = "jobs"    /\ Next        /\ Idle("jobs")
       \/ program = "btest"   /\ BtestNext   /\ Idle("btest")
       \/ program = "yas"     /\ YasNext     /\ Idle("yas")
       \/ program = "trans"   /\ TransNext   /\ Idle("trans")
       \/ program = "hcl"     /\ HclNext     /\ Idle("hcl")
       \/ program = "timing"  /\ TimingNext  /\ Idle("timing")
       \/ program = "mdriver" /\ MdriverNext /\ Idle("mdriver")
       \/ program = "csim"    /\ CsimNext    /\ Idle("csim")

ProgramsSpec == ProgramsInit /\ [][ProgramsNext]_allVars
=============================================================================
