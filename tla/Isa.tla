-------------------------------- MODULE Isa --------------------------------
(***************************************************************************)
(* What the Y86-64 simulators share, architecture lab/sim/misc/isa.c:      *)
(* words and their arithmetic, condition codes, registers, the two kinds   *)
(* of memory access.                                                       *)
(*                                                                         *)
(* A unit of address stands for a word of data or for one instruction, so  *)
(* that the code's 8 is 1 here and an instruction is one step of the pc.   *)
(* Code and data are apart: a program neither reads nor writes its own     *)
(* instructions.                                                           *)
(***************************************************************************)
EXTENDS Integers, FiniteSetsExt

CONSTANTS
    WORD, HALF,     \* bits of a word (64), and 2^63
    Regs,           \* the registers a program names
    RRSP,           \* the stack pointer, one of them
    RNONE,          \* "no register"
    DataWords,      \* words of data memory
    Prelude,        \* the instructions that every program begins with
    Programs,       \* the rest, from where Prelude ends, ...
    Datas           \* ... and the data: what load_mem may put into memory

ASSUME WordAssumption == WORD \in Nat /\ HALF \in Nat \ {0, 1} /\ HALF = 2 ^ (WORD - 1)
ASSUME RegsAssumption == RRSP \in Regs /\ RNONE \notin Regs
ASSUME DataAssumption == DataWords \in 1 .. HALF

RegId  == Regs \cup {RNONE}
word_t == -HALF .. HALF - 1
stat_t == {"BUB", "AOK", "HLT", "ADR", "INS", "PIP"}
alu_t  == {"ADD", "SUB", "AND", "XOR"}
cond_t == {"YES", "LE", "L", "E", "NE", "GE", "G"}
itype_t == {"HALT", "NOP", "RRMOVQ", "IRMOVQ", "RMMOVQ", "MRMOVQ", "ALU", "JMP",
            "CALL", "RET", "PUSHQ", "POPQ", "IADDQ", "BAD"}
cc_t == [zf : BOOLEAN, sf : BOOLEAN, of : BOOLEAN]

DEFAULT_CC == [zf |-> TRUE, sf |-> FALSE, of |-> FALSE]

(* A decoded instruction.  ifun is an alu_t for ALU and a cond_t else;     *)
(* the program may have any other.                                         *)
Instr == [icode : itype_t, ifun : alu_t \cup cond_t, rA : RegId, rB : RegId, valC : word_t]

ASSUME ProgramsAssumption ==
    /\ \A a \in DOMAIN Prelude : Prelude[a] \in Instr
    /\ \A c \in Programs : \A a \in DOMAIN c : c[a] \in Instr
    /\ Datas \subseteq [0 .. DataWords - 1 -> word_t]

Plain(icode) == [icode |-> icode, ifun |-> "YES", rA |-> RNONE, rB |-> RNONE, valC |-> 0]

(* Memory beyond the program is zero, and zero is the code of halt.        *)
FetchError(pc)    == pc < 0
FetchAt(code, pc) == CASE pc \in DOMAIN Prelude -> Prelude[pc]
                       [] pc \in DOMAIN code -> code[pc]
                       [] OTHER -> Plain("HALT")

(* Two's complement, as wide as a word.                                    *)
Wrap(x) == ((x + HALF) % (2 * HALF)) - HALF

(* The bits of a word, and the word that has the bits B.                   *)
BitsOf(x)   == {i \in 0 .. WORD - 1 : (x \div 2 ^ i) % 2 = 1}
Unsigned(B) == MapThenSumSet(LAMBDA i : 2 ^ i, B)
WordWith(B) == Wrap(Unsigned(B))

(* Of the sum, proofs use no more than that it is a number.                *)
ASSUME UnsignedAssumption == \A B \in SUBSET (0 .. WORD - 1) : Unsigned(B) \in Nat

compute_alu(op, argA, argB) ==
    CASE op = "ADD" -> Wrap(argA + argB)
      [] op = "SUB" -> Wrap(argB - argA)
      [] op = "AND" -> WordWith(BitsOf(argA) \cap BitsOf(argB))
      [] op = "XOR" -> WordWith((BitsOf(argA) \cup BitsOf(argB)) \ (BitsOf(argA) \cap BitsOf(argB)))
      [] OTHER      -> 0

compute_cc(op, argA, argB) ==
    LET val == compute_alu(op, argA, argB)
    IN  [zf |-> val = 0,
         sf |-> val < 0,
         of |-> \/ op = "ADD" /\ (argA < 0 <=> argB < 0) /\ (val < 0 <=> argA >= 0)
                \/ op = "SUB" /\ (argA > 0 <=> argB < 0) /\ (val < 0 <=> argB >= 0)]

cond_holds(cc, bcond) ==
    LET less == cc.sf # cc.of
    IN  CASE bcond = "YES" -> TRUE
          [] bcond = "LE"  -> less \/ cc.zf
          [] bcond = "L"   -> less
          [] bcond = "E"   -> cc.zf
          [] bcond = "NE"  -> ~cc.zf
          [] bcond = "GE"  -> ~less
          [] bcond = "G"   -> ~less /\ ~cc.zf
          [] OTHER         -> FALSE

get_reg_val(r, id)      == IF id = RNONE THEN 0 ELSE r[id]
set_reg_val(r, id, val) == IF id = RNONE THEN r ELSE [r EXCEPT ![id] = val]

(* get_word_val and set_word_val succeed on the addresses of data.         *)
ValidAddr(pos)         == pos \in 0 .. DataWords - 1
get_word_val(m, pos)   == IF ValidAddr(pos) THEN m[pos] ELSE 0
set_word_val(m, pos, val) == IF ValidAddr(pos) THEN [m EXCEPT ![pos] = val] ELSE m
=============================================================================
