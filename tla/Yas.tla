-------------------------------- MODULE Yas ---------------------------------
(***************************************************************************)
(* yas, the assembler, and load_mem, by which the simulators read what it  *)
(* has written.  A source line is a sequence of tokens, as the scanner     *)
(* (yas-grammar.lex) delivers them; a line of the .yo file is its address  *)
(* as far as its digits go, with its bytes.  Numbers fit in 32 bits.       *)
(***************************************************************************)
EXTENDS Integers, FiniteSetsExt, SequencesExt

CONSTANTS SourceLines,    \* the lines a source may consist of
          MaxLines,       \* bound on its length
          MEM_SIZE        \* bytes of the simulator's memory

(* Tokens as the scanner delivers them: registers, mnemonics and numbers   *)
(* it knows; what is of no token ends a line.                              *)
Mnemonics == {"rrmovq", "cmovle", "cmovl", "cmove", "cmovne", "cmovge", "cmovg", "rmmovq", "mrmovq",
              "irmovq", "addq", "subq", "andq", "xorq", "jmp", "jle", "jl", "je", "jne", "jge", "jg",
              "call", "ret", "pushq", "popq", "byte", "word", "long", "quad", "pos", "align",
              "halt", "nop", "iaddq"}
Int32 == {v \in Int : v >= -2147483647 - 1 /\ v <= 2147483647}
Scanned(t) ==
    /\ t = <<t[1], t[2]>>
    /\ t[1] = "REG"   => t[2] \in 0 .. 14
    /\ t[1] = "NUM"   => t[2] \in Int32
    /\ t[1] = "INSTR" => t[2] \in Mnemonics
ASSUME LinesAssumption ==
    \A line \in SourceLines : line \in Seq({line[k] : k \in DOMAIN line})
                             /\ \A k \in DOMAIN line : Scanned(line[k])

VARIABLES phase, file, lineno, tokens, error_mode, hit_error, bytepos,
          symbol_table, code, yo, memory
yasVars == <<phase, file, lineno, tokens, error_mode, hit_error, bytepos,
             symbol_table, code, yo, memory>>

TOK_PER_LINE == 12
NoToken      == <<"ERR", 0>>
Invalid      == <<"INVALID", 0>>        \* the rest of a line from a character of no token
REG_NONE     == 15

HPACK(hi, lo) == hi * 16 + lo
HI4(byte)     == byte \div 16
LO4(byte)     == byte % 16
Weight        == <<1, 256, 65536, 16777216>>
ByteOf(v, n)  == IF n < 4 THEN (v \div Weight[n + 1]) % 256 ELSE IF v < 0 THEN 255 ELSE 0

-----------------------------------------------------------------------------
(* instruction_set: codes, length and arguments <<kind, position, hi>>.    *)
rrmovq == [rrmovq |-> 0, cmovle |-> 1, cmovl |-> 2, cmove |-> 3, cmovne |-> 4, cmovge |-> 5, cmovg |-> 6]
jump   == [jmp |-> 0, jle |-> 1, jl |-> 2, je |-> 3, jne |-> 4, jge |-> 5, jg |-> 6]
alu    == [addq |-> 0, subq |-> 1, andq |-> 2, xorq |-> 3]
alone  == [halt |-> 0, nop |-> 1, ret |-> 9]
pushpop  == [pushq |-> 10, popq |-> 11]
immed  == [irmovq |-> 3, iaddq |-> 12]
data   == [byte |-> 1, word |-> 2, long |-> 4, quad |-> 8]      \* .byte ... .quad

Instruction(opcode, bytes, args) == [code |-> opcode, bytes |-> bytes, args |-> args]
RegReg == << <<"R", 1, 1>>, <<"R", 1, 0>> >>

instruction_set(name) ==
    CASE name \in DOMAIN rrmovq -> Instruction(HPACK(2, rrmovq[name]), 2, RegReg)
      [] name \in DOMAIN alu    -> Instruction(HPACK(6, alu[name]), 2, RegReg)
      [] name \in DOMAIN jump   -> Instruction(HPACK(7, jump[name]), 9, << <<"I", 1, 8>> >>)
      [] name \in DOMAIN alone  -> Instruction(HPACK(alone[name], 0), 1, <<>>)
      [] name \in DOMAIN pushpop  -> Instruction(HPACK(pushpop[name], 0), 2, << <<"R", 1, 1>> >>)
      [] name \in DOMAIN immed  -> Instruction(HPACK(immed[name], 0), 10, << <<"I", 2, 8>>, <<"R", 1, 0>> >>)
      [] name \in DOMAIN data   -> Instruction(0, data[name], << <<"I", 0, data[name]>> >>)
      [] name = "call"   -> Instruction(HPACK(8, 0), 9, << <<"I", 1, 8>> >>)
      [] name = "rmmovq" -> Instruction(HPACK(4, 0), 10, << <<"R", 1, 1>>, <<"M", 1, 0>> >>)
      [] name = "mrmovq" -> Instruction(HPACK(5, 0), 10, << <<"M", 1, 0>>, <<"R", 1, 1>> >>)

-----------------------------------------------------------------------------
(* Operands: where the token is, the bytes so far, and whether any failed. *)
Token(ts, k) == IF k <= Len(ts) THEN ts[k] ELSE NoToken
Is(ts, k, type) == Token(ts, k)[1] = type
Punct(ts, k, c) == Token(ts, k) = <<"PUNCT", c>>

Defined(name) == \E s \in ToSet(symbol_table) : s.name = name
EntriesOf(name) == {k \in DOMAIN symbol_table : symbol_table[k].name = name}
find_symbol_last(name) ==                                       \* mutant
    IF Defined(name) THEN symbol_table[Max(EntriesOf(name))].pos ELSE -1
find_symbol(name) ==
    IF Defined(name) THEN symbol_table[Min(EntriesOf(name))].pos ELSE -1

NumberAt(ts, k) == IF Is(ts, k, "NUM") THEN ts[k][2] ELSE find_symbol(ts[k][2])
IsNumber(ts, k) == Is(ts, k, "NUM") \/ Is(ts, k, "IDENT")
Unresolved(ts, k) == Is(ts, k, "IDENT") /\ ~Defined(ts[k][2])

PutWord(c, pos, n, v) ==
    [k \in DOMAIN c |-> IF k - 1 \in pos .. pos + n - 1 THEN ByteOf(v, k - 1 - pos) ELSE c[k]]
PutReg(c, pos, hi, r) ==
    [c EXCEPT ![pos + 1] = IF hi = 1 THEN HPACK(r, LO4(@)) ELSE HPACK(HI4(@), r)]

get_reg(ts, s, pos, hi) ==
    IF ~Is(ts, s.tpos, "REG") THEN [s EXCEPT !.failed = TRUE]
    ELSE [s EXCEPT !.code = PutReg(@, pos, hi, ts[s.tpos][2]), !.tpos = @ + 1]

get_num(ts, s, pos, bytes) ==
    IF ~IsNumber(ts, s.tpos) THEN [s EXCEPT !.failed = TRUE]
    ELSE [s EXCEPT !.failed = @ \/ Unresolved(ts, s.tpos), !.tpos = @ + 1,
                   !.code = PutWord(@, pos, bytes, NumberAt(ts, s.tpos))]

get_mem(ts, s, pos) ==
    LET hasNum == IsNumber(ts, s.tpos)
        val    == IF hasNum THEN NumberAt(ts, s.tpos) ELSE 0
        p      == IF hasNum THEN s.tpos + 1 ELSE s.tpos
        paren  == Punct(ts, p, "(")
        rval   == IF paren THEN ts[p + 1][2] ELSE REG_NONE
        bad    == paren /\ ~(Is(ts, p + 1, "REG") /\ Punct(ts, p + 2, ")"))
        missed == s.failed \/ (hasNum /\ Unresolved(ts, s.tpos))
    IN  IF bad THEN [s EXCEPT !.failed = TRUE,
                            !.tpos = IF ~Is(ts, p + 1, "REG") THEN p + 1
                                     ELSE IF Is(ts, p + 2, "PUNCT") THEN p + 3 ELSE p + 2]
        ELSE [tpos   |-> IF paren THEN p + 3 ELSE p,
              failed |-> missed,
              code   |-> PutWord(PutReg(s.code, pos, 0, rval), pos + 1, 8, val)]

Argument(ts, s, arg) ==
    CASE arg[1] = "R" -> get_reg(ts, s, arg[2], arg[3])
      [] arg[1] = "I" -> get_num(ts, s, arg[2], arg[3])
      [] arg[1] = "M" -> get_mem(ts, s, arg[2])

(* The bytes of an instruction whose operands begin at token k, and        *)
(* whether they are printed: a missing comma ends the line without.        *)
Encoded(ts, k, instr) ==
    LET start == [tpos |-> k, failed |-> FALSE,
                  code |-> [code EXCEPT ![1] = instr.code, ![2] = HPACK(REG_NONE, REG_NONE)]]
        one   == IF instr.args = <<>> THEN start ELSE Argument(ts, start, instr.args[1])
    IN  IF Len(instr.args) < 2 THEN [s |-> one, printed |-> TRUE]
        ELSE IF ~Punct(ts, one.tpos, ",")
             THEN [s |-> [one EXCEPT !.failed = TRUE], printed |-> FALSE]
             ELSE [s |-> Argument(ts, [one EXCEPT !.tpos = @ + 1], instr.args[2]), printed |-> TRUE]

-----------------------------------------------------------------------------
YasInit ==
    /\ phase = "pass1" /\ file = <<>> /\ lineno = 1 /\ tokens = <<>>
    /\ error_mode = FALSE /\ hit_error = FALSE /\ bytepos = 0
    /\ symbol_table = <<>> /\ code = [k \in 1 .. 10 |-> 0]
    /\ yo = <<>> /\ memory = <<>>

(* The next line: any one, as long as the file is unknown.                 *)
Candidates == IF phase = "pass1" THEN IF lineno <= MaxLines THEN SourceLines ELSE {}
              ELSE IF phase = "pass2" /\ lineno <= Len(file) THEN {file[lineno]} ELSE {}

ReadLine(line) ==
    /\ file' = IF phase = "pass1" THEN Append(file, line) ELSE file
    /\ lineno' = lineno + 1
    /\ UNCHANGED memory

start_line == tokens' = <<>> /\ error_mode' = FALSE
fail       == hit_error' = TRUE

(* print_code, in the second pass: the address in three or four digits.    *)
Digits(pos) == IF pos > 4095 THEN pos ELSE pos % 4096
print_code(pos, bytes) ==
    IF phase = "pass1" THEN UNCHANGED <<yo, phase>>
    ELSE IF pos > 65535 THEN phase' = "rejected" /\ UNCHANGED yo
    ELSE yo' = Append(yo, [pos |-> Digits(pos), code |-> bytes]) /\ UNCHANGED phase

(* A character of no token: finish_line is not called, and the tokens      *)
(* before it wait for the end of the next line.                            *)
InvalidLine(ts) ==
    /\ tokens' = ts /\ error_mode' = TRUE /\ fail
    /\ UNCHANGED <<phase, bytepos, symbol_table, code, yo>>

(* finish_line, from here on, with the tokens ts.                          *)
(* An empty line is printed without an address, for load_mem to skip.     *)
EmptyLine(ts) ==
    /\ ts = <<>> /\ start_line
    /\ UNCHANGED <<phase, hit_error, bytepos, symbol_table, code, yo>>

(* The error of a line without tokens is cleared by the next one's first.  *)
ErroneousLine ==
    /\ start_line
    /\ UNCHANGED <<phase, hit_error, bytepos, symbol_table, code, yo>>

MissingColon(ts) ==
    /\ Is(ts, 1, "IDENT") /\ ~Punct(ts, 2, ":")
    /\ fail /\ start_line
    /\ UNCHANGED <<phase, bytepos, symbol_table, code, yo>>

Labelled(ts) == Is(ts, 1, "IDENT") /\ Punct(ts, 2, ":")
BodyAt(ts)     == IF Labelled(ts) THEN 3 ELSE 1

add_symbol(ts) ==
    symbol_table' = IF Labelled(ts) /\ phase = "pass1"
                    THEN Append(symbol_table, [name |-> ts[1][2], pos |-> bytepos])
                    ELSE symbol_table

LabelLine(ts) ==
    /\ Labelled(ts) /\ Len(ts) = 2
    /\ add_symbol(ts) /\ print_code(bytepos, <<>>) /\ start_line
    /\ UNCHANGED <<hit_error, bytepos, code>>

HasBody(ts) == Len(ts) >= BodyAt(ts) /\ (Is(ts, 1, "IDENT") => Labelled(ts))
Directive(ts, name) == Token(ts, BodyAt(ts)) = <<"INSTR", name>>
Operand(ts)  == Token(ts, BodyAt(ts) + 1)
Numeric(ts)  == Operand(ts)[1] = "NUM" /\ (Directive(ts, "align") => Operand(ts)[2] > 0)
IsDirective(ts) == Directive(ts, "pos") \/ Directive(ts, "align")

BadLine(ts) ==
    /\ HasBody(ts)
    /\ ~Is(ts, BodyAt(ts), "INSTR") \/ (IsDirective(ts) /\ ~Numeric(ts))
    /\ add_symbol(ts) /\ fail /\ start_line
    /\ UNCHANGED <<phase, bytepos, code, yo>>

AlignedTo(a) == LET q == bytepos + a - 1  IN IF q < 0 THEN -((-q) \div a) * a ELSE (q \div a) * a

DirectiveLine(ts) ==
    /\ HasBody(ts) /\ IsDirective(ts) /\ Numeric(ts)
    /\ bytepos' = IF Directive(ts, "pos") THEN Operand(ts)[2] ELSE AlignedTo(Operand(ts)[2])
    /\ add_symbol(ts) /\ print_code(bytepos', <<>>) /\ start_line
    /\ UNCHANGED <<hit_error, code>>

(* code keeps what the instruction before it left there.                   *)
InstructionLine(ts) ==
    /\ HasBody(ts) /\ Is(ts, BodyAt(ts), "INSTR") /\ ~IsDirective(ts)
    /\ LET instr == instruction_set(ts[BodyAt(ts)][2])
           e     == Encoded(ts, BodyAt(ts) + 1, instr)
       IN  /\ bytepos' = bytepos + instr.bytes
           /\ IF phase = "pass1" THEN UNCHANGED <<phase, hit_error, code, yo>>
              ELSE /\ code' = e.s.code /\ hit_error' = (hit_error \/ e.s.failed)
                   /\ IF e.printed THEN print_code(bytepos, SubSeq(e.s.code, 1, instr.bytes))
                      ELSE UNCHANGED <<phase, yo>>
    /\ add_symbol(ts) /\ start_line

finish_line(ts) ==
    IF error_mode /\ tokens # <<>> THEN ErroneousLine
    ELSE \/ EmptyLine(ts) \/ MissingColon(ts) \/ LabelLine(ts)
         \/ BadLine(ts) \/ DirectiveLine(ts) \/ InstructionLine(ts)

(* add_token asks tpos, which is 0, instead of tcount whether there is     *)
(* room: the thirteenth token lands behind the array.                      *)
TooManyTokens ==
    /\ phase' = "undefined"
    /\ UNCHANGED <<tokens, error_mode, hit_error, bytepos, symbol_table, code, yo>>

Line == \E line \in Candidates :
    /\ ReadLine(line)
    /\ LET bad == line # <<>> /\ Last(line) = Invalid
           ts  == tokens \o (IF bad THEN Front(line) ELSE line)
       IN  IF Len(ts) > TOK_PER_LINE THEN TooManyTokens
           ELSE IF bad THEN InvalidLine(ts) ELSE finish_line(ts)

EndPass1 ==
    /\ phase = "pass1"
    /\ phase' = IF hit_error \/ tokens # <<>> THEN "rejected" ELSE "pass2"
    /\ lineno' = 1 /\ error_mode' = FALSE /\ bytepos' = 0
    /\ UNCHANGED <<file, tokens, hit_error, symbol_table, code, yo, memory>>

EndPass2 ==
    /\ phase = "pass2" /\ lineno > Len(file)
    /\ phase' = IF hit_error THEN "rejected" ELSE "load"
    /\ lineno' = 1
    /\ UNCHANGED <<file, tokens, error_mode, hit_error, bytepos, symbol_table, code, yo, memory>>

-----------------------------------------------------------------------------
(* load_mem, line by line, up to the first byte that has no place.         *)
Bytes(l) == l.pos .. l.pos + Len(l.code) - 1

load_mem ==
    /\ phase = "load"
    /\ IF lineno > Len(yo) THEN phase' = "loaded" /\ UNCHANGED <<lineno, memory>>
       ELSE LET l     == yo[lineno]
                fits  == {a \in Bytes(l) : a < MEM_SIZE}
            IN  /\ memory' = [a \in DOMAIN memory \cup fits |->
                                IF a \in fits THEN l.code[a - l.pos + 1] ELSE memory[a]]
                /\ phase' = IF fits = Bytes(l) THEN phase ELSE "refused"
                /\ lineno' = lineno + 1
    /\ UNCHANGED <<file, tokens, error_mode, hit_error, bytepos, symbol_table, code, yo>>

YasNext == Line \/ EndPass1 \/ EndPass2 \/ load_mem
YasSpec == YasInit /\ [][YasNext]_yasVars

-----------------------------------------------------------------------------
(* What step_state reads at an address of memory.                          *)
get_byte_val(a) == IF a \in DOMAIN memory THEN memory[a] ELSE 0
SignedByte(b)   == IF b > 127 THEN b - 256 ELSE b
get_word_val(a) == get_byte_val(a) + 256 * get_byte_val(a + 1)
                   + 65536 * get_byte_val(a + 2) + 16777216 * SignedByte(get_byte_val(a + 3))

need_regids(icode) == icode \in {2, 6, 10, 11, 3, 4, 5, 12}
need_imm(icode)    == icode \in {3, 4, 5, 7, 8, 12}

Fetched(a) ==
    LET icode == HI4(get_byte_val(a))
        regs  == IF need_regids(icode) THEN get_byte_val(a + 1) ELSE HPACK(REG_NONE, REG_NONE)
        cpos  == IF need_regids(icode) THEN a + 2 ELSE a + 1
    IN  [icode |-> icode, ifun |-> LO4(get_byte_val(a)), rA |-> HI4(regs), rB |-> LO4(regs),
         valC |-> IF need_imm(icode) THEN get_word_val(cpos) ELSE 0]

-----------------------------------------------------------------------------
(* What the source says: where each line lies, what a label stands for,    *)
(* and which instruction, registers and number a line names.               *)
Name(line) == IF BodyAt(line) <= Len(line) /\ Is(line, BodyAt(line), "INSTR") THEN line[BodyAt(line)][2] ELSE "none"
Size(line) == IF Name(line) \in {"none", "pos", "align"} THEN 0 ELSE instruction_set(Name(line)).bytes

Place[k \in 0 .. Len(file)] ==      \* the first address behind line k
    IF k = 0 THEN 0
    ELSE CASE Name(file[k]) = "pos"   -> Operand(file[k])[2]
           [] Name(file[k]) = "align" -> LET a == Operand(file[k])[2]
                                         IN  CHOOSE n \in Place[k-1] .. Place[k-1] + a - 1 : n % a = 0
           [] OTHER -> Place[k-1] + Size(file[k])

LabelOf(name) == Place[Min({k \in DOMAIN file : Token(file[k], 1) = <<"IDENT", name>>}) - 1]

(* A number at token k, and the parts of a memory operand that begins      *)
(* there: what is behind its displacement, and its base.                   *)
NumberOf(line, k) ==
    IF Is(line, k, "NUM") THEN line[k][2] ELSE IF Is(line, k, "IDENT") THEN LabelOf(line[k][2]) ELSE 0
Behind(line, k)   == IF IsNumber(line, k) THEN k + 1 ELSE k
Based(line, k)    == Punct(line, Behind(line, k), "(")
Base(line, k)     == IF Based(line, k) THEN line[Behind(line, k) + 1][2] ELSE REG_NONE

RegisterFirst  == DOMAIN rrmovq \cup DOMAIN alu \cup DOMAIN pushpop \cup {"rmmovq"}
NumberFirst    == DOMAIN jump \cup DOMAIN immed \cup {"call", "mrmovq"}
RegisterSecond == DOMAIN rrmovq \cup DOMAIN alu \cup DOMAIN immed

(* The operands that the instruction takes; yas reads none of the tokens   *)
(* that follow them.                                                       *)
Meaning(line) ==
    LET name   == Name(line)
        opcode == instruction_set(name).code
        k      == BodyAt(line) + 1
    IN  [icode |-> HI4(opcode), ifun |-> LO4(opcode),
         valC |-> CASE name \in NumberFirst -> NumberOf(line, k)
                    [] name = "rmmovq" -> NumberOf(line, k + 2)
                    [] OTHER -> 0,
         rA |-> CASE name \in RegisterFirst -> line[k][2]
                  [] name = "mrmovq" -> line[Behind(line, k) + (IF Based(line, k) THEN 4 ELSE 1)][2]
                  [] OTHER -> REG_NONE,
         rB |-> CASE name \in RegisterSecond -> line[k + 2][2]
                  [] name = "rmmovq" -> Base(line, k + 2)
                  [] name = "mrmovq" -> Base(line, k)
                  [] OTHER -> REG_NONE]

(* Whatever labels are used before their line, lines lie apart or run into *)
(* each other and bytes are left over in code: once a file is assembled    *)
(* without an error and loaded, step_state reads at the place of a line    *)
(* the instruction that the line names, unless later lines lie over it.    *)
LoadedAsWritten ==
    phase = "loaded" =>
        \A k \in DOMAIN file :
            LET here(j) == Place[j-1] .. Place[j] - 1
            IN  /\ Size(file[k]) > 0 /\ Name(file[k]) \notin DOMAIN data
                /\ \A j \in DOMAIN Place : Place[j] >= 0
                /\ \A j \in k + 1 .. Len(file) : Size(file[j]) > 0 => here(j) \cap here(k) = {}
                => Fetched(Place[k-1]) = Meaning(file[k])
=============================================================================
