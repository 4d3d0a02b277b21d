------------------------------ MODULE IsaFacts ------------------------------
(***************************************************************************)
(* Words stay words, registers registers, whatever the width of a word;    *)
(* and what step_state does, as a function, with which the check of ssim   *)
(* and psim with -t follows any processor whose states that function gives.*)
(***************************************************************************)
EXTENDS IsaCheck, TLAPS

LEMMA HalfNat == HALF \in Nat /\ HALF > 1
BY WordAssumption

LEMMA Modulus ==
    ASSUME NEW x \in Int, NEW n \in Nat, n > 0
    PROVE  x % n \in 0 .. n - 1
OBVIOUS

LEMMA ModulusOfSmall ==
    ASSUME NEW n \in Nat, n > 0, NEW x \in 0 .. n - 1
    PROVE  x % n = x
OBVIOUS

LEMMA WrapType == \A x \in Int : Wrap(x) \in word_t
<1> TAKE x \in Int
<1>1. (x + HALF) % (2 * HALF) \in 0 .. 2 * HALF - 1
  BY HalfNat, Modulus
<1> QED
  BY <1>1, HalfNat DEF Wrap, word_t

LEMMA WrapId == \A x \in word_t : Wrap(x) = x
<1> TAKE x \in word_t
<1>1. (x + HALF) % (2 * HALF) = x + HALF
  BY HalfNat, ModulusOfSmall DEF word_t
<1> QED
  BY <1>1, HalfNat DEF Wrap, word_t

LEMMA SmallWords == {-1, 0, 1} \subseteq word_t /\ word_t \subseteq Int
BY HalfNat DEF word_t

LEMMA AluType ==
    \A op : \A argA, argB \in word_t : compute_alu(op, argA, argB) \in word_t
<1> TAKE op
<1> TAKE argA, argB \in word_t
<1>1. CASE op \in {"ADD", "SUB"}
  BY <1>1, WrapType, SmallWords DEF compute_alu
<1>2. \A B \in SUBSET (0 .. WORD - 1) : WordWith(B) \in word_t
  BY WrapType, UnsignedAssumption DEF WordWith
<1>3. CASE op \in {"AND", "XOR"}
  BY <1>2, <1>3 DEF compute_alu, BitsOf
<1>4. CASE op \notin {"ADD", "SUB", "AND", "XOR"}
  BY <1>4, SmallWords DEF compute_alu
<1> QED
  BY <1>1, <1>3, <1>4

LEMMA CcType ==
    \A op : \A argA, argB \in word_t : compute_cc(op, argA, argB) \in cc_t
BY DEF compute_cc, cc_t

LEMMA RegsType ==
    ASSUME NEW r \in [Regs -> word_t]
    PROVE  /\ \A id \in RegId : get_reg_val(r, id) \in word_t
           /\ \A id \in RegId, val \in word_t : set_reg_val(r, id, val) \in [Regs -> word_t]
BY SmallWords DEF get_reg_val, set_reg_val, RegId

LEMMA DataType ==
    ASSUME NEW m \in [0 .. DataWords - 1 -> word_t]
    PROVE  /\ \A pos : get_word_val(m, pos) \in word_t
           /\ \A pos : \A val \in word_t :
                 set_word_val(m, pos, val) \in [0 .. DataWords - 1 -> word_t]
BY SmallWords DEF get_word_val, set_word_val, ValidAddr

LEMMA PlainType == \A icode \in itype_t : Plain(icode) \in Instr
BY SmallWords DEF Plain, Instr, RegId, alu_t, cond_t

LEMMA FetchType == \A code \in Programs : \A pc : FetchAt(code, pc) \in Instr
BY ProgramsAssumption, PlainType DEF FetchAt, itype_t

-----------------------------------------------------------------------------
(* The states of the instruction set, and what step_state makes of one     *)
(* when c is the program.  The last case is that of ret and popq.          *)
Cpu == [pc : word_t, r : [Regs -> word_t], m : [0 .. DataWords - 1 -> word_t], cc : cc_t, stat : stat_t]
State(p, r, m, cc, st) == [pc |-> p, r |-> r, m |-> m, cc |-> cc, stat |-> st]

Moved(s, i, to) ==
    CASE i.icode = "RRMOVQ" ->
           State(to, IF cond_holds(s.cc, i.ifun) THEN set_reg_val(s.r, i.rB, get_reg_val(s.r, i.rA)) ELSE s.r,
                 s.m, s.cc, "AOK")
      [] OTHER -> State(to, set_reg_val(s.r, i.rB, i.valC), s.m, s.cc, "AOK")

Calculated(s, op, a, i, to) ==
    State(to, set_reg_val(s.r, i.rB, compute_alu(op, a, get_reg_val(s.r, i.rB))), s.m,
          compute_cc(op, a, get_reg_val(s.r, i.rB)), "AOK")

Referred(s, i, addr, to) ==
    State(IF ValidAddr(addr) THEN to ELSE s.pc,
          IF i.icode = "MRMOVQ" /\ ValidAddr(addr) THEN set_reg_val(s.r, i.rA, s.m[addr]) ELSE s.r,
          IF i.icode = "RMMOVQ" THEN set_word_val(s.m, addr, get_reg_val(s.r, i.rA)) ELSE s.m,
          s.cc, IF ValidAddr(addr) THEN "AOK" ELSE "ADR")

Pushed(s, sp, val, to) ==
    State(IF ValidAddr(sp) THEN to ELSE s.pc, set_reg_val(s.r, RRSP, sp), set_word_val(s.m, sp, val),
          s.cc, IF ValidAddr(sp) THEN "AOK" ELSE "ADR")

Popped(s, i, moved, to) ==
    IF ~ValidAddr(s.r[RRSP]) THEN State(s.pc, IF i.icode = "RET" THEN s.r ELSE moved, s.m, s.cc, "ADR")
    ELSE IF i.icode = "RET" THEN State(s.m[s.r[RRSP]], moved, s.m, s.cc, "AOK")
    ELSE State(to, set_reg_val(moved, i.rA, s.m[s.r[RRSP]]), s.m, s.cc, "AOK")

Executed(s, i, next) ==
    CASE i.icode = "HALT" -> State(s.pc, s.r, s.m, s.cc, "HLT")
      [] i.icode = "BAD"  -> State(s.pc, s.r, s.m, s.cc, "INS")
      [] i.icode = "NOP"  -> State(next, s.r, s.m, s.cc, "AOK")
      [] i.icode = "JMP"  -> State(IF cond_holds(s.cc, i.ifun) THEN i.valC ELSE next, s.r, s.m, s.cc, "AOK")
      [] i.icode \in {"RRMOVQ", "IRMOVQ"} -> Moved(s, i, next)
      [] i.icode = "ALU"   -> Calculated(s, i.ifun, get_reg_val(s.r, i.rA), i, next)
      [] i.icode = "IADDQ" -> Calculated(s, "ADD", i.valC, i, next)
      [] i.icode \in {"RMMOVQ", "MRMOVQ"} -> Referred(s, i, Wrap(i.valC + get_reg_val(s.r, i.rB)), next)
      [] i.icode = "CALL"  -> Pushed(s, Wrap(s.r[RRSP] - 1), next, i.valC)
      [] i.icode = "PUSHQ" -> Pushed(s, Wrap(s.r[RRSP] - 1), get_reg_val(s.r, i.rA), next)
      [] OTHER -> Popped(s, i, set_reg_val(s.r, RRSP, Wrap(s.r[RRSP] + 1)), next)

After(c, s) == IF FetchError(s.pc) THEN State(s.pc, s.r, s.m, s.cc, "ADR")
               ELSE Executed(s, FetchAt(c, s.pc), Wrap(s.pc + 1))

(* Where step_state has come to.                                           *)
There == State(isa_pc, isa_r, isa_m, isa_cc, e)

(* step_state has its operators from an instance of Isa: they are the same.*)
LEMMA StateWords ==
    /\ \A x : isa_state!Wrap(x) = Wrap(x)
    /\ \A op, a, b : isa_state!compute_alu(op, a, b) = compute_alu(op, a, b)
    /\ \A op, a, b : isa_state!compute_cc(op, a, b) = compute_cc(op, a, b)
<1>1. \A x : isa_state!Wrap(x) = Wrap(x)
  BY DEF isa_state!Wrap, Wrap
<1>2. \A x : isa_state!BitsOf(x) = BitsOf(x)
  BY DEF isa_state!BitsOf, BitsOf
<1>3. \A B : isa_state!Unsigned(B) = Unsigned(B)
  BY Zenon DEF isa_state!Unsigned, Unsigned, isa_state!MapThenSumSet, MapThenSumSet,
               isa_state!MapThenFoldSet, MapThenFoldSet
<1>4. \A op, a, b : isa_state!compute_alu(op, a, b) = compute_alu(op, a, b)
  BY <1>1, <1>2, <1>3 DEF isa_state!compute_alu, compute_alu, isa_state!WordWith, WordWith
<1>5. \A op, a, b : isa_state!compute_cc(op, a, b) = compute_cc(op, a, b)
  <2> TAKE op, a, b
  <2>1. isa_state!compute_alu(op, a, b) = compute_alu(op, a, b)
    BY <1>4
  <2> QED
    BY <2>1, Zenon DEF isa_state!compute_cc, compute_cc
<1> QED
  BY <1>1, <1>4, <1>5

(* Registers, memory and conditions are the same, too.                     *)
LEMMA StateAccess ==
    /\ \A a : isa_state!FetchError(a) = FetchError(a)
    /\ \A c, a : isa_state!FetchAt(c, a) = FetchAt(c, a)
    /\ \A c, bcond : isa_state!cond_holds(c, bcond) = cond_holds(c, bcond)
    /\ \A r, id : isa_state!get_reg_val(r, id) = get_reg_val(r, id)
    /\ \A r, id, val : isa_state!set_reg_val(r, id, val) = set_reg_val(r, id, val)
    /\ \A a : isa_state!ValidAddr(a) = ValidAddr(a)
    /\ \A m, a, val : isa_state!set_word_val(m, a, val) = set_word_val(m, a, val)
    /\ isa_state!DEFAULT_CC = DEFAULT_CC
BY DEF isa_state!FetchError, FetchError, isa_state!FetchAt, FetchAt, isa_state!Plain, Plain,
       isa_state!cond_holds, cond_holds, isa_state!get_reg_val, get_reg_val,
       isa_state!set_reg_val, set_reg_val, isa_state!ValidAddr, ValidAddr,
       isa_state!set_word_val, set_word_val, isa_state!DEFAULT_CC, DEFAULT_CC

LEMMA StateParts ==
    \A p, r, m, c, st : /\ State(p, r, m, c, st).pc = p /\ State(p, r, m, c, st).r = r
                        /\ State(p, r, m, c, st).m = m /\ State(p, r, m, c, st).cc = c
                        /\ State(p, r, m, c, st).stat = st
BY DEF State

(* step_state makes what After says.                                       *)
LEMMA IsaIsAfter ==
    ASSUME isa_state!Next
    PROVE  There' = After(isa_code, There) /\ There.stat = "AOK"
<1> PICK s : s = There
  OBVIOUS
<1> PICK i : i = FetchAt(isa_code, isa_pc)
  OBVIOUS
<1> PICK next : next = Wrap(isa_pc + 1)
  OBVIOUS
<1>1. s.pc = isa_pc /\ s.r = isa_r /\ s.m = isa_m /\ s.cc = isa_cc /\ s.stat = e
  BY StateParts DEF There
<1>2. There' = State(isa_pc', isa_r', isa_m', isa_cc', e')
  BY DEF There, State
<1>3. isa_state!instr = i /\ isa_state!ftpc = next
  BY StateWords, StateAccess DEF isa_state!instr, isa_state!ftpc
<1>4. ASSUME NEW icodes, isa_state!Fetched(icodes)
      PROVE  e = "AOK" /\ After(isa_code, s) = Executed(s, i, next) /\ i.icode \in icodes
  BY <1>1, <1>3, <1>4, StateAccess DEF isa_state!Fetched, After
<1> SUFFICES State(isa_pc', isa_r', isa_m', isa_cc', e') = After(isa_code, s) /\ e = "AOK"
  BY <1>1, <1>2
<1>5. CASE isa_state!BadAddress
  BY <1>1, <1>5, StateAccess DEF isa_state!BadAddress, isa_state!Except, After
<1>6. CASE isa_state!Halt
  BY <1>1, <1>4, <1>6 DEF isa_state!Halt, isa_state!Except, Executed
<1>7. CASE isa_state!Invalid
  BY <1>1, <1>4, <1>7 DEF isa_state!Invalid, isa_state!Except, Executed
<1>8. CASE isa_state!Nop
  BY <1>1, <1>3, <1>4, <1>8 DEF isa_state!Nop, isa_state!Continue, Executed
<1>9. CASE isa_state!Jump
  <2>1. /\ isa_pc' = IF cond_holds(s.cc, i.ifun) THEN i.valC ELSE next
        /\ isa_r' = s.r /\ isa_m' = s.m /\ isa_cc' = s.cc /\ e' = "AOK"
    BY <1>1, <1>3, <1>9, StateAccess DEF isa_state!Jump, isa_state!Continue
  <2> QED
    BY <1>4, <1>9, <2>1 DEF isa_state!Jump, Executed
<1>10. CASE isa_state!Rrmovq
  <2>1. /\ isa_r' = IF cond_holds(s.cc, i.ifun) THEN set_reg_val(s.r, i.rB, get_reg_val(s.r, i.rA)) ELSE s.r
        /\ isa_pc' = next /\ isa_m' = s.m /\ isa_cc' = s.cc /\ e' = "AOK"
    BY <1>1, <1>3, <1>10, StateAccess DEF isa_state!Rrmovq, isa_state!Continue
  <2> QED
    BY <1>4, <1>10, <2>1 DEF isa_state!Rrmovq, Executed, Moved
<1>11. CASE isa_state!Irmovq
  <2>1. /\ isa_r' = set_reg_val(s.r, i.rB, i.valC)
        /\ isa_pc' = next /\ isa_m' = s.m /\ isa_cc' = s.cc /\ e' = "AOK"
    BY <1>1, <1>3, <1>11, StateAccess DEF isa_state!Irmovq, isa_state!Continue
  <2> QED
    BY <1>4, <1>11, <2>1 DEF isa_state!Irmovq, Executed, Moved
<1>12. CASE isa_state!Alu
  <2> DEFINE op   == IF i.icode = "ALU" THEN i.ifun ELSE "ADD"
             argA == IF i.icode = "ALU" THEN get_reg_val(s.r, i.rA) ELSE i.valC
             argB == get_reg_val(s.r, i.rB)
  <2>1. /\ isa_r' = set_reg_val(s.r, i.rB, compute_alu(op, argA, argB))
        /\ isa_cc' = compute_cc(op, argA, argB)
        /\ isa_pc' = next /\ isa_m' = s.m /\ e' = "AOK"
    BY <1>1, <1>3, <1>12, StateAccess, StateWords DEF isa_state!Alu, isa_state!Continue
  <2>2. i.icode \in {"ALU", "IADDQ"} /\ After(isa_code, s) = Executed(s, i, next) /\ e = "AOK"
    BY <1>4, <1>12 DEF isa_state!Alu
  <2> QED
    BY <2>1, <2>2 DEF Executed, Calculated
<1>13. CASE isa_state!Rmmovq \/ isa_state!Mrmovq
  <2>1. /\ i.icode \in {"RMMOVQ", "MRMOVQ"} /\ After(isa_code, s) = Executed(s, i, next) /\ e = "AOK"
        /\ isa_state!Rmmovq => i.icode = "RMMOVQ"
        /\ isa_state!Mrmovq => i.icode = "MRMOVQ"
    BY <1>4, <1>13 DEF isa_state!Rmmovq, isa_state!Mrmovq
  <2>2. PICK addr : addr = Wrap(i.valC + get_reg_val(s.r, i.rB))
    OBVIOUS
  <2>3. isa_state!Address = addr
    BY <1>1, <1>3, <2>2, StateAccess, StateWords DEF isa_state!Address
  <2>4. /\ isa_pc' = IF ValidAddr(addr) THEN next ELSE s.pc
        /\ e' = IF ValidAddr(addr) THEN "AOK" ELSE "ADR"
        /\ isa_cc' = s.cc
        /\ isa_r' = IF i.icode = "MRMOVQ" /\ ValidAddr(addr) THEN set_reg_val(s.r, i.rA, s.m[addr]) ELSE s.r
        /\ isa_m' = IF i.icode = "RMMOVQ" THEN set_word_val(s.m, addr, get_reg_val(s.r, i.rA)) ELSE s.m
    BY <1>1, <1>3, <1>13, <2>1, <2>3, StateAccess
       DEF isa_state!Rmmovq, isa_state!Mrmovq, isa_state!Continue, isa_state!Except
  <2> QED
    BY <2>1, <2>2, <2>4 DEF Executed, Referred
<1>14. CASE isa_state!Call \/ isa_state!Pushq
  <2>1. /\ i.icode \in {"CALL", "PUSHQ"} /\ After(isa_code, s) = Executed(s, i, next) /\ e = "AOK"
        /\ isa_state!Call => i.icode = "CALL"
        /\ isa_state!Pushq => i.icode = "PUSHQ"
    BY <1>4, <1>14 DEF isa_state!Call, isa_state!Pushq
  <2>2. PICK sp, val, to : /\ sp = Wrap(s.r[RRSP] - 1)
                           /\ val = IF i.icode = "CALL" THEN next ELSE get_reg_val(s.r, i.rA)
                           /\ to = IF i.icode = "CALL" THEN i.valC ELSE next
    OBVIOUS
  <2>3. isa_state!PushTo(sp, val, to)
    BY <1>1, <1>3, <1>14, <2>1, <2>2, StateAccess, StateWords DEF isa_state!Call, isa_state!Pushq
  <2>4. /\ isa_pc' = IF ValidAddr(sp) THEN to ELSE s.pc
        /\ e' = IF ValidAddr(sp) THEN "AOK" ELSE "ADR"
        /\ isa_cc' = s.cc
        /\ isa_r' = set_reg_val(s.r, RRSP, sp)
        /\ isa_m' = set_word_val(s.m, sp, val)
    BY <1>1, <2>3, StateAccess DEF isa_state!PushTo, isa_state!Continue, isa_state!Except
  <2>5. After(isa_code, s) = Pushed(s, sp, val, to)
    BY <2>1, <2>2 DEF Executed
  <2> QED
    BY <2>1, <2>4, <2>5 DEF Pushed
<1>15. CASE isa_state!Ret \/ isa_state!Popq
  <2>1. /\ i.icode \in {"RET", "POPQ"} /\ After(isa_code, s) = Executed(s, i, next) /\ e = "AOK"
        /\ isa_state!Ret => i.icode = "RET"
        /\ isa_state!Popq => i.icode = "POPQ"
    BY <1>4, <1>15 DEF isa_state!Ret, isa_state!Popq
  <2>2. PICK sp, moved : sp = s.r[RRSP] /\ moved = set_reg_val(s.r, RRSP, Wrap(sp + 1))
    OBVIOUS
  <2>3. After(isa_code, s) = Popped(s, i, moved, next)
    BY <2>1, <2>2 DEF Executed
  <2>4. CASE i.icode = "RET"
    <3>1. /\ isa_pc' = IF ValidAddr(sp) THEN s.m[sp] ELSE s.pc
          /\ e' = IF ValidAddr(sp) THEN "AOK" ELSE "ADR"
          /\ isa_cc' = s.cc /\ isa_m' = s.m
          /\ isa_r' = IF ValidAddr(sp) THEN moved ELSE s.r
      BY <1>1, <1>3, <1>15, <2>1, <2>2, <2>4, StateAccess, StateWords
         DEF isa_state!Ret, isa_state!Continue, isa_state!Except
    <3> QED
      BY <2>1, <2>2, <2>3, <2>4, <3>1 DEF Popped
  <2>5. CASE i.icode = "POPQ"
    <3>1. /\ isa_pc' = IF ValidAddr(sp) THEN next ELSE s.pc
          /\ e' = IF ValidAddr(sp) THEN "AOK" ELSE "ADR"
          /\ isa_cc' = s.cc /\ isa_m' = s.m
          /\ isa_r' = IF ValidAddr(sp) THEN set_reg_val(moved, i.rA, s.m[sp]) ELSE moved
      BY <1>1, <1>3, <1>15, <2>1, <2>2, <2>5, StateAccess, StateWords
         DEF isa_state!Popq, isa_state!Continue, isa_state!Except
    <3> QED
      BY <2>1, <2>2, <2>3, <2>5, <3>1 DEF Popped
  <2> QED
    BY <2>1, <2>4, <2>5
<1> QED
  BY <1>5, <1>6, <1>7, <1>8, <1>9, <1>10, <1>11, <1>12, <1>13, <1>14, <1>15 DEF isa_state!Next
-----------------------------------------------------------------------------
(* A run of the instruction set in n steps, and one that has come to here, *)
(* of which step_state has followed a part.                                *)
Chain(c, run, n) ==
    /\ run \in [0 .. n -> Cpu]
    /\ \A k \in 0 .. n - 1 : run[k].stat = "AOK" /\ run[k + 1] = After(c, run[k])

Reach(c, here, n) ==
    \E run : Chain(c, run, n) /\ run[n] = here /\ step \in 0 .. n /\ There = run[step]

(* Where both begin.                                                       *)
LEMMA ReachStarts ==
    ASSUME NEW c, There \in Cpu, step = 0
    PROVE  Reach(c, There, 0)
<1> PICK s : s = There
  OBVIOUS
<1> DEFINE run == [k \in 0 .. 0 |-> s]
<1>1. run \in [0 .. 0 -> Cpu] /\ run[0] = s /\ 0 .. 0 - 1 = {}
  OBVIOUS
<1>2. Chain(c, run, 0)
  BY <1>1 DEF Chain
<1> QED
  BY <1>1, <1>2 DEF Reach

(* The run goes on.                                                        *)
LEMMA ReachGrows ==
    ASSUME NEW c, NEW n \in Nat, NEW here, here.stat = "AOK", Reach(c, here, n),
           After(c, here) \in Cpu
    PROVE  Reach(c, After(c, here), n + 1)
<1>1. PICK run : Chain(c, run, n) /\ run[n] = here /\ step \in 0 .. n /\ There = run[step]
  BY DEF Reach
<1> PICK g \in Cpu : g = After(c, here)
  OBVIOUS
<1> DEFINE on == [k \in 0 .. n + 1 |-> IF k = n + 1 THEN g ELSE run[k]]
<1>2. run \in [0 .. n -> Cpu]
  BY <1>1 DEF Chain
<1>3. on \in [0 .. n + 1 -> Cpu] /\ on[n + 1] = g /\ \A k \in 0 .. n : on[k] = run[k]
  BY <1>2
<1> HIDE DEF on
<1>4. ASSUME NEW k \in 0 .. (n + 1) - 1
      PROVE  on[k].stat = "AOK" /\ on[k + 1] = After(c, on[k])
  <2>1. CASE k = n
    BY <1>1, <1>3, <2>1
  <2>2. CASE k # n
    <3>1. k \in 0 .. n - 1 /\ k + 1 \in 0 .. n /\ k \in 0 .. n
      BY <2>2
    <3> QED
      BY <1>1, <1>3, <3>1 DEF Chain
  <2> QED
    BY <2>1, <2>2
<1>5. Chain(c, on, n + 1)
  BY <1>3, <1>4 DEF Chain
<1> QED
  BY <1>1, <1>3, <1>5 DEF Reach

(* step_state rests.                                                       *)
LEMMA ReachStays ==
    ASSUME NEW c, NEW n \in Nat, NEW here, Reach(c, here, n), step' = step, There' = There
    PROVE  Reach(c, here, n)'
BY DEF Reach

(* step_state follows.                                                     *)
LEMMA ReachFollows ==
    ASSUME NEW c, NEW n \in Nat, NEW here, Reach(c, here, n), c = isa_code,
           isa_state!Next, step' = step + 1, here.stat # "AOK" \/ step < n
    PROVE  Reach(c, here, n)'
<1>1. PICK run : Chain(c, run, n) /\ run[n] = here /\ step \in 0 .. n /\ There = run[step]
  BY DEF Reach
<1>2. There' = After(c, There) /\ There.stat = "AOK"
  BY IsaIsAfter
<1>3. step # n
  BY <1>1, <1>2
<1>4. step \in 0 .. n - 1 /\ step + 1 \in 0 .. n
  BY <1>1, <1>3
<1>5. There' = run[step']
  BY <1>1, <1>2, <1>4 DEF Chain
<1> QED
  BY <1>1, <1>4, <1>5 DEF Reach

(* step_state has come to the end.                                         *)
LEMMA ReachMeets ==
    ASSUME NEW c, NEW n \in Nat, NEW here, Reach(c, here, n), e # "AOK" \/ step >= n
    PROVE  There = here
<1>1. PICK run : Chain(c, run, n) /\ run[n] = here /\ step \in 0 .. n /\ There = run[step]
  BY DEF Reach
<1>2. step = n
  <2> SUFFICES ASSUME step # n PROVE FALSE
    OBVIOUS
  <2>1. step \in 0 .. n - 1
    BY <1>1
  <2>2. run[step].stat = "AOK"
    BY <1>1, <2>1 DEF Chain
  <2>3. e = "AOK"
    BY <1>1, <2>2 DEF There, State
  <2> QED
    BY <2>1, <2>3
<1> QED
  BY <1>1, <1>2

-----------------------------------------------------------------------------
(* A stack pointer that moves does not come to where it was.               *)
LEMMA WrapMoves == \A x \in word_t : Wrap(x + 1) # x /\ Wrap(x - 1) # x
<1> TAKE x \in word_t
<1>1. PICK n \in Nat : n = 2 * HALF /\ n > 2
  BY HalfNat
<1>2. PICK u \in 0 .. n - 1 : u = x + HALF
  BY <1>1, HalfNat DEF word_t
<1>3. (u + 1) % n # u
  <2>1. CASE u + 1 < n
    <3>1. (u + 1) % n = u + 1
      BY <1>1, <2>1, ModulusOfSmall
    <3> QED
      BY <3>1
  <2>2. CASE ~(u + 1 < n)
    <3>1. u + 1 = n
      BY <1>1, <2>2
    <3>2. n % n = 0
      BY <1>1
    <3> QED
      BY <1>1, <3>1, <3>2
  <2> QED
    BY <2>1, <2>2
<1>4. (u - 1) % n # u
  <2>1. CASE u > 0
    <3>1. (u - 1) % n = u - 1
      BY <1>1, <2>1, ModulusOfSmall
    <3> QED
      BY <3>1
  <2>2. CASE ~(u > 0)
    <3>1. u = 0
      BY <2>2
    <3>2. (0 - 1) % n # 0
      BY <1>1
    <3> QED
      BY <3>1, <3>2
  <2> QED
    BY <2>1, <2>2
<1>5. x + 1 + HALF = u + 1 /\ x - 1 + HALF = u - 1 /\ x = u - HALF
  BY <1>2, HalfNat DEF word_t
<1>6. (u + 1) % n \in Int /\ (u - 1) % n \in Int
  BY <1>1, Modulus
<1>7. Wrap(x + 1) = ((u + 1) % n) - HALF /\ Wrap(x - 1) = ((u - 1) % n) - HALF
  BY <1>1, <1>5 DEF Wrap
<1>8. \A v \in Int : v # u => v - HALF # x
  BY <1>5, HalfNat
<1> QED
  BY <1>3, <1>4, <1>6, <1>7, <1>8

(* What an instruction that ends the run has changed: %rsp, if it is one   *)
(* that moves it before it fails.                                          *)
LEMMA LastInstruction ==
    ASSUME NEW c \in Programs, NEW s \in Cpu, After(c, s).stat # "AOK"
    PROVE  LET a   == After(c, s)
               hit == a.stat = "ADR" /\ ~FetchError(s.pc)
                      /\ FetchAt(c, s.pc).icode \in {"CALL", "PUSHQ", "POPQ"}
           IN  a.pc = s.pc /\ a.m = s.m /\ a.cc = s.cc /\ (a.r = s.r <=> ~hit)
<1> PICK i : i = FetchAt(c, s.pc)
  OBVIOUS
<1> PICK next : next = Wrap(s.pc + 1)
  OBVIOUS
<1> PICK a : a = After(c, s)
  OBVIOUS
<1> DEFINE hit == a.stat = "ADR" /\ ~FetchError(s.pc) /\ i.icode \in {"CALL", "PUSHQ", "POPQ"}
<1> SUFFICES a.pc = s.pc /\ a.m = s.m /\ a.cc = s.cc /\ (a.r = s.r <=> ~hit)
  OBVIOUS
<1>1. i.icode \in itype_t /\ a.stat # "AOK"
  BY FetchType DEF Instr
<1>2. CASE FetchError(s.pc)
  BY <1>2, StateParts DEF After
<1>3. ~FetchError(s.pc) => a = Executed(s, i, next)
  BY DEF After
<1>4. CASE ~FetchError(s.pc) /\ i.icode \in {"HALT", "BAD", "NOP", "JMP"}
  BY <1>1, <1>3, <1>4, StateParts DEF Executed
<1>5. CASE ~FetchError(s.pc) /\ i.icode \in {"RRMOVQ", "IRMOVQ", "ALU", "IADDQ"}
  BY <1>1, <1>3, <1>5, StateParts DEF Executed, Moved, Calculated
<1>6. CASE ~FetchError(s.pc) /\ i.icode \in {"RMMOVQ", "MRMOVQ"}
  <2>1. PICK addr : addr = Wrap(i.valC + get_reg_val(s.r, i.rB))
    OBVIOUS
  <2>2. a = Referred(s, i, addr, next)
    BY <1>3, <1>6, <2>1 DEF Executed
  <2> QED
    BY <1>1, <1>6, <2>2, StateParts DEF Referred, set_word_val
<1>7. s.r[RRSP] \in word_t /\ \A v : v # s.r[RRSP] => set_reg_val(s.r, RRSP, v) # s.r
  BY RegsAssumption DEF set_reg_val, Cpu
<1>8. CASE ~FetchError(s.pc) /\ i.icode \in {"CALL", "PUSHQ"}
  <2>1. PICK sp : sp = Wrap(s.r[RRSP] - 1)
    OBVIOUS
  <2>2. \E val, to : a = Pushed(s, sp, val, to)
    BY <1>3, <1>8, <2>1 DEF Executed
  <2>3. ~ValidAddr(sp) /\ a.stat = "ADR" /\ a.r = set_reg_val(s.r, RRSP, sp)
        /\ a.pc = s.pc /\ a.m = s.m /\ a.cc = s.cc
    BY <1>1, <2>2, StateParts DEF Pushed, set_word_val
  <2>4. a.r # s.r
    BY <1>7, <2>1, <2>3, WrapMoves
  <2> QED
    BY <1>8, <2>3, <2>4
<1>9. CASE ~FetchError(s.pc) /\ i.icode \in {"RET", "POPQ"}
  <2>1. PICK moved : moved = set_reg_val(s.r, RRSP, Wrap(s.r[RRSP] + 1))
    OBVIOUS
  <2>2. a = Popped(s, i, moved, next)
    BY <1>3, <1>9, <2>1 DEF Executed
  <2>3. ~ValidAddr(s.r[RRSP])
    BY <1>1, <2>2, StateParts DEF Popped
  <2>4. a = State(s.pc, IF i.icode = "RET" THEN s.r ELSE moved, s.m, s.cc, "ADR")
    BY <2>2, <2>3 DEF Popped
  <2>5. moved # s.r
    BY <1>7, <2>1, WrapMoves
  <2> QED
    BY <1>9, <2>4, <2>5, StateParts
<1> QED
  BY <1>1, <1>2, <1>4, <1>5, <1>6, <1>8, <1>9 DEF itype_t
=============================================================================
