----------------------------- MODULE SeqProofs -----------------------------
(***************************************************************************)
(* The sequential processor implements the instruction set, for every      *)
(* program, word size, data memory and set of registers; and its check by  *)
(* -t compares the states that it should.                                  *)
(***************************************************************************)
EXTENDS SeqTty, IsaFacts

Inv == TypeOK /\ code \in Programs

(* What a step computes, with names for its intermediate values.           *)
fetched(p)         == IF FetchError(p) THEN Plain("NOP") ELSE FetchAt(code, p)
valA(p, r)         == get_reg_val(r, srcA(fetched(p)))
valB(p, r)         == get_reg_val(r, srcB(fetched(p)))
condition(p, c)    == cond_holds(c, fetched(p).ifun)
valE(p, r)         == compute_alu(alufun(fetched(p)), aluA(fetched(p), valA(p, r)), aluB(fetched(p), valB(p, r)))
address(p, r)      == mem_addr(fetched(p), valE(p, r), valA(p, r))
valM(p, r, m)      == IF mem_read(fetched(p)) THEN get_word_val(m, address(p, r)) ELSE 0

LEMMA ComputedParts ==
    ASSUME NEW p, NEW r, NEW m, NEW c
    PROVE  LET i == fetched(p)
           IN  /\ Computed(p, r, m, c).status =
                      gen_Stat(FetchError(p), (mem_read(i) \/ mem_write(i)) /\ ~ValidAddr(address(p, r)), i)
               /\ Computed(p, r, m, c).latch =
                      [pc_in |-> new_pc(i, condition(p, c), valM(p, r, m), Wrap(p + 1)),
                       cc_in |-> IF set_cc(i)
                                 THEN compute_cc(alufun(i), aluA(i, valA(p, r)), aluB(i, valB(p, r))) ELSE c,
                       destE |-> dstE(i, condition(p, c)), vale |-> valE(p, r),
                       destM |-> dstM(i), valm |-> valM(p, r, m),
                       mem_write |-> mem_write(i), mem_addr |-> address(p, r),
                       mem_data |-> mem_data(i, valA(p, r), Wrap(p + 1))]
BY DEF Computed, fetched, valA, valB, condition, valE, address, valM

LEMMA WordSums == \A x \in word_t : x + 1 \in Int /\ x + 0 = x
BY HalfNat DEF word_t

LEMMA FetchedType == code \in Programs => \A p : fetched(p) \in Instr
BY FetchType, PlainType DEF fetched, itype_t

LEMMA ValuesType ==
    ASSUME code \in Programs, NEW p, NEW r \in [Regs -> word_t],
           NEW m \in [0 .. DataWords - 1 -> word_t]
    PROVE  /\ valA(p, r) \in word_t /\ valB(p, r) \in word_t
           /\ aluA(fetched(p), valA(p, r)) \in word_t /\ aluB(fetched(p), valB(p, r)) \in word_t
           /\ valE(p, r) \in word_t /\ address(p, r) \in word_t /\ valM(p, r, m) \in word_t
<1> DEFINE i == fetched(p)
<1>1. i.valC \in word_t /\ i.rA \in RegId /\ i.rB \in RegId /\ RRSP \in RegId /\ RNONE \in RegId
  BY FetchedType, RegsAssumption DEF Instr, RegId
<1>2. srcA(i) \in RegId /\ srcB(i) \in RegId
  BY <1>1 DEF srcA, srcB
<1>3. valA(p, r) \in word_t /\ valB(p, r) \in word_t
  BY <1>2, RegsType DEF valA, valB
<1>4. aluA(i, valA(p, r)) \in word_t /\ aluB(i, valB(p, r)) \in word_t
  BY <1>1, <1>3, SmallWords DEF aluA, aluB
<1>5. valE(p, r) \in word_t
  BY <1>4, AluType DEF valE
<1>6. address(p, r) \in word_t
  BY <1>3, <1>5, SmallWords DEF address, mem_addr
<1>7. valM(p, r, m) \in word_t
  BY DataType, SmallWords DEF valM
<1> QED
  BY <1>3, <1>4, <1>5, <1>6, <1>7

LEMMA LatchType ==
    ASSUME code \in Programs, NEW p \in word_t, NEW r \in [Regs -> word_t],
           NEW m \in [0 .. DataWords - 1 -> word_t], NEW c \in cc_t
    PROVE  Computed(p, r, m, c).status \in stat_t /\ Computed(p, r, m, c).latch \in latch_t
<1> DEFINE i == fetched(p)
<1>1. i.valC \in word_t /\ i.rA \in RegId /\ i.rB \in RegId /\ RRSP \in RegId /\ RNONE \in RegId
  BY FetchedType, RegsAssumption DEF Instr, RegId
<1>2. Wrap(p + 1) \in word_t
  BY WrapType, SmallWords
<1>3. new_pc(i, condition(p, c), valM(p, r, m), Wrap(p + 1)) \in word_t
  BY <1>1, <1>2, ValuesType DEF new_pc
<1>4. /\ dstE(i, condition(p, c)) \in RegId /\ dstM(i) \in RegId
      /\ mem_write(i) \in BOOLEAN
      /\ mem_data(i, valA(p, r), Wrap(p + 1)) \in word_t
  BY <1>1, <1>2, ValuesType, SmallWords DEF dstE, dstM, mem_write, mem_data
<1>5. (IF set_cc(i) THEN compute_cc(alufun(i), aluA(i, valA(p, r)), aluB(i, valB(p, r))) ELSE c) \in cc_t
  BY ValuesType, CcType
<1>6. Computed(p, r, m, c).latch \in latch_t
  <2>1. valE(p, r) \in word_t /\ valM(p, r, m) \in word_t /\ address(p, r) \in word_t
    BY ValuesType
  <2>2. Computed(p, r, m, c).latch =
            [pc_in |-> new_pc(i, condition(p, c), valM(p, r, m), Wrap(p + 1)),
             cc_in |-> IF set_cc(i)
                       THEN compute_cc(alufun(i), aluA(i, valA(p, r)), aluB(i, valB(p, r))) ELSE c,
             destE |-> dstE(i, condition(p, c)), vale |-> valE(p, r),
             destM |-> dstM(i), valm |-> valM(p, r, m),
             mem_write |-> mem_write(i), mem_addr |-> address(p, r),
             mem_data |-> mem_data(i, valA(p, r), Wrap(p + 1))]
    BY ComputedParts
  <2> HIDE DEF i
  <2> QED  BY <1>3, <1>4, <1>5, <2>1, <2>2 DEF latch_t
<1>7. Computed(p, r, m, c).status \in stat_t
  BY ComputedParts DEF gen_Stat, stat_t
<1> QED
  BY <1>6, <1>7

LEMMA UpdatedType ==
    ASSUME TypeOK
    PROVE  UpdatedReg \in [Regs -> word_t] /\ UpdatedMem \in [0 .. DataWords - 1 -> word_t]
<1>1. set_reg_val(reg, latch.destE, latch.vale) \in [Regs -> word_t]
  BY RegsType DEF TypeOK, latch_t
<1>2. UpdatedReg \in [Regs -> word_t]
  BY <1>1, RegsType DEF TypeOK, latch_t, UpdatedReg
<1>3. UpdatedMem \in [0 .. DataWords - 1 -> word_t]
  BY DataType DEF TypeOK, latch_t, UpdatedMem
<1> QED
  BY <1>2, <1>3

LEMMA InvInit == Init => Inv
<1> SUFFICES ASSUME Init PROVE Inv
  OBVIOUS
<1>1. reg \in [Regs -> word_t] /\ mem \in [0 .. DataWords - 1 -> word_t]
  BY ProgramsAssumption, SmallWords DEF Init
<1>2. cc \in cc_t /\ pc \in word_t /\ status \in stat_t /\ latch \in latch_t
  BY SmallWords DEF Init, cc_t, DEFAULT_CC, stat_t, latch_t, RegId
<1> QED
  BY <1>1, <1>2 DEF Init, Inv, TypeOK

LEMMA InvStep == Inv /\ [Next]_vars => Inv'
<1> SUFFICES ASSUME Inv, sim_step PROVE Inv'
  BY DEF Next, vars, Inv, TypeOK
<1>1. latch.pc_in \in word_t /\ latch.cc_in \in cc_t
  BY DEF Inv, TypeOK, latch_t
<1>2. status' \in stat_t /\ latch' \in latch_t
  BY <1>1, LatchType, UpdatedType DEF sim_step, Inv
<1> QED
  BY <1>1, <1>2, UpdatedType DEF sim_step, Inv, TypeOK

LEMMA InvAlways == Spec => []Inv
BY InvInit, InvStep, PTL DEF Spec

(* Registers, memory, condition codes and the latch keep their types.      *)
THEOREM TypeCorrect == Spec => []TypeOK
<1>1. Inv => TypeOK
  BY DEF Inv
<1> QED
  BY <1>1, InvAlways, PTL

-----------------------------------------------------------------------------
(* The instruction set has its operators from an instance of Isa: they are *)
(* the processor's.                                                        *)
LEMMA SameWords ==
    /\ \A x : ISA!Wrap(x) = Wrap(x)
    /\ \A x : ISA!BitsOf(x) = BitsOf(x)
    /\ \A B : ISA!Unsigned(B) = Unsigned(B)
<1>1. \A x : ISA!Wrap(x) = Wrap(x)
  BY DEF ISA!Wrap, Wrap
<1>2. \A x : ISA!BitsOf(x) = BitsOf(x)
  BY DEF ISA!BitsOf, BitsOf
<1>3. \A B : ISA!Unsigned(B) = Unsigned(B)
  BY Zenon DEF ISA!Unsigned, Unsigned, ISA!MapThenSumSet, MapThenSumSet,
               ISA!MapThenFoldSet, MapThenFoldSet
<1> QED
  BY <1>1, <1>2, <1>3

LEMMA SameArithmetic ==
    /\ \A op, a, b : ISA!compute_alu(op, a, b) = compute_alu(op, a, b)
    /\ \A op, a, b : ISA!compute_cc(op, a, b) = compute_cc(op, a, b)
<1>1. \A op, a, b : ISA!compute_alu(op, a, b) = compute_alu(op, a, b)
  BY SameWords DEF ISA!compute_alu, compute_alu, ISA!WordWith, WordWith
<1>2. \A op, a, b : ISA!compute_cc(op, a, b) = compute_cc(op, a, b)
  <2> TAKE op, a, b
  <2>1. ISA!compute_alu(op, a, b) = compute_alu(op, a, b)
    BY <1>1
  <2> QED
    BY <2>1, Zenon DEF ISA!compute_cc, compute_cc
<1> QED
  BY <1>1, <1>2

LEMMA SameAccess ==
    /\ \A a : ISA!FetchError(a) = FetchError(a)
    /\ \A c, a : ISA!FetchAt(c, a) = FetchAt(c, a)
    /\ \A c, bcond : ISA!cond_holds(c, bcond) = cond_holds(c, bcond)
    /\ \A r, id : ISA!get_reg_val(r, id) = get_reg_val(r, id)
    /\ \A r, id, val : ISA!set_reg_val(r, id, val) = set_reg_val(r, id, val)
    /\ \A a : ISA!ValidAddr(a) = ValidAddr(a)
    /\ \A m, a, val : ISA!set_word_val(m, a, val) = set_word_val(m, a, val)
    /\ ISA!DEFAULT_CC = DEFAULT_CC
BY DEF ISA!FetchError, FetchError, ISA!FetchAt, FetchAt, ISA!Plain, Plain, ISA!cond_holds, cond_holds,
       ISA!get_reg_val, get_reg_val, ISA!set_reg_val, set_reg_val, ISA!ValidAddr, ValidAddr,
       ISA!set_word_val, set_word_val, ISA!DEFAULT_CC, DEFAULT_CC

-----------------------------------------------------------------------------
(* The refinement.                                                         *)
LEMMA ReachedBefore == status = "AOK" => ReachedPc = latch.pc_in /\ ReachedReg = UpdatedReg
BY DEF ReachedPc, ReachedReg

LEMMA InitRefines == Init => ISA!Init
<1> SUFFICES ASSUME Init PROVE ISA!Init
  OBVIOUS
<1>1. UpdatedReg = reg /\ UpdatedMem = mem
  BY DEF Init, UpdatedReg, UpdatedMem, set_reg_val
<1>2. ReachedPc = 0 /\ ReachedReg = reg
  BY <1>1, ReachedBefore DEF Init
<1> QED
  BY <1>1, <1>2, SameAccess DEF Init, ISA!Init
----------------------------------------------------------------------------
(* The instruction that a step executes, and the values it goes by.        *)
Current == fetched(latch.pc_in)
VA      == valA(latch.pc_in, UpdatedReg)
VB      == valB(latch.pc_in, UpdatedReg)
VE      == valE(latch.pc_in, UpdatedReg)
VM      == valM(latch.pc_in, UpdatedReg, UpdatedMem)
Addr    == address(latch.pc_in, UpdatedReg)
Cond    == condition(latch.pc_in, latch.cc_in)
NextPc  == Wrap(latch.pc_in + 1)

LEMMA CurrentTypes ==
    ASSUME Inv
    PROVE  /\ UpdatedReg \in [Regs -> word_t] /\ UpdatedMem \in [0 .. DataWords - 1 -> word_t]
           /\ Current \in Instr
           /\ VA \in word_t /\ VB \in word_t /\ VE \in word_t /\ VM \in word_t /\ Addr \in word_t
           /\ NextPc \in word_t
<1>1. UpdatedReg \in [Regs -> word_t] /\ UpdatedMem \in [0 .. DataWords - 1 -> word_t]
  BY UpdatedType DEF Inv
<1>2. code \in Programs /\ latch.pc_in \in word_t
  BY DEF Inv, TypeOK, latch_t
<1>3. Current \in Instr
  BY <1>2, FetchedType DEF Current
<1>4. VA \in word_t /\ VB \in word_t /\ VE \in word_t /\ VM \in word_t /\ Addr \in word_t
  BY <1>1, <1>2, ValuesType DEF VA, VB, VE, VM, Addr
<1>5. NextPc \in word_t
  <2>1. latch.pc_in + 1 \in Int
    BY <1>2, WordSums
  <2> QED
    BY <2>1, WrapType DEF NextPc
<1> QED
  BY <1>1, <1>3, <1>4, <1>5

LEMMA AfterStep ==
    ASSUME sim_step
    PROVE  /\ status' = gen_Stat(FetchError(latch.pc_in),
                                 (mem_read(Current) \/ mem_write(Current)) /\ ~ValidAddr(Addr), Current)
           /\ ReachedPc' = IF status' = "AOK" THEN new_pc(Current, Cond, VM, NextPc) ELSE latch.pc_in
           /\ ReachedReg' =
                 CASE status' = "ADR" /\ Current.icode = "RET" -> UpdatedReg
                   [] status' = "ADR" /\ Current.icode # "RET" ->
                         set_reg_val(UpdatedReg, dstE(Current, Cond), VE)
                   [] OTHER -> set_reg_val(set_reg_val(UpdatedReg, dstE(Current, Cond), VE), dstM(Current), VM)
           /\ UpdatedMem' = IF mem_write(Current)
                            THEN set_word_val(UpdatedMem, Addr, mem_data(Current, VA, NextPc))
                            ELSE UpdatedMem
           /\ latch'.cc_in = IF set_cc(Current)
                             THEN compute_cc(alufun(Current), aluA(Current, VA), aluB(Current, VB))
                             ELSE latch.cc_in
           /\ code' = code
<1> DEFINE now == Computed(latch.pc_in, UpdatedReg, UpdatedMem, latch.cc_in)
<1>1. /\ status' = now.status /\ latch' = now.latch /\ code' = code
      /\ pc' = latch.pc_in /\ reg' = UpdatedReg /\ mem' = UpdatedMem
  BY DEF sim_step
<1>2. now.status = gen_Stat(FetchError(latch.pc_in),
                            (mem_read(Current) \/ mem_write(Current)) /\ ~ValidAddr(Addr), Current)
  <2>1. Computed(latch.pc_in, UpdatedReg, UpdatedMem, latch.cc_in).status =
            gen_Stat(FetchError(latch.pc_in),
                     (mem_read(fetched(latch.pc_in)) \/ mem_write(fetched(latch.pc_in)))
                     /\ ~ValidAddr(address(latch.pc_in, UpdatedReg)), fetched(latch.pc_in))
    BY DEF Computed, fetched, valA, valB, valE, address
  <2> QED
    BY <2>1 DEF Current, Addr
<1>3. now.latch = [pc_in |-> new_pc(Current, Cond, VM, NextPc),
                   cc_in |-> IF set_cc(Current)
                             THEN compute_cc(alufun(Current), aluA(Current, VA), aluB(Current, VB))
                             ELSE latch.cc_in,
                   destE |-> dstE(Current, Cond), vale |-> VE,
                   destM |-> dstM(Current), valm |-> VM,
                   mem_write |-> mem_write(Current), mem_addr |-> Addr,
                   mem_data |-> mem_data(Current, VA, NextPc)]
  BY ComputedParts DEF Current, VA, VB, VE, VM, Addr, Cond, NextPc
<1> HIDE DEF now
<1>4. UpdatedReg' = set_reg_val(set_reg_val(UpdatedReg, dstE(Current, Cond), VE), dstM(Current), VM)
  BY <1>1, <1>3 DEF UpdatedReg
<1>5. UpdatedMem' = IF mem_write(Current)
                    THEN set_word_val(UpdatedMem, Addr, mem_data(Current, VA, NextPc)) ELSE UpdatedMem
  BY <1>1, <1>3 DEF UpdatedMem
<1>6. LastIcode' = Current.icode
  BY <1>1 DEF LastIcode, Current, fetched, Plain
<1>7. ReachedPc' = IF status' = "AOK" THEN new_pc(Current, Cond, VM, NextPc) ELSE latch.pc_in
  BY <1>1, <1>3 DEF ReachedPc
<1>8. latch'.destE = dstE(Current, Cond) /\ latch'.vale = VE
  BY <1>1, <1>3
<1>9. ReachedReg' = CASE status' = "ADR" /\ LastIcode' = "RET" -> reg'
                      [] status' = "ADR" /\ LastIcode' # "RET" -> set_reg_val(reg', latch'.destE, latch'.vale)
                      [] OTHER -> UpdatedReg'
  BY Zenon DEF ReachedReg, set_reg_val
<1>10. ReachedReg' = CASE status' = "ADR" /\ Current.icode = "RET" -> UpdatedReg
                       [] status' = "ADR" /\ Current.icode # "RET" ->
                             set_reg_val(UpdatedReg, dstE(Current, Cond), VE)
                       [] OTHER -> set_reg_val(set_reg_val(UpdatedReg, dstE(Current, Cond), VE), dstM(Current), VM)
  BY <1>1, <1>4, <1>6, <1>8, <1>9
<1> QED
  BY <1>1, <1>2, <1>3, <1>5, <1>7, <1>10
----------------------------------------------------------------------------
LEMMA IsaView ==
    ASSUME status = "AOK", ~FetchError(latch.pc_in), code' = code
    PROVE  /\ ISA!instr = Current /\ ISA!ftpc = NextPc
           /\ \A icodes : Current.icode \in icodes => ISA!Fetched(icodes)
<1>1. ReachedPc = latch.pc_in
  BY ReachedBefore
<1>2. ISA!instr = Current /\ ISA!ftpc = NextPc
  BY <1>1, SameAccess, SameWords DEF ISA!instr, ISA!ftpc, Current, NextPc, fetched
<1>3. ~ISA!FetchError(ReachedPc)
  BY <1>1, SameAccess
<1> QED
  BY <1>2, <1>3 DEF ISA!Fetched

LEMMA FetchErrorRefines ==
    ASSUME Inv, status = "AOK", sim_step, FetchError(latch.pc_in)
    PROVE  ISA!BadAddress
<1>1. Current = Plain("NOP")
  BY DEF Current, fetched
<1>2. status' = "ADR"
  BY AfterStep DEF gen_Stat
<1>3. dstE(Current, Cond) = RNONE /\ ~mem_write(Current) /\ ~set_cc(Current) /\ Current.icode = "NOP"
  BY <1>1 DEF Plain, dstE, mem_write, set_cc
<1>4. /\ ReachedPc' = ReachedPc /\ ReachedReg' = ReachedReg
      /\ UpdatedMem' = UpdatedMem /\ latch'.cc_in = latch.cc_in
  BY <1>2, <1>3, AfterStep, ReachedBefore DEF set_reg_val
<1> QED
  BY <1>2, <1>4, AfterStep, ReachedBefore, SameAccess DEF ISA!BadAddress, ISA!Except

(* The instructions that leave registers, memory and flags alone.          *)
LEMMA NoEffectRefines ==
    ASSUME Inv, status = "AOK", sim_step, ~FetchError(latch.pc_in),
           Current.icode \in {"HALT", "BAD", "NOP", "JMP"}
    PROVE  ISA!Next
<1>1. /\ dstE(Current, Cond) = RNONE /\ dstM(Current) = RNONE /\ ~mem_write(Current)
      /\ ~mem_read(Current) /\ ~set_cc(Current)
  BY DEF dstE, dstM, mem_write, mem_read, set_cc
<1>2. /\ ReachedReg' = ReachedReg /\ UpdatedMem' = UpdatedMem /\ latch'.cc_in = latch.cc_in
  BY <1>1, AfterStep, ReachedBefore DEF set_reg_val
<1>3. status' = IF Current.icode = "BAD" THEN "INS" ELSE IF Current.icode = "HALT" THEN "HLT" ELSE "AOK"
  BY <1>1, AfterStep DEF gen_Stat
<1>4. ReachedPc' = IF status' # "AOK" THEN ReachedPc
                   ELSE IF Current.icode = "JMP" /\ Cond THEN Current.valC ELSE NextPc
  BY AfterStep, ReachedBefore DEF new_pc
<1>5. CASE Current.icode = "HALT"
  <2>1. ISA!Halt
    BY <1>2, <1>3, <1>4, <1>5, IsaView, AfterStep DEF ISA!Halt, ISA!Except
  <2> QED
    BY <2>1 DEF ISA!Next
<1>6. CASE Current.icode = "BAD"
  <2>1. ISA!Invalid
    BY <1>2, <1>3, <1>4, <1>6, IsaView, AfterStep DEF ISA!Invalid, ISA!Except
  <2> QED
    BY <2>1 DEF ISA!Next
<1>7. CASE Current.icode = "NOP"
  <2>1. ISA!Nop
    BY <1>2, <1>3, <1>4, <1>7, IsaView, AfterStep DEF ISA!Nop, ISA!Continue
  <2> QED
    BY <2>1 DEF ISA!Next
<1>8. CASE Current.icode = "JMP"
  <2>1. Cond = ISA!cond_holds(latch.cc_in, ISA!instr.ifun)
    BY IsaView, AfterStep, SameAccess DEF Cond, condition, Current
  <2>2. ISA!Jump
    BY <1>2, <1>3, <1>4, <1>8, <2>1, IsaView, AfterStep DEF ISA!Jump, ISA!Continue
  <2> QED
    BY <2>2 DEF ISA!Next
<1> QED
  BY <1>5, <1>6, <1>7, <1>8

(* What decode reads.                                                      *)
LEMMA DecodedValues ==
    /\ VA = get_reg_val(UpdatedReg, srcA(Current)) /\ VB = get_reg_val(UpdatedReg, srcB(Current))
    /\ VE = compute_alu(alufun(Current), aluA(Current, VA), aluB(Current, VB))
    /\ Addr = mem_addr(Current, VE, VA)
    /\ VM = IF mem_read(Current) THEN get_word_val(UpdatedMem, Addr) ELSE 0
    /\ Cond = cond_holds(latch.cc_in, Current.ifun)
BY DEF VA, VB, VE, VM, Addr, Cond, Current, valA, valB, valE, address, valM, condition

(* Moves between registers, and arithmetic.                                *)
LEMMA RegisterRefines ==
    ASSUME Inv, status = "AOK", sim_step, ~FetchError(latch.pc_in),
           Current.icode \in {"RRMOVQ", "IRMOVQ", "ALU", "IADDQ"}
    PROVE  ISA!Next
<1>1. dstM(Current) = RNONE /\ ~mem_write(Current) /\ ~mem_read(Current)
  BY DEF dstM, mem_write, mem_read
<1>2. status' = "AOK"
  BY <1>1, AfterStep DEF gen_Stat
<1>3. ReachedPc' = NextPc /\ UpdatedMem' = UpdatedMem
  BY <1>1, <1>2, AfterStep DEF new_pc
<1>4. ReachedReg' = set_reg_val(UpdatedReg, dstE(Current, Cond), VE)
  BY <1>1, <1>2, AfterStep DEF set_reg_val
<1>5. CASE Current.icode = "RRMOVQ"
  <2>1. VE = get_reg_val(UpdatedReg, Current.rA)
    <3>1. VA = get_reg_val(UpdatedReg, Current.rA) /\ VE = Wrap(VA + 0)
      BY <1>5, DecodedValues DEF srcA, alufun, aluA, aluB, compute_alu
    <3>2. VA \in word_t
      BY CurrentTypes
    <3>3. VA + 0 = VA
      BY <3>2, WordSums
    <3> QED
      BY <3>1, <3>2, <3>3, WrapId
  <2>2. dstE(Current, Cond) = IF Cond THEN Current.rB ELSE RNONE
    BY <1>5 DEF dstE
  <2>3. latch'.cc_in = latch.cc_in
    BY <1>5, AfterStep DEF set_cc
  <2>4. ReachedReg' = IF Cond THEN set_reg_val(UpdatedReg, Current.rB, VE) ELSE UpdatedReg
    BY <1>4, <2>2 DEF set_reg_val
  <2>5. ISA!Rrmovq
    BY <1>2, <1>3, <1>5, <2>1, <2>3, <2>4, IsaView, AfterStep, SameAccess, ReachedBefore, DecodedValues
       DEF ISA!Rrmovq, ISA!Continue
  <2> QED
    BY <2>5 DEF ISA!Next
<1>6. CASE Current.icode = "IRMOVQ"
  <2>1. VE = Current.valC
    <3>1. VE = Wrap(Current.valC + 0)
      BY <1>6, DecodedValues DEF alufun, aluA, aluB, compute_alu
    <3>2. Current.valC \in word_t
      BY CurrentTypes DEF Instr
    <3>3. Current.valC + 0 = Current.valC
      BY <3>2, WordSums
    <3> QED
      BY <3>1, <3>2, <3>3, WrapId
  <2>2. dstE(Current, Cond) = Current.rB /\ latch'.cc_in = latch.cc_in
    BY <1>6, AfterStep DEF dstE, set_cc
  <2>3. ISA!Irmovq
    BY <1>2, <1>3, <1>4, <1>6, <2>1, <2>2, IsaView, AfterStep, SameAccess, ReachedBefore
       DEF ISA!Irmovq, ISA!Continue
  <2> QED
    BY <2>3 DEF ISA!Next
<1>7. CASE Current.icode \in {"ALU", "IADDQ"}
  <2> DEFINE op   == IF Current.icode = "ALU" THEN Current.ifun ELSE "ADD"
             argA == IF Current.icode = "ALU" THEN get_reg_val(UpdatedReg, Current.rA) ELSE Current.valC
             argB == get_reg_val(UpdatedReg, Current.rB)
  <2>1. alufun(Current) = op /\ aluA(Current, VA) = argA /\ aluB(Current, VB) = argB
    BY <1>7, DecodedValues DEF srcA, srcB, alufun, aluA, aluB
  <2>2. dstE(Current, Cond) = Current.rB
    BY <1>7 DEF dstE
  <2>3. latch'.cc_in = compute_cc(op, argA, argB)
    BY <1>7, <2>1, AfterStep DEF set_cc
  <2>4. ReachedReg' = set_reg_val(UpdatedReg, Current.rB, compute_alu(op, argA, argB))
    BY <1>4, <2>1, <2>2, DecodedValues
  <2>5. ISA!Alu
    BY <1>2, <1>3, <1>7, <2>3, <2>4, IsaView, AfterStep, SameAccess, SameArithmetic, ReachedBefore
       DEF ISA!Alu, ISA!Continue
  <2> QED
    BY <2>5 DEF ISA!Next
<1> QED
  BY <1>5, <1>6, <1>7
----------------------------------------------------------------------------
(* Memory references: an address that is not in memory stops both before   *)
(* any register is written.                                                *)
LEMMA MemoryRefines ==
    ASSUME Inv, status = "AOK", sim_step, ~FetchError(latch.pc_in),
           Current.icode \in {"RMMOVQ", "MRMOVQ"}
    PROVE  ISA!Next
<1>1. /\ dstE(Current, Cond) = RNONE /\ ~set_cc(Current)
      /\ mem_read(Current) \/ mem_write(Current)
  BY DEF dstE, set_cc, mem_read, mem_write
<1>2. status' = IF ValidAddr(Addr) THEN "AOK" ELSE "ADR"
  BY <1>1, AfterStep DEF gen_Stat
<1>3. /\ ReachedPc' = IF ValidAddr(Addr) THEN NextPc ELSE ReachedPc
      /\ latch'.cc_in = latch.cc_in
  BY <1>1, <1>2, AfterStep, ReachedBefore DEF new_pc
<1>4. ReachedReg' = IF ValidAddr(Addr) THEN set_reg_val(UpdatedReg, dstM(Current), VM) ELSE UpdatedReg
  BY <1>1, <1>2, AfterStep DEF set_reg_val
<1>5. Addr = ISA!Address
  <2>1. Addr = VE /\ VE = Wrap(Current.valC + get_reg_val(UpdatedReg, Current.rB))
    BY DecodedValues DEF mem_addr, srcB, alufun, aluA, aluB, compute_alu
  <2> QED
    BY <2>1, IsaView, AfterStep, ReachedBefore, SameAccess, SameWords DEF ISA!Address
<1>6. CASE Current.icode = "RMMOVQ"
  <2>1. VA = get_reg_val(UpdatedReg, Current.rA)
    BY <1>6, DecodedValues DEF srcA
  <2>2. UpdatedMem' = set_word_val(UpdatedMem, Addr, VA)
    BY <1>6, AfterStep DEF mem_write, mem_data
  <2>3. ReachedReg' = UpdatedReg
    BY <1>4, <1>6 DEF dstM, set_reg_val
  <2>4. ISA!Rmmovq
    BY <1>2, <1>3, <1>5, <1>6, <2>1, <2>2, <2>3, IsaView, AfterStep, SameAccess, ReachedBefore
       DEF ISA!Rmmovq, ISA!Continue, ISA!Except
  <2> QED
    BY <2>4 DEF ISA!Next
<1>7. CASE Current.icode = "MRMOVQ"
  <2>1. UpdatedMem' = UpdatedMem
    BY <1>7, AfterStep DEF mem_write
  <2>2. dstM(Current) = Current.rA /\ (ValidAddr(Addr) => VM = UpdatedMem[Addr])
    BY <1>7, DecodedValues DEF dstM, mem_read, get_word_val
  <2>3. ISA!Mrmovq
    BY <1>2, <1>3, <1>4, <1>5, <1>7, <2>1, <2>2, IsaView, AfterStep, SameAccess, ReachedBefore
       DEF ISA!Mrmovq, ISA!Continue, ISA!Except
  <2> QED
    BY <2>3 DEF ISA!Next
<1> QED
  BY <1>6, <1>7

(* The stack: %rsp moves whether the store of call and pushq succeeds or   *)
(* not, and so it does when popq fails; ret that fails leaves it.          *)
LEMMA StackRefines ==
    ASSUME Inv, status = "AOK", sim_step, ~FetchError(latch.pc_in),
           Current.icode \in {"CALL", "PUSHQ", "RET", "POPQ"}
    PROVE  ISA!Next
<1>1. /\ dstE(Current, Cond) = RRSP /\ srcB(Current) = RRSP /\ ~set_cc(Current)
      /\ mem_read(Current) \/ mem_write(Current)
  BY DEF dstE, srcB, set_cc, mem_read, mem_write
<1>2. status' = IF ValidAddr(Addr) THEN "AOK" ELSE "ADR"
  BY <1>1, AfterStep DEF gen_Stat
<1>3. latch'.cc_in = latch.cc_in
  BY <1>1, AfterStep
<1>4. VB = UpdatedReg[RRSP] /\ UpdatedReg[RRSP] \in Int
  BY <1>1, DecodedValues, CurrentTypes, RegsAssumption, SmallWords DEF get_reg_val
<1>5. CASE Current.icode \in {"CALL", "PUSHQ"}
  <2>1. VE = Wrap(UpdatedReg[RRSP] - 1)
    <3>1. VE = Wrap(-1 + VB)
      BY <1>5, DecodedValues DEF alufun, aluA, aluB, compute_alu
    <3>2. -1 + VB = UpdatedReg[RRSP] - 1
      BY <1>4
    <3> QED
      BY <3>1, <3>2
  <2>2. Addr = VE /\ dstM(Current) = RNONE
    BY <1>5, DecodedValues DEF mem_addr, dstM
  <2>3. ReachedReg' = set_reg_val(UpdatedReg, RRSP, VE)
    BY <1>1, <1>2, <1>5, <2>2, AfterStep DEF set_reg_val
  <2>4. UpdatedMem' = set_word_val(UpdatedMem, VE, mem_data(Current, VA, NextPc))
    BY <1>5, <2>2, AfterStep DEF mem_write
  <2>5. CASE Current.icode = "CALL"
    <3>1. mem_data(Current, VA, NextPc) = NextPc
      BY <2>5 DEF mem_data
    <3>2. ReachedPc' = IF ValidAddr(VE) THEN Current.valC ELSE ReachedPc
      BY <1>2, <2>2, <2>5, AfterStep, ReachedBefore DEF new_pc
    <3>3. ISA!Call
      BY <1>2, <1>3, <2>1, <2>2, <2>3, <2>4, <2>5, <3>1, <3>2, IsaView, AfterStep, SameAccess, SameWords,
         ReachedBefore
         DEF ISA!Call, ISA!PushTo, ISA!Continue, ISA!Except
    <3> QED
      BY <3>3 DEF ISA!Next
  <2>6. CASE Current.icode = "PUSHQ"
    <3>1. mem_data(Current, VA, NextPc) = get_reg_val(UpdatedReg, Current.rA)
      BY <2>6, DecodedValues DEF mem_data, srcA
    <3>2. ReachedPc' = IF ValidAddr(VE) THEN NextPc ELSE ReachedPc
      BY <1>2, <2>2, <2>6, AfterStep, ReachedBefore DEF new_pc
    <3>3. ISA!Pushq
      BY <1>2, <1>3, <2>1, <2>2, <2>3, <2>4, <2>6, <3>1, <3>2, IsaView, AfterStep, SameAccess, SameWords,
         ReachedBefore
         DEF ISA!Pushq, ISA!PushTo, ISA!Continue, ISA!Except
    <3> QED
      BY <3>3 DEF ISA!Next
  <2> QED
    BY <1>5, <2>5, <2>6
<1>6. CASE Current.icode \in {"RET", "POPQ"}
  <2>1. VE = Wrap(UpdatedReg[RRSP] + 1)
    <3>1. VE = Wrap(1 + VB)
      BY <1>6, DecodedValues DEF alufun, aluA, aluB, compute_alu
    <3>2. 1 + VB = UpdatedReg[RRSP] + 1
      BY <1>4
    <3> QED
      BY <3>1, <3>2
  <2>2. Addr = UpdatedReg[RRSP]
    BY <1>6, DecodedValues, RegsAssumption DEF mem_addr, srcA, get_reg_val
  <2>3. UpdatedMem' = UpdatedMem /\ (ValidAddr(Addr) => VM = UpdatedMem[Addr])
    BY <1>6, AfterStep, DecodedValues DEF mem_write, mem_read, get_word_val
  <2>4. CASE Current.icode = "RET"
    <3>1. dstM(Current) = RNONE
      BY <2>4 DEF dstM
    <3>2. ReachedReg' = IF ValidAddr(Addr) THEN set_reg_val(UpdatedReg, RRSP, VE) ELSE UpdatedReg
      BY <1>1, <1>2, <2>4, <3>1, AfterStep DEF set_reg_val
    <3>3. ReachedPc' = IF ValidAddr(Addr) THEN VM ELSE ReachedPc
      BY <1>2, <2>4, AfterStep, ReachedBefore DEF new_pc
    <3>4. ISA!Ret
      BY <1>2, <1>3, <2>1, <2>2, <2>3, <2>4, <3>2, <3>3, IsaView, AfterStep, SameAccess, SameWords,
         ReachedBefore
         DEF ISA!Ret, ISA!Continue, ISA!Except
    <3> QED
      BY <3>4 DEF ISA!Next
  <2>5. CASE Current.icode = "POPQ"
    <3>1. dstM(Current) = Current.rA
      BY <2>5 DEF dstM
    <3>2. ReachedReg' = IF ValidAddr(Addr)
                        THEN set_reg_val(set_reg_val(UpdatedReg, RRSP, VE), Current.rA, VM)
                        ELSE set_reg_val(UpdatedReg, RRSP, VE)
      BY <1>1, <1>2, <2>5, <3>1, AfterStep
    <3>3. ReachedPc' = IF ValidAddr(Addr) THEN NextPc ELSE ReachedPc
      BY <1>2, <2>5, AfterStep, ReachedBefore DEF new_pc
    <3>4. ISA!Popq
      BY <1>2, <1>3, <2>1, <2>2, <2>3, <2>5, <3>2, <3>3, IsaView, AfterStep, SameAccess, SameWords,
         ReachedBefore
         DEF ISA!Popq, ISA!Continue, ISA!Except
    <3> QED
      BY <3>4 DEF ISA!Next
  <2> QED
    BY <1>6, <2>4, <2>5
<1> QED
  BY <1>5, <1>6

LEMMA NextRefines == Inv /\ Next => ISA!Next
<1> SUFFICES ASSUME Inv, Next PROVE ISA!Next
  OBVIOUS
<1>1. status = "AOK" /\ sim_step
  BY DEF Next
<1>2. CASE FetchError(latch.pc_in)
  BY <1>1, <1>2, FetchErrorRefines DEF ISA!Next
<1>3. CASE ~FetchError(latch.pc_in)
  <2>1. Current.icode \in itype_t
    BY CurrentTypes DEF Instr
  <2> QED
    BY <1>1, <1>3, <2>1, NoEffectRefines, RegisterRefines, MemoryRefines, StackRefines DEF itype_t
<1> QED
  BY <1>2, <1>3

LEMMA StepRefines == Inv /\ [Next]_vars => [ISA!Next]_(ISA!vars)
<1>1. Inv /\ Next => ISA!Next
  BY NextRefines
<1>2. ASSUME UNCHANGED vars PROVE UNCHANGED ISA!vars
  BY <1>2 DEF vars, ISA!vars, ReachedPc, ReachedReg, LastIcode, UpdatedReg, UpdatedMem
<1> QED
  BY <1>1, <1>2

(* One step of the sequential processor is one instruction of step_state,  *)
(* whatever is latched when: for every program, word size, memory and set  *)
(* of registers.                                                           *)
THEOREM Implements == Spec => ImplementsISA
<1>1. Init => ISA!Init
  BY InitRefines
<1> QED
  BY <1>1, StepRefines, InvAlways, PTL DEF Spec, ImplementsISA, ISA!Spec

----------------------------------------------------------------------------
(* The check of ssim with -t against step_state.                           *)

(* Where the processor has come to, and what its last instruction found.   *)
Here  == State(ReachedPc, ReachedReg, UpdatedMem, latch.cc_in, status)
Found == State(pc, reg, mem, cc, "AOK")

(* They are states of the instruction set.                                 *)
LEMMA HereType == Inv => Here \in Cpu /\ Found \in Cpu
<1> SUFFICES ASSUME Inv PROVE Here \in Cpu /\ Found \in Cpu
  OBVIOUS
<1>1. UpdatedReg \in [Regs -> word_t] /\ UpdatedMem \in [0 .. DataWords - 1 -> word_t]
  BY UpdatedType DEF Inv
<1>2. set_reg_val(reg, latch.destE, latch.vale) \in [Regs -> word_t] /\ reg \in [Regs -> word_t]
  BY RegsType DEF Inv, TypeOK, latch_t
<1>3. ReachedReg \in [Regs -> word_t]
  BY <1>1, <1>2 DEF ReachedReg
<1>4. ReachedPc \in word_t /\ latch.cc_in \in cc_t /\ status \in stat_t
  BY DEF Inv, TypeOK, latch_t, ReachedPc
<1>5. Found \in Cpu
  BY DEF Inv, TypeOK, Found, Cpu, State, stat_t
<1> QED
  BY <1>1, <1>3, <1>4, <1>5 DEF Here, Cpu, State

LEMMA HereTypeNext == Inv' => Here' \in Cpu
<1>1. Inv' => (Here \in Cpu)'
  BY HereType, PTL
<1> QED
  BY <1>1 DEF Cpu

(* An instruction of the set makes what After says.                        *)
LEMMA IsaNextIsAfter ==
    ASSUME ISA!Next
    PROVE  Here' = After(code, Here) /\ Here.stat = "AOK"
<1> PICK s : s = Here
  OBVIOUS
<1> PICK i : i = FetchAt(code, ReachedPc)
  OBVIOUS
<1> PICK next : next = Wrap(ReachedPc + 1)
  OBVIOUS
<1>1. s.pc = ReachedPc /\ s.r = ReachedReg /\ s.m = UpdatedMem /\ s.cc = latch.cc_in /\ s.stat = status
  BY StateParts DEF Here
<1>2. Here' = State(ReachedPc', ReachedReg', UpdatedMem', latch.cc_in', status')
  BY DEF Here, State
<1>3. ISA!instr = i /\ ISA!ftpc = next
  BY SameWords, SameArithmetic, SameAccess DEF ISA!instr, ISA!ftpc
<1>4. ASSUME NEW icodes, ISA!Fetched(icodes)
      PROVE  status = "AOK" /\ After(code, s) = Executed(s, i, next) /\ i.icode \in icodes
  BY <1>1, <1>3, <1>4, SameAccess DEF ISA!Fetched, After
<1> SUFFICES State(ReachedPc', ReachedReg', UpdatedMem', latch.cc_in', status') = After(code, s) /\ status = "AOK"
  BY <1>1, <1>2
<1>5. CASE ISA!BadAddress
  BY <1>1, <1>5, SameAccess DEF ISA!BadAddress, ISA!Except, After
<1>6. CASE ISA!Halt
  BY <1>1, <1>4, <1>6 DEF ISA!Halt, ISA!Except, Executed
<1>7. CASE ISA!Invalid
  BY <1>1, <1>4, <1>7 DEF ISA!Invalid, ISA!Except, Executed
<1>8. CASE ISA!Nop
  BY <1>1, <1>3, <1>4, <1>8 DEF ISA!Nop, ISA!Continue, Executed
<1>9. CASE ISA!Jump
  <2>1. /\ ReachedPc' = IF cond_holds(s.cc, i.ifun) THEN i.valC ELSE next
        /\ ReachedReg' = s.r /\ UpdatedMem' = s.m /\ latch.cc_in' = s.cc /\ status' = "AOK"
    BY <1>1, <1>3, <1>9, SameAccess DEF ISA!Jump, ISA!Continue
  <2> QED
    BY <1>4, <1>9, <2>1 DEF ISA!Jump, Executed
<1>10. CASE ISA!Rrmovq
  <2>1. /\ ReachedReg' = IF cond_holds(s.cc, i.ifun) THEN set_reg_val(s.r, i.rB, get_reg_val(s.r, i.rA)) ELSE s.r
        /\ ReachedPc' = next /\ UpdatedMem' = s.m /\ latch.cc_in' = s.cc /\ status' = "AOK"
    BY <1>1, <1>3, <1>10, SameAccess DEF ISA!Rrmovq, ISA!Continue
  <2> QED
    BY <1>4, <1>10, <2>1 DEF ISA!Rrmovq, Executed, Moved
<1>11. CASE ISA!Irmovq
  <2>1. /\ ReachedReg' = set_reg_val(s.r, i.rB, i.valC)
        /\ ReachedPc' = next /\ UpdatedMem' = s.m /\ latch.cc_in' = s.cc /\ status' = "AOK"
    BY <1>1, <1>3, <1>11, SameAccess DEF ISA!Irmovq, ISA!Continue
  <2> QED
    BY <1>4, <1>11, <2>1 DEF ISA!Irmovq, Executed, Moved
<1>12. CASE ISA!Alu
  <2> DEFINE op   == IF i.icode = "ALU" THEN i.ifun ELSE "ADD"
             argA == IF i.icode = "ALU" THEN get_reg_val(s.r, i.rA) ELSE i.valC
             argB == get_reg_val(s.r, i.rB)
  <2>1. /\ ReachedReg' = set_reg_val(s.r, i.rB, compute_alu(op, argA, argB))
        /\ latch.cc_in' = compute_cc(op, argA, argB)
        /\ ReachedPc' = next /\ UpdatedMem' = s.m /\ status' = "AOK"
    BY <1>1, <1>3, <1>12, SameAccess, SameWords, SameArithmetic DEF ISA!Alu, ISA!Continue
  <2>2. i.icode \in {"ALU", "IADDQ"} /\ After(code, s) = Executed(s, i, next) /\ status = "AOK"
    BY <1>4, <1>12 DEF ISA!Alu
  <2> QED
    BY <2>1, <2>2 DEF Executed, Calculated
<1>13. CASE ISA!Rmmovq \/ ISA!Mrmovq
  <2>1. /\ i.icode \in {"RMMOVQ", "MRMOVQ"} /\ After(code, s) = Executed(s, i, next) /\ status = "AOK"
        /\ ISA!Rmmovq => i.icode = "RMMOVQ"
        /\ ISA!Mrmovq => i.icode = "MRMOVQ"
    BY <1>4, <1>13 DEF ISA!Rmmovq, ISA!Mrmovq
  <2>2. PICK addr : addr = Wrap(i.valC + get_reg_val(s.r, i.rB))
    OBVIOUS
  <2>3. ISA!Address = addr
    BY <1>1, <1>3, <2>2, SameAccess, SameWords, SameArithmetic DEF ISA!Address
  <2>4. /\ ReachedPc' = IF ValidAddr(addr) THEN next ELSE s.pc
        /\ status' = IF ValidAddr(addr) THEN "AOK" ELSE "ADR"
        /\ latch.cc_in' = s.cc
        /\ ReachedReg' = IF i.icode = "MRMOVQ" /\ ValidAddr(addr) THEN set_reg_val(s.r, i.rA, s.m[addr]) ELSE s.r
        /\ UpdatedMem' = IF i.icode = "RMMOVQ" THEN set_word_val(s.m, addr, get_reg_val(s.r, i.rA)) ELSE s.m
    BY <1>1, <1>3, <1>13, <2>1, <2>3, SameAccess
       DEF ISA!Rmmovq, ISA!Mrmovq, ISA!Continue, ISA!Except
  <2> QED
    BY <2>1, <2>2, <2>4 DEF Executed, Referred
<1>14. CASE ISA!Call \/ ISA!Pushq
  <2>1. /\ i.icode \in {"CALL", "PUSHQ"} /\ After(code, s) = Executed(s, i, next) /\ status = "AOK"
        /\ ISA!Call => i.icode = "CALL"
        /\ ISA!Pushq => i.icode = "PUSHQ"
    BY <1>4, <1>14 DEF ISA!Call, ISA!Pushq
  <2>2. PICK sp, val, to : /\ sp = Wrap(s.r[RRSP] - 1)
                           /\ val = IF i.icode = "CALL" THEN next ELSE get_reg_val(s.r, i.rA)
                           /\ to = IF i.icode = "CALL" THEN i.valC ELSE next
    OBVIOUS
  <2>3. ISA!PushTo(sp, val, to)
    BY <1>1, <1>3, <1>14, <2>1, <2>2, SameAccess, SameWords, SameArithmetic DEF ISA!Call, ISA!Pushq
  <2>4. /\ ReachedPc' = IF ValidAddr(sp) THEN to ELSE s.pc
        /\ status' = IF ValidAddr(sp) THEN "AOK" ELSE "ADR"
        /\ latch.cc_in' = s.cc
        /\ ReachedReg' = set_reg_val(s.r, RRSP, sp)
        /\ UpdatedMem' = set_word_val(s.m, sp, val)
    BY <1>1, <2>3, SameAccess DEF ISA!PushTo, ISA!Continue, ISA!Except
  <2>5. After(code, s) = Pushed(s, sp, val, to)
    BY <2>1, <2>2 DEF Executed
  <2> QED
    BY <2>1, <2>4, <2>5 DEF Pushed
<1>15. CASE ISA!Ret \/ ISA!Popq
  <2>1. /\ i.icode \in {"RET", "POPQ"} /\ After(code, s) = Executed(s, i, next) /\ status = "AOK"
        /\ ISA!Ret => i.icode = "RET"
        /\ ISA!Popq => i.icode = "POPQ"
    BY <1>4, <1>15 DEF ISA!Ret, ISA!Popq
  <2>2. PICK sp, moved : sp = s.r[RRSP] /\ moved = set_reg_val(s.r, RRSP, Wrap(sp + 1))
    OBVIOUS
  <2>3. After(code, s) = Popped(s, i, moved, next)
    BY <2>1, <2>2 DEF Executed
  <2>4. CASE i.icode = "RET"
    <3>1. /\ ReachedPc' = IF ValidAddr(sp) THEN s.m[sp] ELSE s.pc
          /\ status' = IF ValidAddr(sp) THEN "AOK" ELSE "ADR"
          /\ latch.cc_in' = s.cc /\ UpdatedMem' = s.m
          /\ ReachedReg' = IF ValidAddr(sp) THEN moved ELSE s.r
      BY <1>1, <1>3, <1>15, <2>1, <2>2, <2>4, SameAccess, SameWords, SameArithmetic
         DEF ISA!Ret, ISA!Continue, ISA!Except
    <3> QED
      BY <2>1, <2>2, <2>3, <2>4, <3>1 DEF Popped
  <2>5. CASE i.icode = "POPQ"
    <3>1. /\ ReachedPc' = IF ValidAddr(sp) THEN next ELSE s.pc
          /\ status' = IF ValidAddr(sp) THEN "AOK" ELSE "ADR"
          /\ latch.cc_in' = s.cc /\ UpdatedMem' = s.m
          /\ ReachedReg' = IF ValidAddr(sp) THEN set_reg_val(moved, i.rA, s.m[sp]) ELSE moved
      BY <1>1, <1>3, <1>15, <2>1, <2>2, <2>5, SameAccess, SameWords, SameArithmetic
         DEF ISA!Popq, ISA!Continue, ISA!Except
    <3> QED
      BY <2>1, <2>2, <2>3, <2>5, <3>1 DEF Popped
  <2> QED
    BY <2>1, <2>4, <2>5
<1> QED
  BY <1>5, <1>6, <1>7, <1>8, <1>9, <1>10, <1>11, <1>12, <1>13, <1>14, <1>15 DEF ISA!Next

(* So does a step of the processor.                                        *)
LEMMA StepIsAfter ==
    ASSUME Inv, status = "AOK", sim_step
    PROVE  Here' = After(code, Here) /\ Found' = Here
<1>1. Here' = After(code, Here)
  BY NextRefines, IsaNextIsAfter DEF Next
<1>2. Found' = Here
  BY ReachedBefore DEF sim_step, Found, Here, State
<1> QED
  BY <1>1, <1>2

(* The run of the processor is one of the instruction set, of which        *)
(* step_state, in the check, has followed a part; its last instruction has *)
(* written nothing yet.                                                    *)
CheckInv ==
    /\ Inv /\ isa_code = code
    /\ limit \in Nat /\ icount \in Nat /\ icount <= limit
    /\ phase \in {"run", "check", "done"}
    /\ phase # "run" => icount >= limit \/ status # "AOK"
    /\ phase = "done" => step >= limit \/ e # "AOK"
    /\ Reach(code, Here, icount)
    /\ status # "AOK" => Here = After(code, Found)

(* A run of no steps.                                                      *)
LEMMA CheckStarts == TtyInit => CheckInv
<1> SUFFICES ASSUME TtyInit PROVE CheckInv
  OBVIOUS
<1>1. Inv /\ ISA!Init
  BY InvInit, InitRefines DEF TtyInit
<1>2. There = Here
  <2>1. ReachedPc = 0 /\ ReachedReg = reg /\ UpdatedMem = mem /\ latch.cc_in = DEFAULT_CC /\ status = "AOK"
        /\ reg = [id \in Regs |-> 0]
    BY <1>1, ReachedBefore, SameAccess DEF TtyInit, Init, ISA!Init, UpdatedMem
  <2>2. isa_pc = 0 /\ isa_r = reg /\ isa_m = mem /\ isa_cc = DEFAULT_CC /\ e = "AOK"
    BY <2>1, StateAccess DEF TtyInit, CheckInit, isa_state!Init
  <2> QED
    BY <2>1, <2>2 DEF Here, There
<1>3. icount = 0 /\ step = 0 /\ phase = "run" /\ limit \in Nat /\ isa_code = code /\ status = "AOK"
  BY LimitsAssumption DEF TtyInit, CheckInit, Init
<1>4. Reach(code, Here, icount)
  BY <1>1, <1>2, <1>3, HereType, ReachStarts
<1> QED
  BY <1>1, <1>3, <1>4 DEF CheckInv

(* Every step of the simulator keeps the check where the run was.          *)
LEMMA CheckInductive == CheckInv /\ [TtyNext]_tty_vars => CheckInv'
<1> SUFFICES ASSUME CheckInv, [TtyNext]_tty_vars PROVE CheckInv'
  OBVIOUS
<1> PICK p, h, n : p = code /\ h = Here /\ n = icount
  OBVIOUS
<1>1. n \in Nat /\ Reach(p, h, n) /\ h.stat = status
  BY StateParts DEF CheckInv, Here
<1>2. CASE sim_run
  <2>1. /\ sim_step /\ status = "AOK" /\ icount < limit /\ phase = "run" /\ icount' = icount + 1
        /\ UNCHANGED <<limit, phase, step, isa_code, code>> /\ There' = There
    BY <1>2 DEF sim_run, sim_step, isa_vars, There, State
  <2>2. Inv'
    BY <2>1, InvStep DEF CheckInv, Next
  <2>3. Here' = After(p, h) /\ Found' = h
    BY <2>1, StepIsAfter DEF CheckInv
  <2>4. After(p, h) \in Cpu
    BY <2>2, <2>3, HereTypeNext
  <2>5. Reach(p, After(p, h), n + 1)
    BY <1>1, <2>1, <2>4, ReachGrows
  <2>6. Reach(p, After(p, h), n + 1)'
    <3>1. n + 1 \in Nat
      BY <1>1
    <3> QED
      BY <2>1, <2>5, <3>1, ReachStays
  <2>7. Reach(code, Here, icount)'
    BY <2>1, <2>3, <2>6 DEF Reach
  <2>8. Here' = After(code', Found')
    BY <2>1, <2>3
  <2> QED
    BY <2>1, <2>2, <2>7, <2>8 DEF CheckInv
<1>3. ASSUME UNCHANGED vars
      PROVE  Inv' /\ Here' = Here /\ Found' = Found /\ UNCHANGED <<status, code>>
  BY <1>3 DEF vars, CheckInv, Inv, TypeOK, Here, Found, State, ReachedPc, ReachedReg, LastIcode,
     UpdatedReg, UpdatedMem
<1>4. ASSUME UNCHANGED <<vars, icount, limit, isa_code>>, Reach(p, h, n)', phase' \in {"run", "check", "done"},
             phase' # "run" => icount >= limit \/ status # "AOK",
             phase' = "done" => step' >= limit \/ e' # "AOK"
      PROVE  CheckInv'
  <2>1. Reach(code, Here, icount)'
    BY <1>3, <1>4 DEF vars, Reach
  <2> QED
    BY <1>3, <1>4, <2>1 DEF vars, CheckInv
<1>5. ASSUME step' = step, There' = There
      PROVE  Reach(p, h, n)'
  BY <1>1, <1>5, ReachStays
<1>6. CASE RunEnds(status) /\ UNCHANGED vars
  BY <1>4, <1>5, <1>6 DEF RunEnds, isa_vars, There, State, CheckInv
<1>7. CASE CheckEnds /\ UNCHANGED vars
  BY <1>4, <1>5, <1>7 DEF CheckEnds, isa_vars, There, State, CheckInv
<1>8. CASE CheckStep /\ UNCHANGED vars
  <2>1. isa_state!Next /\ step' = step + 1 /\ step < limit /\ UNCHANGED <<limit, phase, icount>> /\ phase = "check"
    BY <1>8 DEF CheckStep
  <2>2. isa_code' = isa_code
    BY <2>1 DEF isa_state!Next, isa_state!BadAddress, isa_state!Halt, isa_state!Invalid, isa_state!Nop,
       isa_state!Rrmovq, isa_state!Irmovq, isa_state!Rmmovq, isa_state!Mrmovq, isa_state!Alu,
       isa_state!Jump, isa_state!Call, isa_state!Pushq, isa_state!Ret, isa_state!Popq, isa_state!Fetched
  <2>3. h.stat # "AOK" \/ step < n
    BY <1>1, <2>1 DEF CheckInv
  <2>4. Reach(p, h, n)'
    BY <1>1, <2>1, <2>3, ReachFollows DEF CheckInv
  <2> QED
    BY <1>4, <1>8, <2>1, <2>2, <2>4 DEF CheckInv
<1>9. CASE UNCHANGED tty_vars
  BY <1>4, <1>5, <1>9 DEF tty_vars, check_vars, isa_vars, There, State, CheckInv
<1> QED
  BY <1>2, <1>6, <1>7, <1>8, <1>9 DEF TtyNext, CheckNext

(* So it holds of every run.                                               *)
LEMMA CheckAlways == TtySpec => []CheckInv
BY CheckStarts, CheckInductive, PTL DEF TtySpec

(* When the check is done step_state has come to where ssim is.            *)
LEMMA CheckMeets == CheckInv /\ phase = "done" => There = Here
<1> SUFFICES ASSUME CheckInv, phase = "done" PROVE There = Here
  OBVIOUS
<1>1. icount \in Nat /\ (e # "AOK" \/ step >= icount)
  <2>1. step \in Int
    BY DEF CheckInv, Reach
  <2> QED
    BY <2>1 DEF CheckInv
<1> QED
  BY <1>1, ReachMeets DEF CheckInv

(* What -t compares after a run that its limit ends is one update_state    *)
(* short of step_state, for every program, limit and word size.            *)
THEOREM LatchStaysBehind == TtySpec => []OneLatchBehind
<1>1. CheckInv => OneLatchBehind
  <2> SUFFICES ASSUME CheckInv, phase = "done", status = "AOK"
               PROVE  /\ isa_r = UpdatedReg /\ isa_m = UpdatedMem
                      /\ isa_cc = latch.cc_in /\ isa_pc = latch.pc_in
    BY DEF OneLatchBehind
  <2>1. There = Here
    BY CheckMeets
  <2>2. ReachedPc = latch.pc_in /\ ReachedReg = UpdatedReg
    BY ReachedBefore
  <2> QED
    BY <2>1, <2>2 DEF There, Here, State
<1> QED
  BY <1>1, CheckAlways, PTL

(* The check passes a program that ended by itself exactly if it did not   *)
(* end with a failing call, pushq or popq: for every program, limit, word  *)
(* size, data memory and set of registers.                                 *)
THEOREM SsimVerdict == TtySpec => []CheckVerdict
<1>1. CheckInv => CheckVerdict
  <2> SUFFICES ASSUME CheckInv, phase = "done", status # "AOK"
               PROVE  e = status /\ (match <=> ~StackFault)
    BY DEF CheckVerdict
  <2>1. There = Here /\ There = After(code, Found) /\ Found \in Cpu
    BY CheckMeets, HereType DEF CheckInv
  <2>2. e = status
    <3>1. There.stat = e /\ Here.stat = status
      BY StateParts DEF There, Here
    <3> QED
      BY <2>1, <3>1
  <2>3. /\ There.pc = isa_pc /\ There.r = isa_r /\ There.m = isa_m /\ There.cc = isa_cc /\ There.stat = e
        /\ Found.pc = pc /\ Found.r = reg /\ Found.m = mem /\ Found.cc = cc
    BY StateParts DEF There, Found
  <2>4. code \in Programs /\ isa_code = code
    BY DEF CheckInv, Inv
  <2>5. /\ isa_pc = pc /\ isa_m = mem /\ isa_cc = cc
        /\ isa_r = reg <=> ~(e = "ADR" /\ ~FetchError(pc)
                             /\ FetchAt(code, pc).icode \in {"CALL", "PUSHQ", "POPQ"})
    BY <2>1, <2>2, <2>3, <2>4, LastInstruction
  <2> QED
    BY <2>2, <2>4, <2>5 DEF match, StackFault
<1> QED
  BY <1>1, CheckAlways, PTL
=============================================================================
