----------------------------- MODULE PipeProofs -----------------------------
(***************************************************************************)
(* The pipelined processor, for every program, word size and set of        *)
(* registers: its control logic, the refinement of the instruction set,    *)
(* and its check by -t.                                                    *)
(***************************************************************************)
EXTENDS PipeTty, IsaFacts

(* Only an instruction has an icode other than NOP, and no register has    *)
(* got the status of a control error.                                      *)
Marked(s) == s.status # "PIP" /\ (s.status = "BUB" => s.icode = "NOP")
PInv == Marked(D) /\ Marked(E) /\ Marked(M) /\ Marked(W)

(* Stall and bubble exclude each other, by the form of the conditions: a   *)
(* load is no jump, and ret asks for a bubble only if nobody stalls.       *)
LEMMA StallOrBubble == ~(D_stall /\ D_bubble)
BY DEF D_stall, D_bubble, LoadUse, Mispredict

LEMMA UpdateCases ==
    ASSUME NEW stall \in BOOLEAN, NEW bubble \in BOOLEAN, ~(stall /\ bubble),
           NEW current, NEW next, NEW bubble_val
    PROVE  Update(pipe_cntl(stall, bubble), current, next, bubble_val) =
               IF stall THEN current ELSE IF bubble THEN bubble_val ELSE next
BY DEF Update, pipe_cntl

(* A cycle in plain words: which of the registers load, keep or drop.      *)
LEMMA CycleCases ==
    ASSUME sim_step_pipe(TRUE, TRUE)
    PROVE  /\ D' = IF D_stall THEN D ELSE IF D_bubble THEN bubble_if_id ELSE do_if_stage
           /\ E' = IF E_bubble THEN bubble_id_ex ELSE do_id_stage(do_ex_stage, do_mem_stage)
           /\ M' = IF M_bubble(do_mem_stage) THEN bubble_ex_mem ELSE do_ex_stage
           /\ W' = do_mem_stage
<1>1. W_stall = FALSE
  BY DEF sim_step_pipe, Stat, W_stall, Faulty
<1>2. /\ D_stall \in BOOLEAN /\ D_bubble \in BOOLEAN /\ E_bubble \in BOOLEAN
      /\ M_bubble(do_mem_stage) \in BOOLEAN
  BY DEF D_stall, D_bubble, E_bubble, M_bubble, LoadUse, Mispredict, RetInside
<1>3. D' = Update(pipe_cntl(D_stall, D_bubble), D, do_if_stage, bubble_if_id)
  BY DEF sim_step_pipe
<1>4. E' = Update(pipe_cntl(FALSE, E_bubble), E,
                  do_id_stage(do_ex_stage, do_mem_stage), bubble_id_ex)
  BY DEF sim_step_pipe
<1>5. M' = Update(pipe_cntl(FALSE, M_bubble(do_mem_stage)), M, do_ex_stage, bubble_ex_mem)
  BY DEF sim_step_pipe
<1>6. W' = Update(pipe_cntl(FALSE, FALSE), W, do_mem_stage, bubble_mem_wb)
  BY <1>1 DEF sim_step_pipe
<1>7. D' = IF D_stall THEN D ELSE IF D_bubble THEN bubble_if_id ELSE do_if_stage
  BY <1>2, <1>3, StallOrBubble, UpdateCases
<1>8. E' = IF E_bubble THEN bubble_id_ex ELSE do_id_stage(do_ex_stage, do_mem_stage)
  BY <1>2, <1>4 DEF Update, pipe_cntl
<1>9. M' = IF M_bubble(do_mem_stage) THEN bubble_ex_mem ELSE do_ex_stage
  BY <1>2, <1>5 DEF Update, pipe_cntl
<1>10. W' = do_mem_stage
  BY <1>6 DEF Update, pipe_cntl
<1> QED
  BY <1>7, <1>8, <1>9, <1>10

(* What a stage passes on is marked as what it got.                        *)
LEMMA StagesMark ==
    /\ do_if_stage.status \in {"AOK", "ADR", "INS", "HLT"}
    /\ \A x, w : /\ do_id_stage(x, w).status = D.status
                 /\ do_id_stage(x, w).icode = D.icode
    /\ do_ex_stage.status = E.status /\ do_ex_stage.icode = E.icode
    /\ do_mem_stage.status \in {M.status, "ADR"} /\ do_mem_stage.icode = M.icode
BY DEF do_if_stage, f_stat, do_id_stage, do_ex_stage, do_mem_stage, m_stat

LEMMA BubblesMarked ==
    Marked(bubble_if_id) /\ Marked(bubble_id_ex) /\ Marked(bubble_ex_mem) /\ Marked(bubble_mem_wb)
BY DEF Marked, bubble_if_id, bubble_id_ex, bubble_ex_mem, bubble_mem_wb

LEMMA PInvStep == PInv /\ [Next]_vars => PInv'
<1> SUFFICES ASSUME PInv, sim_step_pipe(TRUE, TRUE) PROVE PInv'
  BY DEF Next, vars, PInv, Marked
<1>1. Marked(do_if_stage) /\ Marked(do_ex_stage) /\ Marked(do_mem_stage)
  BY StagesMark DEF PInv, Marked
<1>2. Marked(do_id_stage(do_ex_stage, do_mem_stage))
  BY StagesMark DEF PInv, Marked
<1> QED
  BY <1>1, <1>2, CycleCases, BubblesMarked DEF PInv, Marked

LEMMA PInvAlways == Spec => []PInv
<1>1. Init => PInv
  BY BubblesMarked DEF Init, PInv
<1> QED
  BY <1>1, PInvStep, PTL DEF Spec

(* pipe_cntl's error case never arises and no register ever carries the    *)
(* status STAT_PIP.                                                        *)
THEOREM NoConflictEver == Spec => []NoControlConflict
<1>1. PInv => NoControlConflict
  BY StallOrBubble DEF PInv, Marked, NoControlConflict
<1> QED
  BY <1>1, PInvAlways, PTL

(* A stall or a bubble always has its cause under way.                     *)
LEMMA CycleLeavesWork ==
    ASSUME PInv, sim_step_pipe(TRUE, TRUE)
    PROVE  \E s \in {D', E', M', W'} : s.status # "BUB"
<1>1. CASE ~D_stall /\ ~D_bubble
  BY <1>1, CycleCases, StagesMark
<1>2. CASE M.status # "BUB"
  BY <1>2, CycleCases, StagesMark
<1>3. CASE M.status = "BUB" /\ E.status # "BUB"
  <2>1. ~M_bubble(do_mem_stage) \/ W'.status # "BUB"
    BY CycleCases DEF M_bubble, Faulty, sim_step_pipe, Stat
  <2> QED
    BY <1>3, <2>1, CycleCases, StagesMark
<1>4. CASE M.status = "BUB" /\ E.status = "BUB" /\ (D_stall \/ D_bubble)
  <2>1. M.icode = "NOP" /\ E.icode = "NOP"
    BY <1>4 DEF PInv, Marked
  <2>2. ~LoadUse /\ ~Mispredict /\ D.icode = "RET"
    BY <1>4, <2>1 DEF LoadUse, Mispredict, D_stall, D_bubble, RetInside
  <2>3. D.status # "BUB" /\ ~E_bubble
    BY <2>2 DEF PInv, Marked, E_bubble
  <2> QED
    BY <2>3, CycleCases, StagesMark
<1> QED
  BY <1>1, <1>2, <1>3, <1>4

(* After every cycle an instruction is under way: stalls and bubbles never *)
(* empty the pipeline, let alone lock it.                                  *)
THEOREM WorkAlwaysUnderWay == Spec => SomethingUnderWay
<1>1. PInv /\ [Next]_vars => [\E s \in {D', E', M', W'} : s.status # "BUB"]_vars
  BY CycleLeavesWork DEF Next
<1> QED
  BY <1>1, PInvAlways, PTL DEF Spec, SomethingUnderWay

-----------------------------------------------------------------------------
(* Types.  The arithmetic of words is in IsaFacts; here is how far the     *)
(* values of one stage register may get.                                   *)
TInv == TypeOK /\ code \in Programs

LEMMA BubblesType ==
    /\ bubble_if_id \in if_id_ele /\ bubble_id_ex \in id_ex_ele
    /\ bubble_ex_mem \in ex_mem_ele
<1>1. RNONE \in RegId /\ 0 \in word_t
  BY SmallWords DEF RegId
<1> QED
  BY <1>1 DEF bubble_if_id, bubble_id_ex, bubble_ex_mem, if_id_ele, id_ex_ele, ex_mem_ele,
     itype_t, stat_t, cond_t

LEMMA FetchStageType ==
    ASSUME TInv
    PROVE  do_if_stage \in if_id_ele /\ f_predPC(do_if_stage) \in word_t
<1>1. f_pc \in word_t
  BY DEF TInv, TypeOK, ex_mem_ele, mem_wb_ele, f_pc
<1>2. f_instr \in Instr
  BY FetchType, PlainType DEF TInv, f_instr, itype_t
<1>3. Wrap(f_pc + 1) \in word_t
  BY <1>1, WrapType, SmallWords
<1>4. f_stat \in stat_t
  BY DEF f_stat, stat_t
<1>5. do_if_stage \in if_id_ele
  BY <1>1, <1>2, <1>3, <1>4 DEF do_if_stage, if_id_ele, Instr
<1> QED
  BY <1>5 DEF f_predPC, if_id_ele

LEMMA MemStageType ==
    ASSUME TInv
    PROVE  do_mem_stage \in mem_wb_ele
<1>1. get_word_val(mem, mem_addr) \in word_t
  BY DataType DEF TInv, TypeOK
<1>2. m_stat \in stat_t
  BY DEF m_stat, stat_t, TInv, TypeOK, ex_mem_ele
<1> QED
  BY <1>1, <1>2, SmallWords DEF do_mem_stage, mem_wb_ele, TInv, TypeOK, ex_mem_ele

LEMMA ExStageType ==
    ASSUME TInv
    PROVE  do_ex_stage \in ex_mem_ele /\ aluA \in word_t /\ aluB \in word_t
<1>1. aluA \in word_t /\ aluB \in word_t
  BY SmallWords DEF aluA, aluB, TInv, TypeOK, id_ex_ele
<1>2. compute_alu(alufun, aluA, aluB) \in word_t
  BY <1>1, AluType
<1>3. e_dstE \in RegId
  BY DEF e_dstE, RegId, TInv, TypeOK, id_ex_ele
<1>4. e_Cnd \in BOOLEAN
  BY DEF e_Cnd, cond_holds, TInv, TypeOK, cc_t
<1> QED
  BY <1>1, <1>2, <1>3, <1>4 DEF do_ex_stage, ex_mem_ele, TInv, TypeOK, id_ex_ele

LEMMA IdStageType ==
    ASSUME TInv
    PROVE  do_id_stage(do_ex_stage, do_mem_stage) \in id_ex_ele
<1>1. /\ d_srcA \in RegId /\ d_srcB \in RegId /\ d_dstE \in RegId /\ d_dstM \in RegId
  BY RegsAssumption DEF d_srcA, d_srcB, d_dstE, d_dstM, RegId, TInv, TypeOK, if_id_ele
<1>2. \A src \in RegId : Forward(src, do_ex_stage, do_mem_stage) \in word_t
  <2> TAKE src \in RegId
  <2>1. get_reg_val(reg, src) \in word_t
    BY RegsType DEF TInv, TypeOK
  <2>2. do_ex_stage.vale \in word_t /\ do_mem_stage.valm \in word_t
    BY ExStageType, MemStageType DEF ex_mem_ele, mem_wb_ele
  <2> QED
    BY <2>1, <2>2 DEF Forward, TInv, TypeOK, ex_mem_ele, mem_wb_ele
<1>3. (IF D.icode \in {"CALL", "JMP"} THEN D.valp
       ELSE Forward(d_srcA, do_ex_stage, do_mem_stage)) \in word_t
  BY <1>1, <1>2 DEF TInv, TypeOK, if_id_ele
<1>4. Forward(d_srcB, do_ex_stage, do_mem_stage) \in word_t
  BY <1>1, <1>2
<1>5. /\ D.icode \in itype_t /\ D.ifun \in alu_t \cup cond_t /\ D.valc \in word_t
      /\ D.status \in stat_t /\ D.stage_pc \in word_t
  BY DEF TInv, TypeOK, if_id_ele
<1> QED
  BY <1>1, <1>3, <1>4, <1>5 DEF do_id_stage, id_ex_ele

LEMMA WriteBackType ==
    ASSUME TInv
    PROVE  WriteBack(reg, W) \in [Regs -> word_t]
<1>1. W.deste \in RegId /\ W.destm \in RegId /\ W.vale \in word_t /\ W.valm \in word_t
  BY DEF TInv, TypeOK, mem_wb_ele
<1>2. set_reg_val(reg, W.deste, W.vale) \in [Regs -> word_t]
  BY <1>1, RegsType DEF TInv, TypeOK
<1> QED
  BY <1>1, <1>2, RegsType DEF WriteBack

LEMMA TInvInit == Init => TInv
<1> SUFFICES ASSUME Init PROVE TInv
  OBVIOUS
<1>1. 0 \in word_t /\ RNONE \in RegId
  BY SmallWords DEF RegId
<1>2. reg \in [Regs -> word_t]
  BY <1>1 DEF Init
<1>3. mem \in [0 .. DataWords - 1 -> word_t]
  BY ProgramsAssumption DEF Init
<1>4. cc \in cc_t
  BY DEF Init, DEFAULT_CC, cc_t
<1>5. D \in if_id_ele /\ E \in id_ex_ele /\ M \in ex_mem_ele
  BY BubblesType DEF Init
<1>6. W \in mem_wb_ele
  BY <1>1 DEF Init, bubble_mem_wb, mem_wb_ele, itype_t, stat_t
<1> QED
  BY <1>1, <1>2, <1>3, <1>4, <1>5, <1>6 DEF TInv, TypeOK, Init

LEMMA TInvStep == TInv /\ [Next]_vars => TInv'
<1> SUFFICES ASSUME TInv, [Next]_vars PROVE TInv'
  OBVIOUS
<1>1. CASE UNCHANGED vars
  BY <1>1 DEF vars, TInv, TypeOK
<1>2. CASE Next
  <2>1. sim_step_pipe(TRUE, TRUE)
    BY <1>2 DEF Next
  <2>2. reg' \in [Regs -> word_t]
    BY <2>1, WriteBackType DEF sim_step_pipe
  <2>3. mem' \in [0 .. DataWords - 1 -> word_t]
    <3>1. M.vala \in word_t
      BY DEF TInv, TypeOK, ex_mem_ele
    <3> QED
      BY <2>1, <3>1, DataType DEF sim_step_pipe, TInv, TypeOK
  <2>4. cc' \in cc_t
    <3>1. compute_cc(alufun, aluA, aluB) \in cc_t
      BY ExStageType, CcType
    <3> QED
      BY <2>1, <3>1 DEF sim_step_pipe, TInv, TypeOK
  <2>5. F' \in word_t
    BY <2>1, FetchStageType DEF sim_step_pipe, TInv, TypeOK
  <2>6. D' \in if_id_ele
    BY <2>1, CycleCases, FetchStageType, BubblesType DEF TInv, TypeOK
  <2>7. E' \in id_ex_ele
    BY <2>1, CycleCases, IdStageType, BubblesType
  <2>8. M' \in ex_mem_ele
    BY <2>1, CycleCases, ExStageType, BubblesType
  <2>9. W' \in mem_wb_ele
    BY <2>1, CycleCases, MemStageType
  <2>10. code' \in Programs
    BY <2>1 DEF sim_step_pipe, TInv
  <2> QED
    BY <2>2, <2>3, <2>4, <2>5, <2>6, <2>7, <2>8, <2>9, <2>10 DEF TInv, TypeOK
<1> QED
  BY <1>1, <1>2 DEF Next

(* Words keep their width, registers their range and statuses theirs, in   *)
(* all five pipeline registers, for every program and width.               *)
THEOREM TypeCorrect == Spec => []TypeOK
<1>1. TInv => TypeOK
  BY DEF TInv
<1> QED
  BY <1>1, TInvInit, TInvStep, PTL DEF Spec
-----------------------------------------------------------------------------
(* The refinement.  What an instruction at address p is when it leaves     *)
(* fetch, and which registers it reads and writes.                         *)
Instruction(p) == IF FetchError(p) THEN Plain("NOP") ELSE FetchAt(code, p)
FetchStatus(p) == IF FetchError(p) THEN "ADR"
                  ELSE IF Instruction(p).icode = "BAD" THEN "INS"
                  ELSE IF Instruction(p).icode = "HALT" THEN "HLT" ELSE "AOK"

FetchedAt(p) ==
    LET i == Instruction(p)
    IN  [icode |-> i.icode, ifun |-> i.ifun, ra |-> i.rA, rb |-> i.rB,
         valc |-> i.valC, valp |-> Wrap(p + 1), status |-> FetchStatus(p), stage_pc |-> p]

SourceA(i) == CASE i.icode \in {"RRMOVQ", "RMMOVQ", "ALU", "PUSHQ"} -> i.rA
                [] i.icode \in {"POPQ", "RET"} -> RRSP
                [] OTHER -> RNONE
SourceB(i) == CASE i.icode \in {"ALU", "IADDQ", "RMMOVQ", "MRMOVQ"} -> i.rB
                [] i.icode \in {"PUSHQ", "POPQ", "CALL", "RET"} -> RRSP
                [] OTHER -> RNONE
TargetE(i) == CASE i.icode \in {"RRMOVQ", "IRMOVQ", "ALU", "IADDQ"} -> i.rB
                [] i.icode \in {"PUSHQ", "POPQ", "CALL", "RET"} -> RRSP
                [] OTHER -> RNONE
TargetM(i) == IF i.icode \in {"MRMOVQ", "POPQ"} THEN i.rA ELSE RNONE

(* Every operand that an instruction reads names a register: so it is in   *)
(* what yas assembles, memory references without a register excepted.      *)
NamesSources(i) ==
    /\ i.icode \in {"RRMOVQ", "RMMOVQ", "ALU", "PUSHQ"} => i.rA \in Regs
    /\ i.icode \in {"ALU", "IADDQ", "RMMOVQ", "MRMOVQ"} => i.rB \in Regs

SourcesNamed ==
    \A c \in Programs \cup {Prelude} : \A a \in DOMAIN c : NamesSources(c[a])

(* What the pipeline registers hold.                                       *)
InDecode  == IF D.status = "BUB" THEN D = bubble_if_id ELSE D = FetchedAt(D.stage_pc)
InExecute ==
    IF E.status = "BUB" THEN E.deste = RNONE /\ E.destm = RNONE
    ELSE LET i == Instruction(E.stage_pc)
         IN  /\ E.icode = i.icode /\ E.ifun = i.ifun /\ E.valc = i.valC
             /\ E.srca = SourceA(i) /\ E.srcb = SourceB(i)
             /\ E.deste = TargetE(i) /\ E.destm = TargetM(i)
             /\ E.status = FetchStatus(E.stage_pc)

(* Until something fails, instructions are in the order of the program:    *)
(* decode holds what follows execute, the predicted pc is what follows     *)
(* decode, and behind ret nothing is fetched.                              *)
Sound == W.status \notin Faulty /\ Written.status \notin Faulty

InOrder ==
    /\ E.status # "BUB" /\ D.status # "BUB" =>
          /\ E.icode # "RET"
          /\ D.stage_pc = IF E.icode \in {"JMP", "CALL"} THEN E.valc ELSE Wrap(E.stage_pc + 1)
    /\ E.status # "BUB" /\ D.status = "BUB" => E.icode = "RET"
    /\ D.status # "BUB" =>
          /\ ~(M.icode = "JMP" /\ ~M.takebranch) /\ W.icode # "RET"
          /\ F = f_predPC(D)
    /\ M.icode = "RET" => D.status = "BUB" /\ E.status = "BUB"

(* The operands in execute are those of the registers that the program has *)
(* reached, wherever they have been forwarded from.                        *)
Operands ==
    E.status # "BUB" =>
       /\ E.srca \in Regs => E.vala = ReachedRegs[E.srca]
       /\ E.srcb \in Regs => E.valb = ReachedRegs[E.srcb]
       /\ E.icode \in {"CALL", "JMP"} => E.vala = Wrap(E.stage_pc + 1)

OInv == /\ TInv /\ PInv
        /\ InDecode /\ InExecute
        /\ Sound => InOrder /\ Operands

LEMMA FetchIsFetchedAt ==
    /\ do_if_stage = FetchedAt(f_pc)
    /\ \A p : FetchStatus(p) \in {"AOK", "ADR", "INS", "HLT"}
BY DEF do_if_stage, f_instr, f_stat, FetchedAt, Instruction, FetchStatus

LEMMA InstructionType == code \in Programs => \A p : Instruction(p) \in Instr
BY FetchType, PlainType DEF Instruction, itype_t

LEMMA DecodedIs ==
    ASSUME InDecode, D.status # "BUB"
    PROVE  LET i == Instruction(D.stage_pc)
           IN  /\ D.icode = i.icode /\ D.ifun = i.ifun /\ D.valc = i.valC
               /\ D.valp = Wrap(D.stage_pc + 1)
               /\ d_srcA = SourceA(i) /\ d_srcB = SourceB(i)
               /\ d_dstE = TargetE(i) /\ d_dstM = TargetM(i)
               /\ D.status = FetchStatus(D.stage_pc)
<1> DEFINE i == Instruction(D.stage_pc)
<1>1. /\ D.icode = i.icode /\ D.ifun = i.ifun /\ D.ra = i.rA /\ D.rb = i.rB /\ D.valc = i.valC
      /\ D.valp = Wrap(D.stage_pc + 1) /\ D.status = FetchStatus(D.stage_pc)
  BY DEF InDecode, FetchedAt
<1> HIDE DEF i
<1>2. d_srcA = SourceA(i) /\ d_srcB = SourceB(i) /\ d_dstE = TargetE(i) /\ d_dstM = TargetM(i)
  BY <1>1 DEF d_srcA, SourceA, d_srcB, SourceB, d_dstE, TargetE, d_dstM, TargetM
<1> QED
  BY <1>1, <1>2 DEF i

(* Only an instruction that a slot holds reads or writes registers.        *)
LEMMA EmptyDecode ==
    ASSUME InDecode, D.status = "BUB"
    PROVE  /\ D.icode = "NOP" /\ d_srcA = RNONE /\ d_srcB = RNONE
           /\ d_dstE = RNONE /\ d_dstM = RNONE
BY DEF InDecode, bubble_if_id, d_srcA, d_srcB, d_dstE, d_dstM

LEMMA InDecodeStep == ASSUME OInv, sim_step_pipe(TRUE, TRUE) PROVE InDecode'
<1>1. CASE D' = D
  BY <1>1 DEF OInv, InDecode, FetchedAt, FetchStatus, Instruction, sim_step_pipe
<1>2. CASE D' = bubble_if_id
  BY <1>2 DEF InDecode, bubble_if_id
<1>3. CASE D' = do_if_stage
  <2>1. D' = FetchedAt(f_pc) /\ D'.status # "BUB" /\ D'.stage_pc = f_pc
    BY <1>3, FetchIsFetchedAt DEF FetchedAt
  <2>2. code' = code
    BY DEF sim_step_pipe
  <2>3. FetchedAt(f_pc) = FetchedAt(D.stage_pc)'
    BY <2>1, <2>2 DEF FetchedAt, FetchStatus, Instruction
  <2> QED
    BY <2>1, <2>3 DEF InDecode
<1> QED
  BY <1>1, <1>2, <1>3, CycleCases

LEMMA InExecuteStep == ASSUME OInv, sim_step_pipe(TRUE, TRUE) PROVE InExecute'
<1>1. CASE E' = bubble_id_ex
  BY <1>1 DEF InExecute, bubble_id_ex
<1>2. CASE E' = do_id_stage(do_ex_stage, do_mem_stage)
  <2>1. /\ E'.icode = D.icode /\ E'.ifun = D.ifun /\ E'.valc = D.valc
        /\ E'.srca = d_srcA /\ E'.srcb = d_srcB /\ E'.deste = d_dstE /\ E'.destm = d_dstM
        /\ E'.status = D.status /\ E'.stage_pc = D.stage_pc
    BY <1>2 DEF do_id_stage
  <2>2. Instruction(E.stage_pc)' = Instruction(D.stage_pc)
        /\ FetchStatus(E.stage_pc)' = FetchStatus(D.stage_pc)
    BY <2>1 DEF sim_step_pipe, Instruction, FetchStatus
  <2>3. CASE D.status = "BUB"
    BY <2>1, <2>3, EmptyDecode DEF OInv, InExecute
  <2>4. CASE D.status # "BUB"
    <3> DEFINE i == Instruction(D.stage_pc)
    <3>1. /\ D.icode = i.icode /\ D.ifun = i.ifun /\ D.valc = i.valC
          /\ d_srcA = SourceA(i) /\ d_srcB = SourceB(i)
          /\ d_dstE = TargetE(i) /\ d_dstM = TargetM(i)
          /\ D.status = FetchStatus(D.stage_pc)
      BY <2>4, DecodedIs DEF OInv
    <3> HIDE DEF i
    <3>2. Instruction(E.stage_pc)' = i /\ FetchStatus(E.stage_pc)' = FetchStatus(D.stage_pc)
      BY <2>2 DEF i
    <3> QED
      BY <2>1, <2>4, <3>1, <3>2 DEF InExecute, SourceA, SourceB, TargetE, TargetM
  <2> QED
    BY <2>3, <2>4
<1> QED
  BY <1>1, <1>2, CycleCases

(* Nothing has failed: everybody moves on, but for stalls and bubbles.     *)
LEMMA FlowCases ==
    ASSUME sim_step_pipe(TRUE, TRUE), Written.status \notin Faulty
    PROVE  /\ Sound
           /\ M' = do_ex_stage /\ W' = Written
           /\ D_stall => D' = D /\ F' = F
           /\ D_bubble => D' = bubble_if_id
           /\ ~D_stall /\ ~D_bubble => D' = do_if_stage /\ F' = f_predPC(do_if_stage)
           /\ E_bubble => E' = bubble_id_ex
           /\ ~E_bubble => E' = do_id_stage(do_ex_stage, do_mem_stage)
<1>1. W.status \notin Faulty
  BY DEF sim_step_pipe, Stat, Faulty
<1>2. ~M_bubble(do_mem_stage)
  BY <1>1 DEF M_bubble, Written
<1>3. /\ D_stall => F_stall
      /\ ~D_stall /\ ~D_bubble => ~F_stall
  BY DEF D_stall, D_bubble, F_stall
<1>4. F' = IF F_stall THEN F ELSE f_predPC(do_if_stage)
  BY DEF sim_step_pipe
<1> QED
  BY <1>1, <1>2, <1>3, <1>4, CycleCases, StallOrBubble DEF Sound, Written

LEMMA InOrderStep ==
    ASSUME OInv, sim_step_pipe(TRUE, TRUE), Written.status \notin Faulty
    PROVE  InOrder'
<1>1. Sound /\ InOrder
  BY FlowCases DEF OInv
<1>2. M'.icode = E.icode /\ (M'.takebranch <=> e_Cnd) /\ W'.icode = M.icode
  BY FlowCases DEF do_ex_stage, do_mem_stage, Written, e_Cnd
<1>3. /\ ~E_bubble => /\ E'.icode = D.icode /\ E'.status = D.status
                      /\ E'.valc = D.valc /\ E'.stage_pc = D.stage_pc
      /\ E_bubble => E'.status = "BUB"
  BY FlowCases DEF do_id_stage, bubble_id_ex
<1>4. /\ (D.status = "BUB" => D.icode = "NOP") /\ (E.status = "BUB" => E.icode = "NOP")
      /\ (M.status = "BUB" => M.icode = "NOP") /\ bubble_if_id.status = "BUB"
  BY DEF OInv, PInv, Marked, bubble_if_id
<1>5. D.status # "BUB" => D.valp = Wrap(D.stage_pc + 1)
  BY DecodedIs DEF OInv
<1>6. CASE D_stall
  <2>1. E_bubble /\ D' = D /\ F' = F /\ E.icode \in {"MRMOVQ", "POPQ"}
    BY <1>6, FlowCases DEF D_stall, E_bubble, LoadUse
  <2>2. E.status # "BUB"
    BY <1>4, <2>1
  <2>3. M.icode # "RET"
    BY <1>1, <2>2 DEF InOrder
  <2>4. f_predPC(D)' = f_predPC(D)
    BY <2>1 DEF f_predPC
  <2> QED
    BY <1>1, <1>2, <1>3, <2>1, <2>2, <2>3, <2>4 DEF InOrder, f_predPC
<1>7. CASE ~D_stall /\ D_bubble
  <2>1. D' = bubble_if_id /\ D'.status = "BUB"
    BY <1>4, <1>7, FlowCases
  <2>2. E'.status # "BUB" => E'.icode = "RET"
    <3> SUFFICES ASSUME E'.status # "BUB" PROVE E'.icode = "RET"
      OBVIOUS
    <3>1. ~E_bubble /\ E'.icode = D.icode /\ D.status # "BUB"
      BY <1>3
    <3>2. RetInside
      BY <1>7, <3>1 DEF E_bubble, D_bubble
    <3>3. E.icode # "RET" /\ M.icode # "RET"
      BY <1>1, <1>4, <3>1 DEF InOrder
    <3> QED
      BY <3>1, <3>2, <3>3 DEF RetInside
  <2>3. M'.icode = "RET" => E'.status = "BUB"
    BY <1>1, <1>2, <1>3, <1>4 DEF InOrder
  <2> QED
    BY <2>1, <2>2, <2>3 DEF InOrder
<1>8. CASE ~D_stall /\ ~D_bubble
  <2>1. D' = do_if_stage /\ F' = f_predPC(do_if_stage) /\ D'.stage_pc = f_pc
    BY <1>8, FlowCases DEF do_if_stage
  <2>2. ~LoadUse /\ ~Mispredict /\ ~RetInside /\ ~E_bubble
    BY <1>8 DEF D_stall, D_bubble, E_bubble
  <2>3. D.icode # "RET" /\ E.icode # "RET" /\ M.icode # "RET"
    BY <2>2 DEF RetInside
  <2>4. D'.status # "BUB"
    BY <2>1, StagesMark
  <2>5. ~(M'.icode = "JMP" /\ ~M'.takebranch)
    BY <1>2, <2>2 DEF Mispredict
  <2>6. f_predPC(D)' = f_predPC(do_if_stage)
    BY <2>1 DEF f_predPC
  <2>7. D.status # "BUB" => f_pc = IF D.icode \in {"JMP", "CALL"} THEN D.valc ELSE Wrap(D.stage_pc + 1)
    BY <1>1, <1>5 DEF InOrder, f_pc, f_predPC
  <2> QED
    BY <1>1, <1>2, <1>3, <2>1, <2>2, <2>3, <2>4, <2>5, <2>6, <2>7 DEF InOrder
<1> QED
  BY <1>6, <1>7, <1>8

-----------------------------------------------------------------------------
(* Forwarding.                                                             *)
LEMMA WriteBackAt ==
    ASSUME NEW r \in [Regs -> word_t], NEW w, w.deste \in RegId, w.destm \in RegId,
           w.vale \in word_t, NEW src \in Regs
    PROVE  /\ WriteBack(r, w)[src] = IF src = w.destm THEN w.valm
                                     ELSE IF src = w.deste THEN w.vale ELSE r[src]
           /\ get_reg_val(r, src) = r[src]
<1>1. set_reg_val(r, w.deste, w.vale) \in [Regs -> word_t]
  BY RegsType
<1>2. set_reg_val(r, w.deste, w.vale)[src] = IF src = w.deste THEN w.vale ELSE r[src]
  BY RegsAssumption DEF set_reg_val, RegId
<1>3. \A s \in [Regs -> word_t] :
         set_reg_val(s, w.destm, w.valm)[src] = IF src = w.destm THEN w.valm ELSE s[src]
  BY RegsAssumption DEF set_reg_val, RegId
<1> QED
  BY <1>1, <1>2, <1>3, RegsAssumption DEF WriteBack, get_reg_val

LEMMA CompletedSound ==
    \A r, w : w.status \notin Faulty => Completed(r, w) = WriteBack(r, w)
BY DEF Completed, Faulty

LEMMA ReachedRegsType ==
    ASSUME OInv, Sound
    PROVE  /\ ReachedRegs = WriteBack(WriteBack(reg, W), Written)
           /\ WriteBack(reg, W) \in [Regs -> word_t]
           /\ ReachedRegs \in [Regs -> word_t]
<1>1. ReachedRegs = WriteBack(WriteBack(reg, W), Written)
  BY CompletedSound DEF ReachedRegs, Sound
<1>2. WriteBack(reg, W) \in [Regs -> word_t]
  BY WriteBackType DEF OInv
<1>3. Written.deste \in RegId /\ Written.destm \in RegId /\ Written.vale \in word_t /\ Written.valm \in word_t
  BY MemStageType DEF OInv, Written, mem_wb_ele
<1>4. WriteBack(WriteBack(reg, W), Written) \in [Regs -> word_t]
  <2>1. set_reg_val(WriteBack(reg, W), Written.deste, Written.vale) \in [Regs -> word_t]
    BY <1>2, <1>3, RegsType
  <2> QED
    BY <1>3, <2>1, RegsType DEF WriteBack
<1> QED
  BY <1>1, <1>2, <1>4

LEMMA RegsAfter ==
    ASSUME OInv, sim_step_pipe(TRUE, TRUE), Written.status \notin Faulty
    PROVE  ReachedRegs' = Completed(ReachedRegs, Written')
<1>1. reg' = WriteBack(reg, W) /\ W' = Written
  BY FlowCases DEF sim_step_pipe
<1>2. ReachedRegs' = Completed(Completed(reg', W'), Written')
  BY DEF ReachedRegs, Completed, WriteBack, set_reg_val
<1>3. Completed(reg', W') = ReachedRegs
  BY <1>1, CompletedSound, ReachedRegsType, FlowCases
<1> QED
  BY <1>2, <1>3

(* What decode gets, without a load in execute that it would have to wait  *)
(* for, is what the register will hold when all ahead have written.        *)
LEMMA Forwarded ==
    ASSUME OInv, sim_step_pipe(TRUE, TRUE), Written.status \notin Faulty,
           Written'.status \notin Faulty, ~LoadUse, NEW src \in Regs, src \in {d_srcA, d_srcB}
    PROVE  Forward(src, do_ex_stage, do_mem_stage) = ReachedRegs'[src]
<1>1. /\ W.deste \in RegId /\ W.destm \in RegId /\ W.vale \in word_t
      /\ Written.deste = M.deste /\ Written.destm = M.destm /\ Written.vale = M.vale
      /\ M.deste \in RegId /\ M.destm \in RegId /\ M.vale \in word_t
      /\ reg \in [Regs -> word_t]
  BY DEF OInv, TInv, TypeOK, mem_wb_ele, ex_mem_ele, Written, do_mem_stage
<1>2. /\ Written'.deste = do_ex_stage.deste /\ Written'.destm = E.destm
      /\ Written'.vale = do_ex_stage.vale
  <2>1. M' = do_ex_stage /\ do_ex_stage.destm = E.destm
    BY FlowCases DEF do_ex_stage
  <2> QED
    BY <2>1 DEF Written, do_mem_stage
<1>3. do_ex_stage.deste \in RegId /\ E.destm \in RegId /\ do_ex_stage.vale \in word_t
  BY ExStageType DEF OInv, TInv, TypeOK, id_ex_ele, ex_mem_ele
<1>4. E.destm # src
  <2>1. CASE E.status = "BUB"
    BY <2>1, RegsAssumption DEF OInv, InExecute
  <2>2. CASE E.status # "BUB"
    <3> DEFINE i == Instruction(E.stage_pc)
    <3>1. E.icode = i.icode /\ E.destm = TargetM(i)
      BY <2>2 DEF OInv, InExecute
    <3> HIDE DEF i
    <3> QED
      BY <3>1, RegsAssumption DEF LoadUse, TargetM
  <2> QED
    BY <2>1, <2>2
<1>5. ReachedRegs \in [Regs -> word_t] /\ WriteBack(reg, W) \in [Regs -> word_t]
      /\ ReachedRegs = WriteBack(WriteBack(reg, W), Written)
  BY ReachedRegsType, FlowCases
<1>6. ReachedRegs' = WriteBack(ReachedRegs, Written')
  BY RegsAfter, CompletedSound
<1>7. ReachedRegs'[src] = IF src = do_ex_stage.deste THEN do_ex_stage.vale ELSE ReachedRegs[src]
  BY <1>2, <1>3, <1>4, <1>5, <1>6, WriteBackAt
<1>8. ReachedRegs[src] = IF src = M.destm THEN Written.valm
                         ELSE IF src = M.deste THEN M.vale ELSE WriteBack(reg, W)[src]
  BY <1>1, <1>5, WriteBackAt
<1>9. /\ WriteBack(reg, W)[src] = IF src = W.destm THEN W.valm
                                  ELSE IF src = W.deste THEN W.vale ELSE reg[src]
      /\ get_reg_val(reg, src) = reg[src]
  BY <1>1, WriteBackAt
<1> QED
  BY <1>7, <1>8, <1>9 DEF Forward, Written

LEMMA OperandsStep ==
    ASSUME OInv, sim_step_pipe(TRUE, TRUE), Written.status \notin Faulty,
           Written'.status \notin Faulty
    PROVE  Operands'
<1>1. CASE E' = bubble_id_ex
  BY <1>1 DEF Operands, bubble_id_ex
<1>2. CASE ~E_bubble /\ E' = do_id_stage(do_ex_stage, do_mem_stage)
  <2>1. /\ E'.icode = D.icode /\ E'.status = D.status /\ E'.stage_pc = D.stage_pc
        /\ E'.srca = d_srcA /\ E'.srcb = d_srcB
        /\ E'.vala = IF D.icode \in {"CALL", "JMP"} THEN D.valp
                     ELSE Forward(d_srcA, do_ex_stage, do_mem_stage)
        /\ E'.valb = Forward(d_srcB, do_ex_stage, do_mem_stage)
    BY <1>2 DEF do_id_stage
  <2>2. ~LoadUse
    BY <1>2 DEF E_bubble
  <2>3. D.status # "BUB" => D.valp = Wrap(D.stage_pc + 1)
    BY DecodedIs DEF OInv
  <2>4. D.icode \in {"CALL", "JMP"} => d_srcA = RNONE
    BY DEF d_srcA
  <2>5. d_srcA \in Regs => Forward(d_srcA, do_ex_stage, do_mem_stage) = ReachedRegs'[d_srcA]
    BY <2>2, Forwarded
  <2>6. d_srcB \in Regs => Forward(d_srcB, do_ex_stage, do_mem_stage) = ReachedRegs'[d_srcB]
    BY <2>2, Forwarded
  <2> QED
    BY <2>1, <2>3, <2>4, <2>5, <2>6, RegsAssumption DEF Operands
<1> QED
  BY <1>1, <1>2, CycleCases

LEMMA OInvInit == Init => OInv
<1> SUFFICES ASSUME Init PROVE OInv
  OBVIOUS
<1>1. TInv /\ PInv
  BY TInvInit, BubblesMarked DEF Init, PInv
<1>2. InDecode /\ InExecute
  BY DEF Init, InDecode, InExecute, bubble_if_id, bubble_id_ex
<1>3. InOrder /\ Operands
  BY DEF Init, InOrder, Operands, bubble_if_id, bubble_id_ex, bubble_ex_mem
<1> QED
  BY <1>1, <1>2, <1>3 DEF OInv

LEMMA OInvStep == OInv /\ [Next]_vars => OInv'
<1> SUFFICES ASSUME OInv, [Next]_vars PROVE OInv'
  OBVIOUS
<1>1. TInv' /\ PInv'
  BY TInvStep, PInvStep DEF OInv
<1>2. CASE UNCHANGED vars
  <2>1. InDecode' /\ InExecute'
    BY <1>2 DEF vars, OInv, InDecode, InExecute, FetchedAt, FetchStatus, Instruction,
       SourceA, SourceB, TargetE, TargetM
  <2>2. Sound' = Sound /\ InOrder' = InOrder
    BY <1>2 DEF vars, Sound, InOrder, Written, do_mem_stage, m_stat, mem_read, mem_write, mem_addr, f_predPC
  <2>3. Operands' = Operands
    BY <1>2 DEF vars, Operands, ReachedRegs, Completed, WriteBack, set_reg_val, Written, do_mem_stage,
       m_stat, mem_read, mem_write, mem_addr
  <2> QED
    BY <1>1, <2>1, <2>2, <2>3 DEF OInv
<1>3. CASE sim_step_pipe(TRUE, TRUE)
  <2>1. CASE Written.status \in Faulty
    <3>1. ~Sound'
      BY <1>3, <2>1, CycleCases DEF Sound, Written, Faulty
    <3> QED
      BY <1>1, <1>3, <3>1, InDecodeStep, InExecuteStep DEF OInv
  <2>2. CASE Written.status \notin Faulty
    <3>1. Sound' => Written'.status \notin Faulty
      BY DEF Sound, Faulty
    <3> QED
      BY <1>1, <1>3, <2>2, <3>1, InDecodeStep, InExecuteStep, InOrderStep, OperandsStep DEF OInv
  <2> QED
    BY <2>1, <2>2
<1> QED
  BY <1>2, <1>3 DEF Next

LEMMA OInvAlways == Spec => []OInv
BY OInvInit, OInvStep, PTL DEF Spec

-----------------------------------------------------------------------------
(* The instruction set has its operators from an instance of Isa: they are *)
(* the processor's.                                                        *)
LEMMA SameWords ==
    /\ \A x : ISA!Wrap(x) = Wrap(x)
    /\ \A x : ISA!BitsOf(x) = BitsOf(x)
    /\ \A B : ISA!Unsigned(B) = Unsigned(B)
<1>1. \A x : ISA!Wrap(x) = Wrap(x)
  BY DEF ISA!Wrap, Wrap
<1>2. \A x : ISA!BitsOf(x) = BitsOf(x)
  BY DEF ISA!BitsOf, BitsOf
<1>3. \A B : ISA!Unsigned(B) = Unsigned(B)
  BY Zenon DEF ISA!Unsigned, Unsigned, ISA!MapThenSumSet, MapThenSumSet,
               ISA!MapThenFoldSet, MapThenFoldSet
<1> QED
  BY <1>1, <1>2, <1>3

LEMMA SameArithmetic ==
    /\ \A op, a, b : ISA!compute_alu(op, a, b) = compute_alu(op, a, b)
    /\ \A op, a, b : ISA!compute_cc(op, a, b) = compute_cc(op, a, b)
<1>1. \A op, a, b : ISA!compute_alu(op, a, b) = compute_alu(op, a, b)
  BY SameWords DEF ISA!compute_alu, compute_alu, ISA!WordWith, WordWith
<1>2. \A op, a, b : ISA!compute_cc(op, a, b) = compute_cc(op, a, b)
  <2> TAKE op, a, b
  <2>1. ISA!compute_alu(op, a, b) = compute_alu(op, a, b)
    BY <1>1
  <2> QED
    BY <2>1, Zenon DEF ISA!compute_cc, compute_cc
<1> QED
  BY <1>1, <1>2

LEMMA SameAccess ==
    /\ \A a : ISA!FetchError(a) = FetchError(a)
    /\ \A c, a : ISA!FetchAt(c, a) = FetchAt(c, a)
    /\ \A c, bcond : ISA!cond_holds(c, bcond) = cond_holds(c, bcond)
    /\ \A r, id : ISA!get_reg_val(r, id) = get_reg_val(r, id)
    /\ \A r, id, val : ISA!set_reg_val(r, id, val) = set_reg_val(r, id, val)
    /\ \A a : ISA!ValidAddr(a) = ValidAddr(a)
    /\ \A m, a, val : ISA!set_word_val(m, a, val) = set_word_val(m, a, val)
    /\ ISA!DEFAULT_CC = DEFAULT_CC
BY DEF ISA!FetchError, FetchError, ISA!FetchAt, FetchAt, ISA!Plain, Plain, ISA!cond_holds, cond_holds,
       ISA!get_reg_val, get_reg_val, ISA!set_reg_val, set_reg_val, ISA!ValidAddr, ValidAddr,
       ISA!set_word_val, set_word_val, ISA!DEFAULT_CC, DEFAULT_CC

LEMMA InitRefines == Init => ISA!Init
<1> SUFFICES ASSUME Init PROVE ISA!Init
  OBVIOUS
<1>1. /\ D.status = "BUB" /\ E.status = "BUB" /\ M.status = "BUB" /\ W.status = "BUB"
      /\ M.icode = "NOP" /\ M.deste = RNONE /\ M.destm = RNONE
      /\ W.icode = "NOP" /\ W.deste = RNONE /\ W.destm = RNONE
  BY DEF Init, bubble_if_id, bubble_id_ex, bubble_ex_mem, bubble_mem_wb
<1>2. /\ Written.status = "BUB" /\ Written.deste = RNONE /\ Written.destm = RNONE /\ ~mem_write
  BY <1>1 DEF Written, do_mem_stage, m_stat, mem_read, mem_write
<1>3. ReachedRegs = reg /\ ReachedMem = mem /\ ReachedStat = "AOK"
  BY <1>1, <1>2 DEF ReachedRegs, Completed, WriteBack, set_reg_val, ReachedMem, ReachedStat, Faulty
<1>4. ReachedPc = 0
  BY <1>1, <1>2 DEF Init, ReachedPc, Faulty, f_pc
<1> QED
  BY <1>3, <1>4, SameAccess DEF Init, ISA!Init

-----------------------------------------------------------------------------
(* A cycle after something has failed in memory finishes what is ahead of  *)
(* it: the program has not moved.                                          *)
LEMMA FailureStutters ==
    ASSUME OInv, sim_step_pipe(TRUE, TRUE), Written.status \in Faulty
    PROVE  UNCHANGED ISA!vars
<1>1. W.status \notin Faulty
  BY DEF sim_step_pipe, Stat, Faulty
<1>2. W' = Written /\ M' = bubble_ex_mem /\ reg' = WriteBack(reg, W) /\ code' = code /\ cc' = cc
  BY CycleCases DEF M_bubble, Written, sim_step_pipe, set_cc
<1>3. /\ M'.icode = "NOP" /\ M'.deste = RNONE /\ M'.destm = RNONE /\ M'.status = "BUB"
  BY <1>2 DEF bubble_ex_mem
<1>4. /\ Written'.status = "BUB" /\ Written'.deste = RNONE /\ Written'.destm = RNONE /\ ~mem_write'
  BY <1>3 DEF Written, do_mem_stage, m_stat, mem_read, mem_write
<1>5. ReachedRegs' = ReachedRegs
  <2>1. ReachedRegs' = Completed(Completed(reg', W'), Written')
    BY DEF ReachedRegs, Completed, WriteBack, set_reg_val
  <2>2. ReachedRegs' = Completed(reg', W')
    BY <1>4, <2>1 DEF Completed, WriteBack, set_reg_val
  <2>3. Completed(reg, W) = WriteBack(reg, W)
    BY <1>1, CompletedSound
  <2> QED
    BY <1>2, <2>2, <2>3 DEF ReachedRegs
<1>6. ReachedMem' = ReachedMem
  BY <1>4 DEF ReachedMem, sim_step_pipe
<1>7. ReachedStat' = ReachedStat
  BY <1>1, <1>2 DEF ReachedStat
<1>8. ReachedPc' = ReachedPc
  <2>1. W'.stage_pc = M.stage_pc
    BY <1>2 DEF Written, do_mem_stage
  <2> QED
    BY <1>1, <1>2, <2>1 DEF ReachedPc
<1> QED
  BY <1>2, <1>5, <1>6, <1>7, <1>8 DEF ISA!vars

(* Nor does it move when nothing is in execute: fetch and decode go on.    *)
LEMMA BubbleStutters ==
    ASSUME OInv, sim_step_pipe(TRUE, TRUE), Written.status \notin Faulty, E.status = "BUB"
    PROVE  UNCHANGED ISA!vars
<1>1. /\ M' = do_ex_stage /\ W' = Written /\ Sound /\ code' = code /\ mem' = ReachedMem
  BY FlowCases DEF sim_step_pipe, ReachedMem
<1>2. E.icode = "NOP" /\ E.deste = RNONE /\ E.destm = RNONE
  BY DEF OInv, PInv, Marked, InExecute
<1>3. M'.icode = "NOP" /\ M'.deste = RNONE /\ M'.destm = RNONE /\ M'.status = "BUB"
  BY <1>1, <1>2 DEF do_ex_stage, e_dstE
<1>4. /\ Written'.status = "BUB" /\ Written'.deste = RNONE /\ Written'.destm = RNONE /\ ~mem_write'
  BY <1>3 DEF Written, do_mem_stage, m_stat, mem_read, mem_write
<1>5. ReachedRegs' = ReachedRegs
  <2>1. ReachedRegs' = Completed(ReachedRegs, Written')
    BY RegsAfter
  <2> QED
    BY <1>4, <2>1 DEF Completed, WriteBack, set_reg_val
<1>6. ReachedMem' = ReachedMem
  BY <1>1, <1>4 DEF ReachedMem
<1>7. W'.status \notin Faulty /\ W.status \notin Faulty /\ Written'.status \notin Faulty
  BY <1>1, <1>4 DEF Sound, Faulty
<1>8. ReachedStat' = ReachedStat
  BY <1>7 DEF ReachedStat
<1>9. cc' = cc
  BY <1>2 DEF sim_step_pipe, set_cc
<1>10. ReachedPc' = ReachedPc
  <2>1. ~LoadUse /\ ~Mispredict /\ ~E_bubble /\ ~D_stall /\ (D_bubble <=> RetInside)
    BY <1>2 DEF LoadUse, Mispredict, E_bubble, D_stall, D_bubble
  <2>2. E'.status = D.status /\ E'.stage_pc = D.stage_pc
    BY <2>1, FlowCases DEF do_id_stage
  <2>3. ReachedPc = IF D.status # "BUB" THEN D.stage_pc
                    ELSE IF M.icode = "RET" THEN Written.valm ELSE f_pc
    BY <1>7 DEF ReachedPc
  <2>4. ReachedPc' = IF E'.status # "BUB" THEN E'.stage_pc
                     ELSE IF D'.status # "BUB" THEN D'.stage_pc
                     ELSE IF M'.icode = "RET" THEN Written'.valm ELSE f_pc'
    BY <1>7 DEF ReachedPc
  <2>5. CASE D.status # "BUB"
    BY <2>2, <2>3, <2>4, <2>5
  <2>6. CASE D.status = "BUB" /\ M.icode = "RET"
    <3>1. D' = bubble_if_id /\ D'.status = "BUB"
      BY <2>1, <2>6, FlowCases DEF RetInside, bubble_if_id
    <3>2. f_pc' = W'.valm /\ W'.valm = Written.valm
      BY <1>1, <1>3, <2>6 DEF f_pc, Written, do_mem_stage
    <3> QED
      BY <1>3, <2>2, <2>3, <2>4, <2>6, <3>1, <3>2
  <2>7. CASE D.status = "BUB" /\ M.icode # "RET"
    <3>1. D.icode = "NOP"
      BY <2>7 DEF OInv, PInv, Marked
    <3>2. D' = do_if_stage
      BY <1>2, <2>1, <2>7, <3>1, FlowCases DEF RetInside
    <3>3. D'.status # "BUB" /\ D'.stage_pc = f_pc
      BY <3>2, StagesMark DEF do_if_stage
    <3> QED
      BY <2>2, <2>3, <2>4, <2>7, <3>3
  <2> QED
    BY <2>5, <2>6, <2>7
<1> QED
  BY <1>1, <1>5, <1>6, <1>8, <1>9, <1>10 DEF ISA!vars

-----------------------------------------------------------------------------
(* The instruction that leaves execute, and what memory will make of it.   *)
Current == Instruction(E.stage_pc)
NextPc  == Wrap(E.stage_pc + 1)
VE      == do_ex_stage.vale
Addr    == IF E.icode \in {"RMMOVQ", "PUSHQ", "CALL", "MRMOVQ"} THEN VE
           ELSE IF E.icode \in {"POPQ", "RET"} THEN E.vala ELSE 0
Reads   == E.icode \in {"MRMOVQ", "POPQ", "RET"}
Writes  == E.icode \in {"RMMOVQ", "PUSHQ", "CALL"}
VM      == IF Reads THEN get_word_val(ReachedMem, Addr) ELSE 0
Result  == IF (Reads \/ Writes) /\ ~ValidAddr(Addr) THEN "ADR" ELSE E.status
Follows == IF E.icode = "RET" THEN VM
           ELSE IF E.icode = "CALL" \/ (E.icode = "JMP" /\ e_Cnd) THEN E.valc ELSE NextPc

LEMMA WrittenAfter ==
    ASSUME OInv, sim_step_pipe(TRUE, TRUE), Written.status \notin Faulty
    PROVE  /\ Written'.icode = E.icode /\ Written'.status = Result /\ Written'.stage_pc = E.stage_pc
           /\ Written'.deste = e_dstE /\ Written'.vale = VE
           /\ Written'.destm = E.destm /\ Written'.valm = VM
           /\ ReachedMem' = IF Writes THEN set_word_val(ReachedMem, Addr, E.vala) ELSE ReachedMem
<1>1. /\ M'.icode = E.icode /\ M'.status = E.status /\ M'.stage_pc = E.stage_pc
      /\ M'.deste = e_dstE /\ M'.vale = VE /\ M'.destm = E.destm /\ M'.vala = E.vala
  BY FlowCases DEF do_ex_stage, VE
<1>2. mem' = ReachedMem
  BY DEF sim_step_pipe, ReachedMem
<1>3. mem_addr' = Addr /\ (mem_read' <=> Reads) /\ (mem_write' <=> Writes)
  BY <1>1 DEF mem_addr, mem_read, mem_write, Addr, Reads, Writes
<1>4. m_stat' = Result
  BY <1>1, <1>3 DEF m_stat, Result, ValidAddr
<1>5. do_mem_stage'.valm = VM
  BY <1>2, <1>3 DEF do_mem_stage, VM, get_word_val, ValidAddr
<1>6. ReachedMem' = IF Writes THEN set_word_val(ReachedMem, Addr, E.vala) ELSE ReachedMem
  <2>1. ReachedMem' = IF mem_write' THEN set_word_val(mem', mem_addr', M'.vala) ELSE mem'
    BY DEF ReachedMem, set_word_val, ValidAddr
  <2> QED
    BY <1>1, <1>2, <1>3, <2>1
<1> QED
  BY <1>1, <1>4, <1>5, <1>6 DEF Written, do_mem_stage

(* The instruction that is executed next is the one that follows.          *)
LEMMA PcAfter ==
    ASSUME OInv, sim_step_pipe(TRUE, TRUE), Written.status \notin Faulty, E.status # "BUB"
    PROVE  /\ ReachedPc = E.stage_pc
           /\ ReachedPc' = IF Result \in Faulty THEN E.stage_pc ELSE Follows
<1>1. /\ Sound /\ InOrder /\ Operands /\ W' = Written /\ M' = do_ex_stage
      /\ W.status \notin Faulty /\ W'.status \notin Faulty
  BY FlowCases DEF OInv, Sound
<1>2. ReachedPc = E.stage_pc
  BY <1>1 DEF ReachedPc
<1>3. /\ M'.icode = E.icode /\ M'.stage_pc = E.stage_pc /\ M'.vala = E.vala
      /\ (M'.takebranch <=> e_Cnd)
      /\ Written'.status = Result /\ Written'.valm = VM
  BY <1>1, WrittenAfter DEF do_ex_stage, e_Cnd
<1>4. ReachedPc' = IF Result \in Faulty THEN E.stage_pc
                   ELSE IF E'.status # "BUB" THEN E'.stage_pc
                   ELSE IF D'.status # "BUB" THEN D'.stage_pc
                   ELSE IF E.icode = "RET" THEN VM ELSE f_pc'
  BY <1>1, <1>3 DEF ReachedPc, Faulty
<1>5. CASE Mispredict
  <2>1. /\ E'.status = "BUB" /\ D'.status = "BUB"
    BY <1>5, FlowCases DEF D_bubble, E_bubble, bubble_if_id, bubble_id_ex
  <2>2. f_pc' = E.vala /\ E.vala = NextPc /\ E.icode = "JMP" /\ ~e_Cnd
    BY <1>1, <1>3, <1>5 DEF f_pc, Mispredict, Operands, NextPc
  <2> QED
    BY <1>2, <1>4, <2>1, <2>2 DEF Follows
<1>6. CASE E.icode = "RET"
  <2>1. D.status = "BUB"
    BY <1>1, <1>6 DEF InOrder
  <2>2. ~LoadUse /\ ~Mispredict /\ RetInside
    BY <1>6 DEF LoadUse, Mispredict, RetInside
  <2>3. E'.status = "BUB" /\ D'.status = "BUB"
    BY <2>1, <2>2, FlowCases DEF D_bubble, E_bubble, do_id_stage, bubble_if_id
  <2> QED
    BY <1>2, <1>4, <1>6, <2>3 DEF Follows
<1>7. CASE ~Mispredict /\ E.icode # "RET"
  <2>1. D.status # "BUB" /\ D.stage_pc = Follows
    BY <1>1, <1>7 DEF InOrder, Follows, Mispredict, NextPc
  <2>2. CASE LoadUse
    <3>1. E'.status = "BUB" /\ D' = D
      BY <2>2, FlowCases DEF E_bubble, D_stall, bubble_id_ex
    <3> QED
      BY <1>2, <1>4, <2>1, <3>1
  <2>3. CASE ~LoadUse
    <3>1. E'.status # "BUB" /\ E'.stage_pc = D.stage_pc
      BY <1>7, <2>1, <2>3, FlowCases DEF E_bubble, do_id_stage
    <3> QED
      BY <1>2, <1>4, <2>1, <3>1
  <2> QED
    BY <2>2, <2>3
<1> QED
  BY <1>5, <1>6, <1>7

LEMMA AfterExecute ==
    ASSUME OInv, sim_step_pipe(TRUE, TRUE), Written.status \notin Faulty, E.status # "BUB"
    PROVE  /\ code' = code
           /\ ReachedStat = "AOK" /\ ReachedStat' = IF Result \in Faulty THEN Result ELSE "AOK"
           /\ ReachedRegs' =
                 CASE Result = "ADR" /\ E.icode = "RET" -> ReachedRegs
                   [] Result = "ADR" /\ E.icode # "RET" -> set_reg_val(ReachedRegs, e_dstE, VE)
                   [] OTHER -> set_reg_val(set_reg_val(ReachedRegs, e_dstE, VE), E.destm, VM)
           /\ cc' = IF E.icode \in {"ALU", "IADDQ"} THEN compute_cc(alufun, aluA, aluB) ELSE cc
<1>1. Sound /\ W' = Written
  BY FlowCases
<1>2. code' = code
  BY DEF sim_step_pipe
<1>3. ReachedStat = "AOK" /\ ReachedStat' = IF Result \in Faulty THEN Result ELSE "AOK"
  BY <1>1, WrittenAfter DEF ReachedStat, Sound, Faulty
<1>4. ReachedRegs' = Completed(ReachedRegs, Written')
  BY RegsAfter
<1>5. cc' = IF E.icode \in {"ALU", "IADDQ"} THEN compute_cc(alufun, aluA, aluB) ELSE cc
  BY <1>1 DEF sim_step_pipe, set_cc, Sound, Written
<1> QED
  BY <1>2, <1>3, <1>4, <1>5, WrittenAfter DEF Completed, WriteBack

(* What execute has got, by kind of instruction.                           *)
LEMMA ExecutedValues ==
    ASSUME OInv, Sound, SourcesNamed, E.status # "BUB"
    PROVE  /\ E.icode = Current.icode /\ E.ifun = Current.ifun /\ E.valc = Current.valC
           /\ E.deste = TargetE(Current) /\ E.destm = TargetM(Current)
           /\ E.status = FetchStatus(E.stage_pc)
           /\ Current \in Instr /\ ReachedRegs \in [Regs -> word_t]
           /\ E.valc \in word_t /\ E.vala \in word_t /\ E.valb \in word_t
           /\ Current.icode \in {"RRMOVQ", "RMMOVQ", "ALU", "PUSHQ"} =>
                 E.vala = get_reg_val(ReachedRegs, Current.rA)
           /\ Current.icode \in {"POPQ", "RET"} => E.vala = ReachedRegs[RRSP]
           /\ Current.icode \in {"CALL", "JMP"} => E.vala = NextPc
           /\ Current.icode \in {"ALU", "IADDQ", "RMMOVQ", "MRMOVQ"} =>
                 E.valb = get_reg_val(ReachedRegs, Current.rB)
           /\ Current.icode \in {"PUSHQ", "POPQ", "CALL", "RET"} => E.valb = ReachedRegs[RRSP]
<1>1. /\ E.icode = Current.icode /\ E.ifun = Current.ifun /\ E.valc = Current.valC
      /\ E.srca = SourceA(Current) /\ E.srcb = SourceB(Current)
      /\ E.deste = TargetE(Current) /\ E.destm = TargetM(Current)
      /\ E.status = FetchStatus(E.stage_pc)
  BY DEF OInv, InExecute, Current
<1>2. E.valc \in word_t /\ E.vala \in word_t /\ E.valb \in word_t
  BY DEF OInv, TInv, TypeOK, id_ex_ele
<1>3. Current \in Instr /\ ReachedRegs \in [Regs -> word_t]
  BY ReachedRegsType, InstructionType DEF OInv, TInv, Current
<1>4. NamesSources(Current)
  <2>1. NamesSources(Plain("NOP")) /\ NamesSources(Plain("HALT"))
    BY DEF NamesSources, Plain
  <2>2. \A p : NamesSources(FetchAt(code, p))
    BY <2>1 DEF SourcesNamed, FetchAt, OInv, TInv
  <2> QED
    BY <2>1, <2>2 DEF Current, Instruction
<1>5. \A id \in Regs : get_reg_val(ReachedRegs, id) = ReachedRegs[id]
  BY RegsAssumption DEF get_reg_val
<1>6. /\ E.srca \in Regs => E.vala = ReachedRegs[E.srca]
      /\ E.srcb \in Regs => E.valb = ReachedRegs[E.srcb]
      /\ E.icode \in {"CALL", "JMP"} => E.vala = NextPc
  BY DEF OInv, Operands, NextPc
<1>7. /\ Current.icode \in {"RRMOVQ", "RMMOVQ", "ALU", "PUSHQ"} =>
            SourceA(Current) = Current.rA /\ Current.rA \in Regs
      /\ Current.icode \in {"POPQ", "RET"} => SourceA(Current) = RRSP
      /\ Current.icode \in {"ALU", "IADDQ", "RMMOVQ", "MRMOVQ"} =>
            SourceB(Current) = Current.rB /\ Current.rB \in Regs
      /\ Current.icode \in {"PUSHQ", "POPQ", "CALL", "RET"} => SourceB(Current) = RRSP
  <2> HIDE DEF Current
  <2> QED
    BY <1>4 DEF NamesSources, SourceA, SourceB
<1> QED
  BY <1>1, <1>2, <1>3, <1>5, <1>6, <1>7, RegsAssumption

LEMMA WordSums == \A x \in word_t : x + 1 \in Int /\ x - 1 = -1 + x /\ x + 1 = 1 + x /\ x + 0 = x
BY HalfNat DEF word_t

(* The hypotheses of the lemmas that follow: a cycle in which the          *)
(* instruction in execute goes on to memory.                               *)
Executes ==
    /\ OInv /\ SourcesNamed
    /\ sim_step_pipe(TRUE, TRUE)
    /\ Written.status \notin Faulty /\ E.status # "BUB"

LEMMA IsaView ==
    ASSUME Executes
    PROVE  /\ ReachedPc = E.stage_pc
           /\ ISA!instr = FetchAt(code, E.stage_pc) /\ ISA!ftpc = NextPc
           /\ ~FetchError(E.stage_pc) =>
                 /\ ISA!instr = Current
                 /\ \A icodes : Current.icode \in icodes => ISA!Fetched(icodes)
<1>1. ReachedPc = E.stage_pc /\ ReachedStat = "AOK" /\ code' = code
  BY PcAfter, AfterExecute DEF Executes
<1>2. ISA!instr = FetchAt(code, E.stage_pc) /\ ISA!ftpc = NextPc
  BY <1>1, SameAccess, SameWords DEF ISA!instr, ISA!ftpc, NextPc
<1>3. ~FetchError(E.stage_pc) => ISA!instr = Current
  BY <1>2 DEF Current, Instruction
<1>4. ISA!FetchError(ReachedPc) <=> FetchError(E.stage_pc)
  BY <1>1, SameAccess
<1> QED
  BY <1>1, <1>2, <1>3, <1>4 DEF ISA!Fetched

LEMMA FetchErrorRefines ==
    ASSUME Executes, FetchError(E.stage_pc)
    PROVE  ISA!Next
<1>1. Current = Plain("NOP") /\ E.icode = "NOP" /\ E.status = "ADR" /\ E.deste = RNONE /\ E.destm = RNONE
  <2>1. Current = Plain("NOP") /\ Plain("NOP").icode = "NOP"
    BY DEF Current, Instruction, Plain
  <2>2. TargetE(Plain("NOP")) = RNONE /\ TargetM(Plain("NOP")) = RNONE
    BY <2>1 DEF TargetE, TargetM
  <2> QED
    BY <2>1, <2>2, ExecutedValues, FlowCases DEF Executes, FetchStatus
<1>2. Result = "ADR" /\ e_dstE = RNONE /\ ~Writes
  BY <1>1 DEF Result, Reads, Writes, e_dstE
<1>3. /\ ReachedPc' = ReachedPc /\ ReachedRegs' = ReachedRegs
      /\ ReachedMem' = ReachedMem /\ ReachedStat' = "ADR" /\ cc' = cc /\ code' = code
      /\ ReachedStat = "AOK"
  BY <1>1, <1>2, PcAfter, AfterExecute, WrittenAfter DEF Executes, Faulty, set_reg_val
<1>4. ISA!FetchError(ReachedPc)
  BY IsaView, SameAccess
<1>5. ISA!BadAddress
  BY <1>3, <1>4 DEF ISA!BadAddress, ISA!Except
<1> QED
  BY <1>5 DEF ISA!Next

(* The instructions that leave registers, memory and flags alone.          *)
LEMMA NoEffectRefines ==
    ASSUME Executes, ~FetchError(E.stage_pc), Current.icode \in {"HALT", "BAD", "NOP", "JMP"}
    PROVE  ISA!Next
<1>1. E.icode = Current.icode /\ E.deste = RNONE /\ E.destm = RNONE
  BY ExecutedValues, FlowCases DEF Executes, TargetE, TargetM
<1>2. Result = E.status /\ e_dstE = RNONE /\ ~Writes
  BY <1>1 DEF Result, Reads, Writes, e_dstE
<1>3. E.status = IF Current.icode = "BAD" THEN "INS" ELSE IF Current.icode = "HALT" THEN "HLT" ELSE "AOK"
  BY ExecutedValues, FlowCases DEF Executes, FetchStatus, Current
<1>4. /\ ReachedRegs' = ReachedRegs /\ ReachedMem' = ReachedMem /\ cc' = cc /\ code' = code
      /\ ReachedStat' = E.status
  BY <1>1, <1>2, <1>3, AfterExecute, WrittenAfter DEF Executes, Faulty, set_reg_val
<1>5. ReachedPc' = IF E.status # "AOK" THEN ReachedPc
                   ELSE IF Current.icode = "JMP" /\ e_Cnd THEN Current.valC ELSE NextPc
  BY <1>1, <1>2, <1>3, PcAfter, ExecutedValues, FlowCases DEF Executes, Faulty, Follows
<1>6. CASE Current.icode = "HALT"
  <2>1. ISA!Halt
    BY <1>3, <1>4, <1>5, <1>6, IsaView DEF ISA!Halt, ISA!Except
  <2> QED
    BY <2>1 DEF ISA!Next
<1>7. CASE Current.icode = "BAD"
  <2>1. ISA!Invalid
    BY <1>3, <1>4, <1>5, <1>7, IsaView DEF ISA!Invalid, ISA!Except
  <2> QED
    BY <2>1 DEF ISA!Next
<1>8. CASE Current.icode = "NOP"
  <2>1. ISA!Nop
    BY <1>3, <1>4, <1>5, <1>8, IsaView DEF ISA!Nop, ISA!Continue
  <2> QED
    BY <2>1 DEF ISA!Next
<1>9. CASE Current.icode = "JMP"
  <2>1. e_Cnd = ISA!cond_holds(cc, ISA!instr.ifun)
    BY IsaView, SameAccess, ExecutedValues, FlowCases DEF e_Cnd, Executes
  <2>2. ISA!Jump
    BY <1>3, <1>4, <1>5, <1>9, <2>1, IsaView DEF ISA!Jump, ISA!Continue
  <2> QED
    BY <2>2 DEF ISA!Next
<1> QED
  BY <1>6, <1>7, <1>8, <1>9

(* Moves between registers, and arithmetic.                                *)
LEMMA RegisterRefines ==
    ASSUME Executes, ~FetchError(E.stage_pc),
           Current.icode \in {"RRMOVQ", "IRMOVQ", "ALU", "IADDQ"}
    PROVE  ISA!Next
<1>1. /\ E.icode = Current.icode /\ E.deste = Current.rB /\ E.destm = RNONE
      /\ E.ifun = Current.ifun /\ E.valc = Current.valC
  BY ExecutedValues, FlowCases DEF Executes, TargetE, TargetM
<1>2. Result = "AOK" /\ ~Writes
  BY <1>1, ExecutedValues, FlowCases DEF Executes, Result, Reads, Writes, FetchStatus, Current
<1>3. /\ ReachedMem' = ReachedMem /\ code' = code /\ ReachedStat' = "AOK"
      /\ ReachedPc' = NextPc
      /\ ReachedRegs' = set_reg_val(ReachedRegs, e_dstE, VE)
  BY <1>1, <1>2, AfterExecute, WrittenAfter, PcAfter DEF Executes, Faulty, set_reg_val, Follows
<1>4. VE = compute_alu(alufun, aluA, aluB)
  BY DEF VE, do_ex_stage
<1>5. CASE Current.icode = "RRMOVQ"
  <2>1. VE = get_reg_val(ReachedRegs, Current.rA)
    <3>1. E.vala = get_reg_val(ReachedRegs, Current.rA) /\ E.vala \in word_t
      BY <1>5, ExecutedValues, FlowCases DEF Executes
    <3>2. VE = Wrap(E.vala + 0)
      BY <1>1, <1>4, <1>5 DEF alufun, aluA, aluB, compute_alu
    <3>3. E.vala + 0 = E.vala
      BY <3>1, WordSums
    <3> QED
      BY <3>1, <3>2, <3>3, WrapId
  <2>2. e_Cnd = ISA!cond_holds(cc, ISA!instr.ifun)
    BY <1>1, IsaView, SameAccess DEF e_Cnd
  <2>3. ReachedRegs' = IF e_Cnd THEN set_reg_val(ReachedRegs, Current.rB, VE) ELSE ReachedRegs
    BY <1>1, <1>3, <1>5 DEF e_dstE, set_reg_val
  <2>4. cc' = cc
    BY <1>1, <1>5, AfterExecute DEF Executes
  <2>5. ISA!Rrmovq
    BY <1>3, <1>5, <2>1, <2>2, <2>3, <2>4, IsaView, SameAccess DEF ISA!Rrmovq, ISA!Continue
  <2> QED
    BY <2>5 DEF ISA!Next
<1>6. CASE Current.icode = "IRMOVQ"
  <2>1. VE = Current.valC
    <3>1. VE = Wrap(Current.valC + 0)
      BY <1>1, <1>4, <1>6 DEF alufun, aluA, aluB, compute_alu
    <3>2. Current.valC \in word_t
      BY <1>1, ExecutedValues, FlowCases DEF Executes
    <3>3. Current.valC + 0 = Current.valC
      BY <3>2, WordSums
    <3> QED
      BY <3>1, <3>2, <3>3, WrapId
  <2>2. e_dstE = Current.rB /\ cc' = cc
    BY <1>1, <1>6, AfterExecute DEF Executes, e_dstE
  <2>3. ISA!Irmovq
    BY <1>3, <1>6, <2>1, <2>2, IsaView, SameAccess DEF ISA!Irmovq, ISA!Continue
  <2> QED
    BY <2>3 DEF ISA!Next
<1>7. CASE Current.icode \in {"ALU", "IADDQ"}
  <2> DEFINE op   == IF Current.icode = "ALU" THEN Current.ifun ELSE "ADD"
             argA == IF Current.icode = "ALU" THEN get_reg_val(ReachedRegs, Current.rA) ELSE Current.valC
             argB == get_reg_val(ReachedRegs, Current.rB)
  <2>1. alufun = op /\ aluA = argA /\ aluB = argB
    <3>1. /\ E.valb = get_reg_val(ReachedRegs, Current.rB)
          /\ Current.icode = "ALU" => E.vala = get_reg_val(ReachedRegs, Current.rA)
      BY <1>7, ExecutedValues, FlowCases DEF Executes
    <3> QED
      BY <1>1, <1>7, <3>1 DEF alufun, aluA, aluB
  <2>2. e_dstE = Current.rB
    BY <1>1, <1>7 DEF e_dstE
  <2>3. cc' = compute_cc(op, argA, argB)
    BY <1>1, <1>7, <2>1, AfterExecute DEF Executes
  <2>4. ReachedRegs' = set_reg_val(ReachedRegs, Current.rB, compute_alu(op, argA, argB))
    BY <1>3, <1>4, <2>1, <2>2
  <2>5. ISA!Alu
    BY <1>3, <1>7, <2>3, <2>4, IsaView, SameAccess, SameArithmetic DEF ISA!Alu, ISA!Continue
  <2> QED
    BY <2>5 DEF ISA!Next
<1> QED
  BY <1>5, <1>6, <1>7

(* Memory references: an address that is not in memory stops both before   *)
(* any register is written.                                                *)
LEMMA MemoryRefines ==
    ASSUME Executes, ~FetchError(E.stage_pc), Current.icode \in {"RMMOVQ", "MRMOVQ"}
    PROVE  ISA!Next
<1>1. /\ E.icode = Current.icode /\ E.deste = RNONE /\ E.destm = TargetM(Current)
      /\ E.valc = Current.valC /\ e_dstE = RNONE
  BY ExecutedValues, FlowCases DEF Executes, TargetE, e_dstE
<1>2. Result = IF ValidAddr(Addr) THEN "AOK" ELSE "ADR"
  BY <1>1, ExecutedValues, FlowCases DEF Executes, Result, Reads, Writes, FetchStatus, Current
<1>3. /\ code' = code /\ cc' = cc /\ ReachedStat' = IF ValidAddr(Addr) THEN "AOK" ELSE "ADR"
      /\ ReachedPc' = IF ValidAddr(Addr) THEN NextPc ELSE ReachedPc
      /\ ReachedRegs' = IF ValidAddr(Addr) THEN set_reg_val(ReachedRegs, E.destm, VM) ELSE ReachedRegs
  BY <1>1, <1>2, AfterExecute, PcAfter DEF Executes, Faulty, set_reg_val, Follows
<1>4. Addr = ISA!Address
  <2>1. E.valb = get_reg_val(ReachedRegs, Current.rB)
    BY ExecutedValues, FlowCases DEF Executes
  <2>2. Addr = Wrap(Current.valC + get_reg_val(ReachedRegs, Current.rB))
    BY <1>1, <2>1 DEF Addr, VE, do_ex_stage, alufun, aluA, aluB, compute_alu
  <2> QED
    BY <2>2, IsaView, SameAccess, SameWords DEF ISA!Address
<1>5. CASE Current.icode = "RMMOVQ"
  <2>1. E.vala = get_reg_val(ReachedRegs, Current.rA)
    BY <1>5, ExecutedValues, FlowCases DEF Executes
  <2>2. ReachedMem' = set_word_val(ReachedMem, Addr, E.vala)
    BY <1>1, <1>5, WrittenAfter DEF Executes, Writes
  <2>3. ReachedRegs' = ReachedRegs
    BY <1>1, <1>3, <1>5 DEF TargetM, set_reg_val
  <2>4. ISA!Rmmovq
    BY <1>3, <1>4, <1>5, <2>1, <2>2, <2>3, IsaView, SameAccess
       DEF ISA!Rmmovq, ISA!Continue, ISA!Except
  <2> QED
    BY <2>4 DEF ISA!Next
<1>6. CASE Current.icode = "MRMOVQ"
  <2>1. ReachedMem' = ReachedMem
    BY <1>1, <1>6, WrittenAfter DEF Executes, Writes
  <2>2. E.destm = Current.rA /\ (ValidAddr(Addr) => VM = ReachedMem[Addr])
    BY <1>1, <1>6 DEF TargetM, VM, Reads, get_word_val
  <2>3. ISA!Mrmovq
    BY <1>3, <1>4, <1>6, <2>1, <2>2, IsaView, SameAccess
       DEF ISA!Mrmovq, ISA!Continue, ISA!Except
  <2> QED
    BY <2>3 DEF ISA!Next
<1> QED
  BY <1>5, <1>6

(* The stack: %rsp moves whether the store of call and pushq succeeds or   *)
(* not, and so it does when popq fails; ret that fails leaves it.          *)
LEMMA StackRefines ==
    ASSUME Executes, ~FetchError(E.stage_pc), Current.icode \in {"CALL", "PUSHQ", "RET", "POPQ"}
    PROVE  ISA!Next
<1>1. /\ E.icode = Current.icode /\ e_dstE = RRSP /\ E.destm = TargetM(Current)
      /\ E.valc = Current.valC /\ E.valb = ReachedRegs[RRSP] /\ E.valb \in word_t
  BY ExecutedValues, FlowCases DEF Executes, TargetE, e_dstE
<1>2. Result = IF ValidAddr(Addr) THEN "AOK" ELSE "ADR"
  BY <1>1, ExecutedValues, FlowCases DEF Executes, Result, Reads, Writes, FetchStatus, Current
<1>3. /\ code' = code /\ cc' = cc /\ ReachedStat' = IF ValidAddr(Addr) THEN "AOK" ELSE "ADR"
      /\ ReachedPc' = IF ValidAddr(Addr) THEN Follows ELSE ReachedPc
  BY <1>1, <1>2, AfterExecute, PcAfter DEF Executes, Faulty
<1>4. ReachedRegs' =
         CASE ~ValidAddr(Addr) /\ E.icode = "RET" -> ReachedRegs
           [] ~ValidAddr(Addr) /\ E.icode # "RET" -> set_reg_val(ReachedRegs, RRSP, VE)
           [] OTHER -> set_reg_val(set_reg_val(ReachedRegs, RRSP, VE), E.destm, VM)
  BY <1>1, <1>2, AfterExecute DEF Executes
<1>5. VE = compute_alu("ADD", aluA, ReachedRegs[RRSP])
  BY <1>1 DEF VE, do_ex_stage, alufun, aluB
<1>6. CASE Current.icode \in {"CALL", "PUSHQ"}
  <2>1. VE = Wrap(ReachedRegs[RRSP] - 1)
    <3>1. VE = Wrap(-1 + ReachedRegs[RRSP])
      BY <1>1, <1>5, <1>6 DEF aluA, compute_alu
    <3>2. -1 + ReachedRegs[RRSP] = ReachedRegs[RRSP] - 1
      BY <1>1, WordSums
    <3> QED
      BY <3>1, <3>2
  <2>2. Addr = VE /\ E.destm = RNONE
    BY <1>1, <1>6 DEF Addr, TargetM
  <2>3. ReachedRegs' = set_reg_val(ReachedRegs, RRSP, VE)
    BY <1>1, <1>4, <1>6, <2>2 DEF set_reg_val
  <2>4. ReachedMem' = set_word_val(ReachedMem, VE, E.vala)
    BY <1>1, <1>6, <2>2, WrittenAfter DEF Executes, Writes
  <2>5. CASE Current.icode = "CALL"
    <3>1. E.vala = NextPc
      BY <2>5, ExecutedValues, FlowCases DEF Executes
    <3>2. ReachedPc' = IF ValidAddr(VE) THEN Current.valC ELSE ReachedPc
      BY <1>1, <1>3, <2>2, <2>5 DEF Follows
    <3>3. ISA!Call
      BY <1>3, <2>1, <2>2, <2>3, <2>4, <2>5, <3>1, <3>2, IsaView, SameAccess, SameWords
         DEF ISA!Call, ISA!PushTo, ISA!Continue, ISA!Except
    <3> QED
      BY <3>3 DEF ISA!Next
  <2>6. CASE Current.icode = "PUSHQ"
    <3>1. E.vala = get_reg_val(ReachedRegs, Current.rA)
      BY <2>6, ExecutedValues, FlowCases DEF Executes
    <3>2. ReachedPc' = IF ValidAddr(VE) THEN NextPc ELSE ReachedPc
      BY <1>1, <1>3, <2>2, <2>6 DEF Follows
    <3>3. ISA!Pushq
      BY <1>3, <2>1, <2>2, <2>3, <2>4, <2>6, <3>1, <3>2, IsaView, SameAccess, SameWords
         DEF ISA!Pushq, ISA!PushTo, ISA!Continue, ISA!Except
    <3> QED
      BY <3>3 DEF ISA!Next
  <2> QED
    BY <1>6, <2>5, <2>6
<1>7. CASE Current.icode \in {"RET", "POPQ"}
  <2>1. VE = Wrap(ReachedRegs[RRSP] + 1)
    <3>1. VE = Wrap(1 + ReachedRegs[RRSP])
      BY <1>1, <1>5, <1>7 DEF aluA, compute_alu
    <3>2. 1 + ReachedRegs[RRSP] = ReachedRegs[RRSP] + 1
      BY <1>1, WordSums
    <3> QED
      BY <3>1, <3>2
  <2>2. Addr = ReachedRegs[RRSP]
    <3>1. E.vala = ReachedRegs[RRSP]
      BY <1>7, ExecutedValues, FlowCases DEF Executes
    <3> QED
      BY <1>1, <1>7, <3>1 DEF Addr
  <2>3. ReachedMem' = ReachedMem /\ (ValidAddr(Addr) => VM = ReachedMem[Addr])
    BY <1>1, <1>7, WrittenAfter DEF Executes, Writes, VM, Reads, get_word_val
  <2>4. CASE Current.icode = "RET"
    <3>1. E.destm = RNONE
      BY <1>1, <2>4 DEF TargetM
    <3>2. ReachedRegs' = IF ValidAddr(Addr) THEN set_reg_val(ReachedRegs, RRSP, VE) ELSE ReachedRegs
      BY <1>1, <1>4, <2>4, <3>1 DEF set_reg_val
    <3>3. ReachedPc' = IF ValidAddr(Addr) THEN VM ELSE ReachedPc
      BY <1>1, <1>3, <2>4 DEF Follows
    <3>4. ISA!Ret
      BY <1>3, <2>1, <2>2, <2>3, <2>4, <3>2, <3>3, IsaView, SameAccess, SameWords
         DEF ISA!Ret, ISA!Continue, ISA!Except
    <3> QED
      BY <3>4 DEF ISA!Next
  <2>5. CASE Current.icode = "POPQ"
    <3>1. E.destm = Current.rA
      BY <1>1, <2>5 DEF TargetM
    <3>2. ReachedRegs' = IF ValidAddr(Addr)
                         THEN set_reg_val(set_reg_val(ReachedRegs, RRSP, VE), Current.rA, VM)
                         ELSE set_reg_val(ReachedRegs, RRSP, VE)
      BY <1>1, <1>4, <2>5, <3>1
    <3>3. ReachedPc' = IF ValidAddr(Addr) THEN NextPc ELSE ReachedPc
      BY <1>1, <1>3, <2>5 DEF Follows
    <3>4. ISA!Popq
      BY <1>3, <2>1, <2>2, <2>3, <2>5, <3>2, <3>3, IsaView, SameAccess, SameWords
         DEF ISA!Popq, ISA!Continue, ISA!Except
    <3> QED
      BY <3>4 DEF ISA!Next
  <2> QED
    BY <1>7, <2>4, <2>5
<1> QED
  BY <1>6, <1>7

LEMMA ExecutesRefines ==
    ASSUME Executes
    PROVE  ISA!Next
<1>1. Current.icode \in itype_t
  BY ExecutedValues, FlowCases DEF Executes, Instr
<1> QED
  BY <1>1, FetchErrorRefines, NoEffectRefines, RegisterRefines, MemoryRefines, StackRefines
     DEF itype_t

LEMMA StepRefines ==
    ASSUME SourcesNamed
    PROVE  OInv /\ [Next]_vars => [ISA!Next]_(ISA!vars)
<1> SUFFICES ASSUME OInv, [Next]_vars PROVE [ISA!Next]_(ISA!vars)
  OBVIOUS
<1>1. CASE UNCHANGED vars
  BY <1>1 DEF vars, ISA!vars, ReachedPc, ReachedRegs, ReachedMem, ReachedStat, Completed, WriteBack,
     set_reg_val, Written, do_mem_stage, m_stat, mem_read, mem_write, mem_addr, f_pc
<1>2. CASE sim_step_pipe(TRUE, TRUE)
  <2>1. CASE Written.status \in Faulty
    BY <1>2, <2>1, FailureStutters
  <2>2. CASE Written.status \notin Faulty /\ E.status = "BUB"
    BY <1>2, <2>2, BubbleStutters
  <2>3. CASE Written.status \notin Faulty /\ E.status # "BUB"
    <3>1. Executes
      BY <1>2, <2>3 DEF Executes
    <3> QED
      BY <3>1, ExecutesRefines
  <2> QED
    BY <2>1, <2>2, <2>3
<1> QED
  BY <1>1, <1>2 DEF Next

(* The pipelined processor goes through the states of step_state, for      *)
(* every program that names a register wherever it reads one, every word   *)
(* size, data memory and set of registers: what is forwarded is what the   *)
(* registers will hold, and of a cancelled or failed instruction nothing   *)
(* remains.                                                                *)
THEOREM Implements == SourcesNamed => (Spec => ImplementsISA)
<1> SUFFICES ASSUME SourcesNamed PROVE Spec => ImplementsISA
  OBVIOUS
<1>1. Init => ISA!Init
  BY InitRefines
<1>2. OInv /\ [Next]_vars => [ISA!Next]_(ISA!vars)
  BY StepRefines
<1> QED
  BY <1>1, <1>2, OInvAlways, PTL DEF Spec, ImplementsISA, ISA!Spec
-----------------------------------------------------------------------------
(* The check of psim with -t against step_state.                           *)

(* Where the processor has come to.                                        *)
Here == State(ReachedPc, ReachedRegs, ReachedMem, cc, ReachedStat)

(* It is a state of the instruction set.                                   *)
LEMMA HereType == OInv => Here \in Cpu
<1> SUFFICES ASSUME OInv PROVE Here \in Cpu
  OBVIOUS
<1>1. TypeOK
  BY DEF OInv, TInv
<1>2. Written \in mem_wb_ele /\ W \in mem_wb_ele
  BY <1>1, MemStageType DEF OInv, Written, TypeOK
<1>3. ASSUME NEW r \in [Regs -> word_t], NEW w \in mem_wb_ele
      PROVE  Completed(r, w) \in [Regs -> word_t]
  <2>1. w.deste \in RegId /\ w.destm \in RegId /\ w.vale \in word_t /\ w.valm \in word_t
    BY <1>3 DEF mem_wb_ele
  <2>2. set_reg_val(r, w.deste, w.vale) \in [Regs -> word_t]
    BY <2>1, RegsType
  <2>3. WriteBack(r, w) \in [Regs -> word_t]
    BY <2>1, <2>2, RegsType DEF WriteBack
  <2> QED
    BY <2>2, <2>3 DEF Completed
<1>4. ReachedRegs \in [Regs -> word_t]
  <2>1. Completed(reg, W) \in [Regs -> word_t]
    BY <1>1, <1>2, <1>3 DEF TypeOK
  <2> QED
    BY <1>2, <1>3, <2>1 DEF ReachedRegs
<1>5. ReachedMem \in [0 .. DataWords - 1 -> word_t]
  <2>1. M.vala \in word_t /\ mem \in [0 .. DataWords - 1 -> word_t]
    BY <1>1 DEF TypeOK, ex_mem_ele
  <2> QED
    BY <2>1, DataType DEF ReachedMem
<1>6. ReachedPc \in word_t
  BY <1>1, <1>2 DEF TypeOK, ReachedPc, f_pc, id_ex_ele, if_id_ele, ex_mem_ele, mem_wb_ele
<1>7. ReachedStat \in stat_t /\ cc \in cc_t
  BY <1>1 DEF TypeOK, ReachedStat, stat_t, Faulty
<1> QED
  BY <1>4, <1>5, <1>6, <1>7 DEF Here, Cpu, State

LEMMA HereTypeNext == OInv' => Here' \in Cpu
<1>1. OInv' => (Here \in Cpu)'
  BY HereType, PTL
<1> QED
  BY <1>1 DEF Cpu

(* An instruction of the set makes what After says.                        *)
LEMMA IsaNextIsAfter ==
    ASSUME ISA!Next
    PROVE  Here' = After(code, Here) /\ Here.stat = "AOK"
<1> PICK s : s = Here
  OBVIOUS
<1> PICK i : i = FetchAt(code, ReachedPc)
  OBVIOUS
<1> PICK next : next = Wrap(ReachedPc + 1)
  OBVIOUS
<1>1. s.pc = ReachedPc /\ s.r = ReachedRegs /\ s.m = ReachedMem /\ s.cc = cc /\ s.stat = ReachedStat
  BY StateParts DEF Here
<1>2. Here' = State(ReachedPc', ReachedRegs', ReachedMem', cc', ReachedStat')
  BY DEF Here, State
<1>3. ISA!instr = i /\ ISA!ftpc = next
  BY SameWords, SameArithmetic, SameAccess DEF ISA!instr, ISA!ftpc
<1>4. ASSUME NEW icodes, ISA!Fetched(icodes)
      PROVE  ReachedStat = "AOK" /\ After(code, s) = Executed(s, i, next) /\ i.icode \in icodes
  BY <1>1, <1>3, <1>4, SameAccess DEF ISA!Fetched, After
<1> SUFFICES State(ReachedPc', ReachedRegs', ReachedMem', cc', ReachedStat') = After(code, s) /\ ReachedStat = "AOK"
  BY <1>1, <1>2
<1>5. CASE ISA!BadAddress
  BY <1>1, <1>5, SameAccess DEF ISA!BadAddress, ISA!Except, After
<1>6. CASE ISA!Halt
  BY <1>1, <1>4, <1>6 DEF ISA!Halt, ISA!Except, Executed
<1>7. CASE ISA!Invalid
  BY <1>1, <1>4, <1>7 DEF ISA!Invalid, ISA!Except, Executed
<1>8. CASE ISA!Nop
  BY <1>1, <1>3, <1>4, <1>8 DEF ISA!Nop, ISA!Continue, Executed
<1>9. CASE ISA!Jump
  <2>1. /\ ReachedPc' = IF cond_holds(s.cc, i.ifun) THEN i.valC ELSE next
        /\ ReachedRegs' = s.r /\ ReachedMem' = s.m /\ cc' = s.cc /\ ReachedStat' = "AOK"
    BY <1>1, <1>3, <1>9, SameAccess DEF ISA!Jump, ISA!Continue
  <2> QED
    BY <1>4, <1>9, <2>1 DEF ISA!Jump, Executed
<1>10. CASE ISA!Rrmovq
  <2>1. /\ ReachedRegs' = IF cond_holds(s.cc, i.ifun) THEN set_reg_val(s.r, i.rB, get_reg_val(s.r, i.rA)) ELSE s.r
        /\ ReachedPc' = next /\ ReachedMem' = s.m /\ cc' = s.cc /\ ReachedStat' = "AOK"
    BY <1>1, <1>3, <1>10, SameAccess DEF ISA!Rrmovq, ISA!Continue
  <2> QED
    BY <1>4, <1>10, <2>1 DEF ISA!Rrmovq, Executed, Moved
<1>11. CASE ISA!Irmovq
  <2>1. /\ ReachedRegs' = set_reg_val(s.r, i.rB, i.valC)
        /\ ReachedPc' = next /\ ReachedMem' = s.m /\ cc' = s.cc /\ ReachedStat' = "AOK"
    BY <1>1, <1>3, <1>11, SameAccess DEF ISA!Irmovq, ISA!Continue
  <2> QED
    BY <1>4, <1>11, <2>1 DEF ISA!Irmovq, Executed, Moved
<1>12. CASE ISA!Alu
  <2> DEFINE op   == IF i.icode = "ALU" THEN i.ifun ELSE "ADD"
             argA == IF i.icode = "ALU" THEN get_reg_val(s.r, i.rA) ELSE i.valC
             argB == get_reg_val(s.r, i.rB)
  <2>1. /\ ReachedRegs' = set_reg_val(s.r, i.rB, compute_alu(op, argA, argB))
        /\ cc' = compute_cc(op, argA, argB)
        /\ ReachedPc' = next /\ ReachedMem' = s.m /\ ReachedStat' = "AOK"
    BY <1>1, <1>3, <1>12, SameAccess, SameWords, SameArithmetic DEF ISA!Alu, ISA!Continue
  <2>2. i.icode \in {"ALU", "IADDQ"} /\ After(code, s) = Executed(s, i, next) /\ ReachedStat = "AOK"
    BY <1>4, <1>12 DEF ISA!Alu
  <2> QED
    BY <2>1, <2>2 DEF Executed, Calculated
<1>13. CASE ISA!Rmmovq \/ ISA!Mrmovq
  <2>1. /\ i.icode \in {"RMMOVQ", "MRMOVQ"} /\ After(code, s) = Executed(s, i, next) /\ ReachedStat = "AOK"
        /\ ISA!Rmmovq => i.icode = "RMMOVQ"
        /\ ISA!Mrmovq => i.icode = "MRMOVQ"
    BY <1>4, <1>13 DEF ISA!Rmmovq, ISA!Mrmovq
  <2>2. PICK addr : addr = Wrap(i.valC + get_reg_val(s.r, i.rB))
    OBVIOUS
  <2>3. ISA!Address = addr
    BY <1>1, <1>3, <2>2, SameAccess, SameWords, SameArithmetic DEF ISA!Address
  <2>4. /\ ReachedPc' = IF ValidAddr(addr) THEN next ELSE s.pc
        /\ ReachedStat' = IF ValidAddr(addr) THEN "AOK" ELSE "ADR"
        /\ cc' = s.cc
        /\ ReachedRegs' = IF i.icode = "MRMOVQ" /\ ValidAddr(addr) THEN set_reg_val(s.r, i.rA, s.m[addr]) ELSE s.r
        /\ ReachedMem' = IF i.icode = "RMMOVQ" THEN set_word_val(s.m, addr, get_reg_val(s.r, i.rA)) ELSE s.m
    BY <1>1, <1>3, <1>13, <2>1, <2>3, SameAccess
       DEF ISA!Rmmovq, ISA!Mrmovq, ISA!Continue, ISA!Except
  <2> QED
    BY <2>1, <2>2, <2>4 DEF Executed, Referred
<1>14. CASE ISA!Call \/ ISA!Pushq
  <2>1. /\ i.icode \in {"CALL", "PUSHQ"} /\ After(code, s) = Executed(s, i, next) /\ ReachedStat = "AOK"
        /\ ISA!Call => i.icode = "CALL"
        /\ ISA!Pushq => i.icode = "PUSHQ"
    BY <1>4, <1>14 DEF ISA!Call, ISA!Pushq
  <2>2. PICK sp, val, to : /\ sp = Wrap(s.r[RRSP] - 1)
                           /\ val = IF i.icode = "CALL" THEN next ELSE get_reg_val(s.r, i.rA)
                           /\ to = IF i.icode = "CALL" THEN i.valC ELSE next
    OBVIOUS
  <2>3. ISA!PushTo(sp, val, to)
    BY <1>1, <1>3, <1>14, <2>1, <2>2, SameAccess, SameWords, SameArithmetic DEF ISA!Call, ISA!Pushq
  <2>4. /\ ReachedPc' = IF ValidAddr(sp) THEN to ELSE s.pc
        /\ ReachedStat' = IF ValidAddr(sp) THEN "AOK" ELSE "ADR"
        /\ cc' = s.cc
        /\ ReachedRegs' = set_reg_val(s.r, RRSP, sp)
        /\ ReachedMem' = set_word_val(s.m, sp, val)
    BY <1>1, <2>3, SameAccess DEF ISA!PushTo, ISA!Continue, ISA!Except
  <2>5. After(code, s) = Pushed(s, sp, val, to)
    BY <2>1, <2>2 DEF Executed
  <2> QED
    BY <2>1, <2>4, <2>5 DEF Pushed
<1>15. CASE ISA!Ret \/ ISA!Popq
  <2>1. /\ i.icode \in {"RET", "POPQ"} /\ After(code, s) = Executed(s, i, next) /\ ReachedStat = "AOK"
        /\ ISA!Ret => i.icode = "RET"
        /\ ISA!Popq => i.icode = "POPQ"
    BY <1>4, <1>15 DEF ISA!Ret, ISA!Popq
  <2>2. PICK sp, moved : sp = s.r[RRSP] /\ moved = set_reg_val(s.r, RRSP, Wrap(sp + 1))
    OBVIOUS
  <2>3. After(code, s) = Popped(s, i, moved, next)
    BY <2>1, <2>2 DEF Executed
  <2>4. CASE i.icode = "RET"
    <3>1. /\ ReachedPc' = IF ValidAddr(sp) THEN s.m[sp] ELSE s.pc
          /\ ReachedStat' = IF ValidAddr(sp) THEN "AOK" ELSE "ADR"
          /\ cc' = s.cc /\ ReachedMem' = s.m
          /\ ReachedRegs' = IF ValidAddr(sp) THEN moved ELSE s.r
      BY <1>1, <1>3, <1>15, <2>1, <2>2, <2>4, SameAccess, SameWords, SameArithmetic
         DEF ISA!Ret, ISA!Continue, ISA!Except
    <3> QED
      BY <2>1, <2>2, <2>3, <2>4, <3>1 DEF Popped
  <2>5. CASE i.icode = "POPQ"
    <3>1. /\ ReachedPc' = IF ValidAddr(sp) THEN next ELSE s.pc
          /\ ReachedStat' = IF ValidAddr(sp) THEN "AOK" ELSE "ADR"
          /\ cc' = s.cc /\ ReachedMem' = s.m
          /\ ReachedRegs' = IF ValidAddr(sp) THEN set_reg_val(moved, i.rA, s.m[sp]) ELSE moved
      BY <1>1, <1>3, <1>15, <2>1, <2>2, <2>5, SameAccess, SameWords, SameArithmetic
         DEF ISA!Popq, ISA!Continue, ISA!Except
    <3> QED
      BY <2>1, <2>2, <2>3, <2>5, <3>1 DEF Popped
  <2> QED
    BY <2>1, <2>4, <2>5
<1> QED
  BY <1>5, <1>6, <1>7, <1>8, <1>9, <1>10, <1>11, <1>12, <1>13, <1>14, <1>15 DEF ISA!Next

(* The run of the processor is one of the instruction set in no more steps *)
(* than cycles, of which step_state has followed a part.  When one has     *)
(* failed, it has stored nothing, and the registers are or will be those   *)
(* that it found.                                                          *)
LastFound(r) == \E s \in Cpu : s.stat = "AOK" /\ s.r = r /\ After(code, s) = Here

LastInv ==
    /\ W.status \in Faulty \/ Written.status \in Faulty => ReachedMem = mem
    /\ W.status \notin Faulty /\ Written.status \in Faulty => LastFound(WriteBack(reg, W))
    /\ W.status \in Faulty => LastFound(reg)

Good == OInv /\ LastInv /\ \E n \in 0 .. icount : Reach(code, Here, n)

(* The limit is about to end the run, before anything fails: only then may *)
(* it suppress a store.                                                    *)
Cut == /\ W.status \in {"BUB", "AOK"}
       /\ icount = limit \/ (icount = limit - 1 /\ Written.status \in {"BUB", "AOK"})

CheckInv ==
    /\ isa_code = code
    /\ limit \in Nat /\ icount \in Nat /\ icount <= limit
    /\ phase \in {"run", "check", "done"}
    /\ phase = "run" => Cut \/ Good
    /\ phase # "run" /\ Stat # "AOK" => Good
    /\ phase = "done" => step >= limit \/ e # "AOK"

(* A run that has ended by itself has ended with a failure.                *)
LEMMA RunFailed ==
    ASSUME Good, Stat # "AOK"
    PROVE  W.status \in Faulty /\ ReachedStat = Stat /\ Here.stat # "AOK"
<1>1. W.status \in stat_t \ {"PIP"}
  BY DEF Good, OInv, PInv, Marked, TInv, TypeOK, mem_wb_ele
<1>2. W.status \in Faulty /\ ReachedStat = Stat
  BY <1>1 DEF Stat, ReachedStat, stat_t, Faulty
<1> QED
  BY <1>2, StateParts DEF Here

(* A cycle in which no store is suppressed.                                *)
LEMMA GoodStep ==
    ASSUME SourcesNamed, Good, icount \in Nat, icount' = icount + 1, sim_step_pipe(TRUE, TRUE),
           step' = step, There' = There
    PROVE  Good'
<1>1. OInv /\ OInv' /\ code' = code
  BY OInvStep DEF Good, Next, sim_step_pipe
<1> PICK p, h : p = code /\ h = Here
  OBVIOUS
<1>2. PICK n \in 0 .. icount : Reach(p, h, n)
  BY DEF Good
<1>3. n \in Nat /\ n + 1 \in Nat /\ n \in 0 .. icount' /\ n + 1 \in 0 .. icount'
  OBVIOUS
<1>4. ASSUME UNCHANGED ISA!vars
      PROVE  Here' = h /\ \E k \in 0 .. icount' : Reach(code, Here, k)'
  <2>1. Here' = h
    BY <1>4 DEF ISA!vars, Here, State
  <2>2. Reach(p, h, n)'
    BY <1>2, <1>3, ReachStays
  <2>3. Reach(code, Here, n)'
    BY <1>1, <2>1, <2>2 DEF Reach
  <2> QED
    BY <1>3, <2>1, <2>3
<1>5. CASE Written.status \in Faulty
  <2>1. W.status \notin Faulty
    BY DEF sim_step_pipe, Stat, Faulty
  <2>2. W' = Written /\ M' = bubble_ex_mem /\ reg' = WriteBack(reg, W)
    BY <1>5, CycleCases DEF M_bubble, Written, sim_step_pipe
  <2>3. ~mem_write'
    BY <2>2 DEF mem_write, bubble_ex_mem
  <2>4. ReachedMem' = mem'
    BY <2>3 DEF ReachedMem
  <2>5. Here' = h /\ \E k \in 0 .. icount' : Reach(code, Here, k)'
    BY <1>1, <1>4, <1>5, FailureStutters
  <2>6. PICK s \in Cpu : s.stat = "AOK" /\ s.r = WriteBack(reg, W) /\ After(p, s) = h
    BY <1>5, <2>1 DEF Good, LastInv, LastFound
  <2>7. LastFound(reg)'
    BY <1>1, <2>2, <2>5, <2>6 DEF LastFound
  <2>8. LastInv'
    BY <1>5, <2>2, <2>4, <2>7 DEF LastInv
  <2> QED
    BY <1>1, <2>5, <2>8 DEF Good
<1>6. CASE Written.status \notin Faulty
  <2>1. W' = Written /\ Sound /\ mem' = ReachedMem /\ reg' = WriteBack(reg, W)
    BY <1>6, FlowCases DEF sim_step_pipe, ReachedMem
  <2>2. CASE E.status = "BUB"
    <3>1. Written'.status \notin Faulty
      <4>1. E.icode = "NOP"
        BY <1>1, <2>2 DEF OInv, PInv, Marked
      <4> QED
        BY <1>1, <1>6, <2>2, <4>1, WrittenAfter DEF Result, Reads, Writes, Faulty
    <3>2. LastInv'
      BY <1>6, <2>1, <3>1 DEF LastInv
    <3> QED
      BY <1>1, <1>4, <1>6, <2>2, <3>2, BubbleStutters DEF Good
  <2>3. CASE E.status # "BUB"
    <3>1. Executes
      BY <1>1, <1>6, <2>3 DEF Executes
    <3>2. Here' = After(p, h) /\ h.stat = "AOK" /\ h \in Cpu /\ h.r = ReachedRegs
      BY <1>1, <3>1, ExecutesRefines, IsaNextIsAfter, HereType, StateParts DEF Here
    <3>3. After(p, h) \in Cpu
      BY <1>1, <3>2, HereTypeNext
    <3>4. Reach(code, Here, n + 1)'
      <4>1. Reach(p, After(p, h), n + 1)
        BY <1>2, <1>3, <3>2, <3>3, ReachGrows
      <4>2. Reach(p, After(p, h), n + 1)'
        BY <1>3, <4>1, ReachStays
      <4> QED
        BY <1>1, <3>2, <4>2 DEF Reach
    <3>5. ASSUME Written'.status \in Faulty
          PROVE  ReachedMem' = mem'
      <4>1. Result \in Faulty /\ ReachedMem' = IF Writes THEN set_word_val(mem', Addr, E.vala) ELSE mem'
        BY <1>1, <1>6, <2>1, <3>5, WrittenAfter
      <4>2. Writes => E.status \notin Faulty
        <5>1. E.status = FetchStatus(E.stage_pc) /\ E.icode = Instruction(E.stage_pc).icode
          BY <3>1, ExecutedValues, FlowCases DEF Executes, Current
        <5>2. FetchError(E.stage_pc) => Instruction(E.stage_pc).icode = "NOP"
          BY DEF Instruction, Plain
        <5> QED
          BY <5>1, <5>2 DEF Writes, FetchStatus, Faulty
      <4>3. Writes => ~ValidAddr(Addr)
        BY <4>1, <4>2 DEF Result
      <4> QED
        BY <4>1, <4>3 DEF set_word_val
    <3>6. LastFound(WriteBack(reg, W))'
      <4>1. h.r = WriteBack(reg, W)'
        <5>1. ReachedRegs = WriteBack(WriteBack(reg, W), Written)
          BY <1>1, <2>1, ReachedRegsType
        <5>2. WriteBack(reg, W)' = WriteBack(reg', W')
          BY DEF WriteBack, set_reg_val
        <5> QED
          BY <2>1, <3>2, <5>1, <5>2
      <4> QED
        BY <1>1, <3>2, <4>1 DEF LastFound, Cpu
    <3>7. LastInv'
      BY <1>6, <2>1, <3>5, <3>6 DEF LastInv
    <3> QED
      BY <1>1, <1>3, <3>4, <3>7 DEF Good
  <2> QED
    BY <2>2, <2>3
<1> QED
  BY <1>5, <1>6

(* The limit suppresses a store only of a run that it is about to end:     *)
(* what has failed stores nothing anyway.                                  *)
LEMMA StoresSuppressed ==
    ASSUME Good, ~Cut, limit \in Nat, icount \in Nat, icount < limit, icount' = icount + 1, limit' = limit,
           sim_step_pipe(ahead_mem < limit - icount, ahead_ex < limit - icount)
    PROVE  sim_step_pipe(TRUE, TRUE) \/ Cut'
<1>1. W.status \in {"BUB", "AOK"} /\ Written.status \in stat_t \ {"PIP"}
  <2>1. W.status # "PIP" /\ W.status \in stat_t
    BY DEF Good, OInv, PInv, Marked, TInv, TypeOK, mem_wb_ele
  <2>2. M.status \in stat_t \ {"PIP"}
    BY DEF Good, OInv, PInv, Marked, TInv, TypeOK, ex_mem_ele
  <2> QED
    BY <2>1, <2>2 DEF sim_step_pipe, Stat, Written, do_mem_stage, m_stat, stat_t
<1>2. limit - icount = 1 => Written.status \in Faulty
  BY <1>1 DEF Cut, stat_t, Faulty
<1>3. mem' = IF mem_write THEN set_word_val(mem, mem_addr, M.vala) ELSE mem
  <2>1. CASE ahead_mem < limit - icount
    BY <2>1 DEF sim_step_pipe
  <2>2. CASE ~(ahead_mem < limit - icount)
    <3>1. ahead_mem \in {0, 1}
      BY DEF ahead_mem
    <3>2. limit - icount = 1
      BY <2>2, <3>1
    <3>3. ReachedMem = mem
      BY <1>2, <3>2 DEF Good, LastInv
    <3>4. mem' = mem
      BY <2>2 DEF sim_step_pipe
    <3> QED
      BY <3>3, <3>4 DEF ReachedMem
  <2> QED
    BY <2>1, <2>2
<1>4. CASE ahead_ex < limit - icount \/ ~set_cc(do_mem_stage)
  <2>1. cc' = IF set_cc(do_mem_stage) THEN compute_cc(alufun, aluA, aluB) ELSE cc
    BY <1>4 DEF sim_step_pipe
  <2> QED
    BY <1>3, <2>1 DEF sim_step_pipe
<1>5. CASE ~(ahead_ex < limit - icount) /\ set_cc(do_mem_stage)
  <2>1. E.icode \in {"ALU", "IADDQ"} /\ Written.status \notin Faulty
    BY <1>5 DEF set_cc, Written
  <2>2. ahead_ex \in {0, 1, 2} /\ limit - icount # 1
    BY <1>2, <2>1 DEF ahead_ex, ahead_mem
  <2>3. limit - icount = 2
    BY <1>5, <2>2
  <2>4. W' = Written /\ M' = do_ex_stage
    <3>1. W_stall = FALSE /\ M_bubble(do_mem_stage) = FALSE
      BY <1>1, <2>1 DEF W_stall, M_bubble, Written, Faulty
    <3>2. W' = Update(pipe_cntl(FALSE, FALSE), W, do_mem_stage, bubble_mem_wb)
      BY <3>1 DEF sim_step_pipe
    <3>3. M' = Update(pipe_cntl(FALSE, FALSE), M, do_ex_stage, bubble_ex_mem)
      BY <3>1 DEF sim_step_pipe
    <3> QED
      BY <3>2, <3>3 DEF Update, pipe_cntl, Written
  <2>5. E.status = "AOK"
    <3>1. E.status # "BUB"
      BY <2>1 DEF Good, OInv, PInv, Marked
    <3>2. E.status = FetchStatus(E.stage_pc) /\ E.icode = Instruction(E.stage_pc).icode
      BY <3>1 DEF Good, OInv, InExecute
    <3>3. FetchError(E.stage_pc) => Instruction(E.stage_pc).icode = "NOP"
      BY DEF Instruction, Plain
    <3> QED
      BY <2>1, <3>2, <3>3 DEF FetchStatus
  <2>6. Written'.status = "AOK"
    <3>1. M'.icode \in {"ALU", "IADDQ"} /\ M'.status = "AOK"
      BY <2>1, <2>4, <2>5 DEF do_ex_stage
    <3> QED
      BY <3>1 DEF Written, do_mem_stage, m_stat, mem_read, mem_write
  <2>7. W'.status \in {"BUB", "AOK"}
    BY <1>1, <2>1, <2>4 DEF stat_t, Faulty
  <2>8. icount' = limit' - 1
    BY <2>3
  <2> QED
    BY <2>6, <2>7, <2>8 DEF Cut
<1> QED
  BY <1>4, <1>5

(* A run of no cycles.                                                     *)
LEMMA CheckStarts == TtyInit => CheckInv
<1> SUFFICES ASSUME TtyInit PROVE CheckInv
  OBVIOUS
<1>1. OInv /\ ISA!Init
  BY OInvInit, InitRefines DEF TtyInit
<1>2. There = Here
  <2>1. isa_pc = 0 /\ isa_r = [id \in Regs |-> 0] /\ isa_m = mem /\ isa_cc = DEFAULT_CC /\ e = "AOK"
    BY StateAccess DEF TtyInit, CheckInit, isa_state!Init
  <2>2. /\ ReachedPc = 0 /\ ReachedRegs = [id \in Regs |-> 0] /\ cc = DEFAULT_CC
        /\ ReachedStat = "AOK"
    BY <1>1, SameAccess DEF ISA!Init
  <2>3. ReachedMem = mem
    BY DEF TtyInit, Init, bubble_ex_mem, ReachedMem, mem_write
  <2> QED
    BY <2>1, <2>2, <2>3 DEF Here, There
<1>3. /\ icount = 0 /\ step = 0 /\ phase = "run" /\ limit \in Nat /\ isa_code = code
      /\ M.status = "BUB" /\ M.icode = "NOP" /\ W.status = "BUB"
  BY LimitsAssumption DEF TtyInit, CheckInit, Init, bubble_ex_mem, bubble_mem_wb
<1>4. Reach(code, Here, 0)
  BY <1>1, <1>2, <1>3, HereType, ReachStarts
<1>5. LastInv
  BY <1>3 DEF LastInv, Written, do_mem_stage, m_stat, mem_read, mem_write, Faulty
<1>6. Good
  BY <1>1, <1>3, <1>4, <1>5 DEF Good
<1> QED
  BY <1>3, <1>6 DEF CheckInv

(* A cycle of a run.                                                       *)
LEMMA RunInductive ==
    ASSUME SourcesNamed, CheckInv, sim_run_pipe
    PROVE  CheckInv'
<1>1. /\ icount < limit /\ Stat = "AOK" /\ phase = "run" /\ icount' = icount + 1
      /\ UNCHANGED <<limit, phase, step, isa_code>> /\ There' = There
      /\ sim_step_pipe(ahead_mem < limit - icount, ahead_ex < limit - icount)
  BY DEF sim_run_pipe, isa_vars, There, State
<1>2. code' = code
  BY <1>1 DEF sim_step_pipe
<1>3. CASE Cut
  <2>1. icount = limit - 1 /\ Written.status \in {"BUB", "AOK"} /\ W.status \in {"BUB", "AOK"}
    BY <1>1, <1>3 DEF Cut, CheckInv
  <2>2. W' = Update(pipe_cntl(FALSE, FALSE), W, do_mem_stage, bubble_mem_wb)
    <3>1. W_stall = FALSE
      BY <2>1 DEF W_stall, Faulty
    <3> QED
      BY <1>1, <3>1 DEF sim_step_pipe
  <2>3. W' = Written
    BY <2>2 DEF Update, pipe_cntl, Written
  <2>4. Cut'
    BY <1>1, <2>1, <2>3 DEF Cut, CheckInv
  <2> QED
    BY <1>1, <1>2, <2>4 DEF CheckInv
<1>4. CASE Good /\ ~Cut
  <2>1. sim_step_pipe(TRUE, TRUE) \/ Cut'
    BY <1>1, <1>4, StoresSuppressed DEF CheckInv
  <2>2. Good' \/ Cut'
    BY <1>1, <1>4, <2>1, GoodStep DEF CheckInv
  <2> QED
    BY <1>1, <1>2, <2>2 DEF CheckInv
<1> QED
  BY <1>1, <1>3, <1>4 DEF CheckInv

(* The processor rests.                                                    *)
LEMMA HereRests ==
    ASSUME UNCHANGED vars
    PROVE  Here' = Here /\ Stat' = Stat /\ Written' = Written /\ (OInv /\ LastInv => OInv' /\ LastInv')
<1>1. Here' = Here /\ Stat' = Stat /\ Written' = Written /\ ReachedMem' = ReachedMem
  BY DEF vars, Here, State, Stat, ReachedPc, ReachedRegs, ReachedMem, ReachedStat, Completed, WriteBack,
     set_reg_val, Written, do_mem_stage, m_stat, mem_read, mem_write, mem_addr, f_pc
<1>2. WriteBack(reg, W)' = WriteBack(reg, W)
  BY DEF vars, WriteBack, set_reg_val
<1>3. LastInv => LastInv'
  BY <1>1, <1>2 DEF vars, LastInv, LastFound
<1>4. OInv => OInv'
  BY OInvStep
<1> QED
  BY <1>1, <1>3, <1>4

(* Every step of the simulator keeps the check where the run was.          *)
LEMMA CheckInductive == SourcesNamed => (CheckInv /\ [TtyNext]_tty_vars => CheckInv')
<1> SUFFICES ASSUME SourcesNamed, CheckInv, [TtyNext]_tty_vars PROVE CheckInv'
  OBVIOUS
<1>1. CASE sim_run_pipe
  BY <1>1, RunInductive
<1>2. ASSUME UNCHANGED vars, icount' = icount, Good,
             \A n \in 0 .. icount : \A p, h : p = code /\ h = Here /\ Reach(p, h, n) => Reach(p, h, n)'
      PROVE  Good'
  <2> PICK p, h : p = code /\ h = Here
    OBVIOUS
  <2>1. PICK n \in 0 .. icount : Reach(p, h, n)
    BY <1>2 DEF Good
  <2>2. Reach(p, h, n)' /\ code' = p /\ Here' = h
    BY <1>2, <2>1, HereRests DEF vars
  <2>3. Reach(code, Here, n)'
    BY <2>2 DEF Reach
  <2> QED
    BY <1>2, <2>1, <2>3, HereRests DEF Good
<1>3. ASSUME UNCHANGED vars, icount' = icount, Good, step' = step, There' = There
      PROVE  Good'
  <2>1. \A n \in 0 .. icount : \A p, h : Reach(p, h, n) => Reach(p, h, n)'
    BY <1>3, ReachStays DEF CheckInv
  <2> QED
    BY <1>2, <1>3, <2>1
<1>4. CASE RunEnds(Stat) /\ UNCHANGED vars
  <2>1. /\ phase = "run" /\ phase' = "check" /\ UNCHANGED <<limit, icount, isa_code, code, step>>
        /\ There' = There /\ Stat' = Stat
    BY <1>4, HereRests DEF RunEnds, isa_vars, There, State, vars
  <2>2. Stat' # "AOK" => Good'
    <3>1. Stat # "AOK" => ~Cut
      BY DEF Cut, Stat
    <3> QED
      BY <1>3, <1>4, <2>1, <3>1 DEF CheckInv
  <2> QED
    BY <2>1, <2>2 DEF CheckInv
<1>5. CASE CheckEnds /\ UNCHANGED vars
  <2>1. /\ phase = "check" /\ phase' = "done" /\ UNCHANGED <<limit, icount, isa_code, code, step, e>>
        /\ There' = There /\ Stat' = Stat /\ (step >= limit \/ e # "AOK")
    BY <1>5, HereRests DEF CheckEnds, isa_vars, There, State, vars
  <2>2. Stat' # "AOK" => Good'
    BY <1>3, <1>5, <2>1 DEF CheckInv
  <2> QED
    BY <2>1, <2>2 DEF CheckInv
<1>6. CASE CheckStep /\ UNCHANGED vars
  <2>1. /\ isa_state!Next /\ step' = step + 1 /\ step < limit /\ phase = "check"
        /\ UNCHANGED <<limit, phase, icount, code>> /\ Stat' = Stat
    BY <1>6, HereRests DEF CheckStep, vars
  <2>2. isa_code' = isa_code
    BY <2>1 DEF isa_state!Next, isa_state!BadAddress, isa_state!Halt, isa_state!Invalid, isa_state!Nop,
       isa_state!Rrmovq, isa_state!Irmovq, isa_state!Rmmovq, isa_state!Mrmovq, isa_state!Alu,
       isa_state!Jump, isa_state!Call, isa_state!Pushq, isa_state!Ret, isa_state!Popq, isa_state!Fetched
  <2>3. Stat # "AOK" => Good'
    <3> SUFFICES ASSUME Stat # "AOK" PROVE Good'
      OBVIOUS
    <3>1. Good
      BY <2>1 DEF CheckInv
    <3>2. Here.stat # "AOK"
      BY <3>1, RunFailed
    <3>3. ASSUME NEW n \in 0 .. icount, NEW p, NEW h, p = code, h = Here, Reach(p, h, n)
          PROVE  Reach(p, h, n)'
      <4>1. n \in Nat /\ p = isa_code /\ h.stat # "AOK"
        BY <3>2, <3>3 DEF CheckInv
      <4> QED
        BY <2>1, <3>3, <4>1, ReachFollows
    <3> QED
      BY <1>2, <1>6, <2>1, <3>1, <3>3
  <2> QED
    BY <2>1, <2>2, <2>3 DEF CheckInv
<1>7. CASE UNCHANGED tty_vars
  <2>1. /\ UNCHANGED <<vars, limit, phase, icount, isa_code, code, step, e>> /\ There' = There
        /\ Stat' = Stat /\ Written' = Written
    BY <1>7, HereRests DEF tty_vars, check_vars, isa_vars, There, State, vars
  <2>2. Good => Good'
    BY <1>3, <2>1
  <2>3. Cut => Cut'
    BY <2>1 DEF Cut, vars
  <2> QED
    BY <2>1, <2>2, <2>3 DEF CheckInv
<1> QED
  BY <1>1, <1>4, <1>5, <1>6, <1>7 DEF TtyNext, CheckNext

(* The check passes a program that ended by itself exactly if it did not   *)
(* end with a failing call, pushq or popq: nothing of an instruction       *)
(* behind the one that ended the run is stored, and the limit suppresses   *)
(* no store of one before it, for every program that names a register      *)
(* wherever it reads one, every limit, word size and data memory.          *)
THEOREM PsimVerdict == SourcesNamed => (TtySpec => []CheckVerdict)
<1> SUFFICES ASSUME SourcesNamed PROVE TtySpec => []CheckVerdict
  OBVIOUS
<1>1. TtyInit => CheckInv
  BY CheckStarts
<1>2. CheckInv /\ [TtyNext]_tty_vars => CheckInv'
  BY CheckInductive
<1>3. CheckInv => CheckVerdict
  <2> SUFFICES ASSUME CheckInv, phase = "done", Stat # "AOK"
               PROVE  e = Stat /\ (match <=> ~StackFault)
    BY DEF CheckVerdict
  <2>1. Good /\ isa_code = code /\ code \in Programs
    BY DEF CheckInv, Good, OInv, TInv
  <2>2. W.status \in Faulty /\ ReachedStat = Stat
    BY <2>1, RunFailed
  <2>3. There = Here
    <3>1. PICK n \in 0 .. icount : Reach(code, Here, n)
      BY <2>1 DEF Good
    <3>2. step \in Int /\ n \in Nat /\ n <= limit
      BY <3>1 DEF CheckInv, Reach
    <3>3. e # "AOK" \/ step >= n
      BY <3>2 DEF CheckInv
    <3> QED
      BY <3>1, <3>2, <3>3, ReachMeets
  <2>4. PICK s \in Cpu : s.stat = "AOK" /\ s.r = reg /\ After(code, s) = Here
    BY <2>1, <2>2 DEF Good, LastInv, LastFound
  <2>5. ReachedMem = mem
    BY <2>1, <2>2 DEF Good, LastInv
  <2>6. /\ There.pc = isa_pc /\ There.r = isa_r /\ There.m = isa_m /\ There.cc = isa_cc /\ There.stat = e
        /\ Here.m = mem /\ Here.cc = cc /\ Here.stat = Stat
    <3>1. /\ There.pc = isa_pc /\ There.r = isa_r /\ There.m = isa_m /\ There.cc = isa_cc /\ There.stat = e
      BY StateParts DEF There
    <3>2. Here.m = ReachedMem /\ Here.cc = cc /\ Here.stat = ReachedStat
      BY StateParts DEF Here
    <3> QED
      BY <2>2, <2>5, <3>1, <3>2
  <2>7. e = Stat /\ isa_m = mem /\ isa_cc = cc /\ e # "AOK"
    BY <2>3, <2>6
  <2>8. /\ isa_pc = s.pc
        /\ isa_r = reg <=> ~(e = "ADR" /\ ~FetchError(s.pc)
                             /\ FetchAt(code, s.pc).icode \in {"CALL", "PUSHQ", "POPQ"})
    BY <2>1, <2>3, <2>4, <2>6, <2>7, LastInstruction
  <2> QED
    BY <2>1, <2>7, <2>8 DEF match, StackFault
<1> QED
  BY <1>1, <1>2, <1>3, PTL DEF TtySpec
=============================================================================
