-------------------------------- MODULE Pipe --------------------------------
(***************************************************************************)
(* The pipelined Y86-64 processor: the simulator pipe/psim.c with the      *)
(* control logic of pipe/pipe-full.hcl.  The state is what holds between   *)
(* two cycles: the five pipeline registers (their "current" halves), the   *)
(* register file, memory and condition codes.  What the stages compute     *)
(* from it ("next", and the signals of the HCL file, under their names) is *)
(* a function of that state; a cycle stores it.                            *)
(***************************************************************************)
EXTENDS Isa

VARIABLES
    code, mem,      \* memory: instructions and data
    reg, cc,
    F,              \* the predicted pc
    D, E, M, W      \* what is in decode, execute, memory and write-back

vars == <<code, mem, reg, cc, F, D, E, M, W>>

if_id_ele  == [icode : itype_t, ifun : alu_t \cup cond_t, ra : RegId, rb : RegId,
               valc : word_t, valp : word_t, status : stat_t, stage_pc : word_t]
id_ex_ele  == [icode : itype_t, ifun : alu_t \cup cond_t, valc : word_t,
               vala : word_t, valb : word_t, srca : RegId, srcb : RegId,
               deste : RegId, destm : RegId, status : stat_t, stage_pc : word_t]
ex_mem_ele == [icode : itype_t, takebranch : BOOLEAN, vale : word_t, vala : word_t,
               deste : RegId, destm : RegId, status : stat_t, stage_pc : word_t]
mem_wb_ele == [icode : itype_t, vale : word_t, valm : word_t,
               deste : RegId, destm : RegId, status : stat_t, stage_pc : word_t]

bubble_if_id  == [icode |-> "NOP", ifun |-> "YES", ra |-> RNONE, rb |-> RNONE,
                  valc |-> 0, valp |-> 0, status |-> "BUB", stage_pc |-> 0]
bubble_id_ex  == [icode |-> "NOP", ifun |-> "YES", valc |-> 0, vala |-> 0, valb |-> 0,
                  srca |-> RNONE, srcb |-> RNONE, deste |-> RNONE, destm |-> RNONE,
                  status |-> "BUB", stage_pc |-> 0]
bubble_ex_mem == [icode |-> "NOP", takebranch |-> FALSE, vale |-> 0, vala |-> 0,
                  deste |-> RNONE, destm |-> RNONE, status |-> "BUB", stage_pc |-> 0]
bubble_mem_wb == [icode |-> "NOP", vale |-> 0, valm |-> 0,
                  deste |-> RNONE, destm |-> RNONE, status |-> "BUB", stage_pc |-> 0]

(* sim_init, then load_mem.                                                *)
Init ==
    /\ code \in Programs
    /\ mem \in Datas
    /\ reg = [id \in Regs |-> 0]
    /\ cc = DEFAULT_CC
    /\ F = 0
    /\ D = bubble_if_id /\ E = bubble_id_ex /\ M = bubble_ex_mem /\ W = bubble_mem_wb

Faulty == {"ADR", "INS", "HLT"}

-----------------------------------------------------------------------------
(* Fetch.                                                                  *)

f_pc == IF M.icode = "JMP" /\ ~M.takebranch THEN M.vala
        ELSE IF W.icode = "RET" THEN W.valm ELSE F

f_instr == IF FetchError(f_pc) THEN Plain("NOP") ELSE FetchAt(code, f_pc)
f_stat  == IF FetchError(f_pc) THEN "ADR"
           ELSE IF f_instr.icode = "BAD" THEN "INS"
           ELSE IF f_instr.icode = "HALT" THEN "HLT" ELSE "AOK"

do_if_stage ==
    [icode |-> f_instr.icode, ifun |-> f_instr.ifun, ra |-> f_instr.rA, rb |-> f_instr.rB,
     valc |-> f_instr.valC, valp |-> Wrap(f_pc + 1), status |-> f_stat, stage_pc |-> f_pc]

f_predPC(d) == IF d.icode \in {"JMP", "CALL"} THEN d.valc ELSE d.valp

-----------------------------------------------------------------------------
(* Memory.                                                                 *)

mem_addr  == IF M.icode \in {"RMMOVQ", "PUSHQ", "CALL", "MRMOVQ"} THEN M.vale
             ELSE IF M.icode \in {"POPQ", "RET"} THEN M.vala ELSE 0
mem_read  == M.icode \in {"MRMOVQ", "POPQ", "RET"}
mem_write == M.icode \in {"RMMOVQ", "PUSHQ", "CALL"}

m_stat == IF (mem_read \/ mem_write) /\ ~ValidAddr(mem_addr) THEN "ADR" ELSE M.status

do_mem_stage ==
    [icode |-> M.icode, vale |-> M.vale,
     valm |-> IF mem_read THEN get_word_val(mem, mem_addr) ELSE 0,
     deste |-> M.deste, destm |-> M.destm,
     status |-> m_stat, stage_pc |-> M.stage_pc]

-----------------------------------------------------------------------------
(* Execute.                                                                *)

aluA == CASE E.icode \in {"RRMOVQ", "ALU"} -> E.vala
          [] E.icode \in {"IRMOVQ", "RMMOVQ", "MRMOVQ", "IADDQ"} -> E.valc
          [] E.icode \in {"CALL", "PUSHQ"} -> -1
          [] E.icode \in {"RET", "POPQ"} -> 1
          [] OTHER -> 0
aluB == IF E.icode \in {"RMMOVQ", "MRMOVQ", "ALU", "IADDQ", "CALL", "PUSHQ", "RET", "POPQ"}
        THEN E.valb ELSE 0
alufun == IF E.icode = "ALU" THEN E.ifun ELSE "ADD"

(* w is what memory passes on to write-back.                               *)
set_ccPastMemory(w) == E.icode \in {"ALU", "IADDQ"} /\ W.status \notin Faulty   \* mutant
set_cc(w) == /\ E.icode \in {"ALU", "IADDQ"}
             /\ w.status \notin Faulty /\ W.status \notin Faulty

e_Cnd  == cond_holds(cc, E.ifun)
e_dstE == IF E.icode = "RRMOVQ" /\ ~e_Cnd THEN RNONE ELSE E.deste

do_ex_stage ==
    [icode |-> E.icode, takebranch |-> e_Cnd,
     vale |-> compute_alu(alufun, aluA, aluB), vala |-> E.vala,
     deste |-> e_dstE, destm |-> E.destm, status |-> E.status, stage_pc |-> E.stage_pc]

-----------------------------------------------------------------------------
(* Decode.                                                                 *)

d_srcA == CASE D.icode \in {"RRMOVQ", "RMMOVQ", "ALU", "PUSHQ"} -> D.ra
            [] D.icode \in {"POPQ", "RET"} -> RRSP
            [] OTHER -> RNONE
d_srcB == CASE D.icode \in {"ALU", "IADDQ", "RMMOVQ", "MRMOVQ"} -> D.rb
            [] D.icode \in {"PUSHQ", "POPQ", "CALL", "RET"} -> RRSP
            [] OTHER -> RNONE
d_dstE == CASE D.icode \in {"RRMOVQ", "IRMOVQ", "ALU", "IADDQ"} -> D.rb
            [] D.icode \in {"PUSHQ", "POPQ", "CALL", "RET"} -> RRSP
            [] OTHER -> RNONE
d_dstM == IF D.icode \in {"MRMOVQ", "POPQ"} THEN D.ra ELSE RNONE

(* Mutant: the order of write-back, where the M port comes second.         *)
ForwardEFirst(src, x, w) ==
    IF src = x.deste THEN x.vale
    ELSE IF src = M.deste THEN M.vale
    ELSE IF src = M.destm THEN w.valm
    ELSE IF src = W.destm THEN W.valm
    ELSE IF src = W.deste THEN W.vale
    ELSE get_reg_val(reg, src)

(* The youngest instruction ahead that writes src wins; x and w are what   *)
(* execute and memory pass on.                                             *)
Forward(src, x, w) ==
    IF src = x.deste THEN x.vale
    ELSE IF src = M.destm THEN w.valm
    ELSE IF src = M.deste THEN M.vale
    ELSE IF src = W.destm THEN W.valm
    ELSE IF src = W.deste THEN W.vale
    ELSE get_reg_val(reg, src)

do_id_stage(x, w) ==
    [icode |-> D.icode, ifun |-> D.ifun, valc |-> D.valc,
     vala |-> IF D.icode \in {"CALL", "JMP"} THEN D.valp ELSE Forward(d_srcA, x, w),
     valb |-> Forward(d_srcB, x, w),
     srca |-> d_srcA, srcb |-> d_srcB, deste |-> d_dstE, destm |-> d_dstM,
     status |-> D.status, stage_pc |-> D.stage_pc]

-----------------------------------------------------------------------------
(* Pipeline register control.                                              *)

LoadUse    == E.icode \in {"MRMOVQ", "POPQ"} /\ E.destm \in {d_srcA, d_srcB}
RetInsideToTheEnd == "RET" \in {D.icode, E.icode, M.icode, W.icode}   \* mutant
RetInside  == "RET" \in {D.icode, E.icode, M.icode}
Mispredict == E.icode = "JMP" /\ ~e_Cnd

F_stall     == LoadUse \/ RetInside
D_stall     == LoadUse
D_bubbleForRet == Mispredict \/ RetInside     \* mutant
D_bubble    == Mispredict \/ (~LoadUse /\ RetInside)
E_bubble    == Mispredict \/ LoadUse
M_bubble(w) == w.status \in Faulty \/ W.status \in Faulty
W_stall     == W.status \in Faulty

pipe_cntl(stall, bubble) ==
    CASE stall /\ bubble  -> "ERROR"
      [] stall /\ ~bubble -> "STALL"
      [] bubble /\ ~stall -> "BUBBLE"
      [] OTHER            -> "LOAD"

(* update_pipes, with the status that sim_step_pipe gives to an error.     *)
Update(op, current, next, bubble_val) ==
    CASE op = "LOAD"   -> next
      [] op = "STALL"  -> current
      [] op = "BUBBLE" -> bubble_val
      [] op = "ERROR"  -> [bubble_val EXCEPT !.status = "PIP"]

-----------------------------------------------------------------------------
(* gen_Stat; sim_run_pipe stops at the first status that is not AOK.       *)
Stat == IF W.status = "BUB" THEN "AOK" ELSE W.status

(* The E port is written first, so that popq %rsp keeps the popped value.  *)
WriteBack(r, w) == set_reg_val(set_reg_val(r, w.deste, w.vale), w.destm, w.valm)

(* One cycle; update_mem and update_cc allow the stores of instructions    *)
(* within the limit of sim_run_pipe (module PipeTty).                      *)
sim_step_pipe(update_mem, update_cc) ==
    LET w == do_mem_stage
        x == do_ex_stage
        f == do_if_stage
    IN  /\ Stat = "AOK"
        /\ reg' = WriteBack(reg, W)
        /\ mem' = IF update_mem /\ mem_write THEN set_word_val(mem, mem_addr, M.vala) ELSE mem
        /\ cc' = IF update_cc /\ set_cc(w) THEN compute_cc(alufun, aluA, aluB) ELSE cc
        /\ F' = IF F_stall THEN F ELSE f_predPC(f)
        /\ D' = Update(pipe_cntl(D_stall, D_bubble), D, f, bubble_if_id)
        /\ E' = Update(pipe_cntl(FALSE, E_bubble), E, do_id_stage(x, w), bubble_id_ex)
        /\ M' = Update(pipe_cntl(FALSE, M_bubble(w)), M, x, bubble_ex_mem)
        /\ W' = Update(pipe_cntl(W_stall, FALSE), W, w, bubble_mem_wb)
        /\ UNCHANGED code

Next == sim_step_pipe(TRUE, TRUE)
Spec == Init /\ [][Next]_vars
-----------------------------------------------------------------------------
(* Values keep the width of a word and registers their range.              *)
TypeOK ==
    /\ reg \in [Regs -> word_t]
    /\ mem \in [0 .. DataWords - 1 -> word_t]
    /\ cc \in cc_t
    /\ F \in word_t
    /\ D \in if_id_ele /\ E \in id_ex_ele /\ M \in ex_mem_ele /\ W \in mem_wb_ele
=============================================================================
