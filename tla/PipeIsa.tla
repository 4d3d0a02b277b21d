------------------------------ MODULE PipeIsa ------------------------------
(***************************************************************************)
(* The pipelined processor executes the instruction set.  An instruction   *)
(* counts as executed when it enters the memory stage: by then no older    *)
(* one can cancel it.  The state that a program has reached is the         *)
(* processor's with the instructions in memory and write-back completed.   *)
(***************************************************************************)
EXTENDS Pipe

Written == do_mem_stage

(* What an instruction in stage record w does to registers r.  One that    *)
(* failed has loaded nothing; step_state has moved %rsp by then unless it  *)
(* was ret (the processor stops before it writes %rsp back, so that psim   *)
(* -t reports a difference after a failing pushq, call or popq).           *)
Completed(r, w) ==
    CASE w.status = "ADR" /\ w.icode = "RET" -> r
      [] w.status = "ADR" /\ w.icode # "RET" -> set_reg_val(r, w.deste, w.vale)
      [] OTHER -> WriteBack(r, w)

ReachedRegs == Completed(Completed(reg, W), Written)
ReachedMem  == IF mem_write THEN set_word_val(mem, mem_addr, M.vala) ELSE mem

ReachedStat == IF W.status \in Faulty THEN W.status
               ELSE IF Written.status \in Faulty THEN Written.status ELSE "AOK"

(* The oldest instruction that is not executed yet, or the one that failed.*)
ReachedPc ==
    IF W.status \in Faulty THEN W.stage_pc
    ELSE IF Written.status \in Faulty THEN M.stage_pc
    ELSE IF E.status # "BUB" THEN E.stage_pc
    ELSE IF D.status # "BUB" THEN D.stage_pc
    ELSE IF M.icode = "RET" THEN Written.valm ELSE f_pc

ISA == INSTANCE Y86 WITH pc <- ReachedPc, r <- ReachedRegs, m <- ReachedMem,
                         stat <- ReachedStat

(* Registers, memory, condition codes, pc and status go through the states *)
(* that step_state gives them, for every program that names a register in  *)
(* each memory reference: forwarding, stalls, cancelled branches and       *)
(* exceptions show nowhere.                                                *)
ImplementsISA == ISA!Spec

(* No two instructions are lost in one another: stall and bubble are never *)
(* asked of one pipeline register in a cycle (pipe_cntl's P_ERROR).        *)
NoControlConflict ==
    /\ ~(D_stall /\ D_bubble)
    /\ "PIP" \notin {D.status, E.status, M.status, W.status}

(* After each cycle some instruction is under way, so that stalls end: at  *)
(* worst ret crosses an empty pipeline.                                    *)
SomethingUnderWay ==
    [][\E s \in {D', E', M', W'} : s.status # "BUB"]_vars

-----------------------------------------------------------------------------
(* What a comment promises and the code does not do.                       *)

(* A memory reference that names no register is its displacement alone     *)
(* ("Num" and "Ident" of yas.c:246-252; step_state adds a register if      *)
(* there is one).  The code forwards to RNONE, as if it were a register,   *)
(* what an instruction without a destination has computed.                 *)
NoRegisterAddsNothing ==
    E.icode \in {"RMMOVQ", "MRMOVQ"} /\ E.srcb = RNONE => E.valb = 0
=============================================================================
