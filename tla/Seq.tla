-------------------------------- MODULE Seq --------------------------------
(***************************************************************************)
(* The sequential Y86-64 processor: the simulator seq/ssim.c with the      *)
(* control logic that hcl2c has made of seq/seq-full.hcl.  What a step     *)
(* computes is latched; the next step begins by storing it.                *)
(***************************************************************************)
EXTENDS Isa

VARIABLES
    code, mem, reg, cc,
    pc,             \* of the instruction that was executed last
    status,         \* what sim_step has returned last
    latch           \* pc_in, cc_in and the writes that update_state is to make

vars == <<code, mem, reg, cc, pc, status, latch>>

latch_t == [pc_in : word_t, cc_in : cc_t, destE : RegId, vale : word_t,
            destM : RegId, valm : word_t,
            mem_write : BOOLEAN, mem_addr : word_t, mem_data : word_t]

(* sim_init and sim_reset, then load_mem.                                  *)
Init ==
    /\ code \in Programs
    /\ mem \in Datas
    /\ reg = [id \in Regs |-> 0]
    /\ cc = DEFAULT_CC
    /\ pc = 0
    /\ status = "AOK"
    /\ latch = [pc_in |-> 0, cc_in |-> DEFAULT_CC, destE |-> RNONE, vale |-> 0,
                destM |-> RNONE, valm |-> 0,
                mem_write |-> FALSE, mem_addr |-> 0, mem_data |-> 0]

(* update_state.  The E port is written first, as in the pipeline.         *)
UpdatedReg == set_reg_val(set_reg_val(reg, latch.destE, latch.vale), latch.destM, latch.valm)
UpdatedMem == IF latch.mem_write THEN set_word_val(mem, latch.mem_addr, latch.mem_data) ELSE mem

(* The control logic, for the instruction i with condition cond.           *)
srcA(i) == CASE i.icode \in {"RRMOVQ", "RMMOVQ", "ALU", "PUSHQ"} -> i.rA
             [] i.icode \in {"POPQ", "RET"} -> RRSP
             [] OTHER -> RNONE
srcB(i) == CASE i.icode \in {"ALU", "IADDQ", "RMMOVQ", "MRMOVQ"} -> i.rB
             [] i.icode \in {"PUSHQ", "POPQ", "CALL", "RET"} -> RRSP
             [] OTHER -> RNONE
dstEAlways(i, cond) ==      \* mutant: a conditional move that ignores its condition
    CASE i.icode \in {"RRMOVQ", "IRMOVQ", "ALU", "IADDQ"} -> i.rB
      [] i.icode \in {"PUSHQ", "POPQ", "CALL", "RET"} -> RRSP
      [] OTHER -> RNONE
dstE(i, cond) ==
    CASE (i.icode = "RRMOVQ" /\ cond) \/ i.icode \in {"IRMOVQ", "ALU", "IADDQ"} -> i.rB
      [] i.icode \in {"PUSHQ", "POPQ", "CALL", "RET"} -> RRSP
      [] OTHER -> RNONE
dstM(i) == IF i.icode \in {"MRMOVQ", "POPQ"} THEN i.rA ELSE RNONE

aluA(i, vala) == CASE i.icode \in {"RRMOVQ", "ALU"} -> vala
                   [] i.icode \in {"IRMOVQ", "RMMOVQ", "MRMOVQ", "IADDQ"} -> i.valC
                   [] i.icode \in {"CALL", "PUSHQ"} -> -1
                   [] i.icode \in {"RET", "POPQ"} -> 1
                   [] OTHER -> 0
aluB(i, valb) == IF i.icode \in {"RMMOVQ", "MRMOVQ", "ALU", "IADDQ", "CALL", "PUSHQ", "RET", "POPQ"}
                 THEN valb ELSE 0
alufun(i) == IF i.icode = "ALU" THEN i.ifun ELSE "ADD"
set_ccWithoutIaddq(i) == i.icode = "ALU"      \* mutant
set_cc(i) == i.icode \in {"ALU", "IADDQ"}

mem_read(i)  == i.icode \in {"MRMOVQ", "POPQ", "RET"}
mem_write(i) == i.icode \in {"RMMOVQ", "PUSHQ", "CALL"}
mem_addr(i, vale, vala) == IF i.icode \in {"RMMOVQ", "PUSHQ", "CALL", "MRMOVQ"} THEN vale
                           ELSE IF i.icode \in {"POPQ", "RET"} THEN vala ELSE 0
mem_data(i, vala, valp) == IF i.icode \in {"RMMOVQ", "PUSHQ"} THEN vala
                           ELSE IF i.icode = "CALL" THEN valp ELSE 0

new_pc(i, cond, valm, valp) == IF i.icode = "CALL" \/ (i.icode = "JMP" /\ cond) THEN i.valC
                               ELSE IF i.icode = "RET" THEN valm ELSE valp

gen_Stat(imem_error, dmem_error, i) ==
    IF imem_error \/ dmem_error THEN "ADR"
    ELSE IF i.icode = "BAD" THEN "INS" ELSE IF i.icode = "HALT" THEN "HLT" ELSE "AOK"

(* What the rest of sim_step computes from the updated state.              *)
Computed(p, r, m, c) ==
    LET i    == IF FetchError(p) THEN Plain("NOP") ELSE FetchAt(code, p)
        valp == Wrap(p + 1)
        vala == get_reg_val(r, srcA(i))
        valb == get_reg_val(r, srcB(i))
        cond == cond_holds(c, i.ifun)
        vale == compute_alu(alufun(i), aluA(i, vala), aluB(i, valb))
        addr == mem_addr(i, vale, vala)
        valm == IF mem_read(i) THEN get_word_val(m, addr) ELSE 0
    IN  [status |-> gen_Stat(FetchError(p), (mem_read(i) \/ mem_write(i)) /\ ~ValidAddr(addr), i),
         latch  |-> [pc_in |-> new_pc(i, cond, valm, valp),
                     cc_in |-> IF set_cc(i)
                               THEN compute_cc(alufun(i), aluA(i, vala), aluB(i, valb)) ELSE c,
                     destE |-> dstE(i, cond), vale |-> vale, destM |-> dstM(i), valm |-> valm,
                     mem_write |-> mem_write(i), mem_addr |-> addr,
                     mem_data |-> mem_data(i, vala, valp)]]

sim_step ==
    LET now == Computed(latch.pc_in, UpdatedReg, UpdatedMem, latch.cc_in)
    IN  /\ pc' = latch.pc_in
        /\ reg' = UpdatedReg
        /\ mem' = UpdatedMem
        /\ cc' = latch.cc_in
        /\ status' = now.status
        /\ latch' = now.latch
        /\ UNCHANGED code

(* sim_run calls sim_step again as long as it returns AOK.                 *)
Next == status = "AOK" /\ sim_step
Spec == Init /\ [][Next]_vars
-----------------------------------------------------------------------------
(* The state that the program has reached: with the last writes made, as   *)
(* far as the instruction set makes them (see PipeIsa on failing ones).    *)
LastIcode == IF FetchError(pc) THEN "NOP" ELSE FetchAt(code, pc).icode

ReachedReg == CASE status = "ADR" /\ LastIcode = "RET" -> reg
                [] status = "ADR" /\ LastIcode # "RET" -> set_reg_val(reg, latch.destE, latch.vale)
                [] OTHER -> UpdatedReg

ReachedPc  == IF status = "AOK" THEN latch.pc_in ELSE pc

ISA == INSTANCE Y86 WITH pc <- ReachedPc, r <- ReachedReg, m <- UpdatedMem,
                         cc <- latch.cc_in, stat <- status

(* The sequential processor executes the instruction set, one instruction  *)
(* in a step, whatever it latches.                                         *)
ImplementsISA == ISA!Spec

TypeOK ==
    /\ reg \in [Regs -> word_t]
    /\ mem \in [0 .. DataWords - 1 -> word_t]
    /\ cc \in cc_t
    /\ pc \in word_t
    /\ status \in stat_t
    /\ latch \in latch_t
=============================================================================
