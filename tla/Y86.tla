-------------------------------- MODULE Y86 --------------------------------
(***************************************************************************)
(* The Y86-64 instruction set: step_state of isa.c, one action for each    *)
(* kind of instruction.  It is what psim -t compares the pipelined         *)
(* processor with, and the abstract specification that module Pipe is      *)
(* shown to implement.                                                     *)
(***************************************************************************)
EXTENDS Isa

VARIABLES
    code,           \* the instructions of the program
    pc, r, m, cc,   \* state_rec
    stat            \* what step_state has returned last

vars == <<code, pc, r, m, cc, stat>>

Init ==
    /\ code \in Programs
    /\ m \in Datas
    /\ pc = 0
    /\ r = [id \in Regs |-> 0]
    /\ cc = DEFAULT_CC
    /\ stat = "AOK"

instr == FetchAt(code, pc)
ftpc  == Wrap(pc + 1)

Fetched(icodes) ==
    /\ stat = "AOK"
    /\ ~FetchError(pc)
    /\ instr.icode \in icodes
    /\ UNCHANGED code

Continue(to) == pc' = to /\ stat' = "AOK"
Except(s)    == pc' = pc /\ stat' = s

BadAddress ==
    /\ stat = "AOK" /\ FetchError(pc)
    /\ Except("ADR")
    /\ UNCHANGED <<code, r, m, cc>>

Halt    == Fetched({"HALT"}) /\ Except("HLT") /\ UNCHANGED <<r, m, cc>>
Invalid == Fetched({"BAD"}) /\ Except("INS") /\ UNCHANGED <<r, m, cc>>
Nop     == Fetched({"NOP"}) /\ Continue(ftpc) /\ UNCHANGED <<r, m, cc>>

Rrmovq ==
    /\ Fetched({"RRMOVQ"})
    /\ r' = IF cond_holds(cc, instr.ifun)
            THEN set_reg_val(r, instr.rB, get_reg_val(r, instr.rA)) ELSE r
    /\ Continue(ftpc)
    /\ UNCHANGED <<m, cc>>

Irmovq ==
    /\ Fetched({"IRMOVQ"})
    /\ r' = set_reg_val(r, instr.rB, instr.valC)
    /\ Continue(ftpc)
    /\ UNCHANGED <<m, cc>>

(* The address of rmmovq and mrmovq; without a register it is valC.        *)
Address == Wrap(instr.valC + get_reg_val(r, instr.rB))

Rmmovq ==
    /\ Fetched({"RMMOVQ"})
    /\ m' = set_word_val(m, Address, get_reg_val(r, instr.rA))
    /\ IF ValidAddr(Address) THEN Continue(ftpc) ELSE Except("ADR")
    /\ UNCHANGED <<r, cc>>

Mrmovq ==
    /\ Fetched({"MRMOVQ"})
    /\ IF ValidAddr(Address)
       THEN r' = set_reg_val(r, instr.rA, m[Address]) /\ Continue(ftpc)
       ELSE Except("ADR") /\ UNCHANGED r
    /\ UNCHANGED <<m, cc>>

(* OPq and iaddq.                                                          *)
Alu ==
    LET op   == IF instr.icode = "ALU" THEN instr.ifun ELSE "ADD"
        argA == IF instr.icode = "ALU" THEN get_reg_val(r, instr.rA) ELSE instr.valC
        argB == get_reg_val(r, instr.rB)
    IN  /\ Fetched({"ALU", "IADDQ"})
        /\ r' = set_reg_val(r, instr.rB, compute_alu(op, argA, argB))
        /\ cc' = compute_cc(op, argA, argB)
        /\ Continue(ftpc)
        /\ UNCHANGED m

Jump ==
    /\ Fetched({"JMP"})
    /\ Continue(IF cond_holds(cc, instr.ifun) THEN instr.valC ELSE ftpc)
    /\ UNCHANGED <<r, m, cc>>

(* %rsp moves before the store is tried, and stays moved when it fails.    *)
PushTo(dval, val, to) ==
    /\ r' = set_reg_val(r, RRSP, dval)
    /\ m' = set_word_val(m, dval, val)
    /\ IF ValidAddr(dval) THEN Continue(to) ELSE Except("ADR")
    /\ UNCHANGED cc

Call  == Fetched({"CALL"}) /\ PushTo(Wrap(r[RRSP] - 1), ftpc, instr.valC)
Pushq == Fetched({"PUSHQ"}) /\ PushTo(Wrap(r[RRSP] - 1), get_reg_val(r, instr.rA), ftpc)

Ret ==
    /\ Fetched({"RET"})
    /\ IF ValidAddr(r[RRSP])
       THEN r' = set_reg_val(r, RRSP, Wrap(r[RRSP] + 1)) /\ Continue(m[r[RRSP]])
       ELSE Except("ADR") /\ UNCHANGED r
    /\ UNCHANGED <<m, cc>>

(* %rsp moves first here too; popq %rsp ends with the popped value.        *)
Popq ==
    LET moved == set_reg_val(r, RRSP, Wrap(r[RRSP] + 1))
    IN  /\ Fetched({"POPQ"})
        /\ IF ValidAddr(r[RRSP])
           THEN r' = set_reg_val(moved, instr.rA, m[r[RRSP]]) /\ Continue(ftpc)
           ELSE r' = moved /\ Except("ADR")
        /\ UNCHANGED <<m, cc>>

Next == \/ BadAddress \/ Halt \/ Invalid \/ Nop
        \/ Rrmovq \/ Irmovq \/ Rmmovq \/ Mrmovq
        \/ Alu \/ Jump
        \/ Call \/ Pushq \/ Ret \/ Popq

Spec == Init /\ [][Next]_vars
=============================================================================
