------------------------------- MODULE SeqTty -------------------------------
(* run_tty_sim of ssim.c with -t: the sequential processor is run, then    *)
(* compared with step_state.                                               *)
EXTENDS Seq, IsaCheck

tty_vars == <<vars, check_vars>>

TtyInit == Init /\ CheckInit(code, mem)

sim_run ==
    /\ phase = "run"
    /\ icount < limit /\ status = "AOK"
    /\ sim_step
    /\ icount' = icount + 1
    /\ UNCHANGED <<limit, phase, isa_vars>>

TtyNext == sim_run \/ (CheckNext(status) /\ UNCHANGED vars)
TtySpec == TtyInit /\ [][TtyNext]_tty_vars

(* "ISA Check Succeeds".                                                   *)
match == isa_r = reg /\ isa_m = mem /\ isa_cc = cc
-----------------------------------------------------------------------------
(* A program that ends by itself within the limit passes the check, and    *)
(* the check fails one that ends with a failing call, pushq or popq: all   *)
(* that the last instruction may store is stored, nothing is missing.      *)
CheckVerdict ==
    phase = "done" /\ status # "AOK" =>
        /\ e = status
        /\ match <=> ~StackFault

(* ssim that ends at its limit still has the last instruction's writes to  *)
(* make; made, they are the state after as many instructions of the set.   *)
OneLatchBehind ==
    phase = "done" /\ status = "AOK" =>
        /\ isa_r = UpdatedReg /\ isa_m = UpdatedMem
        /\ isa_cc = latch.cc_in /\ isa_pc = latch.pc_in
=============================================================================
