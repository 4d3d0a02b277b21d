------------------------------- MODULE PipeTty -------------------------------
(* run_tty_sim of psim.c with -t: the pipelined processor is run, with the *)
(* stores that the limit allows, then compared with step_state.            *)
EXTENDS PipeIsa, IsaCheck

VARIABLE instructions     \* psim's performance counter

tty_vars == <<vars, instructions, check_vars>>

(* psim has loaded its empty registers in a cycle before, and counted it:  *)
(* limit is the argument of -l less one.                                   *)
TtyInit == Init /\ instructions = 0 /\ CheckInit(code, mem)

(* How many instructions are ahead of one in memory and in execute.        *)
ahead_mem == IF W.status # "BUB" THEN 1 ELSE 0
ahead_ex  == ahead_mem + (IF do_mem_stage.status # "BUB" THEN 1 ELSE 0)

(* gen_Stat shows no bubble, so that each cycle counts in icount.          *)
sim_run_pipe ==
    /\ phase = "run"
    /\ icount < limit /\ Stat = "AOK"
    /\ sim_step_pipe(ahead_mem < limit - icount, ahead_ex < limit - icount)
    /\ icount' = icount + 1
    /\ instructions' = instructions + (IF W'.status # "BUB" THEN 1 ELSE 0)
    /\ UNCHANGED <<limit, phase, isa_vars>>

TtyNext == sim_run_pipe \/ (CheckNext(Stat) /\ UNCHANGED <<vars, instructions>>)
TtySpec == TtyInit /\ [][TtyNext]_tty_vars

(* "ISA Check Succeeds".                                                   *)
match == isa_r = reg /\ isa_m = mem /\ isa_cc = cc
-----------------------------------------------------------------------------
(* A program that ends by itself within the limit passes the check, and    *)
(* the check fails one that ends with a failing call, pushq or popq:       *)
(* nothing of an instruction behind the one that ended the run has been    *)
(* stored, and the limit has suppressed no store of one before it.         *)
CheckVerdict ==
    phase = "done" /\ Stat # "AOK" =>
        /\ e = Stat
        /\ match <=> ~StackFault
==============================================================================
