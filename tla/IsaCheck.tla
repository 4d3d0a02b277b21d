------------------------------ MODULE IsaCheck ------------------------------
(***************************************************************************)
(* What run_tty_sim of ssim.c and of psim.c with -t have in common: the    *)
(* processor's run up to a limit, and then step_state from a copy of the   *)
(* initial state, up to the same limit.                                    *)
(***************************************************************************)
EXTENDS Isa

CONSTANT Limits     \* what -l may give as instr_limit

ASSUME LimitsAssumption == Limits \subseteq Nat

VARIABLES
    limit,                                    \* instr_limit
    phase,                                    \* where run_tty_sim is
    icount,                                   \* of sim_run and sim_run_pipe
    isa_code, isa_pc, isa_r, isa_m, isa_cc,   \* isa_state
    e, step                                   \* of the loop over step_state

isa_state == INSTANCE Y86 WITH code <- isa_code, pc <- isa_pc, r <- isa_r, m <- isa_m,
                               cc <- isa_cc, stat <- e

isa_vars   == <<isa_code, isa_pc, isa_r, isa_m, isa_cc, e, step>>
check_vars == <<limit, phase, icount, isa_vars>>

(* With code and m in the processor's memory.                              *)
CheckInit(code, m) ==
    /\ isa_code = code /\ isa_m = m
    /\ isa_state!Init
    /\ limit \in Limits
    /\ phase = "run" /\ icount = 0 /\ step = 0

RunEnds(run_status) ==
    /\ phase = "run"
    /\ icount >= limit \/ run_status # "AOK"
    /\ phase' = "check"
    /\ UNCHANGED <<limit, icount, isa_vars>>

CheckStep ==
    /\ phase = "check" /\ step < limit
    /\ isa_state!Next
    /\ step' = step + 1
    /\ UNCHANGED <<limit, phase, icount>>

CheckEnds ==
    /\ phase = "check"
    /\ step >= limit \/ e # "AOK"
    /\ phase' = "done"
    /\ UNCHANGED <<limit, icount, isa_vars>>

CheckNext(run_status) == RunEnds(run_status) \/ CheckStep \/ CheckEnds

(* step_state has moved %rsp when its store or load fails; both processors *)
(* stop before they write it back.                                         *)
StackFault == e = "ADR" /\ ~FetchError(isa_pc)
              /\ FetchAt(isa_code, isa_pc).icode \in {"CALL", "PUSHQ", "POPQ"}
=============================================================================
