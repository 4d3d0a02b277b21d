----------------------------- MODULE TshClaims -----------------------------
(***************************************************************************)
(* What the comments of tsh.c say of the shell and its code does not do.   *)
(* Each is checked in a run of its own that finds the behaviour in which   *)
(* the program departs from its comment.                                   *)
(***************************************************************************)
EXTENDS Tsh

(* "waitpid sets errno to ECHILD if there's no more zombie process"        *)
(* (tsh.c:415): after its loop the handler exits on any other errno but    *)
(* EINTR.  While other children run, waitpid returns 0 and sets nothing.   *)
HandlerAcceptsErrno == pc # "waiterror"

(* "Tried to create too many jobs" (tsh.c:611): a full list is reported    *)
(* and survived, for a background job too.                                 *)
FullListSurvived == pc # "segv"

(* "Block until process pid is no longer the foreground process"           *)
(* (tsh.c:361): fg calls waitfg with no signal blocked, so the SIGCHLD can *)
(* come between the test and sigsuspend; and if it comes before fg has     *)
(* read j->pid again, waitfg(0) never ends, for fgpid returns 0 too.       *)
WaitfgWakes ==
    (Waiting /\ fgpid(jobs) \notin PIDs) ~> (pc = "prompt" \/ Exited)
=============================================================================
