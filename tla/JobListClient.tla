--------------------------- MODULE JobListClient ---------------------------
(***************************************************************************)
(* The job list of module JobList under the calls the shell makes over a   *)
(* long session: a forked child is added, a reaped one deleted, and the    *)
(* bg and fg commands and the SIGCHLD handler set states, in any order.    *)
(***************************************************************************)
EXTENDS JobList

CONSTANT MaxJid         \* bound on the job IDs explored
ASSUME MaxJidAssumption == MaxJid \in Nat

VARIABLES jobs, nextjid
vars == <<jobs, nextjid>>

TypeOK == jobs \in [Slots -> Job] /\ nextjid \in Nat \ {0}

Init == jobs = initjobs /\ nextjid = 1

(* eval records a child it has just forked; its pid is not in the list.    *)
Add(pid, state) ==
    /\ pid \notin Listed(jobs) /\ nextjid <= MaxJid
    /\ LET r == addjob(jobs, nextjid, pid, state)
       IN  jobs' = r.jobs /\ nextjid' = r.nextjid

(* sigchld_handler forgets a child it has reaped.                          *)
Delete(pid) ==
    LET r == deletejob(jobs, nextjid, pid)
    IN  jobs' = r.jobs /\ nextjid' = r.nextjid

(* j->state = state, for the job that a command or the handler found.      *)
SetState(pid, state) ==
    /\ pid \in Listed(jobs)
    /\ jobs' = [jobs EXCEPT ![getjobpid(jobs, pid)].state = state]
    /\ UNCHANGED nextjid

Next ==
    \E pid \in PIDs :
        \/ \E state \in {"FG", "BG"} : Add(pid, state)
        \/ Delete(pid)
        \/ \E state \in {"FG", "BG", "ST"} : SetState(pid, state)

Spec == Init /\ [][Next]_vars

----------------------------------------------------------------------------
(* The array is a finite map from the listed processes to their states:    *)
(* no process takes two slots, whatever holes deletions leave behind.      *)
PidsUnique == UniquePids(jobs)

(* A step changes the state of one process at most, and a process is       *)
(* refused only when every slot is taken: addjob and deletejob, through    *)
(* first matches and holes, lose or disturb nobody else's job.             *)
StateOf(pid) ==
    IF pid \in Listed(jobs) THEN jobs[getjobpid(jobs, pid)].state ELSE "UNDEF"

OthersUndisturbed ==
    [][ /\ \A p, q \in PIDs : StateOf(p)' # StateOf(p) /\ StateOf(q)' # StateOf(q) => p = q
        /\ \A p \in PIDs, s \in {"FG", "BG"} :
              Add(p, s) /\ StateOf(p)' # s => Used(jobs) = Slots ]_vars
=============================================================================
