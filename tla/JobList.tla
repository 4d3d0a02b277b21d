------------------------------ MODULE JobList ------------------------------
(***************************************************************************)
(* The job list of the tiny shell (shell lab/tsh.c): the array jobs[], the *)
(* counter nextjid and the helper routines that read and update them.      *)
(*                                                                         *)
(* The helpers are operators on a table (and on nextjid): JobListClient    *)
(* drives them over long sessions, Tsh calls them from the shell's steps.  *)
(***************************************************************************)
EXTENDS Integers, FiniteSetsExt

CONSTANTS
    PIDs,       \* process IDs that fork() may return (all positive)
    NoPid,      \* pid 0: the free-slot marker, and "no such process"
    MAXJOBS     \* size of the array jobs[]

ASSUME NoPidAssumption == NoPid \notin PIDs
ASSUME MaxJobsAssumption == MAXJOBS \in Nat \ {0}

Slots    == 1 .. MAXJOBS
NoSlot   == 0                               \* the NULL job_t pointer
JobState == {"UNDEF", "FG", "BG", "ST"}

(* struct job_t, without the command line, which nothing decides on.       *)
Job == [pid : PIDs \cup {NoPid}, jid : Nat, state : JobState]

clearjob == [pid |-> NoPid, jid |-> 0, state |-> "UNDEF"]

initjobs == [i \in Slots |-> clearjob]

maxjid(tbl) == Max({tbl[i].jid : i \in Slots} \cup {0})

(* The loops "for (i = 0; i < MAXJOBS; i++)" act on the first match only.  *)
FirstSlot(S) == IF S = {} THEN NoSlot ELSE Min(S)

FreeSlot(tbl) == FirstSlot({i \in Slots : tbl[i].pid = NoPid})

getjobpid(tbl, pid) ==
    IF pid = NoPid THEN NoSlot ELSE FirstSlot({i \in Slots : tbl[i].pid = pid})

getjobjid(tbl, jid) ==
    IF jid < 1 THEN NoSlot ELSE FirstSlot({i \in Slots : tbl[i].jid = jid})

(* Mutant: every job that is not stopped counts as the foreground job.     *)
fgpidNotStopped(tbl) ==
    LET i == FirstSlot({k \in Slots : tbl[k].state \notin {"ST", "UNDEF"}})
    IN  IF i = NoSlot THEN NoPid ELSE tbl[i].pid

fgpid(tbl) ==
    LET i == FirstSlot({k \in Slots : tbl[k].state = "FG"})
    IN  IF i = NoSlot THEN NoPid ELSE tbl[i].pid

(* Mutants: no return after the first free slot; the slot is taken from    *)
(* the job ID.                                                             *)
addjobNoReturn(tbl, nj, pid, state) ==
    [jobs    |-> [i \in Slots |-> IF tbl[i].pid # NoPid THEN tbl[i]
                                  ELSE [pid |-> pid, jid |-> nj, state |-> state]],
     nextjid |-> IF nj + 1 > MAXJOBS THEN 1 ELSE nj + 1]

addjobByJid(tbl, nj, pid, state) ==
    [jobs    |-> [tbl EXCEPT ![nj] = [pid |-> pid, jid |-> nj, state |-> state]],
     nextjid |-> IF nj + 1 > MAXJOBS THEN 1 ELSE nj + 1]

(* addjob wraps nextjid past MAXJOBS and does nothing when jobs[] is full. *)
addjob(tbl, nj, pid, state) ==
    LET i == FreeSlot(tbl)
    IN  IF pid = NoPid \/ i = NoSlot
        THEN [jobs |-> tbl, nextjid |-> nj]
        ELSE [jobs    |-> [tbl EXCEPT ![i] = [pid |-> pid, jid |-> nj, state |-> state]],
              nextjid |-> IF nj + 1 > MAXJOBS THEN 1 ELSE nj + 1]

(* Mutant: nextjid is the largest JID in use.                              *)
deletejobNoIncrement(tbl, nj, pid) ==
    LET i   == getjobpid(tbl, pid)
        new == [tbl EXCEPT ![i] = clearjob]
    IN  IF i = NoSlot THEN [jobs |-> tbl, nextjid |-> nj]
        ELSE [jobs |-> new, nextjid |-> maxjid(new)]

(* deletejob pulls nextjid back to one past the largest JID in use.        *)
deletejob(tbl, nj, pid) ==
    LET i   == getjobpid(tbl, pid)
        new == [tbl EXCEPT ![i] = clearjob]
    IN  IF i = NoSlot
        THEN [jobs |-> tbl, nextjid |-> nj]
        ELSE [jobs |-> new, nextjid |-> maxjid(new) + 1]

(* Derived: the slots and the processes that the list records.             *)
Used(tbl)   == {i \in Slots : tbl[i].pid # NoPid}
Listed(tbl) == {tbl[i].pid : i \in Used(tbl)}

(* No process takes two slots.                                             *)
UniquePids(tbl) ==
    \A i, k \in Used(tbl) : tbl[i].pid = tbl[k].pid => i = k
=============================================================================
