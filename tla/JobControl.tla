---------------------------- MODULE JobControl ----------------------------
(***************************************************************************)
(* What the tiny shell promises about its jobs, seen from outside: the     *)
(* job states and the transitions between them that the head of tsh.c      *)
(* lists (tsh.c:28-35), plus the start, the stop of a background job and   *)
(* the end of a job.  Signals, handlers, masks and the job array are not   *)
(* visible here; module Tsh is shown to implement this one.                *)
(***************************************************************************)
EXTENDS Integers, FiniteSets

CONSTANTS PIDs, Capacity

VARIABLES
    up,         \* the shell is running
    status      \* of each child process

vars == <<up, status>>

(* A process does not exist; has been forked and has no state yet; is a    *)
(* foreground, background or stopped job; or runs without being a job.     *)
Status == {"absent", "new", "FG", "BG", "ST", "unmanaged"}
JobStatus == {"FG", "BG", "ST"}

Has(S) == {p \in PIDs : status[p] \in S}

Becomes(p, s) ==
    /\ up
    /\ status' = [status EXCEPT ![p] = s]
    /\ UNCHANGED up

Init == up = TRUE /\ status = [p \in PIDs |-> "absent"]

(* A command line starts a child; only the prompt takes command lines.     *)
Launch(p) ==
    /\ status[p] = "absent"
    /\ Has({"new", "FG"}) = {}
    /\ Becomes(p, "new")

(* The child becomes a job, if the list has room for one more.             *)
Record(p) ==
    /\ status[p] = "new"
    /\ IF Cardinality(Has(JobStatus)) < Capacity
       THEN Becomes(p, "FG") \/ Becomes(p, "BG")
       ELSE Becomes(p, "unmanaged")

(* FG -> ST by ctrl-z, BG -> ST by a signal from elsewhere.                *)
Stop(p) ==
    /\ status[p] \in {"FG", "BG"}
    /\ Becomes(p, "ST")

(* ST -> FG and BG -> FG by the fg command, ST -> BG by the bg command.    *)
Resume(p) ==
    /\ Has({"new", "FG"}) = {}
    /\ \/ status[p] \in {"ST", "BG"} /\ Becomes(p, "FG")
       \/ status[p] = "ST" /\ Becomes(p, "BG")

End(p) ==
    /\ status[p] \in JobStatus \cup {"unmanaged"}
    /\ Becomes(p, "absent")

(* The shell goes: its jobs stay as they are, a new child never gets a     *)
(* state.                                                                  *)
Exit ==
    /\ up /\ up' = FALSE
    /\ status' = [p \in PIDs |-> IF status[p] = "new" THEN "unmanaged" ELSE status[p]]

Next ==
    \/ \E p \in PIDs : Launch(p) \/ Record(p) \/ Stop(p) \/ Resume(p) \/ End(p)
    \/ Exit

Spec == Init /\ [][Next]_vars

TypeOK == up \in BOOLEAN /\ status \in [PIDs -> Status]

(* "At most 1 job can be in the FG state" (tsh.c:35), and none while a new *)
(* child has no state yet.                                                 *)
OneForeground == Cardinality(Has({"new", "FG"})) <= 1
=============================================================================
