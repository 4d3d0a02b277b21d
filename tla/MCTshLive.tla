----------------------------- MODULE MCTshLive ------------------------------
(* The shell's liveness, for TLC, in two kinds of sessions: one with two   *)
(* jobs and no key pressed, one with one job and ctrl-z.  What is left out *)
(* of a session is what a user need not do, so fairness is not touched.    *)
EXTENDS Tsh

CONSTANTS p1, p2
MCPIDs == {p1, p2}

VARIABLE session

SessionInit == Init /\ session \in {"two jobs", "keys"}
SessionNext ==
    /\ Next /\ UNCHANGED session
    /\ session = "two jobs" => pending' \cap Keys = {}
    /\ session = "keys" => proc'[p2] = "free"

SessionSpec == SessionInit /\ [][SessionNext]_<<vars, session>> /\ Fairness
=============================================================================
