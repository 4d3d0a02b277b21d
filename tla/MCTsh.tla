------------------------------- MODULE MCTsh -------------------------------
(* Instances of the shell for TLC.  Only runs without a liveness property  *)
(* take the processes as interchangeable.                                  *)
EXTENDS TshClaims, TLC

CONSTANTS p1, p2, p3

MCPIDs      == {p1, p2}
MCPIDs3     == {p1, p2, p3}
MCSymmetry  == Permutations(MCPIDs)
MCSymmetry3 == Permutations(MCPIDs3)
=============================================================================
