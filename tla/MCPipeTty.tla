------------------------------ MODULE MCPipeTty ------------------------------
(* psim with -t on the programs of Y86Programs.                            *)
EXTENDS PipeTty, Y86Programs
==============================================================================
