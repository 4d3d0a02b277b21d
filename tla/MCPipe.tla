------------------------------- MODULE MCPipe -------------------------------
(* The pipelined processor on the programs of Y86Programs.                 *)
EXTENDS PipeIsa, Y86Programs
=============================================================================
