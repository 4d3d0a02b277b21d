------------------------------ MODULE MCSeqTty ------------------------------
(* ssim with -t on the programs of Y86Programs.                            *)
EXTENDS SeqTty, Y86Programs
=============================================================================
