----------------------------- MODULE Y86Programs -----------------------------
(* Programs for TLC: a fixed prelude, then Body instructions out of Repertoire. *)
EXTENDS Isa

CONSTANTS ax, sp, none, Body, Repertoire

MCRegs == {ax, sp}

I(icode, ifun, rA, rB, valC) ==
    [icode |-> icode, ifun |-> ifun, rA |-> rA, rB |-> rB, valC |-> valC]

MCPrelude == [a \in {0} |-> I("IRMOVQ", "YES", none, sp, 1)]

(* Every kind of instruction, each memory reference through a register.    *)
Based ==
    { Plain("HALT"), Plain("NOP"), Plain("RET"), Plain("BAD"),
      I("RRMOVQ", "L", ax, sp, 0), I("IRMOVQ", "YES", none, ax, 3),
      I("RMMOVQ", "YES", ax, sp, 0), I("MRMOVQ", "YES", ax, sp, 0), I("MRMOVQ", "YES", sp, sp, 0),
      I("ALU", "SUB", ax, sp, 0), I("ALU", "XOR", sp, ax, 0),
      I("IADDQ", "YES", none, ax, -1),
      I("JMP", "L", none, none, 4), I("JMP", "NE", none, none, 2), I("CALL", "YES", none, none, 4),
      I("PUSHQ", "YES", sp, none, 0), I("POPQ", "YES", ax, none, 0), I("POPQ", "YES", sp, none, 0) }

(* Some that also name an address without a register.                      *)
Absolute ==
    { I("RMMOVQ", "YES", sp, sp, 0), I("MRMOVQ", "YES", ax, none, 1), Plain("NOP") }

(* For -l: before, while and long after such a program ends.               *)
MCLimits == {2, 4, 22}

MCPrograms == [1 .. Body -> Repertoire]
MCDatas == {[a \in 0 .. DataWords - 1 |-> IF a = 0 THEN 3 ELSE IF a = 1 THEN 2 ELSE -1]}
=============================================================================
