-------------------------------- MODULE Lru --------------------------------
(***************************************************************************)
(* What the cache simulator promises: the counts of a set-associative      *)
(* cache that replaces the least recently used block.  There are no lines, *)
(* tags or times here: the cache holds blocks, and of two blocks that      *)
(* share a set it knows which was used after the other.  Module Csim is    *)
(* shown to implement it.                                                  *)
(***************************************************************************)
EXTENDS Integers, FiniteSets

CONSTANTS
    Blocks,         \* the blocks of memory that a trace uses
    SetOf(_),       \* where a block goes
    Ways            \* how many blocks a set holds

VARIABLES
    held,           \* the blocks in the cache
    newer,          \* the <<x, y>> of one set with x used after y
    hits, misses, evictions

vars == <<held, newer, hits, misses, evictions>>

Init ==
    /\ held = {} /\ newer = {}
    /\ hits = 0 /\ misses = 0 /\ evictions = 0

(* n uses of block b in a row: the first may miss, the others hit.  A full *)
(* set makes room by giving up the block that it used after no other.      *)
Use(b, n) ==
    LET mates  == {x \in held : SetOf(x) = SetOf(b)}
        oldest == {x \in mates : \A y \in mates : <<x, y>> \notin newer}
        hit    == b \in held
        full   == Cardinality(mates) = Ways
        kept   == (IF ~hit /\ full THEN held \ oldest ELSE held) \ {b}
        one(P) == IF P THEN 1 ELSE 0
    IN  /\ held' = kept \cup {b}
        /\ newer' = {p \in newer : p[1] \in kept /\ p[2] \in kept}
                    \cup {<<b, x>> : x \in kept \cap mates}
        /\ hits' = hits + n - one(~hit)
        /\ misses' = misses + one(~hit)
        /\ evictions' = evictions + one(~hit /\ full)

Next == \E b \in Blocks, n \in {1, 2} : Use(b, n)

Spec == Init /\ [][Next]_vars
=============================================================================
