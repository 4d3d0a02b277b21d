-------------------------------- MODULE Csim --------------------------------
(***************************************************************************)
(* The cache simulator, cache lab/csim.c: lines with a valid bit, a tag    *)
(* and the time of their last use, and the three counters.  A step is one  *)
(* line of the trace; the trace is any sequence of loads, stores and       *)
(* modifications of the addresses Addrs.                                   *)
(***************************************************************************)
EXTENDS Integers, FiniteSetsExt

CONSTANTS
    SetBits,        \* s, set index bits
    Assoc,          \* E, lines per set
    BlockBits,      \* b, block offset bits
    WORDSIZE,       \* bits of an unsigned int (32)
    Addrs,          \* the addresses in a trace
    Leftovers,      \* what memory fresh from malloc may hold, as lines
    MaxTimer        \* bound on the length of a trace

ASSUME GeometryAssumption ==
    /\ SetBits \in Nat /\ BlockBits \in Nat /\ Assoc \in Nat \ {0} /\ WORDSIZE \in Nat
    /\ SetBits + BlockBits < WORDSIZE
ASSUME AddrsAssumption == Addrs \subseteq Nat

VARIABLES
    line,           \* cache.set[i].line[j]
    useTimer,       \* the code's timer
    hit_count, miss_count, evict_count

csimVars == <<line, useTimer, hit_count, miss_count, evict_count>>

CacheSets == 0 .. 2 ^ SetBits - 1
Lines     == 0 .. Assoc - 1
UInt      == 0 .. 2 ^ WORDSIZE - 1
CacheLine == [valid : BOOLEAN, tag : UInt, callTime : UInt]

(* main sets line 0 of every set; the others are as malloc returned them.  *)
UnusedLine == [valid |-> FALSE, tag |-> 2 ^ WORDSIZE - 1, callTime |-> 0]

CsimInit ==
    /\ line \in [CacheSets -> {c \in [Lines -> Leftovers \cup {UnusedLine}] :
                              c[0] = UnusedLine /\ \A j \in Lines \ {0} : c[j] \in Leftovers}]
    /\ useTimer = 0
    /\ hit_count = 0 /\ miss_count = 0 /\ evict_count = 0

(* strtol's result is cut to an unsigned int.                              *)
d_addr(addr)  == addr % 2 ^ WORDSIZE
FindTag(addr) == d_addr(addr) \div 2 ^ (SetBits + BlockBits)
FindSet(addr) == (d_addr(addr) % 2 ^ (SetBits + BlockBits)) \div 2 ^ BlockBits

(* Mutant: the loop stops one line early.                                  *)
HoldingOffByOne(c, tag) == {j \in Lines : j < Assoc - 1 /\ c[j].tag = tag /\ c[j].valid}

(* The loops of FindLine and IsSetFull over the lines of a set c.          *)
Holding(c, tag) == {j \in Lines : c[j].tag = tag /\ c[j].valid}
Blank(c)        == {j \in Lines : ~c[j].valid}
IsSetFull(c)    == Blank(c) = {}

(* Mutant: a hit does not count as a use.                                  *)
FindLineNoTouch(c, tag, now) == c

FindLine(c, tag, now) ==
    [j \in Lines |-> IF j \in Holding(c, tag) THEN [c[j] EXCEPT !.callTime = now] ELSE c[j]]

(* Mutant: every blank line is filled.                                     *)
StoreCacheNoBreak(c, tag, now) ==
    [j \in Lines |-> IF j \in Blank(c) THEN [valid |-> TRUE, tag |-> tag, callTime |-> now]
                     ELSE c[j]]

(* The first blank line is filled.                                         *)
StoreCache(c, tag, now) ==
    [c EXCEPT ![Min(Blank(c))] = [valid |-> TRUE, tag |-> tag, callTime |-> now]]

(* The first of the lines whose last use is the oldest.                    *)
Victim(c) == Min({j \in Lines : \A k \in Lines : c[j].callTime <= c[k].callTime})

EvictLine(c) == [c EXCEPT ![Victim(c)].valid = FALSE]

(* One use of a set: the set after it, and which of the counters it adds   *)
(* to.                                                                     *)
Access(c, tag, now) ==
    IF Holding(c, tag) # {}
    THEN [set |-> FindLine(c, tag, now), hit |-> 1, miss |-> 0, evict |-> 0]
    ELSE IF ~IsSetFull(c)
    THEN [set |-> StoreCache(c, tag, now), hit |-> 0, miss |-> 1, evict |-> 0]
    ELSE [set |-> StoreCache(EvictLine(c), tag, now), hit |-> 0, miss |-> 1, evict |-> 1]

LoadOrStore(addr) ==
    LET r == Access(line[FindSet(addr)], FindTag(addr), useTimer')
    IN  /\ useTimer < MaxTimer /\ useTimer' = useTimer + 1
        /\ line' = [line EXCEPT ![FindSet(addr)] = r.set]
        /\ hit_count' = hit_count + r.hit
        /\ miss_count' = miss_count + r.miss
        /\ evict_count' = evict_count + r.evict

(* Both uses of a modification carry the same time.                        *)
Modify(addr) ==
    LET r == Access(line[FindSet(addr)], FindTag(addr), useTimer')
        w == Access(r.set, FindTag(addr), useTimer')
    IN  /\ useTimer < MaxTimer /\ useTimer' = useTimer + 1
        /\ line' = [line EXCEPT ![FindSet(addr)] = w.set]
        /\ hit_count' = hit_count + r.hit + w.hit
        /\ miss_count' = miss_count + r.miss + w.miss
        /\ evict_count' = evict_count + r.evict + w.evict

CsimNext == \E addr \in Addrs : LoadOrStore(addr) \/ Modify(addr)

CsimSpec == CsimInit /\ [][CsimNext]_csimVars

----------------------------------------------------------------------------
CsimTypeOK ==
    /\ line \in [CacheSets -> [Lines -> CacheLine]]
    /\ useTimer \in UInt
    /\ hit_count \in Nat /\ miss_count \in Nat /\ evict_count \in Nat

ValidLines(t) == {j \in Lines : line[t][j].valid}

(* A block is in one line at most, and no two lines of a set were used at  *)
(* the same time or in the future: hits are unambiguous and so is the      *)
(* least recently used line, whatever was evicted and refilled before.     *)
LinesDistinct ==
    \A t \in CacheSets :
        /\ \A j, k \in ValidLines(t) : j # k =>
              line[t][j].tag # line[t][k].tag /\ line[t][j].callTime # line[t][k].callTime
        /\ \A j \in ValidLines(t) : line[t][j].callTime \in 1 .. useTimer

(* Every miss brings in a block, and an evicted block makes room for one:  *)
(* the counters agree with the contents, which keep their types.           *)
CountsMatchContents ==
    /\ CsimTypeOK
    /\ miss_count - evict_count = Cardinality({p \in CacheSets \X Lines : line[p[1]][p[2]].valid})

----------------------------------------------------------------------------
(* The least recently used cache of module Lru.                            *)

BlockOf(addr) == addr \div 2 ^ BlockBits
Blocks        == {BlockOf(addr) : addr \in Addrs}
SetOf(block)  == block % 2 ^ SetBits

(* The code tells addresses apart by their low bits only.                  *)
NoAliases ==
    \A x, y \in Addrs :
        d_addr(x) \div 2 ^ BlockBits = d_addr(y) \div 2 ^ BlockBits => BlockOf(x) = BlockOf(y)

(* The tag of a block, and the lines that hold it.                         *)
TagOf(block)   == (block \div 2 ^ SetBits) % 2 ^ (WORDSIZE - SetBits - BlockBits)
LinesOf(block) == Holding(line[SetOf(block)], TagOf(block))

Held == {x \in Blocks : LinesOf(x) # {}}

UsedAfter(x, y) ==
    /\ SetOf(x) = SetOf(y)
    /\ \E i \in LinesOf(x), j \in LinesOf(y) :
          line[SetOf(x)][i].callTime > line[SetOf(x)][j].callTime

LRU == INSTANCE Lru WITH
    Ways <- Assoc,
    held <- Held, newer <- {p \in Blocks \X Blocks : UsedAfter(p[1], p[2])},
    hits <- hit_count, misses <- miss_count, evictions <- evict_count

(* "We use least-recently used replacement policy to evict a line"         *)
(* (csim.c:115): each line of the trace does to contents and counters what *)
(* it does to a least recently used cache.  LRU!Spec follows; it alone     *)
(* would not say that the block used is the one the trace names.           *)
ImplementsLRU ==
    /\ LRU!Init
    /\ [][\A addr \in Addrs : /\ LoadOrStore(addr) => LRU!Use(BlockOf(addr), 1)
                              /\ Modify(addr) => LRU!Use(BlockOf(addr), 2)]_csimVars
=============================================================================
