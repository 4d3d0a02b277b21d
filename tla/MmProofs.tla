------------------------------ MODULE MmProofs ------------------------------
(***************************************************************************)
(* The malloc package under every trace of requests, for every size of the *)
(* heap and number of lists: the heap stays well formed, the free lists    *)
(* exact, and the program's blocks are its own, with what it wrote.        *)
(*                                                                         *)
(* The package sees a heap through its tags and links; the proofs see the  *)
(* blocks behind them: a set B of blocks of sizes S, those of A allocated, *)
(* those of X listed.  A heap is Heaped if its words tell these blocks,    *)
(* and Settled if, as between two requests, every free block is listed and *)
(* no two free ones are neighbours.  Each routine of mm.c has one lemma    *)
(* that says what it makes of such a heap.  The predicate before a lemma   *)
(* names its call and arguments.                                           *)
(*                                                                         *)
(* As in Mm a word is a natural number: a request or a heap beyond 32 bits *)
(* is not one that the program can be asked for.                           *)
(***************************************************************************)
EXTENDS MmDriver, FiniteSetTheorems, WellFoundedInduction, TLAPS

----------------------------------------------------------------------------
(* Numbers.                                                                *)

(* A nonempty set of naturals has a least element, and Min is it.          *)
LEMMA MinNat ==
  ASSUME NEW S, S \subseteq Nat, S # {}
  PROVE  Min(S) \in S /\ \A y \in S : Min(S) <= y
<1> DEFINE R == {ss \in Nat \X Nat : ss[1] < ss[2]}
<1>1. IsWellFoundedOn(R, Nat)
  BY NatLessThanWellFounded, Zenon DEF OpToRel
<1>2. PICK x \in S : \A y \in S : ~ (<<y, x>> \in R)
  <2> HIDE DEF R
  <2> QED  BY <1>1, WFMin, Zenon
<1>3. ASSUME NEW y \in S  PROVE x <= y
  <2>1. x \in Nat /\ y \in Nat
    OBVIOUS
  <2>2. ~ (<<y, x>> \in R)
    BY <1>2
  <2>3. ~ (y < x)
    BY <2>1, <2>2
  <2> QED  BY <2>1, <2>3
<1>4. QED  BY <1>3, Zenon DEF Min

(* Dividend, quotient and remainder.                                       *)
LEMMA DivModExist ==
  ASSUME NEW x \in Nat, NEW k \in Nat \ {0}
  PROVE  x \div k \in Nat /\ x % k \in 0 .. k - 1 /\ x = k * (x \div k) + (x % k)
OBVIOUS

----------------------------------------------------------------------------
(* Addresses, tags and writes.                                             *)

(* Multiples of 8, as block pointers and sizes are.                        *)
Al(x) == x \in Int /\ x % 8 = 0

(* Sums and differences of multiples of 8 are such; they lie 8 apart.      *)
LEMMA AlFacts ==
  /\ \A x, y : Al(x) /\ Al(y) => Al(x + y) /\ Al(x - y)
  /\ \A x, y : Al(x) /\ Al(y) /\ x < y => x + 8 <= y
  /\ \A x : Al(x) => /\ x % 4 = 0 /\ (x - 4) % 4 = 0 /\ (x + 4) % 4 = 0 /\ (x - 8) % 4 = 0
                     /\ (x + 1) % 8 = 1 /\ (x + 1) % 2 = 1 /\ x % 2 = 0
  /\ Al(0) /\ Al(8) /\ Al(16)
BY DEF Al

(* The first block behind the prologue.                                    *)
first == prologue + DSIZE

(* Where the blocks and the words of memory begin (mm_init).               *)
LEMMA Layout ==
  /\ Al(first) /\ first \in Nat /\ first >= 24 /\ first = prologue + 8
  /\ MAX_HEAP \in Nat /\ first + 16 <= MAX_HEAP
  /\ Words = {a \in first - 12 .. MAX_HEAP - 1 : a % 4 = 0}
<1>1. CLASS_SIZE \in Nat /\ CLASS_SIZE >= 1 /\ first = 4 * CLASS_SIZE + 16
  BY ClassSizeAssumption DEF first, prologue, heap_listp, WSIZE, DSIZE
<1>2. CLASS_SIZE >= 2 /\ (4 * CLASS_SIZE + 16) % 8 = 0
  <2>1. PICK k \in Nat : CLASS_SIZE = 2 * k
    BY ClassSizeAssumption
  <2>2. 4 * CLASS_SIZE + 16 = 8 * (k + 2)
    BY <2>1
  <2>3. (8 * (k + 2)) % 8 = 0
    OBVIOUS
  <2> QED
    BY <1>1, <2>1, <2>2, <2>3
<1>3. first = prologue + 8 /\ prologue \in Nat
  BY <1>1 DEF first, prologue, heap_listp, DSIZE, WSIZE
<1>4. Words = {a \in first - 12 .. MAX_HEAP - 1 : a % 4 = 0}
  <2>1. prologue - 4 = first - 12
    BY <1>3
  <2> QED
    BY <2>1 DEF Words, WSIZE
<1>5. Al(first) /\ first \in Nat /\ first >= 24
  BY <1>1, <1>2 DEF Al
<1>6. MAX_HEAP \in Nat /\ first + 16 <= MAX_HEAP
  BY <1>1, MaxHeapAssumption
<1> QED
  BY <1>3, <1>4, <1>5, <1>6

(* GET_SIZE and GET_ALLOC undo PACK, for a size that is aligned.           *)
LEMMA Packed ==
  ASSUME NEW h, NEW a, NEW n, Al(n), NEW bit \in {0, 1}, h.mem[a] = n + bit
  PROVE  GETSIZE(h, a) = n /\ GETALLOC(h, a) = bit
<1>1. CASE bit = 0
  <2>1. h.mem[a] = n
    <3>1. n + 0 = n
      BY DEF Al
    <3> QED
      BY <1>1, <3>1
  <2> QED
    BY <1>1, <2>1, AlFacts DEF Al, GETSIZE, GETALLOC, DSIZE
<1>2. CASE bit = 1
  BY <1>2, AlFacts DEF Al, GETSIZE, GETALLOC, DSIZE
<1> QED
  BY <1>1, <1>2

(* The states a heap can be in: words, list heads, mem_brk.                *)
HeapT == [mem : [Words -> Nat], free_list : [Classes -> Nat], brk : Nat]

(* PUT writes one word and nothing else.                                   *)
LEMMA PutFacts ==
  ASSUME NEW h \in HeapT, NEW a \in Words, NEW w \in Nat
  PROVE  LET t == PUT(h, a, w)
         IN  /\ t \in HeapT /\ t.free_list = h.free_list /\ t.brk = h.brk
             /\ t.mem[a] = w /\ \A x \in Words : x # a => t.mem[x] = h.mem[x]
BY DEF PUT, HeapT

----------------------------------------------------------------------------
(* Blocks side by side.                                                    *)

(* Blocks that start in B, of sizes S, fill the addresses from lo to hi.   *)
Tiles(B, S, lo, hi) ==
    /\ Al(lo) /\ Al(hi) /\ lo <= hi /\ (lo < hi => lo \in B)
    /\ \A b \in B : /\ Al(b) /\ lo <= b /\ Al(S[b]) /\ S[b] >= 16
                    /\ b + S[b] <= hi /\ b + S[b] \in B \cup {hi}
    /\ \A b, c \in B : b < c => b + S[b] <= c
    /\ \A x \in B \cup {hi} : x = lo \/ \E a \in B : a + S[a] = x

(* A single block fills its own extent.                                    *)
LEMMA TilesOne ==
  ASSUME NEW S, NEW lo, NEW hi, Al(lo), Al(hi), lo + 16 <= hi, S[lo] = hi - lo
  PROVE  Tiles({lo}, S, lo, hi)
<1>1. lo \in Int /\ hi \in Int /\ Al(hi - lo) /\ hi - lo >= 16 /\ lo + (hi - lo) = hi /\ lo < hi
  BY AlFacts DEF Al
<1> QED
  BY <1>1 DEF Tiles

(* Two blocks side by side fill the extent of both.                        *)
LEMMA TilesTwo ==
  ASSUME NEW S, NEW lo, NEW mid, NEW hi, Al(lo), Al(mid), Al(hi), lo + 16 <= mid, mid + 16 <= hi,
         S[lo] = mid - lo, S[mid] = hi - mid
  PROVE  Tiles({lo, mid}, S, lo, hi)
<1>1. /\ lo \in Int /\ hi \in Int /\ mid \in Int /\ lo < mid /\ mid < hi
      /\ Al(mid - lo) /\ mid - lo >= 16 /\ lo + (mid - lo) = mid
      /\ Al(hi - mid) /\ hi - mid >= 16 /\ mid + (hi - mid) = hi
  BY AlFacts DEF Al
<1> QED
  BY <1>1 DEF Tiles

(* One block more, at the end.                                             *)
LEMMA TilesMore ==
  ASSUME NEW B, NEW S, NEW S2, NEW lo, NEW mid, NEW hi, Tiles(B, S, lo, mid),
         Al(hi), mid + 16 <= hi, S2[mid] = hi - mid, \A b \in B : S2[b] = S[b]
  PROVE  Tiles(B \cup {mid}, S2, lo, hi) /\ mid \notin B
<1>0. /\ Al(lo) /\ Al(mid) /\ lo <= mid /\ (lo < mid => lo \in B)
      /\ \A b \in B : /\ Al(b) /\ lo <= b /\ Al(S2[b]) /\ S2[b] >= 16
                      /\ b + S2[b] <= mid /\ b + S2[b] \in B \cup {mid}
      /\ \A b, c \in B : b < c => b + S2[b] <= c
      /\ \A x \in B \cup {mid} : x = lo \/ \E a \in B : a + S2[a] = x
  <2>1. /\ Al(lo) /\ Al(mid) /\ lo <= mid /\ (lo < mid => lo \in B)
        /\ \A b \in B : /\ Al(b) /\ lo <= b /\ Al(S[b]) /\ S[b] >= 16
                        /\ b + S[b] <= mid /\ b + S[b] \in B \cup {mid}
        /\ \A b, c \in B : b < c => b + S[b] <= c
        /\ \A x \in B \cup {mid} : x = lo \/ \E a \in B : a + S[a] = x
    BY DEF Tiles
  <2> QED
    BY <2>1
<1>1. /\ lo \in Int /\ mid \in Int /\ hi \in Int /\ mid < hi /\ lo < hi
      /\ Al(hi - mid) /\ hi - mid >= 16 /\ mid + (hi - mid) = hi
  <2>1. lo \in Int /\ mid \in Int /\ hi \in Int
    BY <1>0 DEF Al
  <2>2. Al(hi - mid)
    BY <1>0, AlFacts
  <2> QED
    BY <1>0, <2>1, <2>2
<1>2. \A b \in B : b \in Int /\ S2[b] \in Int /\ b < mid /\ b + S2[b] <= hi
  BY <1>0, <1>1, SMTT(30) DEF Al
<1>3. \A b, c \in B \cup {mid} : b < c => b + S2[b] <= c
  BY <1>0, <1>1, <1>2
<1>4. lo \in B \cup {mid}
  BY <1>0, <1>1
<1>5. \A b \in B \cup {mid} : /\ Al(b) /\ lo <= b /\ Al(S2[b]) /\ S2[b] >= 16
                              /\ b + S2[b] <= hi /\ b + S2[b] \in (B \cup {mid}) \cup {hi}
  BY <1>0, <1>1, <1>2
<1>6. \A x \in (B \cup {mid}) \cup {hi} : x = lo \/ \E a \in B \cup {mid} : a + S2[a] = x
  BY <1>0, <1>1
<1> QED
  BY <1>0, <1>1, <1>2, <1>3, <1>4, <1>5, <1>6 DEF Tiles

(* Two blocks do not overlap.                                              *)
LEMMA Apart ==
  ASSUME NEW B, NEW S, NEW lo, NEW hi, Tiles(B, S, lo, hi), NEW b \in B, NEW c \in B, b # c
  PROVE  b + S[b] <= c \/ c + S[c] <= b
<1>1. b \in Int /\ c \in Int
  BY DEF Tiles, Al
<1> QED
  BY <1>1 DEF Tiles

(* Other blocks in place of those from l to r.                             *)
LEMMA TilesReplaced ==
  ASSUME NEW B, NEW S, NEW lo, NEW hi, Tiles(B, S, lo, hi),
         NEW l \in B, NEW r \in B \cup {hi}, l < r,
         NEW N, NEW S2, Tiles(N, S2, l, r),
         \A b \in B : ~(l <= b /\ b < r) => S2[b] = S[b]
  PROVE  Tiles({b \in B : ~(l <= b /\ b < r)} \cup N, S2, lo, hi)
<1> DEFINE K == {b \in B : ~(l <= b /\ b < r)}
           B2 == K \cup N
<1>0. /\ Al(lo) /\ Al(hi) /\ lo <= hi /\ (lo < hi => lo \in B)
      /\ \A b \in B : /\ Al(b) /\ lo <= b /\ Al(S[b]) /\ S[b] >= 16
                      /\ b + S[b] <= hi /\ b + S[b] \in B \cup {hi}
      /\ \A b, c \in B : b < c => b + S[b] <= c
      /\ \A x \in B \cup {hi} : x = lo \/ \E a \in B : a + S[a] = x
  BY DEF Tiles
<1>1. /\ Al(l) /\ Al(r) /\ l \in N
      /\ \A b \in N : /\ Al(b) /\ l <= b /\ Al(S2[b]) /\ S2[b] >= 16
                      /\ b + S2[b] <= r /\ b + S2[b] \in N \cup {r}
      /\ \A b, c \in N : b < c => b + S2[b] <= c
      /\ \A x \in N \cup {r} : x = l \/ \E a \in N : a + S2[a] = x
  BY DEF Tiles
<1>2. /\ lo \in Int /\ hi \in Int /\ l \in Int /\ r \in Int /\ lo <= l /\ r <= hi
      /\ \A b \in B : b \in Int /\ S[b] \in Int
      /\ \A b \in N : b \in Int /\ S2[b] \in Int
  <2>1. \A x : Al(x) => x \in Int
    BY DEF Al
  <2>2. /\ lo \in Int /\ hi \in Int /\ l \in Int /\ r \in Int
        /\ \A b \in B : b \in Int /\ S[b] \in Int
        /\ \A b \in N : b \in Int /\ S2[b] \in Int
    BY <1>0, <1>1, <2>1
  <2>3. lo <= l
    BY <1>0
  <2>4. r <= hi
    <3>1. CASE r \in B
      <4>1. 0 <= S[r] /\ r + S[r] <= hi
        BY <1>0, <2>2, <3>1
      <4> QED
        BY <2>2, <3>1, <4>1
    <3>2. CASE r = hi
      BY <2>2, <3>2
    <3> QED
      BY <3>1, <3>2
  <2> QED
    BY <2>2, <2>3, <2>4
<1>3. \A b \in K : b \in B /\ S2[b] = S[b] /\ (b + S[b] <= l \/ r <= b)
  BY <1>0, <1>2
<1>4. \A b \in N : l <= b /\ b < r /\ b + S2[b] <= r
  BY <1>1, <1>2
<1>5. \A x \in B \cup {hi} : x <= l \/ x >= r => x \in B2 \cup {hi}
  BY <1>1, <1>2
<1>6. r \in B2 \cup {hi}
  BY <1>2
<1>7. lo < hi => lo \in B2
  BY <1>0, <1>1, <1>2
<1>8. \A b \in B2 : /\ Al(b) /\ lo <= b /\ Al(S2[b]) /\ S2[b] >= 16
                    /\ b + S2[b] <= hi /\ b + S2[b] \in B2 \cup {hi}
  <2>1. ASSUME NEW b \in K
        PROVE  /\ Al(b) /\ lo <= b /\ Al(S2[b]) /\ S2[b] >= 16
               /\ b + S2[b] <= hi /\ b + S2[b] \in B2 \cup {hi}
    <3>1. b + S[b] <= l \/ b + S[b] >= r
      BY <1>0, <1>2, <1>3
    <3>2. b + S[b] \in B \cup {hi}
      BY <1>0
    <3> HIDE DEF K, B2
    <3> QED
      BY <1>0, <1>3, <1>5, <3>1, <3>2
  <2>2. ASSUME NEW b \in N
        PROVE  /\ Al(b) /\ lo <= b /\ Al(S2[b]) /\ S2[b] >= 16
               /\ b + S2[b] <= hi /\ b + S2[b] \in B2 \cup {hi}
    BY <1>1, <1>2, <1>6
  <2> QED
    BY <2>1, <2>2
<1>9. \A b, c \in B2 : b < c => b + S2[b] <= c
  <2>1. \A b, c \in K : b < c => b + S2[b] <= c
    BY <1>0, <1>3
  <2>2. \A b \in K, c \in N : b < c => b + S2[b] <= c
    BY <1>2, <1>3, <1>4
  <2>3. \A b \in N, c \in K : b < c => b + S2[b] <= c
    BY <1>0, <1>2, <1>3, <1>4
  <2> QED
    BY <1>1, <2>1, <2>2, <2>3
<1>10. \A x \in B2 \cup {hi} : x = lo \/ \E a \in B2 : a + S2[a] = x
  <2>1. r = l \/ \E a \in N : a + S2[a] = r
    BY <1>1
  <2>2. ASSUME NEW x \in B \cup {hi}, x <= l \/ x > r
        PROVE  x = lo \/ \E a \in K : a + S2[a] = x
    <3>1. CASE x = lo
      BY <3>1
    <3>2. CASE x # lo
      <4>1. PICK a \in B : a + S[a] = x
        BY <1>0, <3>2
      <4>2. a < l \/ a >= r
        <5>1. a \in Int /\ S[a] >= 16 /\ x \in Int /\ S[a] \in Int
          BY <1>0, <1>2
        <5>2. CASE x <= l
          BY <1>2, <4>1, <5>1, <5>2
        <5>3. CASE x > r
          <6>1. CASE r = hi
            BY <1>0, <1>2, <5>1, <5>3, <6>1
          <6>2. CASE r \in B
            <7>1. a < r => a + S[a] <= r
              BY <1>0, <6>2
            <7> QED
              BY <1>2, <4>1, <5>1, <5>3, <7>1
          <6> QED
            BY <6>1, <6>2
        <5> QED
          BY <2>2, <5>2, <5>3
      <4>3. a \in K
        BY <1>2, <4>2
      <4> QED
        BY <1>3, <4>1, <4>3
    <3> QED
      BY <3>1, <3>2
  <2>3. \A x \in B2 \cup {hi} : x \in N \/ x = r \/ (x \in B \cup {hi} /\ (x <= l \/ x > r))
    BY <1>2, <1>3, <1>0
  <2>4. ASSUME NEW x \in N PROVE x = lo \/ \E a \in B2 : a + S2[a] = x
    <3>1. CASE x = l
      <4>1. l = lo \/ \E a \in K : a + S2[a] = l
        BY <1>2, <2>2
      <4> QED
        BY <3>1, <4>1
    <3>2. CASE x # l
      BY <1>1, <3>2
    <3> QED
      BY <3>1, <3>2
  <2> QED
    BY <1>2, <2>1, <2>2, <2>3, <2>4
<1> HIDE DEF B2
<1>11. Tiles(B2, S2, lo, hi)
  BY <1>0, <1>7, <1>8, <1>9, <1>10 DEF Tiles
<1> QED
  BY <1>11 DEF B2

----------------------------------------------------------------------------
(* The blocks in memory.                                                   *)

(* The allocated bit of the tags of b.                                     *)
Bit(A, b) == IF b \in A THEN 1 ELSE 0

(* The memory of h holds the blocks B of sizes S, those of A allocated.    *)
Shape(h, B, S, A) ==
    /\ h \in HeapT /\ S \in [Nat -> Nat] /\ A \subseteq B
    /\ Tiles(B, S, first, h.brk) /\ h.brk <= MAX_HEAP
    /\ \A b \in B : h.mem[b - 4] = S[b] + Bit(A, b) /\ h.mem[b + S[b] - 8] = S[b] + Bit(A, b)
    /\ h.mem[h.brk - 4] = 1 /\ h.mem[first - 8] = 9 /\ h.mem[first - 12] = 9

(* Tags and links of a block are words, and blocks lie apart.              *)
LEMMA Places ==
  ASSUME NEW B, NEW S, NEW hi, S \in [Nat -> Nat], Tiles(B, S, first, hi), hi <= MAX_HEAP
  PROVE  /\ \A b \in B :
              /\ b \in Nat /\ S[b] \in Nat /\ b >= first /\ b >= 24 /\ S[b] >= 16 /\ b + S[b] <= hi
              /\ {b - 4, b, b + 4, b + S[b] - 8, b + S[b] - 4} \subseteq Words
              /\ Al(b) /\ Al(S[b]) /\ b + S[b] \in B \cup {hi}
         /\ \A b, c \in B : b = c \/ b + S[b] <= c \/ c + S[c] <= b
         /\ {first - 12, first - 8, hi - 4} \subseteq Words
         /\ hi \in Nat /\ first \in Nat /\ Al(first) /\ Al(hi) /\ first <= hi /\ MAX_HEAP \in Nat
<1>1. /\ Al(first) /\ Al(hi) /\ first <= hi
      /\ \A b \in B : /\ Al(b) /\ first <= b /\ Al(S[b]) /\ S[b] >= 16
                      /\ b + S[b] <= hi /\ b + S[b] \in B \cup {hi}
  BY DEF Tiles
<1>2. /\ first \in Nat /\ first >= 24 /\ MAX_HEAP \in Nat /\ hi \in Nat
  BY <1>1, Layout DEF Al
<1>3. ASSUME NEW x \in Int, x % 4 = 0, x >= first - 12, x < MAX_HEAP PROVE x \in Words
  BY <1>2, <1>3, Layout
<1>4. \A x : Al(x) => x \in Int /\ (x - 12) % 4 = 0 /\ (x - 8) % 4 = 0 /\ (x - 4) % 4 = 0 /\ x % 4 = 0 /\ (x + 4) % 4 = 0
  BY DEF Al
<1>5. {first - 12, first - 8, hi - 4} \subseteq Words
  BY <1>1, <1>2, <1>3, <1>4
<1>6. ASSUME NEW b \in B
      PROVE  /\ b \in Nat /\ S[b] \in Nat /\ b >= first /\ b >= 24 /\ S[b] >= 16 /\ b + S[b] <= hi
             /\ {b - 4, b, b + 4, b + S[b] - 8, b + S[b] - 4} \subseteq Words
             /\ Al(b) /\ Al(S[b]) /\ b + S[b] \in B \cup {hi}
  <2>1. b \in Nat /\ S[b] \in Nat /\ b >= first /\ b >= 24 /\ S[b] >= 16 /\ b + S[b] <= hi
    BY <1>1, <1>2, <1>4
  <2>2. Al(b + S[b])
    BY <1>1, AlFacts
  <2>3. b - 4 \in Words /\ b \in Words /\ b + 4 \in Words
    BY <1>1, <1>2, <1>3, <1>4, <2>1
  <2>4. b + S[b] - 8 \in Words /\ b + S[b] - 4 \in Words
    <3>1. b + S[b] \in Int
      BY <2>1
    <3>2. PICK e \in Int : e = b + S[b]
      BY <3>1
    <3>3. (e - 8) % 4 = 0 /\ (e - 4) % 4 = 0
      BY <1>4, <2>2, <3>2
    <3>4. e - 8 >= first /\ e <= MAX_HEAP
      BY <1>2, <2>1, <3>2
    <3>5. e - 8 \in Words /\ e - 4 \in Words
      BY <1>2, <1>3, <3>3, <3>4
    <3> QED
      BY <2>1, <3>2, <3>5
  <2> QED
    BY <1>1, <2>1, <2>3, <2>4
<1>7. \A b, c \in B : b = c \/ b + S[b] <= c \/ c + S[c] <= b
  BY Apart
<1> QED
  BY <1>1, <1>2, <1>5, <1>6, <1>7

(* What the accessors of the package find.                                 *)
LEMMA Seen ==
  ASSUME NEW h, NEW B, NEW S, NEW A, Shape(h, B, S, A)
  PROVE  /\ \A b \in B :
              /\ GETSIZE(h, HDRP(b)) = S[b] /\ GETALLOC(h, HDRP(b)) = Bit(A, b)
              /\ FTRP(h, b) = b + S[b] - 8 /\ NEXT_BLKP(h, b) = b + S[b]
              /\ GETSIZE(h, FTRP(h, b)) = S[b] /\ GETALLOC(h, FTRP(h, b)) = Bit(A, b)
              /\ PREV_BLKP(h, b + S[b]) = b
         /\ GETSIZE(h, HDRP(h.brk)) = 0 /\ GETALLOC(h, HDRP(h.brk)) = 1
         /\ GETALLOC(h, FTRP(h, PREV_BLKP(h, first))) = 1
<1>1. /\ \A b \in B : /\ b \in Nat /\ S[b] \in Nat /\ Al(S[b])
                      /\ h.mem[b - 4] = S[b] + Bit(A, b) /\ h.mem[b + S[b] - 8] = S[b] + Bit(A, b)
      /\ h.brk \in Nat /\ first \in Nat
      /\ h.mem[h.brk - 4] = 1 /\ h.mem[first - 8] = 9 /\ h.mem[first - 12] = 9
  BY Places DEF Shape
<1>2. ASSUME NEW b \in B
      PROVE  /\ GETSIZE(h, HDRP(b)) = S[b] /\ GETALLOC(h, HDRP(b)) = Bit(A, b)
             /\ FTRP(h, b) = b + S[b] - 8 /\ NEXT_BLKP(h, b) = b + S[b]
             /\ GETSIZE(h, FTRP(h, b)) = S[b] /\ GETALLOC(h, FTRP(h, b)) = Bit(A, b)
             /\ PREV_BLKP(h, b + S[b]) = b
  <2>1. Bit(A, b) \in {0, 1}
    BY DEF Bit
  <2>2. GETSIZE(h, b - 4) = S[b] /\ GETALLOC(h, b - 4) = Bit(A, b)
    BY <1>1, <2>1, Packed
  <2>3. GETSIZE(h, b + S[b] - 8) = S[b] /\ GETALLOC(h, b + S[b] - 8) = Bit(A, b)
    BY <1>1, <2>1, Packed
  <2>4. HDRP(b) = b - 4 /\ HDRP(b + S[b]) - 4 = b + S[b] - 8 /\ (b + S[b]) - S[b] = b
    BY <1>1 DEF HDRP, WSIZE
  <2>5. FTRP(h, b) = b + S[b] - 8
    BY <2>2, <2>4 DEF FTRP, WSIZE
  <2>6. PREV_BLKP(h, b + S[b]) = b
    BY <2>3, <2>4 DEF PREV_BLKP, WSIZE
  <2> QED
    BY <2>2, <2>3, <2>4, <2>5, <2>6 DEF NEXT_BLKP
<1>3. GETSIZE(h, HDRP(h.brk)) = 0 /\ GETALLOC(h, HDRP(h.brk)) = 1
  <2>1. h.mem[h.brk - 4] = 0 + 1 /\ Al(0)
    BY <1>1, AlFacts
  <2>2. HDRP(h.brk) = h.brk - 4
    BY DEF HDRP, WSIZE
  <2> QED
    BY <2>1, <2>2, Packed
<1>4. GETALLOC(h, FTRP(h, PREV_BLKP(h, first))) = 1
  <2>1. h.mem[first - 8] = 8 + 1 /\ h.mem[first - 12] = 8 + 1 /\ Al(8)
    BY <1>1, AlFacts
  <2>2. /\ GETSIZE(h, first - 8) = 8 /\ GETALLOC(h, first - 8) = 1
        /\ GETSIZE(h, first - 12) = 8
    BY <2>1, Packed
  <2>3. /\ HDRP(first) - 4 = first - 8 /\ HDRP(first - 8) = first - 12
        /\ (first - 8) + 8 - 8 = first - 8
    BY <1>1 DEF HDRP, WSIZE
  <2>4. PREV_BLKP(h, first) = first - 8
    BY <2>2, <2>3 DEF PREV_BLKP, WSIZE
  <2>5. FTRP(h, first - 8) = first - 8
    BY <2>2, <2>3 DEF FTRP, WSIZE
  <2> QED
    BY <2>2, <2>4, <2>5
<1> QED
  BY <1>2, <1>3, <1>4

(* Writing into payloads leaves the blocks as they are.                    *)
LEMMA ShapeKept ==
  ASSUME NEW h, NEW B, NEW S, NEW A, Shape(h, B, S, A), NEW t \in HeapT, t.brk = h.brk,
         \A a \in Words : \/ t.mem[a] = h.mem[a]
                          \/ \E b \in B : b <= a /\ a < b + S[b] - 8
  PROVE  Shape(t, B, S, A)
<1>0. /\ h \in HeapT /\ S \in [Nat -> Nat] /\ A \subseteq B
      /\ Tiles(B, S, first, h.brk) /\ h.brk <= MAX_HEAP
      /\ \A b \in B : h.mem[b - 4] = S[b] + Bit(A, b) /\ h.mem[b + S[b] - 8] = S[b] + Bit(A, b)
      /\ h.mem[h.brk - 4] = 1 /\ h.mem[first - 8] = 9 /\ h.mem[first - 12] = 9
  BY DEF Shape
<1>1. /\ \A b \in B :
              /\ b \in Nat /\ S[b] \in Nat /\ b >= first /\ S[b] >= 16 /\ b + S[b] <= h.brk
              /\ {b - 4, b + S[b] - 8} \subseteq Words
      /\ \A b, c \in B : b = c \/ b + S[b] <= c \/ c + S[c] <= b
      /\ {first - 12, first - 8, h.brk - 4} \subseteq Words
      /\ h.brk \in Nat /\ first \in Nat
  BY <1>0, Places
<1>2. \A b, c \in B : /\ ~(b <= c - 4 /\ c - 4 < b + S[b] - 8)
                      /\ ~(b <= c + S[c] - 8 /\ c + S[c] - 8 < b + S[b] - 8)
  BY <1>1
<1>3. \A b \in B : t.mem[b - 4] = h.mem[b - 4] /\ t.mem[b + S[b] - 8] = h.mem[b + S[b] - 8]
  BY <1>1, <1>2
<1>4. \A b \in B : /\ ~(b <= first - 12) /\ ~(b <= first - 8) /\ ~(h.brk - 4 < b + S[b] - 8)
  BY <1>1
<1>5. t.mem[h.brk - 4] = 1 /\ t.mem[first - 8] = 9 /\ t.mem[first - 12] = 9
  BY <1>0, <1>1, <1>4
<1> QED
  BY <1>0, <1>3, <1>5 DEF Shape

----------------------------------------------------------------------------
(* The free lists.                                                         *)

(* find_class returns a list that exists.                                  *)
LEMMA ClassFacts == \A n : find_class(n) \in Classes
<1>1. SUFFICES ASSUME NEW n PROVE find_class(n) \in Classes
  OBVIOUS
<1> DEFINE C == {c \in Classes : c = CLASS_SIZE - 1 \/ n <= 2 ^ (c + 1)}
<1>2. C \subseteq Nat /\ C \subseteq Classes
  BY ClassSizeAssumption DEF Classes
<1>3. CLASS_SIZE - 1 \in C
  BY ClassSizeAssumption DEF Classes
<1> HIDE DEF C
<1>4. Min(C) \in C
  BY <1>2, <1>3, MinNat
<1>5. find_class(n) = Min(C)
  BY DEF find_class, C
<1> QED
  BY <1>2, <1>4, <1>5

(* The list for blocks of the size of f.                                   *)
cls(S, f) == find_class(S[f])

(* The lists of h hold the blocks X, each on the list of its class, linked *)
(* both ways; ranks grow along the lists, which therefore do not turn.     *)
Linked(h, S, X, rank) ==
    /\ rank \in [X -> Nat]
    /\ \A c \in Classes : LET f == h.free_list[c] IN
          f # 0 => f \in X /\ cls(S, f) = c /\ h.mem[f] = 0
    /\ \A f \in X :
          /\ h.mem[f] = 0 => h.free_list[cls(S, f)] = f
          /\ h.mem[f] # 0 => LET p == h.mem[f] IN
                p \in X /\ cls(S, p) = cls(S, f) /\ h.mem[p + 4] = f /\ rank[p] < rank[f]
          /\ h.mem[f + 4] # 0 => LET n == h.mem[f + 4] IN
                n \in X /\ cls(S, n) = cls(S, f) /\ h.mem[n] = f

(* Only links of blocks of Y differ.                                       *)
OnlyLinks(h, t, Y) ==
    \A a \in Words : t.mem[a] = h.mem[a] \/ \E y \in Y : a = y \/ a = y + 4

(* The link words of blocks are distinct, and inside their payloads.       *)
LEMMA LinkPlaces ==
  ASSUME NEW h, NEW B, NEW S, NEW A, Shape(h, B, S, A)
  PROVE  \A x, y \in B : /\ x \in Nat \ {0} /\ x \in Words /\ x + 4 \in Words /\ x # y + 4
                         /\ (x + 4 = y + 4 => x = y)
                         /\ x <= x /\ x < x + S[x] - 8 /\ x <= x + 4 /\ x + 4 < x + S[x] - 8
<1>1. S \in [Nat -> Nat] /\ Tiles(B, S, first, h.brk) /\ h.brk <= MAX_HEAP
  BY DEF Shape
<1>2. /\ \A b \in B :
              /\ b \in Nat /\ S[b] \in Nat /\ b >= first /\ b >= 24 /\ S[b] >= 16 /\ b + S[b] <= h.brk
              /\ {b - 4, b, b + 4, b + S[b] - 8, b + S[b] - 4} \subseteq Words
      /\ \A b, c \in B : b = c \/ b + S[b] <= c \/ c + S[c] <= b
  BY <1>1, Places
<1> QED
  BY <1>2

(* Writing links leaves the blocks as they are.                            *)
LEMMA ShapeLinks ==
  ASSUME NEW h, NEW B, NEW S, NEW A, Shape(h, B, S, A), NEW t \in HeapT, t.brk = h.brk,
         NEW Y, Y \subseteq B, OnlyLinks(h, t, Y)
  PROVE  Shape(t, B, S, A)
<1>1. \A a \in Words : \/ t.mem[a] = h.mem[a]
                       \/ \E b \in B : b <= a /\ a < b + S[b] - 8
  BY LinkPlaces DEF OnlyLinks
<1> QED
  BY <1>1, ShapeKept

(* insert_list puts a free block into its list and keeps the others there. *)
LEMMA InsertLinked ==
  ASSUME NEW h, NEW B, NEW S, NEW A, Shape(h, B, S, A), NEW X, X \subseteq B \ A,
         NEW rank, Linked(h, S, X, rank), NEW f, f \in B \ A, f \notin X
  PROVE  LET t == insert_list(h, f)
         IN  /\ Shape(t, B, S, A) /\ t.brk = h.brk /\ OnlyLinks(h, t, X \cup {f})
             /\ \E rk : Linked(t, S, X \cup {f}, rk)
<1> DEFINE c == cls(S, f)
           next == h.free_list[c]
           h1 == [h EXCEPT !.free_list[c] = f]
           h2 == SetNext(h1, f, next)
           h3 == SetPrev(h2, f, 0)
           t == IF next = 0 THEN h3 ELSE SetPrev(h3, next, f)
           rk == [x \in X \cup {f} |-> IF x = f THEN 0 ELSE rank[x] + 1]
<1>0. h \in HeapT /\ c \in Classes /\ f \in B /\ f \notin A
  BY ClassFacts DEF Shape, cls
<1>1. \A x, y \in B : /\ x \in Nat \ {0} /\ x \in Words /\ x + 4 \in Words /\ x # y + 4
                      /\ (x + 4 = y + 4 => x = y)
  BY LinkPlaces
<1>2. insert_list(h, f) = t
  <2>1. GETALLOC(h, HDRP(f)) = 0 /\ GETSIZE(h, HDRP(f)) = S[f]
    BY <1>0, Seen DEF Bit
  <2>2. 0 # 1
    OBVIOUS
  <2> QED
    BY <2>1, <2>2 DEF insert_list, NULL, cls
<1> DEFINE L == /\ rank \in [X -> Nat]
                /\ \A d \in Classes : LET g == h.free_list[d] IN
                      g # 0 => g \in X /\ cls(S, g) = d /\ h.mem[g] = 0
                /\ \A x \in X :
                      /\ h.mem[x] = 0 => h.free_list[cls(S, x)] = x
                      /\ h.mem[x] # 0 => LET p == h.mem[x] IN
                            p \in X /\ cls(S, p) = cls(S, x) /\ h.mem[p + 4] = x /\ rank[p] < rank[x]
                      /\ h.mem[x + 4] # 0 => LET n == h.mem[x + 4] IN
                            n \in X /\ cls(S, n) = cls(S, x) /\ h.mem[n] = x
<1>3. L
  BY DEF Linked
<1>4. next \in Nat /\ (next # 0 => next \in X /\ cls(S, next) = c /\ h.mem[next] = 0)
  BY <1>0, <1>3 DEF HeapT
<1> HIDE DEF L
<1>5. /\ h1 \in HeapT /\ h1.mem = h.mem /\ h1.brk = h.brk
      /\ h1.free_list = [h.free_list EXCEPT ![c] = f]
  BY <1>0, <1>1 DEF HeapT
<1> HIDE DEF c, next, h1
<1>6. /\ h2 \in HeapT /\ h2.free_list = h1.free_list /\ h2.brk = h.brk
      /\ h2.mem[f + 4] = next /\ \A x \in Words : x # f + 4 => h2.mem[x] = h1.mem[x]
  <2>1. f + 4 \in Words /\ h1 \in HeapT /\ next \in Nat
    BY <1>0, <1>1, <1>4, <1>5
  <2>2. h2 = PUT(h1, f + 4, next)
    BY DEF SetNext, WSIZE
  <2>3. PICK a : a = f + 4
    OBVIOUS
  <2>4. LET v == PUT(h1, a, next)
        IN  /\ v \in HeapT /\ v.free_list = h1.free_list /\ v.brk = h1.brk
            /\ v.mem[a] = next /\ \A x \in Words : x # a => v.mem[x] = h1.mem[x]
    <3>1. a \in Words
      BY <2>1, <2>3
    <3> QED
      BY <2>1, <3>1, PutFacts
  <2> HIDE DEF h2
  <2> QED
    BY <1>5, <2>2, <2>3, <2>4
<1> HIDE DEF h2
<1>7. /\ h3 \in HeapT /\ h3.free_list = h1.free_list /\ h3.brk = h.brk
      /\ h3.mem[f] = 0 /\ \A x \in Words : x # f => h3.mem[x] = h2.mem[x]
  <2>1. f \in Words /\ h2 \in HeapT /\ 0 \in Nat
    BY <1>0, <1>1, <1>6
  <2>2. h3 = PUT(h2, f, 0)
    BY DEF SetPrev
  <2>3. LET v == PUT(h2, f, 0)
        IN  /\ v \in HeapT /\ v.free_list = h2.free_list /\ v.brk = h2.brk
            /\ v.mem[f] = 0 /\ \A x \in Words : x # f => v.mem[x] = h2.mem[x]
    BY <2>1, PutFacts
  <2> HIDE DEF h3
  <2> QED
    BY <1>6, <2>2, <2>3
<1> HIDE DEF h3
<1>8. /\ t \in HeapT /\ t.free_list = h1.free_list /\ t.brk = h.brk
      /\ next # 0 => t.mem[next] = f
      /\ \A x \in Words : x # next \/ next = 0 => t.mem[x] = h3.mem[x]
  <2>1. CASE next = 0
    BY <1>7, <2>1
  <2>2. CASE next # 0
    <3>1. next \in Words /\ f \in Nat
      BY <1>0, <1>1, <1>4, <2>2
    <3> QED
      BY <1>7, <2>2, <3>1, PutFacts DEF SetPrev
  <2> QED
    BY <2>1, <2>2
<1> HIDE DEF t
<1>9. /\ t.mem[f] = 0 /\ t.mem[f + 4] = next /\ (next # 0 => t.mem[next] = f)
      /\ \A x \in Words : x # f /\ x # f + 4 /\ (x # next \/ next = 0) => t.mem[x] = h.mem[x]
  BY <1>0, <1>1, <1>4, <1>5, <1>6, <1>7, <1>8
<1>10. OnlyLinks(h, t, X \cup {f})
  BY <1>4, <1>9 DEF OnlyLinks
<1>11. Shape(t, B, S, A)
  BY <1>0, <1>8, <1>10, ShapeLinks
<1>12. /\ t.free_list[c] = f /\ \A d \in Classes : d # c => t.free_list[d] = h.free_list[d]
  BY <1>0, <1>5, <1>8 DEF HeapT
<1>13. \A x \in X : x \in B /\ x # f
  OBVIOUS
<1>14. \A d \in Classes : LET g == t.free_list[d] IN
          g # 0 => g \in X \cup {f} /\ cls(S, g) = d /\ t.mem[g] = 0
  <2>1. ASSUME NEW d \in Classes, d # c, t.free_list[d] # 0
        PROVE  t.free_list[d] \in X /\ cls(S, t.free_list[d]) = d /\ t.mem[t.free_list[d]] = 0
    BY <1>0, <1>1, <1>3, <1>4, <1>9, <1>12, <1>13, <2>1 DEF L
  <2> QED
    BY <1>9, <1>12, <2>1 DEF c
<1>15. rk \in [X \cup {f} -> Nat] /\ rk[f] = 0 /\ \A x \in X : rk[x] = rank[x] + 1 /\ rank[x] \in Nat
  BY <1>3, <1>13 DEF L
<1> HIDE DEF rk
<1>16. \A x \in X \cup {f} :
          /\ t.mem[x] = 0 => t.free_list[cls(S, x)] = x
          /\ t.mem[x] # 0 => LET p == t.mem[x] IN
                p \in X \cup {f} /\ cls(S, p) = cls(S, x) /\ t.mem[p + 4] = x /\ rk[p] < rk[x]
          /\ t.mem[x + 4] # 0 => LET n == t.mem[x + 4] IN
                n \in X \cup {f} /\ cls(S, n) = cls(S, x) /\ t.mem[n] = x
  <2>1. /\ t.mem[f] = 0 => t.free_list[cls(S, f)] = f
        /\ t.mem[f + 4] # 0 => LET n == t.mem[f + 4] IN
                n \in X \cup {f} /\ cls(S, n) = cls(S, f) /\ t.mem[n] = f
    BY <1>4, <1>9, <1>12 DEF c
  <2>2. ASSUME NEW x \in X
        PROVE  /\ t.mem[x] = 0 => t.free_list[cls(S, x)] = x
               /\ t.mem[x] # 0 => LET p == t.mem[x] IN
                     p \in X \cup {f} /\ cls(S, p) = cls(S, x) /\ t.mem[p + 4] = x /\ rk[p] < rk[x]
    <3>1. CASE x = next
      <4>1. t.mem[x] = f /\ f # 0 /\ cls(S, f) = cls(S, x) /\ t.mem[f + 4] = x
        BY <1>0, <1>1, <1>4, <1>9, <1>13, <3>1 DEF c
      <4>2. rk[f] < rk[x]
        BY <1>15
      <4> QED
        BY <4>1, <4>2
    <3>2. CASE x # next
      <4>1. t.mem[x] = h.mem[x]
        BY <1>0, <1>1, <1>9, <1>13, <3>2
      <4>2. ASSUME h.mem[x] = 0 PROVE t.free_list[cls(S, x)] = x
        <5>1. h.free_list[cls(S, x)] = x
          BY <1>3, <4>2 DEF L
        <5>2. cls(S, x) # c /\ cls(S, x) \in Classes
          BY <3>2, <5>1, ClassFacts DEF next, cls
        <5> QED
          BY <1>12, <5>1, <5>2
      <4>3. ASSUME h.mem[x] # 0
            PROVE  LET p == h.mem[x] IN
                   p \in X \cup {f} /\ cls(S, p) = cls(S, x) /\ t.mem[p + 4] = x /\ rk[p] < rk[x]
        <5> DEFINE p == h.mem[x]
        <5>1. p \in X /\ cls(S, p) = cls(S, x) /\ h.mem[p + 4] = x /\ rank[p] < rank[x]
          BY <1>3, <4>3 DEF L
        <5> HIDE DEF p
        <5>2. t.mem[p + 4] = h.mem[p + 4]
          BY <1>0, <1>1, <1>4, <1>9, <1>13, <5>1
        <5>3. rk[p] < rk[x]
          BY <1>15, <5>1
        <5> QED
          BY <5>1, <5>2, <5>3 DEF p
      <4> QED
        BY <4>1, <4>2, <4>3
    <3> QED
      BY <3>1, <3>2
  <2>3. ASSUME NEW x \in X, t.mem[x + 4] # 0
        PROVE  LET n == t.mem[x + 4] IN
               n \in X \cup {f} /\ cls(S, n) = cls(S, x) /\ t.mem[n] = x
    <3>1. t.mem[x + 4] = h.mem[x + 4]
      BY <1>0, <1>1, <1>4, <1>9, <1>13
    <3> DEFINE n == h.mem[x + 4]
    <3>2. n \in X /\ cls(S, n) = cls(S, x) /\ h.mem[n] = x
      BY <1>3, <2>3, <3>1 DEF L
    <3> HIDE DEF n
    <3>3. x # 0
      BY <1>1, <1>13
    <3>4. t.mem[n] = x
      BY <1>0, <1>1, <1>4, <1>9, <1>13, <3>2, <3>3
    <3> QED
      BY <3>1, <3>2, <3>4 DEF n
  <2> QED
    BY <1>9, <2>1, <2>2, <2>3
<1>17. Linked(t, S, X \cup {f}, rk)
  BY <1>14, <1>15, <1>16, Zenon DEF Linked
<1> QED
  BY <1>2, <1>8, <1>10, <1>11, <1>17

(* A list that holds a block has a head: going back along the links from   *)
(* the block of least rank ends there.                                     *)
LEMMA HeadExists ==
  ASSUME NEW h, NEW S, NEW X, NEW rank, Linked(h, S, X, rank), NEW f \in X
  PROVE  h.free_list[cls(S, f)] \in X
<1> DEFINE F == {x \in X : cls(S, x) = cls(S, f)}
           R == {rank[x] : x \in F}
<1>1. rank \in [X -> Nat]
  BY DEF Linked
<1>2. R \subseteq Nat /\ R # {}
  BY <1>1
<1>3. Min(R) \in R /\ \A y \in R : Min(R) <= y
  <2> HIDE DEF R
  <2> QED
    BY <1>2, MinNat
<1>4. PICK x \in F : rank[x] = Min(R)
  BY <1>3
<1>5. \A y \in F : rank[x] <= rank[y]
  BY <1>3, <1>4
<1>6. CASE h.mem[x] = 0
  BY <1>4, <1>6 DEF Linked
<1>7. CASE h.mem[x] # 0
  <2>1. h.mem[x] \in F /\ rank[h.mem[x]] < rank[x]
    BY <1>4, <1>7 DEF Linked
  <2>2. rank[x] <= rank[h.mem[x]] /\ rank[x] \in Nat /\ rank[h.mem[x]] \in Nat
    BY <1>1, <1>4, <1>5, <2>1
  <2> QED
    BY <2>1, <2>2
<1> QED
  BY <1>6, <1>7

(* remove_list takes one block out of its list and keeps the others there. *)
LEMMA RemoveLinked ==
  ASSUME NEW h, NEW B, NEW S, NEW A, Shape(h, B, S, A), NEW X, X \subseteq B \ A,
         NEW rank, Linked(h, S, X, rank), NEW f \in X
  PROVE  LET t == remove_list(h, f)
         IN  /\ Shape(t, B, S, A) /\ t.brk = h.brk /\ OnlyLinks(h, t, X)
             /\ \E rk : Linked(t, S, X \ {f}, rk)
<1> DEFINE c == cls(S, f)
           prev == h.mem[f]
           next == h.mem[f + 4]
           h1 == IF prev = 0 THEN [h EXCEPT !.free_list[c] = next] ELSE SetNext(h, prev, next)
           h2 == IF next = 0 THEN h1 ELSE SetPrev(h1, next, prev)
           h3 == SetNext(h2, f, 0)
           t == SetPrev(h3, f, 0)
           rk == [x \in X \ {f} |-> rank[x]]
<1>0. h \in HeapT /\ c \in Classes /\ f \in B /\ f \notin A /\ \A x \in X : x \in B
  BY ClassFacts DEF Shape, cls
<1>1. \A x, y \in B : /\ x \in Nat \ {0} /\ x \in Words /\ x + 4 \in Words /\ x # y + 4
                      /\ (x + 4 = y + 4 => x = y)
  BY LinkPlaces
<1>2. remove_list(h, f) = t
  <2>1. GETALLOC(h, HDRP(f)) = 0 /\ GETSIZE(h, HDRP(f)) = S[f]
    BY <1>0, Seen DEF Bit
  <2>2. h.free_list[c] # 0
    BY <1>0, <1>1, HeadExists
  <2>3. 0 # 1
    OBVIOUS
  <2> QED
    BY <2>1, <2>2, <2>3 DEF remove_list, NULL, cls, LIST_PREVP, LIST_NEXTP, WSIZE
<1> DEFINE L == /\ rank \in [X -> Nat]
                /\ \A d \in Classes : LET g == h.free_list[d] IN
                      g # 0 => g \in X /\ cls(S, g) = d /\ h.mem[g] = 0
                /\ \A x \in X :
                      /\ h.mem[x] = 0 => h.free_list[cls(S, x)] = x
                      /\ h.mem[x] # 0 => LET p == h.mem[x] IN
                            p \in X /\ cls(S, p) = cls(S, x) /\ h.mem[p + 4] = x /\ rank[p] < rank[x]
                      /\ h.mem[x + 4] # 0 => LET n == h.mem[x + 4] IN
                            n \in X /\ cls(S, n) = cls(S, x) /\ h.mem[n] = x
<1>3. L
  BY DEF Linked
<1>4. /\ prev \in Nat /\ (prev = 0 => h.free_list[c] = f)
      /\ (prev # 0 => prev \in X /\ cls(S, prev) = c /\ h.mem[prev + 4] = f /\ rank[prev] < rank[f])
      /\ next \in Nat /\ (next # 0 => next \in X /\ cls(S, next) = c /\ h.mem[next] = f /\ rank[f] < rank[next])
  <2>1. prev \in Nat /\ next \in Nat
    BY <1>0, <1>1 DEF HeapT
  <2>2. f # 0
    BY <1>0, <1>1
  <2> QED
    BY <1>3, <2>1, <2>2
<1> HIDE DEF L
<1>5. \A x \in X : rank[x] \in Nat
  BY <1>3 DEF L
<1>6. prev # f /\ next # f /\ (prev # 0 /\ next # 0 => prev # next)
  BY <1>0, <1>1, <1>4, <1>5
<1> HIDE DEF c, prev, next
<1>7. /\ h1 \in HeapT /\ h1.brk = h.brk
      /\ h1.free_list = IF prev = 0 THEN [h.free_list EXCEPT ![c] = next] ELSE h.free_list
      /\ prev # 0 => h1.mem[prev + 4] = next
      /\ \A x \in Words : x # prev + 4 \/ prev = 0 => h1.mem[x] = h.mem[x]
  <2>1. CASE prev = 0
    BY <1>0, <1>4, <2>1 DEF HeapT
  <2>2. CASE prev # 0
    <3>1. prev + 4 \in Words
      BY <1>0, <1>1, <1>4, <2>2
    <3>2. h1 = PUT(h, prev + 4, next)
      BY <2>2 DEF SetNext, WSIZE
    <3> HIDE DEF h1
    <3> QED
      BY <1>0, <1>4, <2>2, <3>1, <3>2, PutFacts
  <2> QED
    BY <2>1, <2>2
<1> HIDE DEF h1
<1>8. /\ h2 \in HeapT /\ h2.brk = h.brk /\ h2.free_list = h1.free_list
      /\ next # 0 => h2.mem[next] = prev
      /\ \A x \in Words : x # next \/ next = 0 => h2.mem[x] = h1.mem[x]
  <2>1. CASE next = 0
    BY <1>7, <2>1
  <2>2. CASE next # 0
    <3>1. next \in Words
      BY <1>0, <1>1, <1>4, <2>2
    <3>2. h2 = PUT(h1, next, prev)
      BY <2>2 DEF SetPrev
    <3> HIDE DEF h2
    <3> QED
      BY <1>4, <1>7, <2>2, <3>1, <3>2, PutFacts
  <2> QED
    BY <2>1, <2>2
<1> HIDE DEF h2
<1>9. /\ h3 \in HeapT /\ h3.brk = h.brk /\ h3.free_list = h1.free_list
      /\ h3.mem[f + 4] = 0 /\ \A x \in Words : x # f + 4 => h3.mem[x] = h2.mem[x]
  <2>1. f + 4 \in Words
    BY <1>0, <1>1
  <2>2. h3 = PUT(h2, f + 4, 0)
    BY DEF SetNext, WSIZE
  <2> HIDE DEF h3
  <2> QED
    BY <1>8, <2>1, <2>2, PutFacts
<1> HIDE DEF h3
<1>10. /\ t \in HeapT /\ t.brk = h.brk /\ t.free_list = h1.free_list
       /\ t.mem[f] = 0 /\ \A x \in Words : x # f => t.mem[x] = h3.mem[x]
  <2>1. f \in Words
    BY <1>0, <1>1
  <2>2. t = PUT(h3, f, 0)
    BY DEF SetPrev
  <2> HIDE DEF t
  <2> QED
    BY <1>9, <2>1, <2>2, PutFacts
<1> HIDE DEF t
<1>11. /\ prev # 0 => t.mem[prev + 4] = next
       /\ next # 0 => t.mem[next] = prev
       /\ \A x \in Words : /\ x # f /\ x # f + 4
                           /\ (x # next \/ next = 0) /\ (x # prev + 4 \/ prev = 0)
                           => t.mem[x] = h.mem[x]
  <2>1. next # 0 => next \in B /\ next \in Words
    BY <1>0, <1>1, <1>4
  <2>2. prev # 0 => prev \in B /\ prev + 4 \in Words
    BY <1>0, <1>1, <1>4
  <2>3. next # 0 => t.mem[next] = prev
    BY <1>0, <1>1, <1>6, <1>8, <1>9, <1>10, <2>1
  <2>4. prev # 0 => t.mem[prev + 4] = next
    BY <1>0, <1>1, <1>6, <1>7, <1>8, <1>9, <1>10, <2>1, <2>2
  <2> QED
    BY <1>7, <1>8, <1>9, <1>10, <2>3, <2>4
<1>12. OnlyLinks(h, t, X)
  BY <1>4, <1>11 DEF OnlyLinks
<1>13. Shape(t, B, S, A)
  BY <1>0, <1>10, <1>12, ShapeLinks
<1>14. /\ \A d \in Classes : d # c \/ prev # 0 => t.free_list[d] = h.free_list[d]
       /\ prev = 0 => t.free_list[c] = next
  BY <1>0, <1>7, <1>10 DEF HeapT
<1>15. \A x \in X \ {f} : /\ x \in Words /\ x + 4 \in Words /\ x # 0 /\ x # f /\ x # f + 4 /\ x + 4 # f /\ x + 4 # f + 4
                          /\ (prev # 0 => x # prev + 4 /\ (x + 4 = prev + 4 => x = prev))
                          /\ (next # 0 => x + 4 # next)
  BY <1>0, <1>1, <1>4
<1>16. \A d \in Classes : LET g == t.free_list[d] IN
          g # 0 => g \in X \ {f} /\ cls(S, g) = d /\ t.mem[g] = 0
  <2>1. ASSUME NEW d \in Classes, d # c \/ prev # 0, t.free_list[d] # 0
        PROVE  LET g == t.free_list[d] IN g \in X \ {f} /\ cls(S, g) = d /\ t.mem[g] = 0
    <3> DEFINE g == h.free_list[d]
    <3>1. t.free_list[d] = g
      BY <1>14, <2>1
    <3>2. g \in X /\ cls(S, g) = d /\ h.mem[g] = 0
      BY <1>3, <2>1, <3>1 DEF L
    <3> HIDE DEF g
    <3>3. g # f
      BY <2>1, <3>2 DEF c, prev
    <3>4. g # next \/ next = 0
      BY <1>0, <1>1, <1>4, <3>2
    <3>5. t.mem[g] = 0
      BY <1>11, <1>15, <3>2, <3>3, <3>4
    <3> QED
      BY <3>1, <3>2, <3>3, <3>5
  <2>2. ASSUME prev = 0, t.free_list[c] # 0
        PROVE  LET g == t.free_list[c] IN g \in X \ {f} /\ cls(S, g) = c /\ t.mem[g] = 0
    BY <1>4, <1>6, <1>11, <1>14, <2>2
  <2> QED
    BY <2>1, <2>2
<1>17. rk \in [X \ {f} -> Nat] /\ \A x \in X \ {f} : rk[x] = rank[x]
  BY <1>5
<1> HIDE DEF rk
<1>18. \A x \in X \ {f} :
          /\ t.mem[x] = 0 => t.free_list[cls(S, x)] = x
          /\ t.mem[x] # 0 => LET p == t.mem[x] IN
                p \in X \ {f} /\ cls(S, p) = cls(S, x) /\ t.mem[p + 4] = x /\ rk[p] < rk[x]
          /\ t.mem[x + 4] # 0 => LET n == t.mem[x + 4] IN
                n \in X \ {f} /\ cls(S, n) = cls(S, x) /\ t.mem[n] = x
  <2>1. ASSUME NEW x \in X \ {f}
        PROVE  /\ t.mem[x] = 0 => t.free_list[cls(S, x)] = x
               /\ t.mem[x] # 0 => LET p == t.mem[x] IN
                     p \in X \ {f} /\ cls(S, p) = cls(S, x) /\ t.mem[p + 4] = x /\ rk[p] < rk[x]
    <3>1. CASE next # 0 /\ x = next
      <4>1. t.mem[x] = prev /\ cls(S, x) = c
        BY <1>4, <1>11, <3>1
      <4>2. prev = 0 => t.free_list[c] = x
        BY <1>14, <3>1
      <4>3. prev # 0 => /\ prev \in X \ {f} /\ cls(S, prev) = c /\ t.mem[prev + 4] = x
                        /\ rk[prev] < rk[x]
        BY <1>4, <1>5, <1>6, <1>11, <1>17, <3>1
      <4> QED
        BY <4>1, <4>2, <4>3
    <3>2. CASE next = 0 \/ x # next
      <4>1. t.mem[x] = h.mem[x]
        BY <1>11, <1>15, <3>2
      <4>2. ASSUME h.mem[x] = 0 PROVE t.free_list[cls(S, x)] = x
        <5>1. h.free_list[cls(S, x)] = x
          BY <1>3, <4>2 DEF L
        <5>2. cls(S, x) \in Classes /\ (cls(S, x) # c \/ prev # 0)
          BY <1>4, <5>1, ClassFacts DEF cls
        <5> QED
          BY <1>14, <5>1, <5>2
      <4>3. ASSUME h.mem[x] # 0
            PROVE  LET p == h.mem[x] IN
                   p \in X \ {f} /\ cls(S, p) = cls(S, x) /\ t.mem[p + 4] = x /\ rk[p] < rk[x]
        <5> DEFINE p == h.mem[x]
        <5>1. p \in X /\ cls(S, p) = cls(S, x) /\ h.mem[p + 4] = x /\ rank[p] < rank[x]
          BY <1>3, <4>3 DEF L
        <5> HIDE DEF p
        <5>2. p # f
          BY <1>15, <3>2, <5>1 DEF next
        <5>3. t.mem[p + 4] = h.mem[p + 4]
          <6>1. p + 4 # prev + 4 \/ prev = 0
            BY <1>4, <1>15, <5>1, <5>2
          <6> QED
            BY <1>11, <1>15, <5>1, <5>2, <6>1
        <5>4. rk[p] < rk[x]
          BY <1>17, <5>1, <5>2
        <5> QED
          BY <5>1, <5>2, <5>3, <5>4 DEF p
      <4> QED
        BY <4>1, <4>2, <4>3
    <3> QED
      BY <3>1, <3>2
  <2>2. ASSUME NEW x \in X \ {f}, t.mem[x + 4] # 0
        PROVE  LET n == t.mem[x + 4] IN
               n \in X \ {f} /\ cls(S, n) = cls(S, x) /\ t.mem[n] = x
    <3>1. CASE prev # 0 /\ x = prev
      BY <1>4, <1>6, <1>11, <2>2, <3>1
    <3>2. CASE prev = 0 \/ x # prev
      <4>1. t.mem[x + 4] = h.mem[x + 4]
        BY <1>11, <1>15, <3>2
      <4> DEFINE n == h.mem[x + 4]
      <4>2. n \in X /\ cls(S, n) = cls(S, x) /\ h.mem[n] = x
        BY <1>3, <2>2, <4>1 DEF L
      <4> HIDE DEF n
      <4>3. n # f
        BY <1>15, <3>2, <4>2 DEF prev
      <4>4. n # next \/ next = 0
        BY <1>4, <4>2
      <4>5. t.mem[n] = x
        BY <1>11, <1>15, <4>2, <4>3, <4>4
      <4> QED
        BY <4>1, <4>2, <4>3, <4>5 DEF n
    <3> QED
      BY <3>1, <3>2
  <2> QED
    BY <2>1, <2>2
<1>19. Linked(t, S, X \ {f}, rk)
  BY <1>16, <1>17, <1>18, Zenon DEF Linked
<1> QED
  BY <1>2, <1>10, <1>12, <1>13, <1>19

----------------------------------------------------------------------------
(* Other blocks in place of some, and what stays of the rest.              *)

(* Words of payloads of the blocks A of sizes S are the same.              *)
Kept(h, t, S, A) ==
    \A b \in A : \A a \in Words : b <= a /\ a < b + S[b] - 8 => t.mem[a] = h.mem[a]

(* A heap with blocks B of sizes S, A allocated, X listed.                 *)
Heaped(h, B, S, A, X) ==
    Shape(h, B, S, A) /\ X \subseteq B \ A /\ \E rank : Linked(h, S, X, rank)

(* The blocks outside the extent from l to r.                              *)
Others(B, l, r) == {b \in B : ~(l <= b /\ b < r)}

(* In t the blocks N, of which AN are allocated, take the place of those   *)
(* from l to r; only their tags are written.                               *)
Retiles(h, t, B, S, S2, l, r, N, AN) ==
    /\ l \in B /\ r \in B \cup {h.brk} /\ l < r
    /\ S2 \in [Nat -> Nat] /\ Tiles(N, S2, l, r) /\ AN \subseteq N
    /\ \A b \in Others(B, l, r) : S2[b] = S[b]
    /\ t \in HeapT /\ t.brk = h.brk /\ t.free_list = h.free_list
    /\ \A n \in N : t.mem[n - 4] = S2[n] + Bit(AN, n) /\ t.mem[n + S2[n] - 8] = S2[n] + Bit(AN, n)
    /\ \A a \in Words : t.mem[a] = h.mem[a] \/ \E n \in N : a = n - 4 \/ a = n + S2[n] - 8

(* Replacing blocks none of which is listed keeps the heap, its lists and  *)
(* every payload.                                                          *)
LEMMA Retiled ==
  ASSUME NEW h, NEW t, NEW B, NEW S, NEW S2, NEW A, NEW X, NEW l, NEW r, NEW N, NEW AN,
         Heaped(h, B, S, A, X), Retiles(h, t, B, S, S2, l, r, N, AN),
         X \subseteq Others(B, l, r)
  PROVE  LET B2 == Others(B, l, r) \cup N
         IN  /\ Heaped(t, B2, S2, (A \cap Others(B, l, r)) \cup AN, X)
             /\ Kept(h, t, S2, B2)
<1> DEFINE K == Others(B, l, r)
           B2 == K \cup N
           A2 == (A \cap K) \cup AN
<1>0. /\ l \in B /\ r \in B \cup {h.brk} /\ l < r
      /\ S2 \in [Nat -> Nat] /\ Tiles(N, S2, l, r) /\ AN \subseteq N
      /\ \A b \in Others(B, l, r) : S2[b] = S[b]
      /\ t \in HeapT /\ t.brk = h.brk /\ t.free_list = h.free_list
      /\ \A n \in N : t.mem[n - 4] = S2[n] + Bit(AN, n) /\ t.mem[n + S2[n] - 8] = S2[n] + Bit(AN, n)
      /\ \A a \in Words : t.mem[a] = h.mem[a] \/ \E n \in N : a = n - 4 \/ a = n + S2[n] - 8
  BY DEF Retiles
<1>1. /\ h \in HeapT /\ S \in [Nat -> Nat] /\ A \subseteq B
      /\ Tiles(B, S, first, h.brk) /\ h.brk <= MAX_HEAP
      /\ \A b \in B : h.mem[b - 4] = S[b] + Bit(A, b) /\ h.mem[b + S[b] - 8] = S[b] + Bit(A, b)
      /\ h.mem[h.brk - 4] = 1 /\ h.mem[first - 8] = 9 /\ h.mem[first - 12] = 9
      /\ X \subseteq B \ A
  BY DEF Heaped, Shape
<1>2. Tiles(B2, S2, first, h.brk)
  BY <1>0, <1>1, TilesReplaced DEF Others
<1>3. \A b \in K : b \in B /\ ~(l <= b /\ b < r) /\ S2[b] = S[b]
  BY <1>0 DEF Others
<1>4. /\ \A b \in B : /\ b \in Nat /\ S[b] \in Nat /\ b >= first /\ S[b] >= 16 /\ b + S[b] <= h.brk
                      /\ {b - 4, b + S[b] - 8} \subseteq Words
      /\ \A b, c \in B : b = c \/ b + S[b] <= c \/ c + S[c] <= b
      /\ {first - 12, first - 8, h.brk - 4} \subseteq Words
      /\ h.brk \in Nat /\ first \in Nat
  BY <1>0, <1>1, Places
<1>5. /\ \A b \in B2 : /\ b \in Nat /\ S2[b] \in Nat /\ b >= first /\ S2[b] >= 16 /\ b + S2[b] <= h.brk
      /\ \A b, c \in B2 : b = c \/ b + S2[b] <= c \/ c + S2[c] <= b
  <2> HIDE DEF B2
  <2> QED
    BY <1>0, <1>1, <1>2, Places, SMTT(30)
<1>6. \A n \in N : n \in B2 /\ l <= n /\ n < r /\ n + S2[n] <= r
  <2>1. \A n \in N : l <= n /\ n + S2[n] <= r
    BY <1>0 DEF Tiles
  <2> QED
    BY <1>0, <1>4, <1>5, <2>1
<1>7. \A b \in K : b + S[b] <= l \/ b >= r
  BY <1>0, <1>3, <1>4
<1>8. ASSUME NEW b \in K
      PROVE  t.mem[b - 4] = h.mem[b - 4] /\ t.mem[b + S[b] - 8] = h.mem[b + S[b] - 8]
  <2>1. b \in B2 /\ b \in B /\ b \notin N /\ S2[b] = S[b]
    BY <1>0, <1>3, <1>6
  <2>2. \A n \in N : n + S2[n] <= b \/ b + S[b] <= n
    BY <1>0, <1>5, <1>6, <2>1
  <2>3. \A n \in N : /\ b - 4 # n - 4 /\ b - 4 # n + S2[n] - 8
                     /\ b + S[b] - 8 # n - 4 /\ b + S[b] - 8 # n + S2[n] - 8
    BY <1>0, <1>4, <1>5, <1>6, <2>1, <2>2
  <2> QED
    BY <1>0, <1>4, <2>1, <2>3
<1>9. t.mem[h.brk - 4] = 1 /\ t.mem[first - 8] = 9 /\ t.mem[first - 12] = 9
  <2>1. \A n \in N : /\ h.brk - 4 # n - 4 /\ h.brk - 4 # n + S2[n] - 8
                     /\ first - 8 # n - 4 /\ first - 8 # n + S2[n] - 8
                     /\ first - 12 # n - 4 /\ first - 12 # n + S2[n] - 8
    <3>1. \A n \in N : /\ n \in Nat /\ S2[n] \in Nat /\ n >= first /\ S2[n] >= 16
                       /\ n + S2[n] <= h.brk
      BY <1>5, <1>6
    <3>2. h.brk \in Nat /\ first \in Nat
      BY <1>4
    <3> QED
      BY <3>1, <3>2
  <2>2. /\ t.mem[h.brk - 4] = h.mem[h.brk - 4]
        /\ t.mem[first - 8] = h.mem[first - 8] /\ t.mem[first - 12] = h.mem[first - 12]
    <3>1. {first - 12, first - 8, h.brk - 4} \subseteq Words
      BY <1>4
    <3>2. \A a \in Words : t.mem[a] = h.mem[a] \/ \E n \in N : a = n - 4 \/ a = n + S2[n] - 8
      BY <1>0
    <3> QED
      BY <2>1, <3>1, <3>2
  <2> QED
    BY <1>1, <2>2
<1>10. \A b \in B2 : t.mem[b - 4] = S2[b] + Bit(A2, b) /\ t.mem[b + S2[b] - 8] = S2[b] + Bit(A2, b)
  <2>1. \A b \in N : Bit(A2, b) = Bit(AN, b)
    BY <1>0, <1>3, <1>6 DEF Bit
  <2>2. \A b \in K : Bit(A2, b) = Bit(A, b)
    BY <1>0, <1>3, <1>6 DEF Bit
  <2>3. ASSUME NEW b \in K
        PROVE  t.mem[b - 4] = S2[b] + Bit(A2, b) /\ t.mem[b + S2[b] - 8] = S2[b] + Bit(A2, b)
    <3> HIDE DEF K, A2
    <3>1. b \in B /\ S2[b] = S[b]
      BY <1>0, <1>3
    <3> QED
      BY <1>0, <1>1, <1>8, <2>2, <3>1
  <2> HIDE DEF K, A2
  <2> QED
    BY <1>0, <2>1, <2>3
<1>11. Shape(t, B2, S2, A2)
  <2> HIDE DEF B2, A2
  <2>1. A2 \subseteq B2
    BY <1>0 DEF A2, B2
  <2> QED
    BY <1>0, <1>1, <1>2, <1>9, <1>10, <2>1 DEF Shape
<1>12. Kept(h, t, S2, B2)
  <2>1. ASSUME NEW b \in B2, NEW a \in Words, b <= a, a < b + S2[b] - 8 PROVE t.mem[a] = h.mem[a]
    <3>1. \A n \in N : n = b \/ n + S2[n] <= b \/ b + S2[b] <= n
      BY <1>0, <1>5, <1>6
    <3>2. a \in Int
      BY DEF Words
    <3>3. \A n \in N : a # n - 4 /\ a # n + S2[n] - 8
      BY <1>0, <1>5, <1>6, <2>1, <3>1, <3>2
    <3> QED
      BY <1>0, <3>3
  <2> QED
    BY <2>1 DEF Kept
<1>13. X \subseteq B2 \ A2
  BY <1>0, <1>1, <1>3, <1>6
<1>14. PICK rank : Linked(h, S, X, rank)
  BY DEF Heaped
<1>15. Linked(t, S2, X, rank)
  <2>1. \A x \in X : t.mem[x] = h.mem[x] /\ t.mem[x + 4] = h.mem[x + 4] /\ S2[x] = S[x]
    <3>1. ASSUME NEW x \in X PROVE t.mem[x] = h.mem[x] /\ t.mem[x + 4] = h.mem[x + 4] /\ S2[x] = S[x]
      <4>1. x \in B2 /\ S2[x] = S[x]
        BY <1>0, <1>3, <1>13
      <4>2. x \in Words /\ x + 4 \in Words /\ x <= x /\ x < x + S2[x] - 8 /\ x <= x + 4 /\ x + 4 < x + S2[x] - 8
        BY <4>1, <1>11, LinkPlaces
      <4> QED
        BY <1>0, <1>12, <4>1, <4>2 DEF Kept
    <3> QED
      BY <3>1
  <2>2. \A x \in X : cls(S2, x) = cls(S, x)
    BY <2>1 DEF cls
  <2> QED
    BY <1>0, <1>14, <2>1, <2>2 DEF Linked
<1> QED
  BY <1>0, <1>11, <1>12, <1>13, <1>15 DEF Heaped

(* SetTags writes the header and the footer and nothing else.              *)
LEMMA TagsSet ==
  ASSUME NEW h \in HeapT, NEW bp \in Int, NEW n \in Nat, Al(n), n >= 8, NEW bit \in {0, 1},
         bp - 4 \in Words, bp + n - 8 \in Words
  PROVE  LET t == SetTags(h, bp, n, bit)
         IN  /\ t \in HeapT /\ t.free_list = h.free_list /\ t.brk = h.brk
             /\ t.mem[bp - 4] = n + bit /\ t.mem[bp + n - 8] = n + bit
             /\ \A a \in Words : a # bp - 4 /\ a # bp + n - 8 => t.mem[a] = h.mem[a]
<1> DEFINE w == n + bit
           u == PUT(h, bp - 4, w)
           t == PUT(u, bp + n - 8, w)
<1>1. w \in Nat
  OBVIOUS
<1> HIDE DEF w
<1>2. /\ u \in HeapT /\ u.free_list = h.free_list /\ u.brk = h.brk
      /\ u.mem[bp - 4] = w /\ \A x \in Words : x # bp - 4 => u.mem[x] = h.mem[x]
  <2>1. PICK a : a = bp - 4 /\ a \in Words
    OBVIOUS
  <2>2. LET v == PUT(h, a, w)
        IN  /\ v \in HeapT /\ v.free_list = h.free_list /\ v.brk = h.brk
            /\ v.mem[a] = w /\ \A x \in Words : x # a => v.mem[x] = h.mem[x]
    <3> HIDE DEF u, t
    <3> QED
      BY <1>1, <2>1, PutFacts, SMTT(30)
  <2>3. u = PUT(h, a, w)
    BY <2>1
  <2> HIDE DEF u
  <2> QED
    BY <2>1, <2>2, <2>3
<1> HIDE DEF u
<1>3. GETSIZE(u, bp - 4) = n
  BY <1>2, Packed DEF w
<1>4. /\ t \in HeapT /\ t.free_list = u.free_list /\ t.brk = u.brk
      /\ t.mem[bp + n - 8] = w /\ \A x \in Words : x # bp + n - 8 => t.mem[x] = u.mem[x]
  BY <1>1, <1>2, PutFacts
<1>5. SetTags(h, bp, n, bit) = t
  BY <1>3 DEF SetTags, HDRP, FTRP, WSIZE, PACK, w, u
<1> HIDE DEF t
<1>6. bp - 4 # bp + n - 8
  OBVIOUS
<1> QED
  BY <1>2, <1>4, <1>5, <1>6 DEF w

(* Writing links of free blocks keeps the payloads of allocated ones.      *)
LEMMA LinksKeep ==
  ASSUME NEW h, NEW B, NEW S, NEW A, Shape(h, B, S, A), NEW t,
         NEW Y, Y \subseteq B \ A, OnlyLinks(h, t, Y)
  PROVE  Kept(h, t, S, A)
<1>1. /\ \A b \in B : b \in Nat /\ S[b] \in Nat /\ S[b] >= 16
      /\ \A b, c \in B : b = c \/ b + S[b] <= c \/ c + S[c] <= b
      /\ A \subseteq B
  BY Places DEF Shape
<1>2. ASSUME NEW b \in A, NEW a \in Words, b <= a, a < b + S[b] - 8 PROVE t.mem[a] = h.mem[a]
  <2>1. \A y \in Y : y \in B /\ y # b
    OBVIOUS
  <2>2. \A y \in Y : y + S[y] <= b \/ b + S[b] <= y
    BY <1>1, <2>1
  <2>3. a \in Int
    BY DEF Words
  <2>4. \A y \in Y : a # y /\ a # y + 4
    BY <1>1, <1>2, <2>1, <2>2, <2>3
  <2> QED
    BY <2>4 DEF OnlyLinks
<1> QED
  BY <1>2 DEF Kept

(* What insert_list makes of a heap.                                       *)
LEMMA InsertHeaped ==
  ASSUME NEW h, NEW B, NEW S, NEW A, NEW X, Heaped(h, B, S, A, X), NEW f \in B \ A, f \notin X
  PROVE  LET t == insert_list(h, f)
         IN  Heaped(t, B, S, A, X \cup {f}) /\ t.brk = h.brk /\ Kept(h, t, S, A)
<1> DEFINE t == insert_list(h, f)
<1>1. PICK rank : Shape(h, B, S, A) /\ X \subseteq B \ A /\ Linked(h, S, X, rank)
  BY DEF Heaped
<1>2. /\ Shape(t, B, S, A) /\ t.brk = h.brk /\ OnlyLinks(h, t, X \cup {f})
      /\ \E rk : Linked(t, S, X \cup {f}, rk)
  BY <1>1, InsertLinked
<1> HIDE DEF t
<1>3. Kept(h, t, S, A)
  BY <1>1, <1>2, LinksKeep
<1>4. Heaped(t, B, S, A, X \cup {f})
  BY <1>1, <1>2 DEF Heaped
<1> QED
  BY <1>2, <1>3, <1>4 DEF t

(* What remove_list makes of a heap.                                       *)
LEMMA RemoveHeaped ==
  ASSUME NEW h, NEW B, NEW S, NEW A, NEW X, Heaped(h, B, S, A, X), NEW f \in X
  PROVE  LET t == remove_list(h, f)
         IN  Heaped(t, B, S, A, X \ {f}) /\ t.brk = h.brk /\ Kept(h, t, S, A)
<1> DEFINE t == remove_list(h, f)
<1>1. PICK rank : Shape(h, B, S, A) /\ X \subseteq B \ A /\ Linked(h, S, X, rank)
  BY DEF Heaped
<1>2. /\ Shape(t, B, S, A) /\ t.brk = h.brk /\ OnlyLinks(h, t, X)
      /\ \E rk : Linked(t, S, X \ {f}, rk)
  BY <1>1, RemoveLinked
<1> HIDE DEF t
<1>3. Kept(h, t, S, A)
  BY <1>1, <1>2, LinksKeep
<1>4. Heaped(t, B, S, A, X \ {f})
  BY <1>1, <1>2 DEF Heaped
<1> QED
  BY <1>2, <1>3, <1>4 DEF t

(* What Places says of a heap.                                             *)
LEMMA HeapPlaces ==
  ASSUME NEW h, NEW B, NEW S, NEW A, NEW X, Heaped(h, B, S, A, X)
  PROVE  /\ \A b \in B :
              /\ b \in Nat /\ S[b] \in Nat /\ b >= first /\ b >= 24 /\ S[b] >= 16 /\ b + S[b] <= h.brk
              /\ {b - 4, b, b + 4, b + S[b] - 8, b + S[b] - 4} \subseteq Words
              /\ Al(b) /\ Al(S[b]) /\ b + S[b] \in B \cup {h.brk}
         /\ \A b, c \in B : b = c \/ b + S[b] <= c \/ c + S[c] <= b
         /\ {first - 12, first - 8, h.brk - 4} \subseteq Words
         /\ h.brk \in Nat /\ first \in Nat /\ Al(first) /\ Al(h.brk) /\ first <= h.brk /\ MAX_HEAP \in Nat
         /\ h \in HeapT /\ S \in [Nat -> Nat] /\ A \subseteq B /\ X \subseteq B \ A /\ h.brk <= MAX_HEAP
<1>1. S \in [Nat -> Nat] /\ Tiles(B, S, first, h.brk) /\ h.brk <= MAX_HEAP
  BY DEF Heaped, Shape
<1>2. h \in HeapT /\ A \subseteq B /\ X \subseteq B \ A
  BY DEF Heaped, Shape
<1>3. h.brk <= MAX_HEAP /\ h.brk = h.brk
  BY <1>1
<1> DEFINE hi == h.brk
<1>4. Tiles(B, S, first, hi) /\ hi <= MAX_HEAP /\ S \in [Nat -> Nat]
  BY <1>1
<1> HIDE DEF hi
<1>5. /\ \A b \in B :
              /\ b \in Nat /\ S[b] \in Nat /\ b >= first /\ b >= 24 /\ S[b] >= 16 /\ b + S[b] <= hi
              /\ {b - 4, b, b + 4, b + S[b] - 8, b + S[b] - 4} \subseteq Words
              /\ Al(b) /\ Al(S[b]) /\ b + S[b] \in B \cup {hi}
      /\ \A b, c \in B : b = c \/ b + S[b] <= c \/ c + S[c] <= b
      /\ {first - 12, first - 8, hi - 4} \subseteq Words
      /\ hi \in Nat /\ first \in Nat /\ Al(first) /\ Al(hi) /\ first <= hi /\ MAX_HEAP \in Nat
  BY <1>4, Places
<1> QED
  BY <1>1, <1>2, <1>5 DEF hi

(* The blocks from l to r become one, of n bytes.                          *)
Retags(h, t, B, S, A, l, r, n, bit, B2, S2, A2) ==
    /\ l \in B /\ r \in B \cup {h.brk} /\ n \in Nat /\ n > 0 /\ r = l + n /\ bit \in {0, 1}
    /\ t = SetTags(h, l, n, bit)
    /\ B2 = Others(B, l, r) \cup {l}
    /\ S2 = [S EXCEPT ![l] = n]
    /\ A2 = (A \cap Others(B, l, r)) \cup {x \in {l} : bit = 1}

(* One tag pair turns the blocks from l to r into one block.               *)
LEMMA Retagged ==
  ASSUME NEW h, NEW t, NEW B, NEW S, NEW A, NEW X, NEW l, NEW r, NEW n, NEW bit,
         NEW B2, NEW S2, NEW A2, Heaped(h, B, S, A, X), X \subseteq Others(B, l, r),
         Retags(h, t, B, S, A, l, r, n, bit, B2, S2, A2)
  PROVE  Heaped(t, B2, S2, A2, X) /\ t.brk = h.brk /\ Kept(h, t, S2, B2)
<1> DEFINE AN == {x \in {l} : bit = 1}
<1>0. /\ l \in B /\ r \in B \cup {h.brk} /\ n \in Nat /\ n > 0 /\ r = l + n /\ bit \in {0, 1}
      /\ t = SetTags(h, l, n, bit)
      /\ B2 = Others(B, l, r) \cup {l}
      /\ S2 = [S EXCEPT ![l] = n]
      /\ A2 = (A \cap Others(B, l, r)) \cup AN
  BY DEF Retags
<1>1. /\ l \in Nat /\ S[l] \in Nat /\ S[l] >= 16 /\ Al(l) /\ l - 4 \in Words
      /\ l >= first /\ first \in Nat /\ l + S[l] <= h.brk
      /\ h \in HeapT /\ S \in [Nat -> Nat]
      /\ h.brk \in Nat /\ MAX_HEAP \in Nat /\ h.brk <= MAX_HEAP /\ Al(h.brk)
  BY <1>0, HeapPlaces
<1>2. r \in Nat /\ l < r
  BY <1>0, <1>1
<1>3. Al(r) /\ l + S[l] <= r /\ r <= h.brk
  <2>1. CASE r \in B
    <3>1. /\ Al(r) /\ S[r] \in Nat /\ S[r] >= 16 /\ r + S[r] <= h.brk
          /\ l = r \/ l + S[l] <= r \/ r + S[r] <= l
      BY <1>0, <2>1, HeapPlaces
    <3> QED
      BY <1>0, <1>1, <1>2, <3>1
  <2>2. CASE r = h.brk
    BY <1>0, <1>1, <2>2
  <2> QED
    BY <1>0, <2>1, <2>2
<1>4. r - 8 \in Words
  <2>1. (r - 8) % 4 = 0
    BY <1>0, <1>3 DEF Al
  <2>2. r - 8 \in Int /\ first - 12 <= r - 8 /\ r - 8 < MAX_HEAP
    BY <1>0, <1>1, <1>2, <1>3
  <2> QED
    BY <1>0, <1>1, <2>1, <2>2, Layout
<1>5. Al(n) /\ n >= 16 /\ l + 16 <= r /\ r - l = n /\ l + n - 8 = r - 8
  <2>1. r - l = n /\ l + n - 8 = r - 8
    BY <1>0, <1>1
  <2>2. Al(r - l)
    BY <1>0, <1>1, <1>3, AlFacts
  <2> QED
    BY <1>0, <1>1, <1>2, <1>3, <2>1, <2>2
<1>6. S2 \in [Nat -> Nat] /\ S2[l] = n /\ \A b \in Nat : b # l => S2[b] = S[b]
  BY <1>0, <1>1
<1>7. /\ t \in HeapT /\ t.free_list = h.free_list /\ t.brk = h.brk
      /\ t.mem[l - 4] = n + bit /\ t.mem[l + n - 8] = n + bit
      /\ \A a \in Words : a # l - 4 /\ a # l + n - 8 => t.mem[a] = h.mem[a]
  <2>1. l + n - 8 \in Words /\ l \in Int
    BY <1>0, <1>1, <1>4, <1>5
  <2> QED
    BY <1>0, <1>1, <1>5, <2>1, TagsSet
<1>8. Tiles({l}, S2, l, r)
  BY <1>0, <1>1, <1>3, <1>5, <1>6, TilesOne
<1>9. \A b \in Others(B, l, r) : S2[b] = S[b]
  <2>1. \A b \in B : b \in Nat
    BY <1>0, HeapPlaces
  <2> QED
    BY <1>0, <1>1, <1>2, <1>6, <2>1 DEF Others
<1>10. AN \subseteq {l} /\ Bit(AN, l) = bit
  BY <1>0 DEF Bit
<1> HIDE DEF AN
<1> DEFINE N == {l}
<1>11. \A x \in N : t.mem[x - 4] = S2[x] + Bit(AN, x) /\ t.mem[x + S2[x] - 8] = S2[x] + Bit(AN, x)
  BY <1>0, <1>6, <1>7, <1>10
<1>12. \A a \in Words : t.mem[a] = h.mem[a] \/ \E x \in N : a = x - 4 \/ a = x + S2[x] - 8
  BY <1>0, <1>6, <1>7
<1>13. Tiles(N, S2, l, r) /\ AN \subseteq N
  BY <1>0, <1>8, <1>10
<1> HIDE DEF N
<1>14. Retiles(h, t, B, S, S2, l, r, N, AN)
  BY <1>0, <1>2, <1>6, <1>7, <1>9, <1>11, <1>12, <1>13 DEF Retiles
<1>15. LET BN == Others(B, l, r) \cup N
       IN  /\ Heaped(t, BN, S2, (A \cap Others(B, l, r)) \cup AN, X)
           /\ Kept(h, t, S2, BN)
  BY <1>14, Retiled
<1> QED
  BY <1>0, <1>7, <1>15 DEF N

(* Below an aligned address there is room for two tags.                    *)
LEMMA AlWords ==
  ASSUME NEW x, Al(x), first <= x, x <= MAX_HEAP
  PROVE  x - 4 \in Words /\ x - 8 \in Words /\ x \in Nat
<1>1. x \in Int /\ x % 8 = 0 /\ first \in Nat /\ MAX_HEAP \in Nat
  BY Layout DEF Al
<1>2. (x - 4) % 4 = 0 /\ (x - 8) % 4 = 0
  BY <1>1
<1>3. /\ x - 4 \in Int /\ first - 12 <= x - 4 /\ x - 4 < MAX_HEAP
      /\ x - 8 \in Int /\ first - 12 <= x - 8 /\ x - 8 < MAX_HEAP
  BY <1>1
<1> QED
  BY <1>1, <1>2, <1>3, Layout

(* Where the extent of some neighbouring blocks lies.                      *)
LEMMA Ends ==
  ASSUME NEW h, NEW B, NEW S, NEW A, NEW X, Heaped(h, B, S, A, X),
         NEW l \in B, NEW r \in B \cup {h.brk}, l < r
  PROVE  /\ l \in Nat /\ r \in Nat /\ Al(l) /\ Al(r) /\ first <= l /\ l + S[l] <= r /\ r <= h.brk
         /\ h.brk \in Nat /\ h.brk <= MAX_HEAP /\ MAX_HEAP \in Nat /\ first \in Nat
         /\ h \in HeapT /\ S \in [Nat -> Nat] /\ S[l] \in Nat
<1>1. /\ l \in Nat /\ S[l] \in Nat /\ S[l] >= 16 /\ Al(l)
      /\ l >= first /\ first \in Nat /\ l + S[l] <= h.brk
      /\ h \in HeapT /\ S \in [Nat -> Nat]
      /\ h.brk \in Nat /\ MAX_HEAP \in Nat /\ h.brk <= MAX_HEAP /\ Al(h.brk)
  BY HeapPlaces
<1>2. CASE r \in B
  <2>1. /\ r \in Nat /\ Al(r) /\ S[r] \in Nat /\ S[r] >= 16 /\ r + S[r] <= h.brk
        /\ l = r \/ l + S[l] <= r \/ r + S[r] <= l
    BY <1>2, HeapPlaces
  <2> QED
    BY <1>1, <2>1
<1>3. CASE r = h.brk
  BY <1>1, <1>3
<1> QED
  BY <1>2, <1>3

(* The blocks from l to r become an allocated one and a free one, at m.    *)
Splits(h, t, B, S, A, l, r, size, asize, m, B2, S2, A2) ==
    /\ l \in B /\ r \in B \cup {h.brk} /\ size \in Nat /\ r = l + size
    /\ asize \in Nat /\ Al(asize) /\ asize >= 16 /\ m = l + asize /\ LeavesBlock(size, asize)
    /\ t = Split(h, l, size, asize)
    /\ B2 = Others(B, l, r) \cup {l, m}
    /\ S2 = [S EXCEPT ![l] = asize, ![m] = size - asize]
    /\ A2 = (A \cap Others(B, l, r)) \cup {l}

(* Split turns the blocks from l to r into an allocated and a free one.    *)
LEMMA SplitInTwo ==
  ASSUME NEW h, NEW t, NEW B, NEW S, NEW A, NEW X, NEW l, NEW r, NEW size, NEW asize, NEW m,
         NEW B2, NEW S2, NEW A2, Heaped(h, B, S, A, X), X \subseteq Others(B, l, r),
         Splits(h, t, B, S, A, l, r, size, asize, m, B2, S2, A2)
  PROVE  Heaped(t, B2, S2, A2, X) /\ t.brk = h.brk /\ Kept(h, t, S2, B2)
<1> DEFINE rest == size - asize
           t1 == SetTags(h, l, asize, 1)
           N  == {l, m}
<1>00. /\ l \in B /\ r \in B \cup {h.brk} /\ size \in Nat /\ r = l + size
       /\ asize \in Nat /\ Al(asize) /\ asize >= 16 /\ m = l + asize /\ LeavesBlock(size, asize)
       /\ B2 = Others(B, l, r) \cup N
       /\ S2 = [S EXCEPT ![l] = asize, ![m] = rest]
       /\ A2 = (A \cap Others(B, l, r)) \cup {l}
  BY DEF Splits
<1>01. t = SetTags(t1, m, rest, 0)
  BY <1>00 DEF Split, Splits
<1>0. size - asize >= 16
  BY <1>00 DEF LeavesBlock, DSIZE
<1>1. /\ l \in Nat /\ Al(l) /\ first <= l /\ first \in Nat
      /\ h \in HeapT /\ S \in [Nat -> Nat] /\ MAX_HEAP \in Nat
  BY <1>00, HeapPlaces
<1>2. r \in Nat /\ l < r /\ m \in Nat /\ l + 16 <= m /\ m + 16 <= r /\ r - m = rest /\ m - l = asize /\ rest \in Nat /\ rest >= 16
  BY <1>00, <1>0, <1>1
<1>3. /\ Al(r) /\ r <= h.brk /\ h.brk <= MAX_HEAP /\ h.brk \in Nat
  BY <1>00, <1>2, Ends
<1>4. Al(m) /\ Al(rest)
  BY <1>00, <1>1, <1>2, <1>3, AlFacts
<1> HIDE DEF rest
<1>5. /\ l - 4 \in Words /\ m - 8 \in Words /\ m - 4 \in Words /\ r - 8 \in Words
      /\ l + asize - 8 = m - 8 /\ m + rest - 8 = r - 8
  <2>1. first <= m /\ m <= MAX_HEAP /\ l <= MAX_HEAP /\ r <= MAX_HEAP /\ first <= r
    BY <1>00, <1>1, <1>2, <1>3
  <2>2. l + asize - 8 = m - 8 /\ m + rest - 8 = r - 8
    BY <1>00, <1>1, <1>2
  <2> QED
    BY <1>00, <1>1, <1>3, <1>4, <2>1, <2>2, AlWords
<1>6. /\ t1 \in HeapT /\ t1.free_list = h.free_list /\ t1.brk = h.brk
      /\ t1.mem[l - 4] = asize + 1 /\ t1.mem[m - 8] = asize + 1
      /\ \A a \in Words : a # l - 4 /\ a # m - 8 => t1.mem[a] = h.mem[a]
  <2>1. l \in Int /\ l + asize - 8 \in Words /\ 1 \in {0, 1}
    BY <1>00, <1>1, <1>5
  <2> QED
    BY <1>00, <1>1, <1>5, <2>1, TagsSet
<1> HIDE DEF t1
<1>7. /\ t \in HeapT /\ t.free_list = t1.free_list /\ t.brk = t1.brk
      /\ t.mem[m - 4] = rest + 0 /\ t.mem[r - 8] = rest + 0
      /\ \A a \in Words : a # m - 4 /\ a # r - 8 => t.mem[a] = t1.mem[a]
  <2>1. m \in Int /\ m + rest - 8 \in Words /\ 0 \in {0, 1}
    BY <1>00, <1>2, <1>5
  <2> QED
    BY <1>00, <1>2, <1>4, <1>5, <1>6, <1>01, <2>1, TagsSet
<1>8. S2 \in [Nat -> Nat] /\ S2[l] = asize /\ S2[m] = rest /\ \A b \in Nat : b # l /\ b # m => S2[b] = S[b]
  <2>1. l # m
    BY <1>00, <1>1
  <2> QED
    BY <1>00, <1>1, <1>2, <2>1
<1>9. Tiles(N, S2, l, r)
  <2>1. S2[l] = m - l /\ S2[m] = r - m
    BY <1>2, <1>8
  <2> QED
    BY <1>1, <1>2, <1>3, <1>4, <2>1, TilesTwo
<1>10. \A b \in Others(B, l, r) : S2[b] = S[b]
  <2>1. \A b \in B : b \in Nat
    BY <1>00, HeapPlaces
  <2> QED
    BY <1>00, <1>1, <1>2, <1>8, <2>1 DEF Others
<1> DEFINE AN == {l}
<1>11. AN \subseteq N /\ Bit(AN, l) = 1 /\ Bit(AN, m) = 0
  BY <1>00, <1>1, <1>2 DEF Bit
<1> HIDE DEF AN
<1>12. t.mem[l - 4] = asize + 1 /\ t.mem[m - 8] = asize + 1
  <2>1. l - 4 # m - 4 /\ l - 4 # r - 8 /\ m - 8 # m - 4 /\ m - 8 # r - 8
    BY <1>00, <1>1, <1>2
  <2> QED
    BY <1>00, <1>5, <1>6, <1>7, <2>1
<1>13. \A x \in N : t.mem[x - 4] = S2[x] + Bit(AN, x) /\ t.mem[x + S2[x] - 8] = S2[x] + Bit(AN, x)
  <2>1. l + S2[l] - 8 = m - 8 /\ m + S2[m] - 8 = r - 8
    BY <1>00, <1>5, <1>8
  <2> QED
    BY <1>7, <1>8, <1>11, <1>12, <2>1
<1>14. \A a \in Words : t.mem[a] = h.mem[a] \/ \E x \in N : a = x - 4 \/ a = x + S2[x] - 8
  <2>1. l + S2[l] - 8 = m - 8 /\ m + S2[m] - 8 = r - 8
    BY <1>00, <1>5, <1>8
  <2> QED
    BY <1>00, <1>6, <1>7, <2>1
<1> HIDE DEF N
<1>15. Retiles(h, t, B, S, S2, l, r, N, AN)
  BY <1>00, <1>2, <1>6, <1>7, <1>8, <1>9, <1>10, <1>11, <1>13, <1>14 DEF Retiles
<1>16. LET BN == Others(B, l, r) \cup N
       IN  /\ Heaped(t, BN, S2, (A \cap Others(B, l, r)) \cup AN, X)
           /\ Kept(h, t, S2, BN)
  BY <1>15, Retiled
<1> QED
  BY <1>00, <1>6, <1>7, <1>16 DEF AN

(* The heap grows by a block, which is free and not listed yet.            *)
Extends(h, t, B, S, n, b, e, B2, S2) ==
    /\ n \in Nat /\ Al(n) /\ n >= 16 /\ b = h.brk /\ e = b + n /\ e <= MAX_HEAP
    /\ t = LET t1 == SetTags([h EXCEPT !.brk = @ + n], b, n, 0)
           IN  PUT(t1, HDRP(NEXT_BLKP(t1, b)), PACK(0, 1))
    /\ B2 = B \cup {b}
    /\ S2 = [S EXCEPT ![b] = n]

(* Moving mem_brk, the tags of the new block and a new epilogue add a block*)
(* at the end (extend_heap, before it coalesces).                          *)
LEMMA Extended ==
  ASSUME NEW h, NEW t, NEW B, NEW S, NEW A, NEW X, NEW n, NEW b, NEW e, NEW B2, NEW S2,
         Heaped(h, B, S, A, X), Extends(h, t, B, S, n, b, e, B2, S2)
  PROVE  Heaped(t, B2, S2, A, X) /\ b \notin B /\ t.brk = e /\ Kept(h, t, S, A)
<1> DEFINE g  == [h EXCEPT !.brk = @ + n]
           t1 == SetTags(g, b, n, 0)
<1>0. /\ n \in Nat /\ Al(n) /\ n >= 16 /\ b = h.brk /\ e = b + n /\ e <= MAX_HEAP
      /\ B2 = B \cup {b} /\ S2 = [S EXCEPT ![b] = n]
  BY DEF Extends
<1>00. t = PUT(t1, HDRP(NEXT_BLKP(t1, b)), PACK(0, 1))
  BY DEF Extends
<1>1. /\ h \in HeapT /\ S \in [Nat -> Nat] /\ A \subseteq B
      /\ Tiles(B, S, first, b) /\ b <= MAX_HEAP
      /\ \A x \in B : h.mem[x - 4] = S[x] + Bit(A, x) /\ h.mem[x + S[x] - 8] = S[x] + Bit(A, x)
      /\ h.mem[first - 8] = 9 /\ h.mem[first - 12] = 9
      /\ X \subseteq B \ A
  BY <1>0 DEF Heaped, Shape
<1>2. /\ \A x \in B : /\ x \in Nat /\ S[x] \in Nat /\ x >= first /\ S[x] >= 16 /\ x + S[x] <= b
                      /\ {x - 4, x, x + 4, x + S[x] - 8} \subseteq Words
      /\ {first - 12, first - 8} \subseteq Words
      /\ b \in Nat /\ Al(b) /\ first \in Nat /\ first <= b /\ Al(first) /\ MAX_HEAP \in Nat
  BY <1>0, HeapPlaces
<1>3. e \in Nat /\ Al(e) /\ b + 16 <= e /\ e - b = n
  <2>1. Al(b + n)
    BY <1>0, <1>2, AlFacts
  <2> QED
    BY <1>0, <1>2, <2>1
<1>4. S2 \in [Nat -> Nat] /\ S2[b] = n /\ \A x \in Nat : x # b => S2[x] = S[x]
  BY <1>0, <1>1, <1>2
<1>5. \A x \in B : x # b /\ S2[x] = S[x]
  BY <1>0, <1>2, <1>4
<1>6. Tiles(B2, S2, first, e) /\ b \notin B
  <2>1. b + 16 <= e /\ S2[b] = e - b /\ \A x \in B : S2[x] = S[x]
    BY <1>0, <1>3, <1>4, <1>5
  <2>2. Tiles(B \cup {b}, S2, first, e) /\ b \notin B
    BY <1>1, <1>3, <2>1, TilesMore
  <2> QED
    BY <1>0, <2>2
<1>7. /\ b - 4 \in Words /\ e - 8 \in Words /\ e - 4 \in Words /\ b + n - 8 = e - 8
  <2>1. first <= b /\ b <= MAX_HEAP /\ first <= e /\ e <= MAX_HEAP /\ b + n - 8 = e - 8
    BY <1>0, <1>1, <1>2, <1>3
  <2> QED
    BY <1>0, <1>2, <1>3, <2>1, AlWords
<1>8. g \in HeapT /\ g.mem = h.mem /\ g.free_list = h.free_list /\ g.brk = e
  BY <1>0, <1>1, <1>2 DEF HeapT
<1> HIDE DEF g
<1>9. /\ t1 \in HeapT /\ t1.free_list = h.free_list /\ t1.brk = e
      /\ t1.mem[b - 4] = n + 0 /\ t1.mem[e - 8] = n + 0
      /\ \A a \in Words : a # b - 4 /\ a # e - 8 => t1.mem[a] = h.mem[a]
  <2>1. b \in Int /\ b + n - 8 \in Words /\ 0 \in {0, 1}
    BY <1>0, <1>2, <1>7
  <2> QED
    BY <1>0, <1>7, <1>8, <2>1, TagsSet
<1> HIDE DEF t1
<1>10. HDRP(NEXT_BLKP(t1, b)) = e - 4
  <2>1. GETSIZE(t1, b - 4) = n
    BY <1>0, <1>9, Packed
  <2> QED
    BY <1>0, <2>1 DEF HDRP, NEXT_BLKP, WSIZE
<1>11. PACK(0, 1) = 1
  BY DEF PACK
<1>12. /\ t \in HeapT /\ t.free_list = h.free_list /\ t.brk = e
       /\ t.mem[e - 4] = 1 /\ \A a \in Words : a # e - 4 => t.mem[a] = t1.mem[a]
  <2>1. t = PUT(t1, e - 4, 1)
    BY <1>00, <1>10, <1>11
  <2>2. PICK a : a = e - 4
    OBVIOUS
  <2>3. a \in Words /\ t1 \in HeapT /\ 1 \in Nat /\ t = PUT(t1, a, 1)
    BY <1>0, <1>7, <1>9, <2>1, <2>2
  <2>4. /\ t \in HeapT /\ t.free_list = t1.free_list /\ t.brk = t1.brk
        /\ t.mem[a] = 1 /\ \A x \in Words : x # a => t.mem[x] = t1.mem[x]
    BY <1>0, <2>3, PutFacts
  <2> QED
    BY <1>0, <1>9, <2>2, <2>4
<1>13. t.mem[b - 4] = n /\ t.mem[e - 8] = n
  <2>1. b - 4 # e - 4 /\ e - 8 # e - 4 /\ n + 0 = n
    BY <1>0, <1>2, <1>3
  <2> QED
    BY <1>0, <1>7, <1>9, <1>12, <2>1
<1>14. \A a \in Words : a < b - 4 => t.mem[a] = h.mem[a]
  <2>1. \A a \in Words : a \in Int
    BY DEF Words
  <2>2. \A a \in Words : a < b - 4 => a # b - 4 /\ a # e - 8 /\ a # e - 4
    BY <1>0, <1>2, <1>3, <2>1
  <2> QED
    BY <1>0, <1>9, <1>12, <2>2
<1>15. \A x \in B : /\ t.mem[x - 4] = h.mem[x - 4] /\ t.mem[x] = h.mem[x] /\ t.mem[x + 4] = h.mem[x + 4]
                    /\ t.mem[x + S[x] - 8] = h.mem[x + S[x] - 8]
  <2>1. \A x \in B : x - 4 < b - 4 /\ x < b - 4 /\ x + 4 < b - 4 /\ x + S[x] - 8 < b - 4
    BY <1>0, <1>2
  <2> QED
    BY <1>0, <1>2, <1>14, <2>1
<1>16. t.mem[first - 8] = 9 /\ t.mem[first - 12] = 9
  <2>1. first - 8 < b - 4 /\ first - 12 < b - 4
    BY <1>0, <1>2
  <2> QED
    BY <1>0, <1>1, <1>2, <1>14, <2>1
<1>17. \A x \in B2 : t.mem[x - 4] = S2[x] + Bit(A, x) /\ t.mem[x + S2[x] - 8] = S2[x] + Bit(A, x)
  <2>1. b + S2[b] - 8 = e - 8 /\ n + 0 = n /\ Bit(A, b) = 0
    BY <1>0, <1>1, <1>4, <1>5, <1>7 DEF Bit
  <2>2. t.mem[b - 4] = S2[b] + Bit(A, b) /\ t.mem[b + S2[b] - 8] = S2[b] + Bit(A, b)
    BY <1>0, <1>4, <1>13, <2>1
  <2>3. \A x \in B : t.mem[x - 4] = S2[x] + Bit(A, x) /\ t.mem[x + S2[x] - 8] = S2[x] + Bit(A, x)
    BY <1>0, <1>1, <1>5, <1>15
  <2> QED
    BY <1>0, <2>2, <2>3
<1>18. Shape(t, B2, S2, A)
  <2>1. A \subseteq B2
    BY <1>0, <1>1
  <2> QED
    BY <1>0, <1>4, <1>6, <1>12, <1>16, <1>17, <2>1 DEF Shape
<1>19. PICK rank : Linked(h, S, X, rank)
  BY DEF Heaped
<1>20. Linked(t, S2, X, rank)
  <2>1. \A x \in X : t.mem[x] = h.mem[x] /\ t.mem[x + 4] = h.mem[x + 4] /\ cls(S2, x) = cls(S, x)
    BY <1>0, <1>1, <1>5, <1>15 DEF cls
  <2> QED
    BY <1>12, <1>19, <2>1 DEF Linked
<1>21. Kept(h, t, S, A)
  <2>1. ASSUME NEW x \in A, NEW a \in Words, a < x + S[x] - 8 PROVE t.mem[a] = h.mem[a]
    <3>1. a \in Int
      BY DEF Words
    <3>2. a < b - 4
      BY <1>0, <1>1, <1>2, <2>1, <3>1
    <3> QED
      BY <1>0, <1>14, <3>2
  <2> QED
    BY <1>0, <2>1 DEF Kept
<1>22. Heaped(t, B2, S2, A, X)
  BY <1>0, <1>1, <1>18, <1>20 DEF Heaped
<1> QED
  BY <1>0, <1>6, <1>12, <1>21, <1>22

----------------------------------------------------------------------------
(* Free neighbours, and coalesce.                                          *)

(* No two neighbours are free.                                             *)
NoPair(B, S, A) == \A b \in B \ A : b + S[b] \notin B \ A

(* The heap between two requests: every free block is listed.              *)
Settled(h, B, S, A) == Heaped(h, B, S, A, B \ A) /\ NoPair(B, S, A)

(* Neighbours, and how the package sees that they are free.                *)
LEMMA Neighbours ==
  ASSUME NEW h, NEW B, NEW S, NEW A, NEW X, Heaped(h, B, S, A, X), NEW bp \in B
  PROVE  LET prev == PREV_BLKP(h, bp)
             next == NEXT_BLKP(h, bp)
         IN  /\ \/ GETALLOC(h, FTRP(h, prev)) = 1 /\ \A a \in B \ A : a + S[a] # bp
                \/ /\ GETALLOC(h, FTRP(h, prev)) = 0 /\ prev \in B \ A /\ prev + S[prev] = bp
                   /\ GETSIZE(h, FTRP(h, prev)) = S[prev]
             /\ next = bp + S[bp]
             /\ \/ GETALLOC(h, HDRP(next)) = 1 /\ next \in A \cup {h.brk} /\ next \notin B \ A
                \/ GETALLOC(h, HDRP(next)) = 0 /\ next \in B \ A /\ GETSIZE(h, HDRP(next)) = S[next]
<1> DEFINE prev == PREV_BLKP(h, bp)
           next == NEXT_BLKP(h, bp)
<1>1. Shape(h, B, S, A) /\ Tiles(B, S, first, h.brk)
  BY DEF Heaped, Shape
<1>2. /\ \A b \in B : b \in Nat /\ S[b] \in Nat /\ S[b] >= 16 /\ b + S[b] \in B \cup {h.brk} /\ b + S[b] <= h.brk
      /\ \A b, c \in B : b = c \/ b + S[b] <= c \/ c + S[c] <= b
      /\ h.brk \in Nat
  BY HeapPlaces
<1>3. bp = first \/ \E a \in B : a + S[a] = bp
  BY <1>1 DEF Tiles
<1>4. \A a \in B : first <= a
  BY <1>1 DEF Tiles
<1>6. ASSUME NEW a \in B, a + S[a] = bp
      PROVE  \/ GETALLOC(h, FTRP(h, prev)) = 1 /\ \A x \in B \ A : x + S[x] # bp
             \/ /\ GETALLOC(h, FTRP(h, prev)) = 0 /\ prev \in B \ A /\ prev + S[prev] = bp
                /\ GETSIZE(h, FTRP(h, prev)) = S[prev]
  <2>1. prev = a /\ GETALLOC(h, FTRP(h, a)) = Bit(A, a) /\ GETSIZE(h, FTRP(h, a)) = S[a]
    BY <1>1, <1>6, Seen
  <2> HIDE DEF prev
  <2>2. \A x \in B : x + S[x] = bp => x = a
    BY <1>2, <1>6
  <2>3. CASE a \in A
    BY <2>1, <2>2, <2>3 DEF Bit
  <2>4. CASE a \notin A
    BY <1>6, <2>1, <2>4 DEF Bit
  <2> QED
    BY <2>3, <2>4
<1>7. \/ GETALLOC(h, FTRP(h, prev)) = 1 /\ \A a \in B \ A : a + S[a] # bp
      \/ /\ GETALLOC(h, FTRP(h, prev)) = 0 /\ prev \in B \ A /\ prev + S[prev] = bp
         /\ GETSIZE(h, FTRP(h, prev)) = S[prev]
  <2> HIDE DEF prev
  <2>1. CASE bp = first
    <3>1. GETALLOC(h, FTRP(h, prev)) = 1
      BY <1>1, <2>1, Seen DEF prev
    <3>2. \A a \in B : a + S[a] # bp
      BY <1>2, <1>4, <2>1
    <3> QED
      BY <3>1, <3>2
  <2> QED
    BY <1>3, <1>6, <2>1
<1>8. next = bp + S[bp]
  BY <1>1, Seen
<1>9. \/ GETALLOC(h, HDRP(next)) = 1 /\ next \in A \cup {h.brk} /\ next \notin B \ A
      \/ GETALLOC(h, HDRP(next)) = 0 /\ next \in B \ A /\ GETSIZE(h, HDRP(next)) = S[next]
  <2> HIDE DEF next
  <2>1. next \in B \cup {h.brk}
    BY <1>2, <1>8
  <2>2. CASE next = h.brk
    <3>1. GETALLOC(h, HDRP(next)) = 1
      BY <1>1, <2>2, Seen
    <3>2. next \notin B
      BY <1>2, <2>2
    <3> QED
      BY <2>2, <3>1, <3>2
  <2>3. CASE next \in B
    <3>1. GETALLOC(h, HDRP(next)) = Bit(A, next) /\ GETSIZE(h, HDRP(next)) = S[next]
      BY <1>1, <2>3, Seen
    <3> QED
      BY <2>3, <3>1 DEF Bit
  <2> QED
    BY <2>1, <2>2, <2>3
<1> QED
  BY <1>7, <1>8, <1>9

(* Every free block but bp is listed; only bp has free neighbours.         *)
Loose(h, B, S, A, bp) ==
    /\ Heaped(h, B, S, A, (B \ A) \ {bp}) /\ bp \in B \ A
    /\ \A b \in B \ A : b + S[b] \in B \ A => b = bp \/ b + S[b] = bp

(* coalesce merges a free block with its free neighbours, lists the result *)
(* and keeps every allocated block: all four of its cases.                 *)
LEMMA Coalesced ==
  ASSUME NEW h, NEW B, NEW S, NEW A, NEW bp, NEW c, Loose(h, B, S, A, bp), c = coalesce(h, bp)
  PROVE  \E B2, S2 :
            /\ Settled(c.h, B2, S2, A) /\ c.h.brk = h.brk /\ Kept(h, c.h, S, A)
            /\ \A a \in A : S2[a] = S[a]
            /\ c.bp \in B2 \ A /\ c.bp <= bp /\ bp + S[bp] <= c.bp + S2[c.bp]
<1> DEFINE X == (B \ A) \ {bp}
           prev == PREV_BLKP(h, bp)
           next == NEXT_BLKP(h, bp)
           prev_alloc == GETALLOC(h, FTRP(h, prev)) = 1
           next_alloc == GETALLOC(h, HDRP(next)) = 1
           t == IF prev_alloc THEN h ELSE remove_list(h, prev)
           u == IF next_alloc THEN t ELSE remove_list(t, next)
           prev_s == IF prev_alloc THEN 0 ELSE GETSIZE(h, FTRP(h, prev))
           next_s == IF next_alloc THEN 0 ELSE GETSIZE(h, HDRP(next))
           l == bp - prev_s
           n == prev_s + GETSIZE(h, HDRP(bp)) + next_s
           P == IF prev_alloc THEN {} ELSE {prev}
           Q == IF next_alloc THEN {} ELSE {next}
<1>0. /\ Heaped(h, B, S, A, X) /\ bp \in B \ A
      /\ \A b \in B \ A : b + S[b] \in B \ A => b = bp \/ b + S[b] = bp
  BY DEF Loose
<1>1. /\ \A b \in B : b \in Nat /\ S[b] \in Nat /\ S[b] >= 16 /\ b + S[b] \in B \cup {h.brk} /\ b + S[b] <= h.brk
      /\ \A b, d \in B : b = d \/ b + S[b] <= d \/ d + S[d] <= b
      /\ h.brk \in Nat /\ A \subseteq B /\ S \in [Nat -> Nat]
  <2> HIDE DEF X
  <2> QED
    BY <1>0, HeapPlaces
<1>2. /\ prev_alloc => \A a \in B \ A : a + S[a] # bp
      /\ ~prev_alloc => /\ prev \in B \ A /\ prev + S[prev] = bp
                        /\ GETSIZE(h, FTRP(h, prev)) = S[prev]
      /\ next = bp + S[bp]
      /\ next_alloc => next \in A \cup {h.brk} /\ next \notin B \ A
      /\ ~next_alloc => next \in B \ A /\ GETSIZE(h, HDRP(next)) = S[next]
  <2>1. bp \in B /\ 0 # 1
    BY <1>0
  <2> QED
    BY <1>0, <2>1, Neighbours
<1>3. GETSIZE(h, HDRP(bp)) = S[bp]
  BY <1>0, Seen DEF Heaped
<1>4. c = IF prev_alloc /\ next_alloc THEN [h |-> insert_list(h, bp), bp |-> bp]
          ELSE [h |-> insert_list(SetTags(u, l, n, 0), l), bp |-> l]
  BY Zenon DEF coalesce
<1> HIDE DEF prev, next, prev_alloc, next_alloc
<1>5. CASE prev_alloc /\ next_alloc
  <2> DEFINE g == insert_list(h, bp)
  <2>1. c.h = g /\ c.bp = bp
    BY <1>0, <1>4, <1>5
  <2>2. Heaped(g, B, S, A, X \cup {bp}) /\ g.brk = h.brk /\ Kept(h, g, S, A)
    <3> HIDE DEF X
    <3> QED
      BY <1>0, InsertHeaped DEF X
  <2>3. X \cup {bp} = B \ A
    BY <1>0
  <2> HIDE DEF g
  <2>4. NoPair(B, S, A)
    BY <1>0, <1>2, <1>5 DEF NoPair
  <2>5. Settled(c.h, B, S, A)
    BY <1>0, <2>1, <2>2, <2>3, <2>4 DEF Settled
  <2>6. c.bp <= bp /\ bp + S[bp] <= c.bp + S[c.bp]
    BY <1>0, <1>1, <2>1
  <2> QED
    BY <1>0, <2>1, <2>2, <2>5, <2>6
<1>6. CASE ~(prev_alloc /\ next_alloc)
  <2>1. Heaped(t, B, S, A, X \ P) /\ t.brk = h.brk /\ Kept(h, t, S, A)
    <3>1. CASE prev_alloc
      <4>1. t = h /\ X \ P = X
        BY <1>0, <3>1
      <4>2. Kept(h, h, S, A)
        BY DEF Kept
      <4> HIDE DEF t, P, X
      <4> QED
        BY <1>0, <4>1, <4>2 DEF X
    <3>2. CASE ~prev_alloc
      <4>1. t = remove_list(h, prev) /\ X \ P = X \ {prev}
        BY <1>0, <3>2
      <4>2. prev \in X
        BY <1>0, <1>1, <1>2, <3>2
      <4> HIDE DEF t, P, X
      <4> QED
        BY <1>0, <4>1, <4>2, RemoveHeaped DEF X
    <3> QED
      BY <1>0, <3>1, <3>2
  <2> HIDE DEF t
  <2>2. Heaped(u, B, S, A, (X \ P) \ Q) /\ u.brk = h.brk /\ Kept(h, u, S, A)
    <3>1. CASE next_alloc
      <4>1. u = t /\ (X \ P) \ Q = X \ P
        BY <1>0, <3>1
      <4> HIDE DEF t, u, P, Q, X
      <4> QED
        BY <1>0, <2>1, <4>1
    <3>2. CASE ~next_alloc
      <4>1. u = remove_list(t, next) /\ (X \ P) \ Q = (X \ P) \ {next}
        BY <1>0, <3>2
      <4>2. next \in X \ P
        BY <1>0, <1>1, <1>2, <3>2
      <4> HIDE DEF t, u, P, Q, X
      <4>3. Heaped(u, B, S, A, (X \ P) \ {next}) /\ u.brk = t.brk /\ Kept(t, u, S, A)
        BY <1>0, <2>1, <4>1, <4>2, RemoveHeaped
      <4>4. Kept(h, u, S, A)
        BY <1>0, <2>1, <4>3 DEF Kept
      <4> QED
        BY <1>0, <2>1, <4>1, <4>3, <4>4
    <3> QED
      BY <1>0, <3>1, <3>2
  <2> HIDE DEF u
  <2> DEFINE X2 == (X \ P) \ Q
             r == l + n
             K == Others(B, l, r)
  <2>3. /\ l \in B \ A /\ n \in Nat /\ n > 0 /\ r \in B \cup {h.brk}
        /\ l = (IF prev_alloc THEN bp ELSE prev) /\ l <= bp
        /\ r = (IF next_alloc THEN next ELSE next + S[next]) /\ bp + S[bp] <= r
        /\ l \in Nat /\ r \in Nat
    <3>1. /\ prev_alloc => prev_s = 0
          /\ ~prev_alloc => prev_s = S[prev]
          /\ next_alloc => next_s = 0
          /\ ~next_alloc => next_s = S[next]
      BY <1>0, <1>2
    <3>2. n = prev_s + S[bp] + next_s
      BY <1>0, <1>3
    <3> HIDE DEF prev_s, next_s, n
    <3>3. /\ l = (IF prev_alloc THEN bp ELSE prev) /\ l <= bp /\ l \in B \ A
          /\ prev_s \in Nat
      BY <1>0, <1>1, <1>2, <3>1
    <3>4. next_s \in Nat
      BY <1>0, <1>1, <1>2, <3>1
    <3>5. r = bp + S[bp] + next_s
      BY <1>0, <1>1, <3>2, <3>3, <3>4
    <3> HIDE DEF l, r
    <3>6. r = (IF next_alloc THEN next ELSE next + S[next]) /\ bp + S[bp] <= r /\ r \in B \cup {h.brk}
      BY <1>0, <1>1, <1>2, <3>1, <3>4, <3>5
    <3>7. n \in Nat /\ n > 0
      BY <1>0, <1>1, <3>2, <3>3, <3>4
    <3> QED
      BY <1>0, <1>1, <3>3, <3>6, <3>7
  <2> HIDE DEF n, l, r
  <2>4. \A b \in B : b \in K \/ b = bp \/ b \in P \/ b \in Q
    <3>1. ASSUME NEW b \in B, b # bp, b \notin P, b \notin Q PROVE ~(l <= b /\ b < r)
      <4>1. b + S[b] <= bp \/ bp + S[bp] <= b
        BY <1>0, <1>1, <3>1
      <4>2. CASE b + S[b] <= bp
        <5>1. CASE prev_alloc
          BY <1>0, <1>1, <2>3, <4>2, <5>1
        <5>2. CASE ~prev_alloc
          <6>1. prev \in B /\ prev # b /\ prev + S[prev] = bp /\ l = prev
            BY <1>0, <1>2, <2>3, <3>1, <5>2
          <6>2. b + S[b] <= prev \/ prev + S[prev] <= b
            BY <1>0, <1>1, <6>1
          <6> QED
            BY <1>0, <1>1, <4>2, <6>1, <6>2
        <5> QED
          BY <1>0, <5>1, <5>2
      <4>3. CASE bp + S[bp] <= b
        <5>1. CASE next_alloc
          BY <1>0, <1>1, <1>2, <2>3, <4>3, <5>1
        <5>2. CASE ~next_alloc
          <6>1. next \in B /\ next # b /\ next = bp + S[bp] /\ r = next + S[next]
            BY <1>0, <1>2, <2>3, <3>1, <5>2
          <6>2. b + S[b] <= next \/ next + S[next] <= b
            BY <1>0, <1>1, <6>1
          <6> QED
            BY <1>0, <1>1, <4>3, <6>1, <6>2
        <5> QED
          BY <1>0, <5>1, <5>2
      <4> QED
        BY <1>0, <4>1, <4>2, <4>3
    <3> QED
      BY <1>0, <3>1 DEF Others
  <2>5. P \subseteq B \ A /\ Q \subseteq B \ A
    BY <1>0, <1>2
  <2>6. X2 \subseteq K /\ A \subseteq K
    BY <1>0, <1>1, <2>4, <2>5
  <2>7. bp \notin K /\ l \notin K /\ \A b \in K : b \in B /\ b \notin P /\ b \notin Q
    <3>1. l <= l /\ l < r /\ l <= bp /\ bp < r
      BY <1>0, <1>1, <2>3
    <3>2. ASSUME NEW b \in P PROVE l <= b /\ b < r
      BY <1>0, <2>3, <3>1, <3>2
    <3>3. ASSUME NEW b \in Q PROVE l <= b /\ b < r
      <4>1. b = next /\ ~next_alloc
        BY <1>0, <3>3
      <4>2. r = next + S[next] /\ next \in B /\ next = bp + S[bp]
        BY <1>0, <1>2, <2>3, <4>1
      <4> QED
        BY <1>0, <1>1, <2>3, <4>1, <4>2
    <3> HIDE DEF P, Q
    <3> QED
      BY <1>0, <3>1, <3>2, <3>3 DEF Others
  <2> DEFINE B2 == K \cup {l}
             S2 == [S EXCEPT ![l] = n]
             v == SetTags(u, l, n, 0)
             g == insert_list(v, l)
  <2> HIDE DEF X2, K, P, Q, X
  <2>8. Heaped(v, B2, S2, A, X2) /\ v.brk = u.brk /\ Kept(u, v, S2, B2)
    <3>1. r \in B \cup {u.brk} /\ r = l + n
      BY <1>0, <2>2, <2>3 DEF r
    <3>2. Heaped(u, B, S, A, X2) /\ X2 \subseteq Others(B, l, r)
      BY <1>0, <2>2, <2>6 DEF X2, K
    <3>3. A = (A \cap Others(B, l, r)) \cup {x \in {l} : 0 = 1}
      BY <1>0, <2>6 DEF K
    <3>4. Retags(u, v, B, S, A, l, r, n, 0, B2, S2, A)
      BY <1>0, <2>3, <3>1, <3>3 DEF Retags, K
    <3> HIDE DEF v, S2, B2
    <3> QED
      BY <1>0, <3>2, <3>4, Retagged
  <2>9. S2[l] = n /\ \A b \in K : S2[b] = S[b]
    BY <1>0, <1>1, <2>3, <2>7
  <2> HIDE DEF v, S2
  <2>10. Heaped(g, B2, S2, A, X2 \cup {l}) /\ g.brk = v.brk /\ Kept(v, g, S2, A)
    <3>1. l \in B2 \ A /\ l \notin X2
      BY <1>0, <2>3, <2>6, <2>7
    <3> HIDE DEF B2
    <3> QED
      BY <1>0, <2>8, <3>1, InsertHeaped
  <2> HIDE DEF g
  <2>11. X2 \cup {l} = B2 \ A
    <3>1. \A b \in K \ A : b \in X2
      BY <1>0, <2>7 DEF X2, X
    <3>2. X2 \subseteq K /\ \A b \in X2 : b \notin A
      BY <1>0, <2>6 DEF X2, X
    <3> QED
      BY <1>0, <2>3, <3>1, <3>2
  <2>12. NoPair(B2, S2, A)
    <3>1. l + S2[l] \notin B2 \ A
      <4>1. l + S2[l] = r /\ r # l
        BY <1>0, <1>1, <2>3, <2>9 DEF r
      <4>2. CASE next_alloc
        BY <1>0, <1>2, <2>3, <2>7, <4>1, <4>2
      <4>3. CASE ~next_alloc
        <5>1. next \in B \ A /\ r = next + S[next] /\ next # bp /\ r # bp
          BY <1>0, <1>1, <1>2, <2>3, <4>3
        <5>2. r \notin B \ A
          BY <1>0, <5>1
        <5> QED
          BY <1>0, <2>7, <4>1, <5>2
      <4> QED
        BY <1>0, <4>2, <4>3
    <3>2. ASSUME NEW b \in K \ A PROVE b + S2[b] \notin B2 \ A
      <4>1. S2[b] = S[b] /\ b \in B \ A /\ b # bp /\ b \notin P
        BY <1>0, <2>7, <2>9
      <4>2. b + S[b] # bp
        <5>1. CASE prev_alloc
          BY <1>0, <1>2, <4>1, <5>1
        <5>2. CASE ~prev_alloc
          <6>1. prev \in B /\ prev + S[prev] = bp /\ prev # b
            BY <1>0, <1>2, <4>1, <5>2 DEF P
          <6> QED
            BY <1>0, <1>1, <4>1, <6>1
        <5> QED
          BY <1>0, <5>1, <5>2
      <4>3. b + S[b] \notin B \ A
        BY <1>0, <4>1, <4>2
      <4> QED
        BY <1>0, <2>3, <2>7, <4>1, <4>3
    <3> QED
      BY <1>0, <3>1, <3>2 DEF NoPair
  <2>13. c.h = g /\ c.bp = l
    BY <1>0, <1>4, <1>6 DEF g, v
  <2>14. \A a \in A : S2[a] = S[a]
    BY <1>0, <2>6, <2>9
  <2>15. Kept(h, g, S, A)
    <3>1. ASSUME NEW b \in A, NEW a \in Words, b <= a, a < b + S[b] - 8 PROVE g.mem[a] = h.mem[a]
      <4>1. S2[b] = S[b] /\ b \in B2
        BY <1>0, <2>6, <2>14
      <4>2. g.mem[a] = v.mem[a]
        BY <1>0, <2>10, <3>1, <4>1 DEF Kept
      <4>3. v.mem[a] = u.mem[a]
        BY <1>0, <2>8, <3>1, <4>1 DEF Kept
      <4>4. u.mem[a] = h.mem[a]
        BY <1>0, <2>2, <3>1 DEF Kept
      <4> QED
        BY <1>0, <4>2, <4>3, <4>4
    <3> QED
      BY <1>0, <3>1 DEF Kept
  <2>16. Settled(g, B2, S2, A)
    <3> HIDE DEF B2
    <3> QED
      BY <1>0, <2>10, <2>11, <2>12 DEF Settled
  <2>17. l \in B2 \ A /\ l <= bp /\ bp + S[bp] <= l + S2[l]
    BY <1>0, <2>3, <2>9 DEF r
  <2>18. g.brk = h.brk
    BY <1>0, <2>2, <2>8, <2>10
  <2> HIDE DEF B2
  <2> QED
    BY <1>0, <2>13, <2>14, <2>15, <2>16, <2>17, <2>18
<1> QED
  BY <1>0, <1>5, <1>6

----------------------------------------------------------------------------
(* place, and the split it makes.                                          *)

(* The blocks from l to r serve a request: what is left over is listed.    *)
Allots(h, t, B, S, A, l, r, size, asize, A2) ==
    /\ Heaped(h, B, S, A, Others(B, l, r) \ A) /\ NoPair(B, S, A)
    /\ l \in B /\ r \in B \cup {h.brk} /\ r \notin B \ A /\ size \in Nat /\ r = l + size
    /\ asize \in Nat /\ Al(asize) /\ asize >= 16 /\ asize <= size
    /\ t = SplitAndList(h, l, size, asize)
    /\ A2 = (A \cap Others(B, l, r)) \cup {l}

(* SplitAndList leaves a settled heap with a block of asize bytes at l.    *)
LEMMA Allotted ==
  ASSUME NEW h, NEW t, NEW B, NEW S, NEW A, NEW l, NEW r, NEW size, NEW asize, NEW A2,
         Allots(h, t, B, S, A, l, r, size, asize, A2)
  PROVE  \E B2, S2 :
            /\ Settled(t, B2, S2, A2) /\ t.brk = h.brk /\ Kept(h, t, S2, A2)
            /\ \A a \in A \cap Others(B, l, r) : S2[a] = S[a]
            /\ S2[l] >= asize
<1> DEFINE K  == Others(B, l, r)
           X  == K \ A
           u  == Split(h, l, size, asize)
           m  == l + asize
<1>0. /\ Heaped(h, B, S, A, X) /\ NoPair(B, S, A)
      /\ l \in B /\ r \in B \cup {h.brk} /\ r \notin B \ A /\ size \in Nat /\ r = l + size
      /\ asize \in Nat /\ Al(asize) /\ asize >= 16 /\ asize <= size
      /\ t = SplitAndList(h, l, size, asize)
      /\ A2 = (A \cap K) \cup {l}
  BY DEF Allots
<1>1. /\ \A b \in B : b \in Nat /\ S[b] \in Nat /\ S[b] >= 16 /\ b + S[b] \in B \cup {h.brk} /\ b + S[b] <= h.brk
      /\ \A b, d \in B : b = d \/ b + S[b] <= d \/ d + S[d] <= b
      /\ h.brk \in Nat /\ A \subseteq B /\ S \in [Nat -> Nat]
  <2> HIDE DEF X
  <2> QED
    BY <1>0, HeapPlaces
<1>2. l \in Nat /\ r \in Nat /\ l < r /\ l + S[l] <= r
  BY <1>0, <1>1, Ends
<1>3. \A b \in K : b \in B /\ b # l /\ (b < l \/ b >= r)
  BY <1>0, <1>1, <1>2 DEF Others
<1> HIDE DEF K, X, u
<1>4. \A b \in K : b + S[b] <= l \/ b >= r
  <2> SUFFICES ASSUME NEW b \in K PROVE b + S[b] <= l \/ b >= r
    OBVIOUS
  <2>1. b \in B /\ b # l /\ (b < l \/ b >= r) /\ l \in B
    BY <1>0, <1>3
  <2>2. b + S[b] <= l \/ l + S[l] <= b
    BY <1>1, <2>1
  <2> QED
    BY <1>1, <1>2, <2>1, <2>2
<1>5. CASE LeavesBlock(size, asize)
  <2> DEFINE B2 == K \cup {l, m}
             S2 == [S EXCEPT ![l] = asize, ![m] = size - asize]
             g  == insert_list(u, m)
  <2>0. size - asize >= 16 /\ m \in Nat /\ l < m /\ m < r /\ size - asize \in Nat /\ m + (size - asize) = r
    BY <1>0, <1>2, <1>5 DEF LeavesBlock, DSIZE
  <2>1. Splits(h, u, B, S, A, l, r, size, asize, m, B2, S2, A2)
    BY <1>0, <1>5 DEF Splits, u, K, m
  <2>2. S2[l] = asize /\ S2[m] = size - asize /\ \A b \in K : S2[b] = S[b]
    <3> HIDE DEF m
    <3>1. ASSUME NEW b \in K PROVE b # l /\ b # m /\ b \in Nat
      <4>1. b \in B /\ b # l /\ (b < l \/ b >= r)
        BY <1>3
      <4>2. b \in Nat
        BY <1>1, <4>1
      <4> QED
        BY <1>2, <2>0, <4>1, <4>2
    <3>2. l # m /\ l \in Nat /\ m \in Nat /\ S \in [Nat -> Nat]
      BY <1>1, <1>2, <2>0
    <3>3. S2[l] = asize /\ S2[m] = size - asize /\ \A b \in Nat : b # l /\ b # m => S2[b] = S[b]
      <4>1. PICK rest \in Nat : rest = size - asize
        BY <2>0
      <4>2. S2 = [S EXCEPT ![l] = asize, ![m] = rest]
        BY <4>1
      <4> HIDE DEF S2
      <4> QED
        BY <1>0, <3>2, <4>1, <4>2
    <3> HIDE DEF S2
    <3> QED
      BY <3>1, <3>3
  <2> HIDE DEF B2, S2, m, g
  <2>3. Heaped(u, B2, S2, A2, X) /\ u.brk = h.brk /\ Kept(h, u, S2, B2)
    BY <1>0, <2>1, SplitInTwo DEF X, K
  <2>4. m \notin K /\ m \notin A2 /\ m \in B2
    BY <1>0, <1>1, <1>2, <1>3, <2>0 DEF B2
  <2>5. Heaped(g, B2, S2, A2, X \cup {m}) /\ g.brk = u.brk /\ Kept(u, g, S2, A2)
    BY <1>0, <2>3, <2>4, InsertHeaped DEF X, g
  <2>6. X \cup {m} = B2 \ A2
    BY <1>0, <1>3, <2>4 DEF X, B2
  <2>7. NoPair(B2, S2, A2)
    <3>1. m + S2[m] \notin B2 \ A2
      BY <1>0, <1>3, <2>0, <2>2, <2>4, <2>6 DEF X
    <3>2. ASSUME NEW b \in X PROVE b + S2[b] \notin B2 \ A2
      <4>1. b \in K /\ b \in B \ A /\ S2[b] = S[b] /\ (b + S[b] <= l \/ b >= r) /\ b \in Nat /\ S[b] \in Nat
        BY <1>0, <1>1, <1>3, <1>4, <2>2 DEF X
      <4>2. b + S[b] # m
        BY <1>0, <1>2, <2>0, <4>1
      <4>3. b + S[b] \notin X
        BY <1>0, <1>3, <4>1 DEF X, NoPair
      <4> QED
        BY <1>0, <2>6, <4>1, <4>2, <4>3
    <3> QED
      BY <1>0, <2>6, <3>1, <3>2 DEF NoPair
  <2>8. t = g
    BY <1>0, <1>5 DEF SplitAndList, g, u, m
  <2>9. Settled(t, B2, S2, A2)
    BY <1>0, <2>5, <2>6, <2>7, <2>8 DEF Settled
  <2>10. Kept(h, t, S2, A2)
    <3>1. A2 \subseteq B2
      BY <1>0 DEF B2
    <3> QED
      BY <1>0, <2>3, <2>5, <2>8, <3>1 DEF Kept
  <2>12. t.brk = h.brk /\ S2[l] >= asize
    BY <1>0, <2>2, <2>3, <2>5, <2>8
  <2>13. \A a \in A \cap K : S2[a] = S[a]
    BY <2>2
  <2> QED
    BY <2>9, <2>10, <2>12, <2>13, Zenon DEF K
<1>6. CASE ~LeavesBlock(size, asize)
  <2> DEFINE B2 == K \cup {l}
             S2 == [S EXCEPT ![l] = size]
  <2>1. A2 = (A \cap Others(B, l, r)) \cup {x \in {l} : 1 = 1}
    BY <1>0 DEF K
  <2>2. Retags(h, u, B, S, A, l, r, size, 1, B2, S2, A2)
    BY <1>0, <1>2, <1>6, <2>1 DEF Retags, u, Split, K
  <2>3. S2[l] = size /\ \A b \in K : S2[b] = S[b]
    BY <1>0, <1>1, <1>2, <1>3
  <2> HIDE DEF B2, S2
  <2>4. Heaped(u, B2, S2, A2, X) /\ u.brk = h.brk /\ Kept(h, u, S2, B2)
    BY <1>0, <2>2, Retagged DEF X, K
  <2>5. X = B2 \ A2
    BY <1>0, <1>3 DEF X, B2
  <2>6. NoPair(B2, S2, A2)
    <3>1. ASSUME NEW b \in X PROVE b + S2[b] \notin X
      <4>1. b \in K /\ b \in B \ A /\ S2[b] = S[b]
        BY <1>0, <1>3, <2>3 DEF X
      <4> QED
        BY <1>0, <1>3, <4>1 DEF X, NoPair
    <3> QED
      BY <1>0, <2>5, <3>1 DEF NoPair
  <2>7. t = u
    BY <1>0, <1>6 DEF SplitAndList, u
  <2>8. Settled(t, B2, S2, A2)
    BY <1>0, <2>4, <2>5, <2>6, <2>7 DEF Settled
  <2>9. Kept(h, t, S2, A2)
    <3>1. A2 \subseteq B2
      BY <1>0 DEF B2
    <3> QED
      BY <1>0, <2>4, <2>7, <3>1 DEF Kept
  <2> QED
    BY <1>0, <2>3, <2>4, <2>7, <2>8, <2>9 DEF K
<1> QED
  BY <1>0, <1>5, <1>6

(* place turns a listed free block into an allocated one.                  *)
LEMMA Placed ==
  ASSUME NEW h, NEW B, NEW S, NEW A, NEW f, NEW asize, Settled(h, B, S, A), f \in B \ A,
         asize \in Nat, Al(asize), asize >= 16, asize <= S[f]
  PROVE  LET t == place(h, f, asize)
         IN  \E B2, S2 :
               /\ Settled(t, B2, S2, A \cup {f}) /\ t.brk = h.brk /\ Kept(h, t, S, A)
               /\ \A a \in A : S2[a] = S[a]
               /\ S2[f] >= asize
<1> DEFINE u == remove_list(h, f)
           r == f + S[f]
           X == (B \ A) \ {f}
           t == place(h, f, asize)
<1>0. Heaped(h, B, S, A, B \ A) /\ NoPair(B, S, A)
  BY DEF Settled
<1>1. /\ \A b \in B : b \in Nat /\ S[b] \in Nat /\ S[b] >= 16 /\ b + S[b] \in B \cup {h.brk} /\ b + S[b] <= h.brk
      /\ \A b, d \in B : b = d \/ b + S[b] <= d \/ d + S[d] <= b
      /\ h.brk \in Nat /\ A \subseteq B /\ S \in [Nat -> Nat]
  BY <1>0, HeapPlaces
<1>2. Heaped(u, B, S, A, X) /\ u.brk = h.brk /\ Kept(h, u, S, A)
  BY <1>0, RemoveHeaped
<1>3. t = SplitAndList(u, f, S[f], asize)
  <2>1. GETSIZE(h, HDRP(f)) = S[f]
    BY <1>0, Seen DEF Heaped
  <2> QED
    BY <2>1 DEF place
<1>4. Others(B, f, r) = B \ {f}
  <2>1. \A b \in B : b # f => ~(f <= b /\ b < r)
    BY <1>1
  <2>2. f <= f /\ f < r
    BY <1>1
  <2> HIDE DEF r
  <2> QED
    BY <2>1, <2>2 DEF Others
<1>5. r \in B \cup {u.brk} /\ r \notin B \ A /\ S[f] \in Nat
  BY <1>0, <1>1, <1>2 DEF NoPair
<1> HIDE DEF u, t, X
<1>6. Heaped(u, B, S, A, Others(B, f, r) \ A)
  <2>1. Others(B, f, r) \ A = X
    BY <1>4 DEF X
  <2> QED
    BY <1>2, <2>1
<1>7. (A \cap Others(B, f, r)) \cup {f} = A \cup {f} /\ A \cap Others(B, f, r) = A
  BY <1>1, <1>4
<1>8. \E B2, S2 :
        /\ Settled(t, B2, S2, A \cup {f}) /\ t.brk = u.brk /\ Kept(u, t, S2, A \cup {f})
        /\ \A a \in A \cap Others(B, f, r) : S2[a] = S[a]
        /\ S2[f] >= asize
  <2>1. Allots(u, t, B, S, A, f, r, S[f], asize, A \cup {f})
    BY <1>0, <1>3, <1>5, <1>6, <1>7 DEF Allots
  <2> HIDE DEF r
  <2> QED
    BY <2>1, Allotted
<1> HIDE DEF r
<1>9. PICK B2, S2 : /\ Settled(t, B2, S2, A \cup {f}) /\ t.brk = h.brk /\ Kept(u, t, S2, A \cup {f})
                    /\ \A a \in A : S2[a] = S[a]
                    /\ S2[f] >= asize
  BY <1>2, <1>7, <1>8
<1>10. Kept(h, t, S, A)
  BY <1>2, <1>9 DEF Kept
<1> QED
  BY <1>9, <1>10 DEF t

----------------------------------------------------------------------------
(* extend_heap and mm_init.                                                *)

(* An aligned number of bytes is an even number of words.                  *)
LEMMA WordCount ==
  ASSUME NEW n \in Nat, Al(n)
  PROVE  (n \div 4) % 2 = 0 /\ (n \div 4) * 4 = n
<1>1. PICK k \in Nat : n = 8 * k
  BY DEF Al
<1>2. n \div 4 = 2 * k
  BY <1>1
<1> QED
  BY <1>1, <1>2

(* A call of extend_heap for n bytes.                                      *)
Grows(h, n, r) == n \in Nat /\ Al(n) /\ n >= 16 /\ r = extend_heap(h, n \div WSIZE)

(* extend_heap fails and changes nothing, or adds a free block of at least *)
(* n bytes.                                                                *)
LEMMA Grown ==
  ASSUME NEW h, NEW B, NEW S, NEW A, NEW n, NEW r, Settled(h, B, S, A), Grows(h, n, r)
  PROVE  \/ h.brk + n > MAX_HEAP /\ r.ok = FALSE /\ r.h = h
         \/ /\ ~(h.brk + n > MAX_HEAP) /\ r.ok = TRUE
            /\ \E B2, S2 : /\ Settled(r.h, B2, S2, A) /\ r.h.brk = h.brk + n
                           /\ Kept(h, r.h, S, A) /\ \A a \in A : S2[a] = S[a]
                           /\ r.bp \in B2 \ A /\ S2[r.bp] >= n
<1> DEFINE words == n \div WSIZE
           m == mem_sbrk(h, n)
           t == SetTags(m.h, m.bp, n, 0)
           u == PUT(t, HDRP(NEXT_BLKP(t, m.bp)), PACK(0, 1))
           c == coalesce(u, m.bp)
           b == h.brk
           S2 == [S EXCEPT ![b] = n]
           B2 == B \cup {b}
<1>0. Heaped(h, B, S, A, B \ A) /\ NoPair(B, S, A)
  BY DEF Settled
<1>00. n \in Nat /\ Al(n) /\ n >= 16 /\ r = extend_heap(h, words)
  BY DEF Grows
<1>1. /\ \A x \in B : x \in Nat /\ S[x] \in Nat /\ S[x] >= 16 /\ x + S[x] \in B \cup {h.brk} /\ x + S[x] <= h.brk
      /\ h.brk \in Nat /\ A \subseteq B /\ S \in [Nat -> Nat] /\ MAX_HEAP \in Nat
  BY <1>0, HeapPlaces
<1>2. r = IF m.ok THEN [ok |-> TRUE, h |-> c.h, bp |-> c.bp] ELSE m
  <2>1. words % 2 = 0 /\ words * WSIZE = n
    BY <1>00, WordCount DEF WSIZE
  <2> HIDE DEF words
  <2> QED
    BY <1>00, <2>1 DEF extend_heap
<1> HIDE DEF c, u, t, words
<1>3. CASE h.brk + n > MAX_HEAP
  <2>1. m = [ok |-> FALSE, h |-> h, bp |-> NULL]
    BY <1>3 DEF mem_sbrk
  <2> QED
    BY <1>2, <1>3, <2>1
<1>4. CASE ~(h.brk + n > MAX_HEAP)
  <2>1. m = [ok |-> TRUE, h |-> [h EXCEPT !.brk = @ + n], bp |-> b]
    <3>1. ~(n < 0)
      BY <1>00
    <3> QED
      BY <1>4, <3>1 DEF mem_sbrk
  <2> HIDE DEF m
  <2>3. PICK e : e = b + n
    OBVIOUS
  <2>4. /\ Heaped(u, B2, S2, A, B \ A) /\ b \notin B
        /\ u.brk = e /\ Kept(h, u, S, A)
    <3>1. e <= MAX_HEAP
      BY <1>00, <1>1, <1>4, <2>3
    <3>2. Extends(h, u, B, S, n, b, e, B2, S2)
      BY <1>00, <2>1, <2>3, <3>1 DEF Extends, u, t
    <3> HIDE DEF b, B2, S2
    <3> QED
      BY <1>0, <3>2, Extended
  <2>5. S2[b] = n /\ \A x \in B : S2[x] = S[x] /\ x # b
    BY <1>00, <1>1, <2>4
  <2> HIDE DEF B2, S2, b
  <2>6. b \in B2 \ A /\ B \ A = (B2 \ A) \ {b}
    BY <1>1, <2>4 DEF B2
  <2>7. \A x \in B2 \ A : x + S2[x] \in B2 \ A => x = b \/ x + S2[x] = b
    BY <1>0, <2>5 DEF NoPair, B2
  <2>8. PICK B3, S3 :
           /\ Settled(c.h, B3, S3, A) /\ c.h.brk = u.brk /\ Kept(u, c.h, S2, A)
           /\ \A a \in A : S3[a] = S2[a]
           /\ c.bp \in B3 \ A /\ c.bp <= b /\ b + S2[b] <= c.bp + S3[c.bp]
    <3>1. c = coalesce(u, b)
      BY <2>1 DEF c
    <3>2. Loose(u, B2, S2, A, b)
      BY <2>4, <2>6, <2>7 DEF Loose
    <3> QED
      BY <3>1, <3>2, Coalesced
  <2>9. S3[c.bp] >= n
    <3>1. c.bp \in Nat /\ S3[c.bp] \in Nat
      BY <2>8, HeapPlaces DEF Settled
    <3>2. b \in Nat
      BY <1>1 DEF b
    <3> QED
      BY <1>00, <2>5, <2>8, <3>1, <3>2
  <2>10. Kept(h, c.h, S, A) /\ \A a \in A : S3[a] = S[a]
    <3>1. \A a \in A : S2[a] = S[a]
      BY <1>1, <2>5
    <3>2. Kept(h, c.h, S, A)
      BY <2>4, <2>8, <3>1 DEF Kept
    <3> QED
      BY <2>8, <3>1, <3>2
  <2>11. r.ok = TRUE /\ r.h = c.h /\ r.bp = c.bp
    BY <1>2, <2>1
  <2>12. c.h.brk = h.brk + n
    BY <2>3, <2>4, <2>8 DEF b
  <2>13. /\ r.ok = TRUE
         /\ Settled(r.h, B3, S3, A) /\ r.h.brk = h.brk + n
         /\ Kept(h, r.h, S, A) /\ (\A a \in A : S3[a] = S[a])
         /\ r.bp \in B3 \ A /\ S3[r.bp] >= n
    BY <2>8, <2>9, <2>10, <2>11, <2>12
  <2> QED
    BY <1>4, <2>13
<1> QED
  BY <1>3, <1>4

(* mm_init leaves a settled heap without allocated blocks.                 *)
LEMMA Initial ==
  /\ \E B, S : Settled(mm_init, B, S, {})
  /\ first < mm_init.brk
<1> DEFINE empty == [mem |-> [a \in Words |-> 0], free_list |-> [c \in Classes |-> NULL],
                     brk |-> prologue + DSIZE]
           u == SetTags(empty, prologue, DSIZE, 1)
           t == PUT(u, HDRP(prologue + DSIZE), PACK(0, 1))
           S0 == [x \in Nat |-> 0]
<1>1. /\ prologue = first - 8 /\ prologue + 8 = first /\ first \in Nat /\ Al(first) /\ first >= 24
      /\ MAX_HEAP \in Nat /\ first + 16 <= MAX_HEAP /\ prologue \in Nat /\ HDRP(prologue + DSIZE) = first - 4
  <2>1. first = prologue + 8 /\ prologue \in Int
    BY Layout, ClassSizeAssumption DEF prologue, heap_listp, WSIZE
  <2>2. HDRP(prologue + DSIZE) = first - 4
    BY DEF HDRP, WSIZE, first
  <2> QED
    BY <2>1, <2>2, Layout
<1>2. empty \in HeapT /\ empty.brk = first /\ empty.free_list = [c \in Classes |-> 0]
  BY <1>1 DEF HeapT, NULL, DSIZE
<1>3. prologue - 4 = first - 12 /\ prologue + 8 - 8 = first - 8
  BY <1>1
<1>4. first - 12 \in Words /\ first - 8 \in Words /\ first - 4 \in Words
  <2>1. first - 4 \in Words /\ first - 8 \in Words
    <3>1. first <= first /\ first <= MAX_HEAP
      BY <1>1
    <3> QED
      BY <1>1, <3>1, AlWords
  <2>2. (first - 12) % 4 = 0 /\ first - 12 < MAX_HEAP /\ first - 12 \in Int
    BY <1>1 DEF Al
  <2> QED
    BY <1>1, <2>1, <2>2, Layout
<1> HIDE DEF empty
<1>5. /\ u \in HeapT /\ u.free_list = empty.free_list /\ u.brk = empty.brk
      /\ u.mem[first - 12] = 9 /\ u.mem[first - 8] = 9
  <2>1. prologue \in Int /\ 8 \in Nat /\ Al(8) /\ 8 >= 8 /\ 1 \in {0, 1} /\ 8 + 1 = 9
        /\ prologue - 4 \in Words /\ prologue + 8 - 8 \in Words
    BY <1>1, <1>3, <1>4, AlFacts
  <2>2. LET v == SetTags(empty, prologue, 8, 1)
        IN  /\ v \in HeapT /\ v.free_list = empty.free_list /\ v.brk = empty.brk
            /\ v.mem[prologue - 4] = 8 + 1 /\ v.mem[prologue + 8 - 8] = 8 + 1
    BY <1>2, <2>1, TagsSet
  <2> QED
    BY <1>3, <2>1, <2>2 DEF DSIZE
<1> HIDE DEF u
<1>6. /\ t \in HeapT /\ t.free_list = [c \in Classes |-> 0] /\ t.brk = first
      /\ t.mem[first - 12] = 9 /\ t.mem[first - 8] = 9 /\ t.mem[first - 4] = 1
  <2>1. PICK a : a = first - 4
    OBVIOUS
  <2>2. t = PUT(u, a, 1)
    BY <1>1, <2>1 DEF PACK
  <2> HIDE DEF t
  <2>3. /\ t \in HeapT /\ t.free_list = u.free_list /\ t.brk = u.brk
        /\ t.mem[a] = 1 /\ \A x \in Words : x # a => t.mem[x] = u.mem[x]
    <3>1. a \in Words /\ 1 \in Nat
      BY <1>4, <2>1
    <3>2. LET v == PUT(u, a, 1)
          IN  /\ v \in HeapT /\ v.free_list = u.free_list /\ v.brk = u.brk
              /\ v.mem[a] = 1 /\ \A x \in Words : x # a => v.mem[x] = u.mem[x]
      BY <1>5, <3>1, PutFacts
    <3> QED
      BY <2>2, <3>2
  <2>4. first - 12 # a /\ first - 8 # a
    BY <1>1, <2>1
  <2> QED
    BY <1>2, <1>4, <1>5, <2>1, <2>3, <2>4
<1> HIDE DEF t
<1>7. Settled(t, {}, S0, {})
  <2>1. Tiles({}, S0, first, first)
    BY <1>1 DEF Tiles
  <2>2. S0 \in [Nat -> Nat] /\ first <= MAX_HEAP
    BY <1>1
  <2> HIDE DEF S0
  <2>3. Shape(t, {}, S0, {})
    BY <1>6, <2>1, <2>2 DEF Shape
  <2>4. Linked(t, S0, {}, [x \in {} |-> 0])
    BY <1>6 DEF Linked
  <2>5. {} \ {} = {}
    OBVIOUS
  <2>6. NoPair({}, S0, {})
    BY DEF NoPair
  <2>7. Heaped(t, {}, S0, {}, {})
    BY <2>3, <2>4 DEF Heaped
  <2> QED
    BY <2>5, <2>6, <2>7 DEF Settled
<1>8. mm_init = extend_heap(t, 16 \div WSIZE).h
  <2>1. 2 * DSIZE = 16
    BY DEF DSIZE
  <2> QED
    BY <2>1 DEF mm_init, t, u, empty
<1>9. /\ \E B2, S2 : Settled(mm_init, B2, S2, {})
      /\ mm_init.brk = first + 16
  <2>1. ~(t.brk + 16 > MAX_HEAP) /\ 16 \in Nat /\ Al(16) /\ 16 >= 16
    BY <1>1, <1>6, AlFacts
  <2> HIDE DEF S0
  <2>2. PICK n, r : n = 16 /\ Grows(t, n, r) /\ r = extend_heap(t, 16 \div WSIZE)
    BY <2>1 DEF Grows
  <2>3. ~(t.brk + n > MAX_HEAP)
    BY <2>1, <2>2
  <2>4. \E B2, S2 : Settled(r.h, B2, S2, {}) /\ r.h.brk = t.brk + n
    <3>1. Grows(t, n, r)
      BY <2>2
    <3>2. PICK E : E = {} /\ Settled(t, E, S0, E)
      BY <1>7
    <3>3. Settled(t, E, S0, E)
      BY <3>2
    <3>4. \/ t.brk + n > MAX_HEAP /\ r.ok = FALSE /\ r.h = t
          \/ /\ ~(t.brk + n > MAX_HEAP) /\ r.ok = TRUE
             /\ \E B2, S2 : /\ Settled(r.h, B2, S2, E) /\ r.h.brk = t.brk + n
                            /\ Kept(t, r.h, S0, E) /\ \A a \in E : S2[a] = S0[a]
                            /\ r.bp \in B2 \ E /\ S2[r.bp] >= n
      BY <3>1, <3>3, Grown
    <3>5. \E B2, S2 : Settled(r.h, B2, S2, E) /\ r.h.brk = t.brk + n
      BY <2>3, <3>4
    <3> QED
      BY <3>2, <3>5
  <2> QED
    BY <1>6, <1>8, <2>2, <2>4
<1> QED
  BY <1>1, <1>9

----------------------------------------------------------------------------
(* Walks along a free list, and the best fit.                              *)

(* The walk that g makes from e stays in D.                                *)
Iterates(D, e, g, n) == e \in D /\ g \in [D -> D] /\ n \in Nat

(* A sequence in which each element determines the next one exists.        *)
LEMMA Iterated ==
  ASSUME NEW D, NEW e, NEW g, NEW n, Iterates(D, e, g, n)
  PROVE  \E f \in [1 .. n -> D] : \A i \in 1 .. n : f[i] = IF i = 1 THEN e ELSE g[f[i - 1]]
<1>0. e \in D /\ g \in [D -> D] /\ n \in Nat
  BY DEF Iterates
<1> DEFINE P(k) == \E f \in [1 .. k -> D] : \A i \in 1 .. k : f[i] = IF i = 1 THEN e ELSE g[f[i - 1]]
           Bad  == {k \in Nat : ~P(k)}
<1>1. SUFFICES ASSUME n \in Bad PROVE FALSE
  BY <1>0
<1>2. Bad \subseteq Nat /\ Bad # {}
  BY <1>1
<1> DEFINE m == Min(Bad)
<1>3. m \in Bad /\ \A k \in Bad : m <= k
  <2> HIDE DEF Bad
  <2> QED
    BY <1>2, MinNat
<1> HIDE DEF m
<1>4. m \in Nat /\ ~P(m)
  BY <1>3
<1>5. m # 0
  <2>1. [i \in 1 .. 0 |-> e] \in [1 .. 0 -> D]
    OBVIOUS
  <2>2. \A i \in 1 .. 0 : FALSE
    OBVIOUS
  <2>3. P(0)
    BY <2>1, <2>2
  <2> HIDE DEF P
  <2> QED
    BY <1>4, <2>3
<1>6. PICK k \in Nat : m = k + 1
  <2>1. m \in Nat
    BY <1>4
  <2>2. m - 1 \in Nat /\ m = (m - 1) + 1
    BY <1>5, <2>1
  <2> QED
    BY <2>2
<1>7. P(k)
  <2>1. ~(m <= k)
    BY <1>6
  <2> HIDE DEF P
  <2> QED
    BY <1>3, <2>1
<1>8. PICK f \in [1 .. k -> D] : \A i \in 1 .. k : f[i] = IF i = 1 THEN e ELSE g[f[i - 1]]
  BY <1>7
<1> DEFINE x == IF m = 1 THEN e ELSE g[f[k]]
           F == [i \in 1 .. m |-> IF i = m THEN x ELSE f[i]]
<1>9. x \in D
  <2>1. m # 1 => k \in 1 .. k
    BY <1>6
  <2> QED
    BY <1>0, <1>8, <2>1
<1> HIDE DEF x
<1>10. F \in [1 .. m -> D]
  <2>1. \A i \in 1 .. m : i = m \/ i \in 1 .. k
    BY <1>6
  <2> QED
    BY <1>8, <1>9, <2>1
<1>11. ASSUME NEW i \in 1 .. m PROVE F[i] = IF i = 1 THEN e ELSE g[F[i - 1]]
  <2>1. CASE i = m
    <3>1. F[i] = x
      BY <2>1
    <3>2. m # 1 => i - 1 = k /\ k \in 1 .. m /\ k # m
      BY <1>6, <2>1
    <3>3. m # 1 => F[i - 1] = f[k]
      BY <3>2
    <3> HIDE DEF F
    <3> QED
      BY <2>1, <3>1, <3>3 DEF x
  <2>2. CASE i # m
    <3>1. i \in 1 .. k /\ F[i] = f[i]
      BY <1>6, <2>2
    <3>2. i # 1 => i - 1 \in 1 .. m /\ i - 1 # m
      BY <1>6, <2>2
    <3>3. i # 1 => F[i - 1] = f[i - 1]
      BY <3>2
    <3> HIDE DEF F
    <3> QED
      BY <1>8, <3>1, <3>3
  <2> QED
    BY <2>1, <2>2
<1>12. P(m)
  <2> HIDE DEF F
  <2> QED
    BY <1>10, <1>11
<1> QED
  BY <1>4, <1>12

(* What each element of a sequence hands on to the next all of them have.  *)
LEMMA HandedOn ==
  ASSUME NEW D, NEW n \in Nat, NEW f,
         \A i \in 1 .. n : (i = 1 \/ f[i - 1] \in D) => f[i] \in D
  PROVE  \A i \in 1 .. n : f[i] \in D
<1> DEFINE Bad == {i \in 1 .. n : f[i] \notin D}
<1>1. SUFFICES ASSUME Bad # {} PROVE FALSE
  OBVIOUS
<1>2. PICK m : m \in Bad /\ \A k \in Bad : m <= k
  <2>1. Bad \subseteq Nat
    OBVIOUS
  <2> HIDE DEF Bad
  <2> QED
    BY <1>1, <2>1, MinNat
<1>3. m \in 1 .. n /\ f[m] \notin D
  BY <1>2
<1>4. m # 1 /\ f[m - 1] \notin D
  BY <1>3
<1>5. m - 1 \in Bad /\ ~(m <= m - 1)
  BY <1>3, <1>4
<1> HIDE DEF Bad
<1> QED
  BY <1>2, <1>5

(* The walk of Chain along the list of class c.                            *)
Follows(h, c, f) ==
    /\ DOMAIN f = 1 .. MaxBlocks
    /\ \A i \in 1 .. MaxBlocks :
          f[i] = IF i = 1 THEN h.free_list[c]
                 ELSE IF f[i - 1] = 0 THEN 0 ELSE h.mem[f[i - 1] + 4]

(* Chain is that walk up to its first NULL, and stays in its list.         *)
LEMMA ChainIs ==
  ASSUME NEW h, NEW B, NEW S, NEW A, NEW X, Heaped(h, B, S, A, X), NEW c \in Classes
  PROVE  \E f : /\ Follows(h, c, f) /\ Chain(h, c) = [i \in {k \in 1 .. MaxBlocks : f[k] # 0} |-> f[i]]
                /\ \A i \in 1 .. MaxBlocks : f[i] # 0 => f[i] \in X /\ cls(S, f[i]) = c
<1> DEFINE D == {x \in X : cls(S, x) = c} \cup {0}
           e == h.free_list[c]
           G(x) == IF x = 0 THEN 0 ELSE h.mem[x + 4]
           g == [x \in D |-> G(x)]
           E(f) == [i \in 1 .. MaxBlocks |-> IF i = 1 THEN e ELSE G(f[i - 1])]
           follow == CHOOSE f : f = E(f)
<1>1. PICK rank : Linked(h, S, X, rank)
  BY DEF Heaped
<1>2. e \in D
  BY <1>1 DEF Linked
<1>3. \A x \in D : G(x) \in D
  BY <1>1 DEF Linked
<1>4. g \in [D -> D] /\ \A x \in D : g[x] = G(x)
  BY <1>3
<1>5. MaxBlocks \in Nat
  BY MaxHeapAssumption DEF MaxBlocks, DSIZE
<1> HIDE DEF D, e, G, g
<1>6. PICK f0 \in [1 .. MaxBlocks -> D] :
         \A i \in 1 .. MaxBlocks : f0[i] = IF i = 1 THEN e ELSE g[f0[i - 1]]
  <2>1. Iterates(D, e, g, MaxBlocks)
    BY <1>2, <1>4, <1>5 DEF Iterates
  <2> QED
    BY <2>1, Iterated
<1>7. f0 = E(f0)
  <2>1. \A i \in 1 .. MaxBlocks : i = 1 \/ f0[i - 1] \in D
    BY <1>5, <1>6
  <2>2. \A i \in 1 .. MaxBlocks : f0[i] = IF i = 1 THEN e ELSE G(f0[i - 1])
    BY <1>4, <1>6, <2>1
  <2> QED
    BY <1>6, <2>2
<1>8. follow = E(follow)
  BY <1>7
<1>9. Chain(h, c) = [i \in {k \in 1 .. MaxBlocks : follow[k] # 0} |-> follow[i]]
  BY DEF Chain, E, follow, e, G, NULL, LIST_NEXTP, WSIZE
<1> HIDE DEF follow
<1>10. /\ DOMAIN follow = 1 .. MaxBlocks
       /\ \A i \in 1 .. MaxBlocks : follow[i] = IF i = 1 THEN e ELSE G(follow[i - 1])
  <2> DEFINE b(i) == IF i = 1 THEN e ELSE G(follow[i - 1])
  <2>1. follow = [i \in 1 .. MaxBlocks |-> b(i)]
    BY <1>8
  <2> HIDE DEF b, E
  <2>2. DOMAIN follow = 1 .. MaxBlocks /\ \A i \in 1 .. MaxBlocks : follow[i] = b(i)
    BY <2>1
  <2> QED
    BY <2>2 DEF b
<1>11. \A i \in 1 .. MaxBlocks : follow[i] \in D
  <2>1. \A i \in 1 .. MaxBlocks : (i = 1 \/ follow[i - 1] \in D) => follow[i] \in D
    BY <1>2, <1>3, <1>10
  <2> QED
    BY <1>5, <2>1, HandedOn
<1>12. Follows(h, c, follow)
  BY <1>10 DEF Follows, e, G
<1> QED
  BY <1>9, <1>11, <1>12 DEF D

(* The adjusted size of a request is aligned and has room for the tags.    *)
LEMMA AdjustFacts ==
  \A size \in Nat : /\ Adjust(size) \in Nat /\ Al(Adjust(size)) /\ Adjust(size) >= 16
                    /\ Adjust(size) >= size + 8
<1>1. SUFFICES ASSUME NEW size \in Nat
               PROVE  /\ Adjust(size) \in Nat /\ Al(Adjust(size)) /\ Adjust(size) >= 16
                      /\ Adjust(size) >= size + 8
  OBVIOUS
<1>2. CASE size <= 8
  <2>1. Adjust(size) = 16
    BY <1>2 DEF Adjust, DSIZE
  <2> QED
    BY <1>2, <2>1, AlFacts
<1>3. CASE ~(size <= 8)
  <2> DEFINE q == (size + 15) \div 8
             r == (size + 15) % 8
  <2>1. Adjust(size) = 8 * q
    BY <1>3 DEF Adjust, DSIZE
  <2>2. q \in Nat /\ r \in 0 .. 7 /\ size + 15 = 8 * q + r
    <3>1. size + 15 \in Nat /\ 8 \in Nat \ {0}
      OBVIOUS
    <3> QED
      BY <3>1, DivModExist
  <2> HIDE DEF q, r
  <2>3. (8 * q) % 8 = 0
    BY <2>2
  <2> QED
    BY <1>3, <2>1, <2>2, <2>3 DEF Al
<1> QED
  BY <1>2, <1>3

(* Three measures of the elements of F.                                    *)
Numbers(F, a, b, c) == \A f \in F : a[f] \in Nat /\ b[f] \in Nat /\ c[f] \in Nat

(* The first of a set in the order of three numbers.                       *)
LEMMA LexMin ==
  ASSUME NEW F, F # {}, NEW a, NEW b, NEW c, Numbers(F, a, b, c)
  PROVE  \E f \in F : \A g \in F :
            a[f] < a[g] \/ (a[f] = a[g] /\ (b[f] < b[g] \/ (b[f] = b[g] /\ c[f] <= c[g])))
<1>0. \A f \in F : a[f] \in Nat /\ b[f] \in Nat /\ c[f] \in Nat
  BY DEF Numbers
<1> DEFINE U == {a[f] : f \in F}
<1>1. U \subseteq Nat /\ U # {}
  BY <1>0
<1>2. PICK x : x \in U /\ \A y \in U : x <= y
  <2> HIDE DEF U
  <2> QED
    BY <1>1, MinNat
<1> DEFINE G == {f \in F : a[f] = x}
           V == {b[f] : f \in G}
<1>3. V \subseteq Nat /\ V # {}
  BY <1>0, <1>2
<1>4. PICK y : y \in V /\ \A z \in V : y <= z
  <2> HIDE DEF V
  <2> QED
    BY <1>3, MinNat
<1> DEFINE H == {f \in G : b[f] = y}
           W == {c[f] : f \in H}
<1>5. W \subseteq Nat /\ W # {}
  BY <1>0, <1>4
<1>6. PICK w : w \in W /\ \A z \in W : w <= z
  <2> HIDE DEF W
  <2> QED
    BY <1>5, MinNat
<1>7. PICK f : f \in H /\ c[f] = w
  BY <1>6
<1>8. f \in F /\ a[f] = x /\ b[f] = y /\ c[f] = w
  BY <1>7
<1>9. ASSUME NEW g \in F
      PROVE  a[f] < a[g] \/ (a[f] = a[g] /\ (b[f] < b[g] \/ (b[f] = b[g] /\ c[f] <= c[g])))
  <2>0. x \in Nat /\ y \in Nat /\ w \in Nat /\ a[g] \in Nat /\ b[g] \in Nat /\ c[g] \in Nat
    BY <1>0, <1>8
  <2>1. x <= a[g]
    BY <1>2
  <2>2. a[g] = x => y <= b[g]
    BY <1>4
  <2>3. a[g] = x /\ b[g] = y => w <= c[g]
    BY <1>6
  <2> QED
    BY <1>8, <2>0, <2>1, <2>2, <2>3
<1> QED
  BY <1>8, <1>9

(* A call of find_fit.                                                     *)
Finds(h, asize, fit) == asize \in Nat /\ fit = find_fit(h, asize)

(* find_fit returns NULL or a free block that is large enough.             *)
LEMMA Found ==
  ASSUME NEW h, NEW B, NEW S, NEW A, NEW asize, NEW fit, Settled(h, B, S, A), Finds(h, asize, fit)
  PROVE  fit = 0 \/ (fit \in B \ A /\ Fits(S[fit], asize) /\ asize <= S[fit])
<1> DEFINE list == [c \in Classes |-> Chain(h, c)]
           size(f) == GETSIZE(h, HDRP(list[f[1]][f[2]]))
           found == {f \in (find_class(asize) .. CLASS_SIZE - 1) \X (1 .. MaxBlocks) :
                         f[2] \in DOMAIN list[f[1]] /\ Fits(size(f), asize)}
           best  == CHOOSE f \in found : \A g \in found :
                       \/ size(f) < size(g)
                       \/ size(f) = size(g) /\ (f[1] < g[1] \/ (f[1] = g[1] /\ f[2] <= g[2]))
<1>0. Heaped(h, B, S, A, B \ A) /\ Shape(h, B, S, A) /\ A \subseteq B
  BY DEF Settled, Heaped, Shape
<1>1. fit = IF found = {} THEN NULL ELSE list[best[1]][best[2]]
  BY DEF Finds, find_fit
<1>2. ASSUME NEW f \in found
      PROVE  /\ f[1] \in Nat /\ f[2] \in Nat /\ list[f[1]][f[2]] \in B \ A
             /\ size(f) = S[list[f[1]][f[2]]] /\ Fits(size(f), asize)
             /\ size(f) \in Nat
  <2>1. f[1] \in Classes /\ f[2] \in 1 .. MaxBlocks /\ f[1] \in Nat /\ f[2] \in Nat
    <3>1. f[1] \in find_class(asize) .. CLASS_SIZE - 1 /\ f[2] \in 1 .. MaxBlocks
      OBVIOUS
    <3>2. find_class(asize) \in 0 .. CLASS_SIZE - 1 /\ CLASS_SIZE \in Nat
      BY ClassFacts, ClassSizeAssumption DEF Classes
    <3>3. MaxBlocks \in Nat
      BY MaxHeapAssumption DEF MaxBlocks, DSIZE
    <3> QED
      BY <3>1, <3>2, <3>3 DEF Classes
  <2>2. list[f[1]] = Chain(h, f[1]) /\ f[2] \in DOMAIN list[f[1]]
    BY <2>1
  <2>3. PICK u : /\ Chain(h, f[1]) = [i \in {k \in 1 .. MaxBlocks : u[k] # 0} |-> u[i]]
                 /\ \A i \in 1 .. MaxBlocks : u[i] # 0 => u[i] \in B \ A /\ cls(S, u[i]) = f[1]
    BY <1>0, <2>1, ChainIs
  <2>4. list[f[1]][f[2]] = u[f[2]] /\ u[f[2]] # 0 /\ f[2] \in 1 .. MaxBlocks
    BY <2>2, <2>3
  <2>5. list[f[1]][f[2]] \in B \ A
    BY <2>3, <2>4
  <2>6. size(f) = S[list[f[1]][f[2]]]
    BY <1>0, <2>5, Seen
  <2>7. \A b \in B : S[b] \in Nat
    BY <1>0, HeapPlaces
  <2> QED
    BY <2>1, <2>5, <2>6, <2>7
<1>3. CASE found = {}
  BY <1>1, <1>3 DEF NULL
<1>4. CASE found # {}
  <2> DEFINE a == [f \in found |-> size(f)]
             b == [f \in found |-> f[1]]
             c == [f \in found |-> f[2]]
  <2>1. Numbers(found, a, b, c)
    <3> HIDE DEF found, size
    <3> QED
      BY <1>2 DEF Numbers
  <2>2. \E f \in found : \A g \in found :
            a[f] < a[g] \/ (a[f] = a[g] /\ (b[f] < b[g] \/ (b[f] = b[g] /\ c[f] <= c[g])))
    <3> HIDE DEF found, a, b, c
    <3> QED
      BY <1>4, <2>1, LexMin
  <2>3. \E f \in found : \A g \in found :
                       \/ size(f) < size(g)
                       \/ size(f) = size(g) /\ (f[1] < g[1] \/ (f[1] = g[1] /\ f[2] <= g[2]))
    <3> HIDE DEF found, size
    <3> QED
      BY <2>2
  <2>4. best \in found
    <3> HIDE DEF found, size
    <3> QED
      BY <2>3
  <2> HIDE DEF best
  <2>5. fit = list[best[1]][best[2]]
    BY <1>1, <1>4
  <2>6. fit \in B \ A /\ Fits(S[fit], asize) /\ S[fit] \in Nat
    <3> HIDE DEF found, size, list
    <3> QED
      BY <1>2, <2>4, <2>5
  <2>7. asize <= S[fit]
    BY <2>6 DEF Fits, DSIZE, Finds
  <2> QED
    BY <2>6, <2>7
<1> QED
  BY <1>3, <1>4

----------------------------------------------------------------------------
(* mm_malloc.                                                              *)

(* A call of mm_malloc.                                                    *)
Mallocs(h, size, r) == size \in Nat /\ r = mm_malloc(h, size)

(* mm_malloc fails and leaves the heap alone, or adds one allocated block. *)
Served(h, S, A, size, r) ==
    /\ r.p \notin A /\ r.p # 0 /\ r.h.brk >= h.brk /\ size > 0
    /\ \E B2, S2 : /\ Settled(r.h, B2, S2, A \cup {r.p})
                   /\ Kept(h, r.h, S, A) /\ \A a \in A : S2[a] = S[a]
                   /\ S2[r.p] >= Adjust(size)

(* mm_malloc does what Served says, or fails and leaves the heap as it was.*)
LEMMA Malloced ==
  ASSUME NEW h, NEW B, NEW S, NEW A, NEW size, NEW r, Settled(h, B, S, A), Mallocs(h, size, r)
  PROVE  (r.p = 0 /\ r.h = h) \/ Served(h, S, A, size, r)
<1> DEFINE n == Adjust(size)
           fit == find_fit(h, n)
           more == extend_heap(h, n \div WSIZE)
<1>1. n \in Nat /\ Al(n) /\ n >= 16 /\ size \in Nat /\ r = mm_malloc(h, size)
  BY AdjustFacts DEF Mallocs
<1>2. r = IF size <= 0 THEN [h |-> h, p |-> NULL]
          ELSE IF fit # NULL THEN [h |-> place(h, fit, n), p |-> fit]
          ELSE IF more.ok THEN [h |-> place(more.h, more.bp, n), p |-> more.bp]
          ELSE [h |-> h, p |-> NULL]
  BY <1>1 DEF mm_malloc
<1>3. h.brk \in Nat /\ A \subseteq B
  BY HeapPlaces DEF Settled
<1>4. PICK f, m : f = fit /\ Finds(h, n, f) /\ m = more /\ Grows(h, n, m)
  BY <1>1 DEF Finds, Grows
<1> HIDE DEF fit, more
<1>5. CASE size <= 0
  BY <1>2, <1>5 DEF NULL
<1>6. CASE ~(size <= 0) /\ f # 0
  <2> HIDE DEF n
  <2>1. f \in B \ A /\ n <= S[f]
    BY <1>4, <1>6, Found
  <2>2. r.h = place(h, f, n) /\ r.p = f
    BY <1>2, <1>4, <1>6 DEF NULL
  <2>3. PICK B2, S2 :
           /\ Settled(r.h, B2, S2, A \cup {f}) /\ r.h.brk = h.brk /\ Kept(h, r.h, S, A)
           /\ \A a \in A : S2[a] = S[a]
           /\ S2[f] >= n
    <3>1. LET t == place(h, f, n)
          IN  \E B2, S2 :
               /\ Settled(t, B2, S2, A \cup {f}) /\ t.brk = h.brk /\ Kept(h, t, S, A)
               /\ \A a \in A : S2[a] = S[a]
               /\ S2[f] >= n
      BY <1>1, <2>1, Placed
    <3> QED
      BY <2>2, <3>1
  <2>4. size > 0 /\ r.h.brk >= h.brk
    BY <1>1, <1>3, <1>6, <2>3
  <2>5. /\ Settled(r.h, B2, S2, A \cup {r.p})
        /\ Kept(h, r.h, S, A) /\ (\A a \in A : S2[a] = S[a])
        /\ S2[r.p] >= Adjust(size)
    BY <2>2, <2>3 DEF n
  <2>6. r.p \notin A /\ r.p # 0
    BY <1>6, <2>1, <2>2
  <2> QED
    BY <2>4, <2>5, <2>6 DEF Served
<1>7. CASE ~(size <= 0) /\ f = 0
  <2> HIDE DEF n
  <2>1. CASE h.brk + n > MAX_HEAP /\ m.ok = FALSE /\ m.h = h
    BY <1>2, <1>4, <1>7, <2>1 DEF NULL
  <2>2. CASE /\ ~(h.brk + n > MAX_HEAP) /\ m.ok = TRUE
             /\ \E B2, S2 : /\ Settled(m.h, B2, S2, A) /\ m.h.brk = h.brk + n
                            /\ Kept(h, m.h, S, A) /\ \A a \in A : S2[a] = S[a]
                            /\ m.bp \in B2 \ A /\ S2[m.bp] >= n
    <3>1. PICK B2, S2 : /\ Settled(m.h, B2, S2, A) /\ m.h.brk = h.brk + n
                        /\ Kept(h, m.h, S, A) /\ \A a \in A : S2[a] = S[a]
                        /\ m.bp \in B2 \ A /\ S2[m.bp] >= n
      BY <2>2
    <3>2. r.h = place(m.h, m.bp, n) /\ r.p = m.bp
      BY <1>2, <1>4, <1>7, <2>2 DEF NULL
    <3>3. \A b \in B2 : S2[b] \in Nat /\ b >= 24 /\ b \in Nat
      BY <3>1, HeapPlaces DEF Settled
    <3>4. n <= S2[m.bp] /\ m.bp # 0
      BY <1>1, <3>1, <3>3
    <3>5. PICK B3, S3 :
           /\ Settled(r.h, B3, S3, A \cup {m.bp}) /\ r.h.brk = m.h.brk /\ Kept(m.h, r.h, S2, A)
           /\ \A a \in A : S3[a] = S2[a]
           /\ S3[m.bp] >= n
      <4>1. PICK g, b : g = m.h /\ b = m.bp
        OBVIOUS
      <4>2. Settled(g, B2, S2, A) /\ b \in B2 \ A /\ n <= S2[b]
        BY <3>1, <3>4, <4>1
      <4>3. LET t == place(g, b, n)
            IN  \E BX, SX :
                 /\ Settled(t, BX, SX, A \cup {b}) /\ t.brk = g.brk /\ Kept(g, t, S2, A)
                 /\ \A a \in A : SX[a] = S2[a]
                 /\ SX[b] >= n
        BY <1>1, <4>2, Placed
      <4>4. r.h = place(g, b, n)
        BY <3>2, <4>1
      <4> QED
        BY <4>1, <4>3, <4>4
    <3>6. Kept(h, r.h, S, A) /\ \A a \in A : S3[a] = S[a]
      BY <3>1, <3>5 DEF Kept
    <3>7. size > 0 /\ r.h.brk >= h.brk
      BY <1>1, <1>3, <1>7, <3>1, <3>5
    <3>8. /\ Settled(r.h, B3, S3, A \cup {r.p})
          /\ Kept(h, r.h, S, A) /\ (\A a \in A : S3[a] = S[a])
          /\ S3[r.p] >= Adjust(size)
      BY <3>2, <3>5, <3>6 DEF n
    <3>9. r.p \notin A /\ r.p # 0
      BY <3>1, <3>2, <3>4
    <3> QED
      BY <3>7, <3>8, <3>9 DEF Served
  <2>3. Grows(h, n, m)
    BY <1>4
  <2>4. \/ h.brk + n > MAX_HEAP /\ m.ok = FALSE /\ m.h = h
        \/ /\ ~(h.brk + n > MAX_HEAP) /\ m.ok = TRUE
           /\ \E B2, S2 : /\ Settled(m.h, B2, S2, A) /\ m.h.brk = h.brk + n
                          /\ Kept(h, m.h, S, A) /\ \A a \in A : S2[a] = S[a]
                          /\ m.bp \in B2 \ A /\ S2[m.bp] >= n
    BY <2>3, Grown
  <2> QED
    BY <2>1, <2>2, <2>4
<1> QED
  BY <1>5, <1>6, <1>7

----------------------------------------------------------------------------
(* mm_free, and writes into payloads.                                      *)

(* A call of mm_free for an allocated block.                               *)
Frees(h, p, t, A, A1) == p \in A /\ t = mm_free(h, p) /\ A1 = A \ {p}

(* mm_free takes one block away and leaves the others alone.               *)
LEMMA Freed ==
  ASSUME NEW h, NEW B, NEW S, NEW A, NEW p, NEW t, NEW A1, Settled(h, B, S, A),
         Frees(h, p, t, A, A1)
  PROVE  \E B2, S2 : /\ Settled(t, B2, S2, A1) /\ t.brk = h.brk
                     /\ Kept(h, t, S, A1) /\ \A a \in A1 : S2[a] = S[a]
<1>0. Heaped(h, B, S, A, B \ A) /\ NoPair(B, S, A) /\ p \in A /\ t = mm_free(h, p) /\ A1 = A \ {p}
  BY DEF Settled, Frees
<1>1. /\ \A b \in B : b \in Nat /\ S[b] \in Nat /\ S[b] >= 16 /\ b >= 24 /\ b + S[b] \in B \cup {h.brk} /\ b + S[b] <= h.brk
      /\ \A b, d \in B : b = d \/ b + S[b] <= d \/ d + S[d] <= b
      /\ h.brk \in Nat /\ A \subseteq B /\ S \in [Nat -> Nat]
  BY <1>0, HeapPlaces
<1>2. PICK r, n, bit : r = p + S[p] /\ n = S[p] /\ bit = 0
  OBVIOUS
<1>3. PICK u : u = SetTags(h, p, n, bit)
  OBVIOUS
<1>4. PICK c : c = coalesce(u, p)
  OBVIOUS
<1>5. t = c.h
  <2>1. GETSIZE(h, HDRP(p)) = S[p]
    BY <1>0, <1>1, Seen DEF Heaped
  <2>2. p # NULL
    BY <1>0, <1>1 DEF NULL
  <2> QED
    BY <1>0, <1>2, <1>3, <1>4, <2>1, <2>2 DEF mm_free
<1>6. Others(B, p, r) = B \ {p}
  <2>1. \A b \in B : b # p => ~(p <= b /\ b < r)
    BY <1>0, <1>1, <1>2
  <2>2. p <= p /\ p < r
    BY <1>0, <1>1, <1>2
  <2> QED
    BY <2>1, <2>2 DEF Others
<1>7. Retags(h, u, B, S, A, p, r, n, bit, B, S, A1)
  <2>1. p \in B /\ r \in B \cup {h.brk} /\ n \in Nat /\ n > 0 /\ r = p + n /\ bit \in {0, 1}
    BY <1>0, <1>1, <1>2
  <2>2. B = Others(B, p, r) \cup {p}
    BY <1>6, <2>1
  <2>3. S = [S EXCEPT ![p] = n]
    BY <1>1, <1>2
  <2>4. A1 = (A \cap Others(B, p, r)) \cup {x \in {p} : bit = 1}
    BY <1>0, <1>1, <1>2, <1>6
  <2> QED
    BY <1>3, <2>1, <2>2, <2>3, <2>4 DEF Retags
<1>8. PICK X : X = B \ A
  OBVIOUS
<1>9. Heaped(u, B, S, A1, X) /\ u.brk = h.brk /\ Kept(h, u, S, B)
  <2>1. X \subseteq Others(B, p, r) /\ Heaped(h, B, S, A, X)
    BY <1>0, <1>6, <1>8
  <2> QED
    BY <1>7, <2>1, Retagged
<1>10. Loose(u, B, S, A1, p)
  <2>1. X = (B \ A1) \ {p} /\ p \in B \ A1
    BY <1>0, <1>1, <1>8
  <2>2. \A b \in B \ A1 : b + S[b] \in B \ A1 => b = p \/ b + S[b] = p
    BY <1>0 DEF NoPair
  <2> QED
    BY <1>9, <2>1, <2>2 DEF Loose
<1>11. PICK B2, S2 :
            /\ Settled(c.h, B2, S2, A1) /\ c.h.brk = u.brk /\ Kept(u, c.h, S, A1)
            /\ \A a \in A1 : S2[a] = S[a]
            /\ c.bp \in B2 \ A1 /\ c.bp <= p /\ p + S[p] <= c.bp + S2[c.bp]
  BY <1>4, <1>10, Coalesced
<1>12. Kept(h, t, S, A1)
  <2>1. A1 \subseteq B
    BY <1>0, <1>1
  <2> QED
    BY <1>5, <1>9, <1>11, <2>1 DEF Kept
<1>13. Settled(t, B2, S2, A1) /\ t.brk = h.brk
  BY <1>5, <1>9, <1>11
<1> QED
  BY <1>11, <1>12, <1>13

(* Writing into the payloads of allocated blocks.                          *)
Fills(h, t, B, S, A) ==
    /\ t.mem \in [Words -> Nat] /\ t = [h EXCEPT !.mem = t.mem]
    /\ \A a \in Words : \/ t.mem[a] = h.mem[a]
                        \/ \E b \in A : b <= a /\ a < b + S[b] - 8

(* Such writes leave the heap settled.                                     *)
LEMMA Filled ==
  ASSUME NEW h, NEW B, NEW S, NEW A, NEW t, Settled(h, B, S, A), Fills(h, t, B, S, A)
  PROVE  Settled(t, B, S, A) /\ t.brk = h.brk
<1>0. /\ Shape(h, B, S, A) /\ B \ A \subseteq B \ A /\ A \subseteq B /\ NoPair(B, S, A)
      /\ h \in HeapT
  BY DEF Settled, Heaped, Shape
<1>1. PICK rank : Linked(h, S, B \ A, rank)
  BY DEF Settled, Heaped
<1>2. t \in HeapT /\ t.brk = h.brk /\ t.free_list = h.free_list
  BY <1>0 DEF HeapT, Fills
<1>3. \A a \in Words : \/ t.mem[a] = h.mem[a]
                       \/ \E b \in A : b <= a /\ a < b + S[b] - 8
  BY DEF Fills
<1>4. Shape(t, B, S, A)
  <2>1. \A a \in Words : \/ t.mem[a] = h.mem[a]
                         \/ \E b \in B : b <= a /\ a < b + S[b] - 8
    BY <1>0, <1>3
  <2> QED
    BY <1>0, <1>2, <2>1, ShapeKept
<1>5. \A f \in B \ A : t.mem[f] = h.mem[f] /\ t.mem[f + 4] = h.mem[f + 4]
  <2>1. /\ \A b \in B : b \in Nat /\ S[b] \in Nat /\ S[b] >= 16 /\ {b, b + 4} \subseteq Words
        /\ \A b, d \in B : b = d \/ b + S[b] <= d \/ d + S[d] <= b
    BY HeapPlaces DEF Settled
  <2>2. ASSUME NEW f \in B \ A, NEW b \in A PROVE ~(b <= f /\ f < b + S[b] - 8) /\ ~(b <= f + 4 /\ f + 4 < b + S[b] - 8)
    <3>1. f \in B /\ b \in B /\ f # b
      BY <1>0
    <3>2. f \in Nat /\ b \in Nat /\ S[f] \in Nat /\ S[b] \in Nat /\ S[f] >= 16 /\ S[b] >= 16
          /\ (b + S[b] <= f \/ f + S[f] <= b)
      BY <2>1, <3>1
    <3> QED
      BY <3>2
  <2> QED
    BY <1>3, <2>1, <2>2
<1>6. Linked(t, S, B \ A, rank)
  BY <1>1, <1>2, <1>5 DEF Linked
<1> QED
  BY <1>0, <1>2, <1>4, <1>6 DEF Settled, Heaped

----------------------------------------------------------------------------
(* mm_realloc.                                                             *)

(* The block p stays, with at least asize bytes and what it held of them.  *)
Resettled(h, t, S, A, p, asize) ==
    \E B2, S2 : /\ Settled(t, B2, S2, A) /\ t.brk = h.brk
                /\ \A a \in A \ {p} : S2[a] = S[a]
                /\ S2[p] >= asize
                /\ \A b \in A : \A a \in Words :
                      b <= a /\ a < b + S[b] - 8 /\ a < b + S2[b] - 8 => t.mem[a] = h.mem[a]

(* An allocated block gives up what it holds beyond asize bytes.           *)
Shrinks(h, t, B, S, A, p, asize) ==
    /\ Settled(h, B, S, A) /\ p \in A /\ asize \in Nat /\ Al(asize) /\ asize >= 16 /\ asize <= S[p]
    /\ t = LET cut == Split(h, p, S[p], asize)
           IN  IF LeavesBlock(S[p], asize) THEN coalesce(cut, p + asize).h ELSE cut

(* Shrinking in place keeps the block and what it still holds.             *)
LEMMA Shrunk ==
  ASSUME NEW h, NEW B, NEW S, NEW A, NEW t, NEW p, NEW asize, Shrinks(h, t, B, S, A, p, asize)
  PROVE  Resettled(h, t, S, A, p, asize)
<1>0. /\ Settled(h, B, S, A) /\ Heaped(h, B, S, A, B \ A) /\ NoPair(B, S, A) /\ p \in A
      /\ asize \in Nat /\ Al(asize) /\ asize >= 16 /\ asize <= S[p]
  BY DEF Shrinks, Settled
<1>1. /\ \A b \in B : b \in Nat /\ S[b] \in Nat /\ S[b] >= 16 /\ b >= 24 /\ b + S[b] \in B \cup {h.brk} /\ b + S[b] <= h.brk
      /\ \A b, d \in B : b = d \/ b + S[b] <= d \/ d + S[d] <= b
      /\ h.brk \in Nat /\ A \subseteq B /\ S \in [Nat -> Nat]
  BY <1>0, HeapPlaces
<1>2. PICK r, n, bit, m, X : r = p + S[p] /\ n = S[p] /\ bit = 1 /\ m = p + asize /\ X = B \ A
  OBVIOUS
<1>3. PICK u, c : u = Split(h, p, n, asize) /\ c = coalesce(u, m)
  OBVIOUS
<1>4. t = IF LeavesBlock(n, asize) THEN c.h ELSE u
  BY <1>2, <1>3 DEF Shrinks
<1>5. p \in B /\ p \in Nat /\ n \in Nat /\ n >= 16 /\ r \in B \cup {h.brk} /\ r = p + n /\ Others(B, p, r) = B \ {p}
  <2>1. \A b \in B : b # p => ~(p <= b /\ b < r)
    BY <1>0, <1>1, <1>2
  <2>2. p <= p /\ p < r
    BY <1>0, <1>1, <1>2
  <2>3. Others(B, p, r) = B \ {p}
    BY <2>1, <2>2 DEF Others
  <2> QED
    BY <1>0, <1>1, <1>2, <2>3
<1>6. X \subseteq Others(B, p, r) /\ Heaped(h, B, S, A, X)
  BY <1>0, <1>2, <1>5
<1>7. CASE LeavesBlock(n, asize)
  <2>1. PICK B2, S2 : B2 = Others(B, p, r) \cup {p, m} /\ S2 = [S EXCEPT ![p] = asize, ![m] = n - asize]
    OBVIOUS
  <2>2. Splits(h, u, B, S, A, p, r, n, asize, m, B2, S2, A)
    <3>1. A = (A \cap Others(B, p, r)) \cup {p}
      BY <1>0, <1>1, <1>5
    <3> QED
      BY <1>0, <1>2, <1>3, <1>5, <1>7, <2>1, <3>1 DEF Splits
  <2>3. Heaped(u, B2, S2, A, X) /\ u.brk = h.brk /\ Kept(h, u, S2, B2)
    BY <1>6, <2>2, SplitInTwo
  <2>4. m \notin B /\ m \in Nat /\ m # p
    <3>1. n - asize >= 16
      BY <1>7 DEF LeavesBlock, DSIZE
    <3>2. m \in Nat /\ p < m /\ m < p + S[p]
      BY <1>0, <1>2, <1>5, <3>1
    <3> QED
      BY <1>1, <1>5, <3>2
  <2>5. /\ B2 = B \cup {m} /\ S2[p] = asize /\ S2[m] = n - asize
        /\ \A b \in B : b # p => S2[b] = S[b]
    BY <1>1, <1>5, <2>1, <2>4
  <2>6. Loose(u, B2, S2, A, m)
    <3>1. X = (B2 \ A) \ {m} /\ m \in B2 \ A
      BY <1>1, <1>2, <2>4, <2>5
    <3>2. ASSUME NEW b \in B2 \ A, b + S2[b] \in B2 \ A PROVE b = m \/ b + S2[b] = m
      <4>1. SUFFICES ASSUME b # m, b + S2[b] # m PROVE FALSE
        OBVIOUS
      <4>2. b \in B \ A /\ b # p /\ S2[b] = S[b]
        BY <1>0, <2>5, <3>2, <4>1
      <4>3. b + S[b] \in B \ A
        BY <2>5, <3>2, <4>1, <4>2
      <4> QED
        BY <1>0, <4>2, <4>3 DEF NoPair
    <3> QED
      BY <2>3, <3>1, <3>2 DEF Loose
  <2>7. PICK B3, S3 :
            /\ Settled(c.h, B3, S3, A) /\ c.h.brk = u.brk /\ Kept(u, c.h, S2, A)
            /\ \A a \in A : S3[a] = S2[a]
            /\ c.bp \in B3 \ A /\ c.bp <= m /\ m + S2[m] <= c.bp + S3[c.bp]
    BY <1>3, <2>6, Coalesced
  <2>8. t = c.h
    BY <1>4, <1>7
  <2>9. Kept(h, t, S3, A)
    <3>1. A \subseteq B2
      BY <1>1, <2>5
    <3> QED
      BY <2>3, <2>7, <2>8, <3>1 DEF Kept
  <2>10. (\A a \in A \ {p} : S3[a] = S[a]) /\ S3[p] >= asize
    BY <1>0, <1>1, <2>5, <2>7
  <2>11. Settled(t, B3, S3, A) /\ t.brk = h.brk
    BY <2>3, <2>7, <2>8
  <2>12. \A b \in A : \A a \in Words :
            b <= a /\ a < b + S[b] - 8 /\ a < b + S3[b] - 8 => t.mem[a] = h.mem[a]
    BY <2>9 DEF Kept
  <2> QED
    BY <2>10, <2>11, <2>12 DEF Resettled
<1>8. CASE ~LeavesBlock(n, asize)
  <2>1. t = SetTags(h, p, n, bit)
    BY <1>2, <1>3, <1>4, <1>8 DEF Split
  <2>2. Retags(h, t, B, S, A, p, r, n, bit, B, S, A)
    <3>1. B = Others(B, p, r) \cup {p}
      BY <1>5
    <3>2. S = [S EXCEPT ![p] = n]
      BY <1>1, <1>2
    <3>3. A = (A \cap Others(B, p, r)) \cup {x \in {p} : bit = 1}
      BY <1>0, <1>1, <1>2, <1>5
    <3> QED
      BY <1>2, <1>5, <2>1, <3>1, <3>2, <3>3 DEF Retags
  <2>3. Heaped(t, B, S, A, X) /\ t.brk = h.brk /\ Kept(h, t, S, B)
    BY <1>6, <2>2, Retagged
  <2>4. Settled(t, B, S, A) /\ Kept(h, t, S, A)
    BY <1>0, <1>1, <1>2, <2>3 DEF Settled, Kept
  <2>5. \A b \in A : \A a \in Words :
            b <= a /\ a < b + S[b] - 8 /\ a < b + S[b] - 8 => t.mem[a] = h.mem[a]
    BY <2>4 DEF Kept
  <2>6. S[p] >= asize
    BY <1>0, <1>2, <1>5
  <2> QED
    BY <2>3, <2>4, <2>5, <2>6 DEF Resettled
<1> QED
  BY <1>7, <1>8

(* An allocated block grows into the free block behind it.                 *)
GrowsInto(h, t, B, S, A, p, next, asize) ==
    /\ Settled(h, B, S, A) /\ p \in A /\ asize \in Nat /\ Al(asize) /\ asize >= 16
    /\ next = p + S[p] /\ next \in B \ A /\ asize <= S[p] + S[next]
    /\ t = SplitAndList(remove_list(h, next), p, S[p] + S[next], asize)

(* Growing into the free block behind keeps the block and all it holds.    *)
LEMMA GrownInto ==
  ASSUME NEW h, NEW B, NEW S, NEW A, NEW t, NEW p, NEW next, NEW asize,
         GrowsInto(h, t, B, S, A, p, next, asize)
  PROVE  Resettled(h, t, S, A, p, asize)
<1>0. /\ Settled(h, B, S, A) /\ Heaped(h, B, S, A, B \ A) /\ NoPair(B, S, A) /\ p \in A
      /\ asize \in Nat /\ Al(asize) /\ asize >= 16
      /\ next = p + S[p] /\ next \in B \ A /\ asize <= S[p] + S[next]
  BY DEF GrowsInto, Settled
<1>1. /\ \A b \in B : b \in Nat /\ S[b] \in Nat /\ S[b] >= 16 /\ b >= 24 /\ b + S[b] \in B \cup {h.brk} /\ b + S[b] <= h.brk
      /\ \A b, d \in B : b = d \/ b + S[b] <= d \/ d + S[d] <= b
      /\ h.brk \in Nat /\ A \subseteq B /\ S \in [Nat -> Nat]
  BY <1>0, HeapPlaces
<1>2. PICK r, size, u : r = next + S[next] /\ size = S[p] + S[next] /\ u = remove_list(h, next)
  OBVIOUS
<1>3. p \in B /\ p \in Nat /\ next \in Nat /\ S[p] \in Nat /\ S[next] \in Nat /\ S[next] >= 16 /\ S[p] >= 16
  BY <1>0, <1>1
<1>4. size \in Nat /\ r = p + size /\ r \in B \cup {h.brk} /\ r \notin B \ A
  <2>1. r \notin B \ A
    BY <1>0, <1>2 DEF NoPair
  <2> QED
    BY <1>0, <1>1, <1>2, <1>3, <2>1
<1>5. Others(B, p, r) = B \ {p, next}
  <2>1. ASSUME NEW b \in B, b # p, b # next PROVE ~(p <= b /\ b < r)
    <3>1. /\ b \in Nat /\ S[b] \in Nat /\ S[b] >= 16
          /\ b + S[b] <= p \/ p + S[p] <= b
          /\ b + S[b] <= next \/ next + S[next] <= b
      BY <1>0, <1>1, <1>3, <2>1
    <3> QED
      BY <1>0, <1>2, <1>3, <3>1
  <2>2. p <= p /\ p < r /\ p <= next /\ next < r
    BY <1>0, <1>2, <1>3
  <2> QED
    BY <2>1, <2>2 DEF Others
<1>6. PICK X : X = (B \ A) \ {next} /\ Heaped(u, B, S, A, X) /\ u.brk = h.brk /\ Kept(h, u, S, A)
  <2>1. PICK Y : Y = B \ A /\ Heaped(h, B, S, A, Y) /\ next \in Y
    BY <1>0
  <2>2. Heaped(u, B, S, A, Y \ {next}) /\ u.brk = h.brk /\ Kept(h, u, S, A)
    BY <1>2, <2>1, RemoveHeaped
  <2> QED
    BY <2>1, <2>2
<1>7. Allots(u, t, B, S, A, p, r, size, asize, A)
  <2>1. Others(B, p, r) \ A = X
    BY <1>0, <1>5, <1>6
  <2>2. Heaped(u, B, S, A, Others(B, p, r) \ A)
    BY <1>6, <2>1
  <2>3. A = (A \cap Others(B, p, r)) \cup {p}
    BY <1>0, <1>1, <1>5
  <2>4. t = SplitAndList(u, p, size, asize)
    BY <1>2 DEF GrowsInto
  <2> QED
    BY <1>0, <1>2, <1>3, <1>4, <1>6, <2>2, <2>3, <2>4 DEF Allots
<1>8. PICK B2, S2 :
            /\ Settled(t, B2, S2, A) /\ t.brk = u.brk /\ Kept(u, t, S2, A)
            /\ \A a \in A \cap Others(B, p, r) : S2[a] = S[a]
            /\ S2[p] >= asize
  BY <1>7, Allotted
<1>9. \A a \in A \ {p} : S2[a] = S[a]
  BY <1>0, <1>1, <1>5, <1>8
<1>10. \A b \in A : \A a \in Words :
          b <= a /\ a < b + S[b] - 8 /\ a < b + S2[b] - 8 => t.mem[a] = h.mem[a]
  BY <1>6, <1>8 DEF Kept
<1>11. t.brk = h.brk
  BY <1>6, <1>8
<1> QED
  BY <1>8, <1>9, <1>10, <1>11 DEF Resettled

(* An allocated block moves to another one, which mm_malloc found.         *)
Moves(h, r, B, S, A, p, n, new, A1) ==
    /\ Settled(h, B, S, A) /\ p \in A /\ Mallocs(h, n, new) /\ new.p # 0 /\ S[p] <= n
    /\ A1 = A \ {p}
    /\ r = [h |-> mm_free(memcpy(new.h, new.p, p, S[p] - 8), p), p |-> new.p]

(* The block q holds in t what p held in h.                                *)
Copies(h, t, S, p, q) ==
    \A a \in Words : q <= a /\ a < q + S[p] - 8 => t.mem[a] = h.mem[p + (a - q)]

(* The block p has moved to another one of at least n bytes.               *)
Relocated(h, S, A, A1, p, n, r) ==
    /\ r.p \notin A /\ r.p # 0 /\ r.h.brk >= h.brk
    /\ Copies(h, r.h, S, p, r.p) /\ Kept(h, r.h, S, A1)
    /\ \E B2, S2 : /\ Settled(r.h, B2, S2, A1 \cup {r.p})
                   /\ \A a \in A1 : S2[a] = S[a]
                   /\ S2[r.p] >= n

(* mm_malloc, memcpy and mm_free together move a block unharmed.           *)
LEMMA Moved ==
  ASSUME NEW h, NEW r, NEW B, NEW S, NEW A, NEW p, NEW n, NEW new, NEW A1,
         Moves(h, r, B, S, A, p, n, new, A1)
  PROVE  Relocated(h, S, A, A1, p, n, r)
<1>0. /\ Settled(h, B, S, A) /\ p \in A /\ Mallocs(h, n, new) /\ new.p # 0 /\ S[p] <= n
      /\ A1 = A \ {p} /\ n \in Nat
  BY DEF Moves, Mallocs
<1>1. PICK q, g : q = new.p /\ g = new.h
  OBVIOUS
<1>2. PICK u, m : m = S[p] - 8 /\ u = memcpy(g, q, p, m)
  OBVIOUS
<1>3. r.h = mm_free(u, p) /\ r.p = q
  BY <1>1, <1>2 DEF Moves
<1>4. PICK A2 : A2 = A \cup {q}
  OBVIOUS
<1>5. PICK B2, S2 : /\ q \notin A /\ q # 0 /\ g.brk >= h.brk
                    /\ Settled(g, B2, S2, A2) /\ Kept(h, g, S, A) /\ (\A a \in A : S2[a] = S[a])
                    /\ S2[q] >= Adjust(n)
  <2>1. Served(h, S, A, n, new)
    BY <1>0, Malloced
  <2> QED
    BY <1>1, <1>4, <2>1 DEF Served
<1>6. /\ \A b \in B2 : b \in Nat /\ S2[b] \in Nat /\ S2[b] >= 16 /\ b >= 24 /\ Al(b) /\ b >= first /\ b + S2[b] <= g.brk
      /\ \A b, d \in B2 : b = d \/ b + S2[b] <= d \/ d + S2[d] <= b
      /\ A2 \subseteq B2 /\ S2 \in [Nat -> Nat] /\ g \in HeapT /\ g.brk \in Nat /\ g.brk <= MAX_HEAP
      /\ first \in Nat /\ MAX_HEAP \in Nat
  BY <1>5, HeapPlaces DEF Settled
<1>7. /\ p \in B2 /\ p \in A2 /\ q \in B2 /\ q \in A2 /\ p # q /\ p \in Nat /\ q \in Nat /\ S2[p] = S[p] /\ S[p] \in Nat
      /\ S[p] >= 16 /\ Al(p) /\ Al(q) /\ m \in Nat /\ m + 8 = S[p] /\ p >= first /\ p + S[p] <= g.brk
  BY <1>0, <1>2, <1>4, <1>5, <1>6
<1>8. n <= S2[q] /\ S2[q] \in Nat /\ S[p] + 8 <= S2[q]
  <2>1. Adjust(n) >= n + 8 /\ Adjust(n) \in Nat
    BY <1>0, AdjustFacts
  <2>2. S2[q] \in Nat
    BY <1>6, <1>7
  <2> QED
    BY <1>0, <1>5, <1>7, <2>1, <2>2
<1>9. ASSUME NEW a \in Words, q <= a, a < q + m
      PROVE  p + (a - q) \in Words /\ p <= p + (a - q) /\ p + (a - q) < p + S[p] - 8
  <2>1. a \in Int /\ a % 4 = 0 /\ Words = {x \in first - 12 .. MAX_HEAP - 1 : x % 4 = 0}
    BY Layout
  <2>2. PICK i \in Nat : a - q = i /\ i < m
    BY <1>7, <1>9, <2>1
  <2>3. (p + i) % 4 = 0
    BY <1>7, <2>1, <2>2 DEF Al
  <2>4. p + i \in first - 12 .. MAX_HEAP - 1
    BY <1>6, <1>7, <2>2
  <2>5. p <= p + i /\ p + i < p + S[p] - 8
    BY <1>7, <2>2
  <2> QED
    BY <2>1, <2>2, <2>3, <2>4, <2>5
<1>10. /\ u = [g EXCEPT !.mem = u.mem]
       /\ \A a \in Words : u.mem[a] = IF q <= a /\ a < q + m THEN g.mem[p + (a - q)] ELSE g.mem[a]
       /\ u.mem = [a \in Words |-> u.mem[a]]
  <2>1. \A a \in Words : a \in q .. q + m - 1 <=> q <= a /\ a < q + m
    <3>1. \A a \in Words : a \in Int
      BY Layout
    <3> QED
      BY <1>7, <3>1
  <2>2. u = [g EXCEPT !.mem = [a \in Words |-> IF a \in q .. q + m - 1 THEN g.mem[p + (a - q)] ELSE g.mem[a]]]
    BY <1>2 DEF memcpy
  <2> DEFINE M == [a \in Words |-> IF a \in q .. q + m - 1 THEN g.mem[p + (a - q)] ELSE g.mem[a]]
  <2>3. u = [g EXCEPT !.mem = M]
    BY <2>2
  <2>4. M = [a \in Words |-> M[a]] /\ \A a \in Words : M[a] = IF a \in q .. q + m - 1 THEN g.mem[p + (a - q)] ELSE g.mem[a]
    OBVIOUS
  <2> HIDE DEF M
  <2>5. u.mem = M
    BY <1>6, <2>3 DEF HeapT
  <2> QED
    BY <2>1, <2>3, <2>4, <2>5
<1>11. Fills(g, u, B2, S2, A2)
  <2>1. \A a \in Words : u.mem[a] \in Nat
    BY <1>6, <1>9, <1>10 DEF HeapT
  <2>2. u.mem \in [Words -> Nat]
    BY <1>10, <2>1
  <2>3. \A a \in Words : \/ u.mem[a] = g.mem[a]
                         \/ \E b \in A2 : b <= a /\ a < b + S2[b] - 8
    <3>1. \A a \in Words : q <= a /\ a < q + m => a < q + S2[q] - 8
      <4>1. \A a \in Words : a \in Int
        BY Layout
      <4> QED
        BY <1>7, <1>8, <4>1
    <3> QED
      BY <1>7, <1>10, <3>1
  <2> QED
    BY <1>10, <2>2, <2>3 DEF Fills
<1>12. Settled(u, B2, S2, A2) /\ u.brk = g.brk
  BY <1>5, <1>11, Filled
<1>13. PICK A3, t : A3 = A2 \ {p} /\ t = mm_free(u, p)
  OBVIOUS
<1>14. PICK B3, S3 : /\ Settled(t, B3, S3, A3) /\ t.brk = u.brk
                     /\ Kept(u, t, S2, A3) /\ \A a \in A3 : S3[a] = S2[a]
  <2>1. Frees(u, p, t, A2, A3)
    BY <1>7, <1>13 DEF Frees
  <2> QED
    BY <1>12, <2>1, Freed
<1>15. A3 = A1 \cup {q} /\ t = r.h /\ q \in A3 /\ A1 \subseteq A3 /\ A1 \subseteq A /\ q \notin A1
  BY <1>0, <1>3, <1>4, <1>5, <1>7, <1>13
<1>16. Copies(h, r.h, S, p, q)
  <2>1. SUFFICES ASSUME NEW a \in Words, q <= a, a < q + S[p] - 8 PROVE t.mem[a] = h.mem[p + (a - q)]
    BY <1>15 DEF Copies
  <2>2. a \in Int
    BY Layout
  <2>3. a < q + m /\ a < q + S2[q] - 8
    BY <1>7, <1>8, <2>1, <2>2
  <2>4. t.mem[a] = u.mem[a]
    BY <1>14, <1>15, <2>1, <2>3 DEF Kept
  <2>5. u.mem[a] = g.mem[p + (a - q)]
    BY <1>10, <2>1, <2>3
  <2>6. p + (a - q) \in Words /\ p <= p + (a - q) /\ p + (a - q) < p + S[p] - 8
    BY <1>9, <2>1, <2>3
  <2> HIDE DEF Words
  <2>7. g.mem[p + (a - q)] = h.mem[p + (a - q)]
    BY <1>0, <1>5, <2>6 DEF Kept
  <2> QED
    BY <2>4, <2>5, <2>7
<1>17. Kept(h, r.h, S, A1)
  <2>1. SUFFICES ASSUME NEW b \in A1, NEW a \in Words, b <= a, a < b + S[b] - 8 PROVE t.mem[a] = h.mem[a]
    BY <1>15 DEF Kept
  <2>2. t.mem[a] = u.mem[a]
    BY <1>5, <1>14, <1>15, <2>1 DEF Kept
  <2>3. u.mem[a] = g.mem[a]
    <3>1. a \in Int /\ b \in A /\ b \in B2 /\ b # q /\ b \in A2
      BY <1>4, <1>5, <1>6, <1>15, Layout
    <3>2. b \in Nat /\ S2[b] = S[b] /\ S2[b] \in Nat /\ (b + S2[b] <= q \/ q + S2[q] <= b)
      BY <1>5, <1>6, <1>7, <3>1
    <3>3. ~(q <= a /\ a < q + m)
      BY <1>7, <1>8, <2>1, <3>1, <3>2
    <3> QED
      BY <1>10, <3>3
  <2>4. g.mem[a] = h.mem[a]
    BY <1>5, <1>15, <2>1 DEF Kept
  <2> QED
    BY <2>2, <2>3, <2>4
<1>18. /\ Settled(r.h, B3, S3, A1 \cup {r.p})
       /\ \A a \in A1 : S3[a] = S[a]
       /\ S3[r.p] >= n
  BY <1>3, <1>5, <1>8, <1>14, <1>15
<1>19. r.h.brk >= h.brk
  BY <1>5, <1>12, <1>14, <1>15
<1>20. r.p \notin A /\ r.p # 0 /\ Copies(h, r.h, S, p, r.p)
  BY <1>3, <1>5, <1>16
<1> QED
  BY <1>17, <1>18, <1>19, <1>20 DEF Relocated

(* A call of mm_realloc for an allocated block.                            *)
Reallocs(h, p, size, r, A, A1) ==
    p \in A /\ size \in Nat /\ r = mm_realloc(h, p, size) /\ A1 = A \ {p}

(* The block p is gone, the blocks A1 are left.                            *)
Dropped(h, t, S, A1) ==
    /\ t.brk = h.brk /\ Kept(h, t, S, A1)
    /\ \E B2, S2 : Settled(t, B2, S2, A1) /\ \A a \in A1 : S2[a] = S[a]

(* A block of size bytes has taken the place of p, with what p held.       *)
Resized(h, S, A1, p, size, r) ==
    /\ r.p \notin A1 /\ r.p # 0 /\ r.h.brk >= h.brk /\ Kept(h, r.h, S, A1)
    /\ \A a \in Words : r.p <= a /\ a < r.p + size /\ a < r.p + (S[p] - 8)
                           => r.h.mem[a] = h.mem[p + (a - r.p)]
    /\ \E B2, S2 : /\ Settled(r.h, B2, S2, A1 \cup {r.p}) /\ \A a \in A1 : S2[a] = S[a]
                   /\ S2[r.p] >= size + 8

(* A block resized in place is one way to serve a realloc.                 *)
LEMMA InPlace ==
  ASSUME NEW h, NEW B, NEW S, NEW A, NEW p \in A, NEW A1, A1 = A \ {p}, NEW size \in Nat, NEW r,
         NEW n \in Nat, n >= size + 8, Settled(h, B, S, A), r.p = p, NEW t, r.h = t,
         Resettled(h, t, S, A, p, n)
  PROVE  Resized(h, S, A1, p, size, r)
<1>0. PICK B2, S2 : /\ Settled(t, B2, S2, A) /\ t.brk = h.brk
                    /\ \A a \in A \ {p} : S2[a] = S[a]
                    /\ S2[p] >= n
                    /\ \A b \in A : \A a \in Words :
                          b <= a /\ a < b + S[b] - 8 /\ a < b + S2[b] - 8 => t.mem[a] = h.mem[a]
  BY DEF Resettled
<1>1. /\ \A b \in B : b \in Nat /\ S[b] \in Nat /\ b >= 24
      /\ h.brk \in Nat /\ A \subseteq B
  BY HeapPlaces DEF Settled
<1>2. \A b \in B2 : S2[b] \in Nat /\ b \in Nat
  BY <1>0, HeapPlaces DEF Settled
<1>3. A \subseteq B2
  BY <1>0, HeapPlaces DEF Settled
<1>4. /\ r.p \notin A1 /\ r.p # 0 /\ r.h.brk >= h.brk /\ A1 \cup {r.p} = A
  BY <1>0, <1>1
<1>5. Kept(h, r.h, S, A1)
  BY <1>0 DEF Kept
<1>6. \A a \in Words : r.p <= a /\ a < r.p + size /\ a < r.p + (S[p] - 8)
                           => r.h.mem[a] = h.mem[p + (a - r.p)]
  <2>1. SUFFICES ASSUME NEW a \in Words, p <= a, a < p + size, a < p + (S[p] - 8)
                 PROVE  r.h.mem[a] = h.mem[p + (a - p)]
    OBVIOUS
  <2>2. a \in Int
    BY Layout
  <2>3. p \in Nat /\ S[p] \in Nat /\ S2[p] \in Nat /\ S2[p] >= n
    BY <1>0, <1>1, <1>2, <1>3
  <2>4. p + (a - p) = a /\ a < p + S[p] - 8 /\ a < p + S2[p] - 8
    BY <2>1, <2>2, <2>3
  <2> QED
    BY <1>0, <2>1, <2>4
<1>7. Settled(r.h, B2, S2, A1 \cup {r.p}) /\ (\A a \in A1 : S2[a] = S[a]) /\ S2[r.p] >= size + 8
  <2>1. S2[p] >= size + 8
    BY <1>0, <1>2, <1>3
  <2> QED
    BY <1>0, <1>4, <2>1
<1> QED
  BY <1>4, <1>5, <1>6, <1>7 DEF Resized

(* mm_realloc frees (size 0), fails and leaves the heap as it was, or      *)
(* serves the request, in place or elsewhere: all of its branches.         *)
LEMMA Reallocated ==
  ASSUME NEW h, NEW B, NEW S, NEW A, NEW p, NEW size, NEW r, NEW A1, Settled(h, B, S, A),
         Reallocs(h, p, size, r, A, A1)
  PROVE  \/ size = 0 /\ r.p = 0 /\ Dropped(h, r.h, S, A1)
         \/ size > 0 /\ r.p = 0 /\ r.h = h
         \/ size > 0 /\ Resized(h, S, A1, p, size, r)
<1>0. /\ Settled(h, B, S, A) /\ Heaped(h, B, S, A, B \ A) /\ p \in A /\ size \in Nat
      /\ r = mm_realloc(h, p, size) /\ A1 = A \ {p}
  BY DEF Reallocs, Settled
<1>1. /\ \A b \in B : b \in Nat /\ S[b] \in Nat /\ S[b] >= 16 /\ b >= 24
      /\ h.brk \in Nat /\ A \subseteq B /\ S \in [Nat -> Nat]
  BY <1>0, HeapPlaces
<1>2. PICK n : n = Adjust(size)
  OBVIOUS
<1>3. n \in Nat /\ Al(n) /\ n >= 16 /\ n >= size + 8
  BY <1>0, <1>2, AdjustFacts
<1>4. PICK next : next = p + S[p]
  OBVIOUS
<1>5. p \in B /\ p \in Nat /\ S[p] \in Nat /\ p # NULL /\ GETSIZE(h, HDRP(p)) = S[p] /\ NEXT_BLKP(h, p) = next
  <2>1. Shape(h, B, S, A)
    BY <1>0 DEF Heaped
  <2>2. GETSIZE(h, HDRP(p)) = S[p] /\ NEXT_BLKP(h, p) = next
    BY <1>0, <1>1, <1>4, <2>1, Seen
  <2> QED
    BY <1>0, <1>1, <2>2 DEF NULL
<1> DEFINE prev_alloc == GETALLOC(h, FTRP(h, PREV_BLKP(h, p))) = 1
           next_alloc == GETALLOC(h, HDRP(next)) = 1
           both == S[p] + GETSIZE(h, HDRP(next))
           cut == Split(h, p, S[p], n)
<1>6. PICK new : new = mm_malloc(h, n) /\ Mallocs(h, n, new)
  BY <1>3 DEF Mallocs
<1>7. r = IF size = 0 THEN [h |-> mm_free(h, p), p |-> NULL]
          ELSE IF S[p] >= n
          THEN [h |-> IF LeavesBlock(S[p], n) THEN coalesce(cut, p + n).h ELSE cut, p |-> p]
          ELSE IF prev_alloc /\ ~next_alloc /\ both >= n
          THEN [h |-> SplitAndList(remove_list(h, next), p, both, n), p |-> p]
          ELSE IF new.p = NULL THEN [h |-> h, p |-> NULL]
          ELSE [h |-> mm_free(memcpy(new.h, new.p, p, S[p] - 8), p), p |-> new.p]
  <2>1. S[p] - 2 * WSIZE = S[p] - 8
    BY DEF WSIZE
  <2> QED
    BY <1>0, <1>2, <1>5, <1>6, <2>1 DEF mm_realloc
<1>8. CASE size = 0
  <2>1. r.p = 0
    BY <1>7, <1>8 DEF NULL
  <2>2. Frees(h, p, r.h, A, A1)
    BY <1>0, <1>7, <1>8 DEF Frees
  <2>3. PICK t : t = r.h /\ Frees(h, p, t, A, A1)
    BY <2>2
  <2>4. \E B2, S2 : /\ Settled(t, B2, S2, A1) /\ t.brk = h.brk
                    /\ Kept(h, t, S, A1) /\ \A a \in A1 : S2[a] = S[a]
    BY <1>0, <2>3, Freed
  <2> QED
    BY <1>8, <2>1, <2>3, <2>4 DEF Dropped
<1>9. CASE size > 0 /\ S[p] >= n
  <2>1. r.p = p /\ r.h = IF LeavesBlock(S[p], n) THEN coalesce(cut, p + n).h ELSE cut
    BY <1>7, <1>9
  <2>2. PICK t : t = r.h
    OBVIOUS
  <2>3. Shrinks(h, t, B, S, A, p, n)
    BY <1>0, <1>3, <1>5, <1>9, <2>1, <2>2 DEF Shrinks
  <2>4. Resettled(h, t, S, A, p, n)
    BY <2>3, Shrunk
  <2>5. Resized(h, S, A1, p, size, r)
    BY <1>0, <1>3, <2>1, <2>2, <2>4, InPlace
  <2> QED
    BY <1>9, <2>5
<1>10. CASE size > 0 /\ ~(S[p] >= n) /\ prev_alloc /\ ~next_alloc /\ both >= n
  <2>1. r.p = p /\ r.h = SplitAndList(remove_list(h, next), p, both, n)
    BY <1>7, <1>10
  <2>2. next \in B \ A /\ GETSIZE(h, HDRP(next)) = S[next]
    <3>1. LET nxt == NEXT_BLKP(h, p)
          IN  \/ GETALLOC(h, HDRP(nxt)) = 1 /\ nxt \in A \cup {h.brk} /\ nxt \notin B \ A
              \/ GETALLOC(h, HDRP(nxt)) = 0 /\ nxt \in B \ A /\ GETSIZE(h, HDRP(nxt)) = S[nxt]
      BY <1>0, <1>5, Neighbours
    <3> QED
      BY <1>5, <1>10, <3>1
  <2>3. PICK t : t = r.h
    OBVIOUS
  <2>4. GrowsInto(h, t, B, S, A, p, next, n)
    <3>1. both = S[p] + S[next]
      BY <2>2
    <3>2. S[next] \in Nat /\ n <= S[p] + S[next]
      BY <1>1, <1>3, <1>5, <1>10, <2>2, <3>1
    <3> QED
      BY <1>0, <1>3, <1>4, <2>1, <2>2, <2>3, <3>1, <3>2 DEF GrowsInto
  <2>5. Resettled(h, t, S, A, p, n)
    BY <2>4, GrownInto
  <2>6. Resized(h, S, A1, p, size, r)
    BY <1>0, <1>3, <2>1, <2>3, <2>5, InPlace
  <2> QED
    BY <1>10, <2>6
<1>11. CASE size > 0 /\ ~(S[p] >= n) /\ ~(prev_alloc /\ ~next_alloc /\ both >= n)
  <2>1. CASE new.p = 0
    BY <1>7, <1>11, <2>1 DEF NULL
  <2>2. CASE new.p # 0
    <3>1. r = [h |-> mm_free(memcpy(new.h, new.p, p, S[p] - 8), p), p |-> new.p]
      BY <1>7, <1>11, <2>2 DEF NULL
    <3>2. S[p] <= n
      BY <1>3, <1>5, <1>11
    <3>3. Moves(h, r, B, S, A, p, n, new, A1)
      BY <1>0, <1>6, <2>2, <3>1, <3>2 DEF Moves
    <3>4. Relocated(h, S, A, A1, p, n, r)
      BY <3>3, Moved
    <3>5. PICK B2, S2 : /\ Settled(r.h, B2, S2, A1 \cup {r.p})
                        /\ \A a \in A1 : S2[a] = S[a]
                        /\ S2[r.p] >= n
      BY <3>4 DEF Relocated
    <3>6. S2[r.p] >= size + 8 /\ r.p \in Nat
      <4>1. \A b \in B2 : S2[b] \in Nat /\ b \in Nat
        BY <3>5, HeapPlaces DEF Settled
      <4>2. A1 \cup {r.p} \subseteq B2
        BY <3>5, HeapPlaces DEF Settled
      <4> QED
        BY <1>0, <1>3, <3>5, <4>1, <4>2
    <3>7. \A a \in Words : r.p <= a /\ a < r.p + size /\ a < r.p + (S[p] - 8)
                           => r.h.mem[a] = h.mem[p + (a - r.p)]
      <4>1. SUFFICES ASSUME NEW a \in Words, r.p <= a, a < r.p + (S[p] - 8)
                     PROVE  r.h.mem[a] = h.mem[p + (a - r.p)]
        OBVIOUS
      <4>2. a < r.p + S[p] - 8
        <5>1. a \in Int
          BY Layout
        <5> QED
          BY <1>5, <3>6, <4>1, <5>1
      <4> QED
        BY <3>4, <4>1, <4>2 DEF Copies, Relocated
    <3>8. r.p \notin A1
      BY <1>0, <3>4 DEF Relocated
    <3>9. Resized(h, S, A1, p, size, r)
      BY <3>4, <3>5, <3>6, <3>7, <3>8 DEF Resized, Relocated
    <3> QED
      BY <1>11, <3>9
  <2> QED
    BY <2>1, <2>2
<1> QED
  BY <1>0, <1>8, <1>9, <1>10, <1>11

----------------------------------------------------------------------------
(* The blocks and the lists as the invariants of the driver find them.     *)

(* The heap has room for MaxBlocks blocks and no more.                     *)
LEMMA Room ==
  /\ MaxBlocks \in Nat /\ MaxBlocks >= 2 /\ MAX_HEAP < 16 * MaxBlocks + 16
<1>1. MAX_HEAP \in Nat /\ MAX_HEAP >= 40
  BY Layout
<1>2. MaxBlocks = MAX_HEAP \div 16
  BY DEF MaxBlocks, DSIZE
<1> QED
  BY <1>1, <1>2

(* There are fewer blocks than elements of a chain.                        *)
LEMMA TooMany ==
  ASSUME NEW h, NEW B, NEW S, NEW A, NEW X, Heaped(h, B, S, A, X), NEW f,
         \A i \in 1 .. MaxBlocks : f[i] \in B,
         \A i, k \in 1 .. MaxBlocks : i < k => f[i] # f[k]
  PROVE  FALSE
<1>1. /\ \A b \in B : b \in Nat /\ S[b] \in Nat /\ S[b] >= 16 /\ b >= 24 /\ b + S[b] <= h.brk
      /\ \A b, d \in B : b = d \/ b + S[b] <= d \/ d + S[d] <= b
      /\ h.brk \in Nat /\ h.brk <= MAX_HEAP /\ MAX_HEAP \in Nat
  BY HeapPlaces
<1> DEFINE I == 1 .. MaxBlocks
           T == 0 .. MaxBlocks - 2
           g == [i \in I |-> (f[i] - 24) \div 16]
<1>2. MaxBlocks \in Nat /\ MaxBlocks >= 2 /\ MAX_HEAP < 16 * MaxBlocks + 16
  BY Room
<1>3. g \in [I -> T]
  <2>1. ASSUME NEW i \in I PROVE (f[i] - 24) \div 16 \in T
    <3>1. f[i] \in Nat /\ f[i] >= 24 /\ f[i] + 16 <= MAX_HEAP
      BY <1>1
    <3>2. PICK x \in Nat : f[i] - 24 = x
      BY <3>1
    <3>3. x < 16 * (MaxBlocks - 1)
      BY <1>1, <1>2, <3>1, <3>2
    <3>4. x \div 16 \in Nat /\ x \div 16 < MaxBlocks - 1
      BY <1>2, <3>3
    <3> QED
      BY <1>2, <3>2, <3>4
  <2> QED
    BY <2>1
<1>4. IsFiniteSet(I) /\ IsFiniteSet(T) /\ Cardinality(T) < Cardinality(I)
  <2>0. PICK N, M : N = MaxBlocks /\ M = MaxBlocks - 2 /\ N \in Int /\ M \in Int
                    /\ ~(1 > N) /\ ~(0 > M)
    BY <1>2
  <2>1. IsFiniteSet(1 .. N) /\ Cardinality(1 .. N) = IF 1 > N THEN 0 ELSE N - 1 + 1
    BY <2>0, FS_Interval
  <2>2. IsFiniteSet(0 .. M) /\ Cardinality(0 .. M) = IF 0 > M THEN 0 ELSE M - 0 + 1
    BY <2>0, FS_Interval
  <2>3. N - 1 + 1 = MaxBlocks /\ M - 0 + 1 = MaxBlocks - 1
    BY <1>2, <2>0
  <2>4. Cardinality(I) = MaxBlocks /\ Cardinality(T) = MaxBlocks - 1 /\ IsFiniteSet(I) /\ IsFiniteSet(T)
    BY <2>0, <2>1, <2>2, <2>3
  <2> QED
    BY <1>2, <2>4
<1> HIDE DEF T
<1>5. PICK i, k \in I : i # k /\ g[i] = g[k]
  <2> HIDE DEF I, g
  <2> QED
    BY <1>3, <1>4, FS_PigeonHole
<1>6. (f[i] - 24) \div 16 = (f[k] - 24) \div 16
  BY <1>5
<1>7. f[i] # f[k] /\ f[i] \in B /\ f[k] \in B
  <2>1. i \in Nat /\ k \in Nat /\ i # k
    BY <1>2, <1>5
  <2>2. i < k \/ k < i
    BY <2>1
  <2> QED
    BY <2>2
<1>8. PICK x, y \in Nat : x = f[i] - 24 /\ y = f[k] - 24
  BY <1>1, <1>7
<1>9. x + 16 <= y \/ y + 16 <= x
  BY <1>1, <1>7, <1>8
<1>10. x \div 16 # y \div 16
  BY <1>9
<1> QED
  BY <1>6, <1>8, <1>10

(* The sequence f goes through the blocks X of class c, once each.         *)
Exact(h, S, X, c, f) ==
    /\ \A x \in X : cls(S, x) = c => \E i \in 1 .. MaxBlocks : f[i] = x
    /\ \A i, k \in 1 .. MaxBlocks : f[i] # 0 /\ f[i] = f[k] => i = k
    /\ \A i \in 1 .. MaxBlocks : f[i] # 0 =>
          h.mem[f[i]] = IF i = 1 THEN 0 ELSE f[i - 1]
    /\ \A i \in 1 .. MaxBlocks : f[i] # 0 => i = 1 \/ f[i - 1] # 0

(* The walk along a list meets each of its blocks once, in the order of the*)
(* links, before it has taken MaxBlocks steps: the ranks keep it from      *)
(* turning.                                                                *)
LEMMA Followed ==
  ASSUME NEW h, NEW B, NEW S, NEW A, NEW X, Heaped(h, B, S, A, X), NEW c \in Classes,
         NEW f, Follows(h, c, f),
         \A i \in 1 .. MaxBlocks : f[i] # 0 => f[i] \in X /\ cls(S, f[i]) = c
  PROVE  Exact(h, S, X, c, f)
<1>1. PICK rank : Linked(h, S, X, rank)
  BY DEF Heaped
<1>2. /\ rank \in [X -> Nat]
      /\ h.free_list[c] # 0 => h.mem[h.free_list[c]] = 0
      /\ \A x \in X :
          /\ h.mem[x] = 0 => h.free_list[cls(S, x)] = x
          /\ h.mem[x] # 0 => /\ h.mem[x] \in X /\ cls(S, h.mem[x]) = cls(S, x)
                             /\ h.mem[h.mem[x] + 4] = x /\ rank[h.mem[x]] < rank[x]
          /\ h.mem[x + 4] # 0 => h.mem[h.mem[x + 4]] = x
  BY <1>1 DEF Linked
<1>3. MaxBlocks \in Nat /\ MaxBlocks >= 2
  BY Room
<1>4. \A i \in 1 .. MaxBlocks :
          f[i] = IF i = 1 THEN h.free_list[c]
                 ELSE IF f[i - 1] = 0 THEN 0 ELSE h.mem[f[i - 1] + 4]
  BY DEF Follows
<1>5. X \subseteq B /\ \A x \in X : x \in Nat /\ x # 0
  <2>1. X \subseteq B /\ \A b \in B : b \in Nat /\ b >= 24
    BY HeapPlaces
  <2> QED
    BY <2>1
<1>6. \A i \in 1 .. MaxBlocks : f[i] # 0 => i = 1 \/ f[i - 1] # 0
  BY <1>4
<1>7. ASSUME NEW i \in 1 .. MaxBlocks, f[i] # 0
      PROVE  /\ i = 1 => h.mem[f[i]] = 0
             /\ i # 1 => /\ i - 1 \in 1 .. MaxBlocks /\ f[i - 1] \in X /\ f[i] \in X
                         /\ h.mem[f[i]] = f[i - 1] /\ rank[f[i - 1]] < rank[f[i]]
  <2>1. CASE i = 1
    BY <1>2, <1>4, <1>7, <2>1
  <2>2. CASE i # 1
    <3>1. i - 1 \in 1 .. MaxBlocks
      BY <1>3, <2>2
    <3>2. f[i - 1] # 0 /\ f[i] = h.mem[f[i - 1] + 4]
      BY <1>4, <1>7, <2>2
    <3>3. f[i - 1] \in X /\ f[i] \in X
      BY <1>7, <3>1, <3>2
    <3>4. h.mem[f[i]] = f[i - 1]
      BY <1>2, <1>7, <3>2, <3>3
    <3>5. h.mem[f[i]] # 0
      BY <3>2, <3>4
    <3>6. rank[h.mem[f[i]]] < rank[f[i]]
      BY <1>2, <3>3, <3>5
    <3> QED
      BY <2>2, <3>1, <3>3, <3>4, <3>6
  <2> QED
    BY <2>1, <2>2
<1>8. \A k \in 1 .. MaxBlocks : \A i \in 1 .. k - 1 :
         f[k] # 0 => f[i] # 0 /\ rank[f[i]] < rank[f[k]]
  <2> DEFINE D == {k \in 1 .. MaxBlocks : \A i \in 1 .. k - 1 :
                       f[k] # 0 => f[i] # 0 /\ rank[f[i]] < rank[f[k]]}
             id == [k \in 0 .. MaxBlocks |-> k]
  <2>1. ASSUME NEW k \in 1 .. MaxBlocks, k = 1 \/ k - 1 \in D PROVE k \in D
    <3>1. SUFFICES ASSUME NEW i \in 1 .. k - 1, f[k] # 0
                   PROVE  f[i] # 0 /\ rank[f[i]] < rank[f[k]]
      OBVIOUS
    <3>2. k # 1 /\ k - 1 \in D /\ k - 1 \in 1 .. MaxBlocks
      BY <1>3, <2>1, <3>1
    <3>3. f[k - 1] \in X /\ f[k] \in X /\ rank[f[k - 1]] < rank[f[k]]
      BY <1>7, <3>1, <3>2
    <3>4. CASE i = k - 1
      BY <1>5, <3>3, <3>4
    <3>5. CASE i # k - 1
      <4>1. i \in 1 .. (k - 1) - 1
        BY <1>3, <3>1, <3>5
      <4>2. f[i] # 0 /\ rank[f[i]] < rank[f[k - 1]]
        BY <1>5, <3>2, <3>3, <4>1
      <4>3. i \in 1 .. MaxBlocks
        BY <1>3, <4>1
      <4>4. f[i] \in X
        BY <4>2, <4>3
      <4> QED
        BY <1>2, <3>3, <4>2, <4>4
    <3> QED
      BY <3>4, <3>5
  <2>2. \A k \in 1 .. MaxBlocks : id[k] = k /\ (k # 1 => id[k - 1] = k - 1)
    BY <1>3
  <2> HIDE DEF D, id
  <2>3. \A k \in 1 .. MaxBlocks : (k = 1 \/ id[k - 1] \in D) => id[k] \in D
    BY <2>1, <2>2
  <2>4. \A k \in 1 .. MaxBlocks : id[k] \in D
    BY <1>3, <2>3, HandedOn
  <2>5. \A k \in 1 .. MaxBlocks : k \in D
    BY <2>2, <2>4
  <2> QED
    BY <2>5 DEF D
<1>9. ASSUME NEW i \in 1 .. MaxBlocks, NEW k \in 1 .. MaxBlocks, i < k, f[k] # 0
      PROVE  f[i] # f[k] /\ f[i] # 0
  <2>1. i \in 1 .. k - 1
    BY <1>3, <1>9
  <2>2. f[i] # 0 /\ rank[f[i]] < rank[f[k]]
    BY <1>8, <1>9, <2>1
  <2>3. f[i] \in X /\ f[k] \in X
    BY <1>9, <2>2
  <2>4. rank[f[i]] \in Nat /\ rank[f[k]] \in Nat
    BY <1>2, <2>3
  <2> QED
    BY <2>2, <2>4
<1>10. ASSUME NEW i \in 1 .. MaxBlocks, NEW k \in 1 .. MaxBlocks, f[i] # 0, f[i] = f[k]
       PROVE  i = k
  <2>1. i \in Nat /\ k \in Nat
    BY <1>3
  <2>2. ~(i < k) /\ ~(k < i)
    BY <1>9, <1>10
  <2> QED
    BY <2>1, <2>2
<1>11. ASSUME NEW x \in X, cls(S, x) = c, \A i \in 1 .. MaxBlocks : f[i] # x
       PROVE  FALSE
  <2> DEFINE M == {y \in X : cls(S, y) = c /\ \A i \in 1 .. MaxBlocks : f[i] # y}
             R == {rank[y] : y \in M}
  <2>1. R \subseteq Nat /\ R # {}
    BY <1>2, <1>11
  <2>2. PICK m : m \in R /\ \A q \in R : m <= q
    <3> HIDE DEF R
    <3> QED
      BY <2>1, MinNat
  <2>3. PICK y \in M : rank[y] = m /\ \A z \in M : rank[y] <= rank[z]
    BY <2>2
  <2>4. y \in X /\ cls(S, y) = c /\ \A i \in 1 .. MaxBlocks : f[i] # y
    BY <2>3
  <2>5. h.mem[y] # 0
    <3>1. 1 \in 1 .. MaxBlocks
      BY <1>3
    <3>2. f[1] = h.free_list[c]
      BY <1>4, <3>1
    <3> QED
      BY <1>2, <2>4, <3>1, <3>2
  <2>6. PICK p : p = h.mem[y]
    OBVIOUS
  <2>7. p \in X /\ cls(S, p) = c /\ h.mem[p + 4] = y /\ rank[p] < rank[y] /\ rank[p] \in Nat /\ rank[y] \in Nat
    BY <1>2, <2>4, <2>5, <2>6
  <2>8. p \notin M
    <3>1. ~(rank[y] <= rank[p])
      BY <2>7
    <3> HIDE DEF M
    <3> QED
      BY <2>3, <3>1
  <2>9. PICK i \in 1 .. MaxBlocks : f[i] = p
    BY <2>7, <2>8
  <2>10. p # 0
    BY <1>5, <2>7
  <2>11. i = MaxBlocks
    <3>1. SUFFICES ASSUME i # MaxBlocks PROVE FALSE
      OBVIOUS
    <3>2. i + 1 \in 1 .. MaxBlocks /\ i + 1 # 1 /\ (i + 1) - 1 = i
      BY <1>3, <3>1
    <3>3. f[i + 1] = y
      BY <1>4, <2>7, <2>9, <2>10, <3>2
    <3> QED
      BY <2>4, <3>2, <3>3
  <2>12. \A k \in 1 .. MaxBlocks : f[k] # 0
    <3>1. ASSUME NEW k \in 1 .. MaxBlocks PROVE f[k] # 0
      <4>1. k = i \/ k < i
        BY <1>3, <2>11
      <4> QED
        BY <1>9, <2>9, <2>10, <4>1
    <3> QED
      BY <3>1
  <2>13. \A k \in 1 .. MaxBlocks : f[k] \in B
    BY <1>5, <2>12
  <2>14. \A j, k \in 1 .. MaxBlocks : j < k => f[j] # f[k]
    BY <1>9, <2>12
  <2> QED
    BY <2>13, <2>14, TooMany
<1>12. \A i \in 1 .. MaxBlocks : f[i] # 0 => h.mem[f[i]] = IF i = 1 THEN 0 ELSE f[i - 1]
  BY <1>7
<1>13. \A x \in X : cls(S, x) = c => \E i \in 1 .. MaxBlocks : f[i] = x
  BY <1>11
<1>14. \A i, k \in 1 .. MaxBlocks : f[i] # 0 /\ f[i] = f[k] => i = k
  BY <1>10
<1> QED
  BY <1>6, <1>12, <1>13, <1>14 DEF Exact

(* Each chain of a heap holds the blocks listed for its class, once each,  *)
(* linked back as well as forth.                                           *)
LEMMA ChainExact ==
  ASSUME NEW h, NEW B, NEW S, NEW A, NEW X, Heaped(h, B, S, A, X), NEW c \in Classes,
         NEW s, s = Chain(h, c)
  PROVE  /\ ToSet(s) = {b \in X : cls(S, b) = c}
         /\ IsInjective(s)
         /\ \A i \in DOMAIN s : LIST_PREVP(h, s[i]) = IF i = 1 THEN NULL ELSE s[i - 1]
<1>1. PICK f : /\ Follows(h, c, f) /\ s = [i \in {k \in 1 .. MaxBlocks : f[k] # 0} |-> f[i]]
               /\ \A i \in 1 .. MaxBlocks : f[i] # 0 => f[i] \in X /\ cls(S, f[i]) = c
  BY ChainIs
<1>2. Exact(h, S, X, c, f)
  BY <1>1, Followed
<1>3. DOMAIN s = {k \in 1 .. MaxBlocks : f[k] # 0} /\ \A i \in DOMAIN s : s[i] = f[i]
  BY <1>1
<1>4. MaxBlocks \in Nat
  BY Room
<1>5. \A x \in X : x # 0
  <2>1. X \subseteq B /\ \A b \in B : b \in Nat /\ b >= 24
    BY HeapPlaces
  <2> QED
    BY <2>1
<1>6. ToSet(s) = {b \in X : cls(S, b) = c}
  <2>1. \A b \in X : cls(S, b) = c => \E i \in DOMAIN s : s[i] = b
    BY <1>2, <1>3, <1>5 DEF Exact
  <2>2. \A i \in DOMAIN s : s[i] \in X /\ cls(S, s[i]) = c
    BY <1>1, <1>3
  <2> QED
    BY <2>1, <2>2 DEF ToSet
<1>7. IsInjective(s)
  BY <1>2, <1>3 DEF Exact, IsInjective
<1>8. ASSUME NEW i \in DOMAIN s PROVE LIST_PREVP(h, s[i]) = IF i = 1 THEN NULL ELSE s[i - 1]
  <2>1. i \in 1 .. MaxBlocks /\ f[i] # 0 /\ s[i] = f[i]
    BY <1>3
  <2>2. i # 1 => i - 1 \in DOMAIN s /\ s[i - 1] = f[i - 1]
    <3>1. i # 1 => i - 1 \in 1 .. MaxBlocks /\ f[i - 1] # 0
      BY <1>2, <1>4, <2>1 DEF Exact
    <3> QED
      BY <1>3, <3>1
  <2> QED
    BY <1>2, <2>1, <2>2 DEF Exact, LIST_PREVP, NULL
<1> QED
  BY <1>6, <1>7, <1>8

(* Going from header to header finds every block.                          *)
LEMMA BlockSetIs ==
  ASSUME NEW B, NEW S, NEW A, NEW X, Heaped(heap, B, S, A, X), first < heap.brk
  PROVE  BlockSet = B
<1> DEFINE D == SUBSET B
           e == {first}
           G(bs) == bs \cup {b \in {NEXT_BLKP(heap, a) : a \in bs} : b < heap.brk}
           g == [x \in D |-> G(x)]
           E(f) == [i \in 1 .. MaxBlocks |-> IF i = 1 THEN e ELSE G(f[i - 1])]
           reached == CHOOSE f : f = E(f)
<1>1. /\ \A b \in B : /\ b \in Nat /\ S[b] \in Nat /\ S[b] >= 16 /\ b >= first /\ b + S[b] <= heap.brk
                      /\ b + S[b] \in B \cup {heap.brk}
      /\ heap.brk \in Nat /\ heap.brk <= MAX_HEAP /\ MAX_HEAP \in Nat /\ first \in Nat
  BY HeapPlaces
<1>2. first >= 24
  BY Layout
<1>3. Shape(heap, B, S, A) /\ Tiles(B, S, first, heap.brk)
  BY DEF Heaped, Shape
<1>4. first \in B /\ \A x \in B : x = first \/ \E a \in B : a + S[a] = x
  BY <1>3 DEF Tiles
<1>5. \A b \in B : NEXT_BLKP(heap, b) = b + S[b]
  BY <1>3, Seen
<1>6. e \in D
  BY <1>4
<1>7. \A bs \in D : G(bs) \in D
  BY <1>1, <1>5
<1>8. \A bs \in D : \A a \in bs : a + S[a] \in B => a + S[a] \in G(bs)
  <2>1. \A b \in B : b < heap.brk
    BY <1>1
  <2> QED
    BY <1>5, <2>1
<1>9. g \in [D -> D] /\ \A x \in D : g[x] = G(x)
  BY <1>7
<1>10. MaxBlocks \in Nat /\ MaxBlocks >= 2 /\ MAX_HEAP < 16 * MaxBlocks + 16
  BY Room
<1>11. \A bs : bs \subseteq G(bs)
  OBVIOUS
<1>12. BlockSet = reached[MaxBlocks]
  BY DEF BlockSet, first, reached, E, G, e
<1> HIDE DEF D, e, G, g
<1>13. PICK f0 \in [1 .. MaxBlocks -> D] :
         \A i \in 1 .. MaxBlocks : f0[i] = IF i = 1 THEN e ELSE g[f0[i - 1]]
  <2>1. Iterates(D, e, g, MaxBlocks)
    BY <1>6, <1>9, <1>10 DEF Iterates
  <2> QED
    BY <2>1, Iterated
<1>14. f0 = E(f0)
  <2> HIDE DEF E, reached
  <2>1. ASSUME NEW i \in 1 .. MaxBlocks, i # 1 PROVE f0[i - 1] \in D
    <3>1. i - 1 \in 1 .. MaxBlocks
      BY <1>10, <2>1
    <3> QED
      BY <1>13, <3>1
  <2>2. \A i \in 1 .. MaxBlocks : f0[i] = IF i = 1 THEN e ELSE G(f0[i - 1])
    BY <1>9, <1>13, <2>1
  <2> QED
    BY <1>13, <2>2 DEF E
<1>15. reached = E(reached)
  BY <1>14
<1> HIDE DEF reached
<1>16. \A i \in 1 .. MaxBlocks : reached[i] = IF i = 1 THEN e ELSE G(reached[i - 1])
  <2> DEFINE b(i) == IF i = 1 THEN e ELSE G(reached[i - 1])
  <2>1. reached = [i \in 1 .. MaxBlocks |-> b(i)]
    BY <1>15
  <2> HIDE DEF b, E
  <2>2. \A i \in 1 .. MaxBlocks : reached[i] = b(i)
    BY <2>1
  <2> QED
    BY <2>2 DEF b
<1>17. \A i \in 1 .. MaxBlocks : reached[i] \in D
  <2>1. \A i \in 1 .. MaxBlocks : (i = 1 \/ reached[i - 1] \in D) => reached[i] \in D
    BY <1>6, <1>7, <1>16
  <2> QED
    BY <1>10, <2>1, HandedOn
<1>18. \A i \in 1 .. MaxBlocks : \A b \in B : b <= first + 16 * (i - 1) => b \in reached[i]
  <2> DEFINE Q == {i \in 1 .. MaxBlocks : \A b \in B : b <= first + 16 * (i - 1) => b \in reached[i]}
             id == [k \in 0 .. MaxBlocks |-> k]
  <2>1. ASSUME NEW i \in 1 .. MaxBlocks, i = 1 \/ i - 1 \in Q PROVE i \in Q
    <3>1. SUFFICES ASSUME NEW b \in B, b <= first + 16 * (i - 1) PROVE b \in reached[i]
      OBVIOUS
    <3>2. CASE i = 1
      <4>1. b = first
        BY <1>1, <3>1, <3>2
      <4> QED
        BY <1>16, <3>2, <4>1 DEF e
    <3>3. CASE i # 1
      <4>1. i - 1 \in Q /\ i - 1 \in 1 .. MaxBlocks /\ reached[i] = G(reached[i - 1])
        BY <1>10, <1>16, <2>1, <3>3
      <4>2. CASE b = first
        <5>1. first <= first + 16 * ((i - 1) - 1)
          BY <1>1, <1>10, <4>1
        <5>2. first \in reached[i - 1]
          BY <1>4, <4>1, <5>1
        <5> QED
          BY <1>11, <4>1, <4>2, <5>2
      <4>3. CASE b # first
        <5>1. PICK a \in B : a + S[a] = b
          BY <1>4, <4>3
        <5>2. a <= first + 16 * ((i - 1) - 1)
          BY <1>1, <1>10, <3>1, <5>1
        <5>3. a \in reached[i - 1]
          BY <4>1, <5>2
        <5>4. reached[i - 1] \in D
          BY <1>17, <4>1
        <5> HIDE DEF Q
        <5> QED
          BY <1>8, <4>1, <5>1, <5>3, <5>4
      <4> QED
        BY <4>2, <4>3
    <3> QED
      BY <3>2, <3>3
  <2>2. \A k \in 1 .. MaxBlocks : id[k] = k /\ (k # 1 => id[k - 1] = k - 1)
    BY <1>10
  <2> HIDE DEF Q, id
  <2>3. \A k \in 1 .. MaxBlocks : (k = 1 \/ id[k - 1] \in Q) => id[k] \in Q
    BY <2>1, <2>2
  <2>4. \A k \in 1 .. MaxBlocks : id[k] \in Q
    BY <1>10, <2>3, HandedOn
  <2>5. \A k \in 1 .. MaxBlocks : k \in Q
    BY <2>2, <2>4
  <2> QED
    BY <2>5 DEF Q
<1>19. reached[MaxBlocks] \subseteq B
  BY <1>10, <1>17 DEF D
<1>20. B \subseteq reached[MaxBlocks]
  <2>1. ASSUME NEW b \in B PROVE b <= first + 16 * (MaxBlocks - 1)
    <3>1. b \in Nat /\ S[b] \in Nat /\ S[b] >= 16 /\ b + S[b] <= heap.brk
      BY <1>1
    <3>2. b + 16 <= MAX_HEAP
      BY <1>1, <3>1
    <3> QED
      BY <1>1, <1>2, <1>10, <3>1, <3>2
  <2>2. MaxBlocks \in 1 .. MaxBlocks
    BY <1>10
  <2> QED
    BY <1>18, <2>1, <2>2
<1> QED
  BY <1>12, <1>19, <1>20

----------------------------------------------------------------------------
(* What the program holds.                                                 *)

(* The program holds the blocks A, which are those of the indices L, and   *)
(* each of them holds its index.                                           *)
Owns(h, S, A, L, bl, bs) ==
    /\ L \subseteq Ids /\ bl \in [Ids -> Nat] /\ bs \in [Ids -> Nat]
    /\ A = {bl[i] : i \in L}
    /\ \A i, k \in L : bl[i] = bl[k] => i = k
    /\ \A i \in L : S[bl[i]] >= bs[i] + 8
    /\ \A i \in L : \A a \in Payload(bl[i], bs[i]) : h.mem[a] = i

(* The ranges the driver keeps for the blocks of L.                        *)
Extents(L, bl, bs) == {[lo |-> bl[i], hi |-> bl[i] + bs[i] - 1] : i \in L}

(* Payload(p, n) is the words from p to p + n.                             *)
LEMMA PayloadIs ==
  ASSUME NEW p \in Nat, NEW n \in Nat
  PROVE  \A a : a \in Payload(p, n) <=> (a \in Words /\ p <= a /\ a < p + n)
<1>1. \A a \in Words : a \in Int
  BY Layout
<1>2. \A a \in Int : a \in p .. p + n - 1 <=> (p <= a /\ a < p + n)
  OBVIOUS
<1> QED
  BY <1>1, <1>2 DEF Payload

(* What the program keeps of its blocks when the heap keeps their words.   *)
Keeps(h, t, S, S2, A, A1, L, L1, bl, bs) ==
    /\ Owns(h, S, A, L, bl, bs) /\ L1 \subseteq L /\ A1 = {bl[i] : i \in L1}
    /\ Kept(h, t, S, A1) /\ \A a \in A1 : S2[a] = S[a]

(* A call that keeps the words of the blocks L1 keeps what they hold.      *)
LEMMA OwnsKept ==
  ASSUME NEW h, NEW t, NEW B, NEW S, NEW S2, NEW A, NEW A1, NEW L, NEW L1, NEW bl, NEW bs,
         Settled(h, B, S, A), Keeps(h, t, S, S2, A, A1, L, L1, bl, bs)
  PROVE  Owns(t, S2, A1, L1, bl, bs)
<1>0. /\ L \subseteq Ids /\ bl \in [Ids -> Nat] /\ bs \in [Ids -> Nat]
      /\ A = {bl[i] : i \in L} /\ \A i, k \in L : bl[i] = bl[k] => i = k
      /\ \A i \in L : S[bl[i]] >= bs[i] + 8
      /\ \A i \in L : \A a \in Payload(bl[i], bs[i]) : h.mem[a] = i
      /\ L1 \subseteq L /\ A1 = {bl[i] : i \in L1}
      /\ Kept(h, t, S, A1) /\ \A a \in A1 : S2[a] = S[a]
  BY DEF Keeps, Owns
<1>1. A \subseteq B /\ \A b \in B : b \in Nat /\ S[b] \in Nat
  BY HeapPlaces DEF Settled
<1>2. \A i \in L1 : bl[i] \in A1 /\ bl[i] \in Nat /\ bs[i] \in Nat /\ bl[i] \in A /\ S[bl[i]] \in Nat
  BY <1>0, <1>1
<1>3. ASSUME NEW i \in L1, NEW a \in Payload(bl[i], bs[i]) PROVE t.mem[a] = i
  <2>1. a \in Words /\ bl[i] <= a /\ a < bl[i] + bs[i]
    BY <1>2, PayloadIs
  <2>2. a \in Int
    BY <2>1, Layout
  <2>3. S[bl[i]] >= bs[i] + 8
    BY <1>0
  <2>4. a < bl[i] + S[bl[i]] - 8
    BY <1>2, <2>1, <2>2, <2>3
  <2>5. t.mem[a] = h.mem[a]
    BY <1>0, <1>2, <2>1, <2>4 DEF Kept
  <2> QED
    BY <1>0, <2>5
<1>4. \A i \in L1 : S2[bl[i]] >= bs[i] + 8
  BY <1>0, <1>2
<1>5. \A i, k \in L1 : bl[i] = bl[k] => i = k
  BY <1>0
<1> QED
  BY <1>0, <1>3, <1>4, <1>5 DEF Owns

(* A new block p of the heap t for index, beside the blocks A1 of L.       *)
Gets(t, B, S, A1, A2, L, bl, bs, index, size, p, rs) ==
    /\ Settled(t, B, S, A2) /\ A2 = A1 \cup {p} /\ p \notin A1
    /\ Owns(t, S, A1, L, bl, bs) /\ rs = Extents(L, bl, bs)
    /\ index \in Ids \ L /\ size \in Nat /\ size > 0 /\ S[p] >= size + 8

(* The driver's add_range accepts a new block: it is aligned, in the heap  *)
(* and overlaps no other.                                                  *)
LEMMA InRange ==
  ASSUME NEW t, NEW B, NEW S, NEW A1, NEW A2, NEW L, NEW bl, NEW bs, NEW index, NEW size, NEW p, NEW rs,
         Gets(t, B, S, A1, A2, L, bl, bs, index, size, p, rs)
  PROVE  RangeOK(t, rs, p, size)
<1>0. /\ Settled(t, B, S, A2) /\ A2 = A1 \cup {p} /\ p \notin A1
      /\ L \subseteq Ids /\ bl \in [Ids -> Nat] /\ bs \in [Ids -> Nat]
      /\ A1 = {bl[i] : i \in L}
      /\ \A i \in L : S[bl[i]] >= bs[i] + 8
      /\ rs = Extents(L, bl, bs) /\ size \in Nat /\ size > 0 /\ S[p] >= size + 8
  BY DEF Gets, Owns
<1>1. /\ \A b \in B : b \in Nat /\ S[b] \in Nat /\ S[b] >= 16 /\ b + S[b] <= t.brk /\ Al(b)
      /\ \A b, d \in B : b = d \/ b + S[b] <= d \/ d + S[d] <= b
      /\ A2 \subseteq B /\ t.brk \in Nat
  BY <1>0, HeapPlaces DEF Settled
<1>2. p \in B /\ p \in Nat /\ S[p] \in Nat /\ p + S[p] <= t.brk /\ p % 8 = 0
  BY <1>0, <1>1 DEF Al
<1>3. p \in 0 .. t.brk - 1 /\ p + size - 1 \in 0 .. t.brk - 1
  BY <1>0, <1>1, <1>2
<1>4. ASSUME NEW r \in rs PROVE ~Overlaps(p, p + size - 1, r)
  <2>1. PICK i \in L : r = [lo |-> bl[i], hi |-> bl[i] + bs[i] - 1]
    BY <1>0 DEF Extents
  <2>2. bl[i] \in B /\ bl[i] # p /\ bl[i] \in Nat /\ bs[i] \in Nat /\ S[bl[i]] >= bs[i] + 8 /\ S[bl[i]] \in Nat
    BY <1>0, <1>1
  <2>3. bl[i] + S[bl[i]] <= p \/ p + S[p] <= bl[i]
    BY <1>1, <1>2, <2>2
  <2>4. ~(p \in bl[i] .. bl[i] + bs[i] - 1) /\ ~(p + size - 1 \in bl[i] .. bl[i] + bs[i] - 1)
    BY <1>0, <1>2, <2>2, <2>3
  <2> QED
    BY <2>1, <2>4 DEF Overlaps
<1> QED
  BY <1>2, <1>3, <1>4 DEF RangeOK, ALIGNMENT, mem_heap_lo, mem_heap_hi

(* The program takes the block p for index and fills it.                   *)
Hands(t, L, bl, bs, index, size, p, u, bl2, bs2, L2) ==
    /\ u = memset(t, p, index, size)
    /\ bl2 = [bl EXCEPT ![index] = p] /\ bs2 = [bs EXCEPT ![index] = size]
    /\ L2 = L \cup {index}

(* Filling the new block leaves the heap settled, the other blocks as they *)
(* were, and the ranges those of the blocks held.                          *)
LEMMA Handed ==
  ASSUME NEW t, NEW B, NEW S, NEW A1, NEW A2, NEW L, NEW bl, NEW bs, NEW index, NEW size, NEW p, NEW rs,
         Gets(t, B, S, A1, A2, L, bl, bs, index, size, p, rs),
         NEW u, NEW bl2, NEW bs2, NEW L2, Hands(t, L, bl, bs, index, size, p, u, bl2, bs2, L2)
  PROVE  /\ Settled(u, B, S, A2) /\ u.brk = t.brk
         /\ Owns(u, S, A2, L2, bl2, bs2)
         /\ add_range(rs, p, size) = Extents(L2, bl2, bs2)
<1>0. /\ Settled(t, B, S, A2) /\ A2 = A1 \cup {p} /\ p \notin A1
      /\ L \subseteq Ids /\ bl \in [Ids -> Nat] /\ bs \in [Ids -> Nat]
      /\ A1 = {bl[i] : i \in L} /\ \A i, k \in L : bl[i] = bl[k] => i = k
      /\ \A i \in L : S[bl[i]] >= bs[i] + 8
      /\ \A i \in L : \A a \in Payload(bl[i], bs[i]) : t.mem[a] = i
      /\ rs = Extents(L, bl, bs) /\ index \in Ids /\ index \notin L
      /\ size \in Nat /\ size > 0 /\ S[p] >= size + 8
      /\ u = memset(t, p, index, size)
      /\ bl2 = [bl EXCEPT ![index] = p] /\ bs2 = [bs EXCEPT ![index] = size]
      /\ L2 = L \cup {index}
  BY DEF Gets, Owns, Hands
<1>1. /\ \A b \in B : b \in Nat /\ S[b] \in Nat /\ S[b] >= 16
      /\ \A b, d \in B : b = d \/ b + S[b] <= d \/ d + S[d] <= b
      /\ A2 \subseteq B /\ t \in HeapT
  BY <1>0, HeapPlaces DEF Settled
<1>2. p \in B /\ p \in Nat /\ S[p] \in Nat /\ p \in A2 /\ Ids \subseteq Nat
  BY <1>0, <1>1, IdsAssumption
<1>3. \A a : a \in Payload(p, size) <=> (a \in Words /\ p <= a /\ a < p + size)
  BY <1>0, <1>2, PayloadIs
<1>4. /\ u = [t EXCEPT !.mem = u.mem] /\ u.mem \in [Words -> Nat]
      /\ \A a \in Words : u.mem[a] = IF a \in Payload(p, size) THEN index ELSE t.mem[a]
  <2> DEFINE M == [a \in Words |-> IF a \in Payload(p, size) THEN index ELSE t.mem[a]]
  <2>1. u = [t EXCEPT !.mem = M]
    BY <1>0 DEF memset
  <2>2. M \in [Words -> Nat] /\ \A a \in Words : M[a] = IF a \in Payload(p, size) THEN index ELSE t.mem[a]
    BY <1>0, <1>1, <1>2 DEF HeapT
  <2> HIDE DEF M
  <2>3. u.mem = M
    BY <1>1, <2>1 DEF HeapT
  <2> QED
    BY <2>1, <2>2, <2>3
<1>5. Fills(t, u, B, S, A2)
  <2>1. \A a \in Payload(p, size) : p <= a /\ a < p + S[p] - 8
    <3>1. \A a \in Words : a \in Int
      BY Layout
    <3> QED
      BY <1>0, <1>2, <1>3, <3>1
  <2> QED
    BY <1>2, <1>4, <2>1 DEF Fills
<1>6. Settled(u, B, S, A2) /\ u.brk = t.brk
  BY <1>0, <1>5, Filled
<1>7. /\ bl2 \in [Ids -> Nat] /\ bs2 \in [Ids -> Nat] /\ bl2[index] = p /\ bs2[index] = size
      /\ \A i \in L : bl2[i] = bl[i] /\ bs2[i] = bs[i] /\ i # index
      /\ L2 \subseteq Ids
  BY <1>0, <1>2
<1>8. A2 = {bl2[i] : i \in L2}
  BY <1>0, <1>7
<1>9. \A i, k \in L2 : bl2[i] = bl2[k] => i = k
  <2>1. \A i \in L : bl2[i] # p
    BY <1>0, <1>7
  <2> QED
    BY <1>0, <1>7, <2>1
<1>10. \A i \in L2 : S[bl2[i]] >= bs2[i] + 8
  BY <1>0, <1>7
<1>11. ASSUME NEW i \in L2, NEW a \in Payload(bl2[i], bs2[i]) PROVE u.mem[a] = i
  <2>0. a \in Words
    BY DEF Payload
  <2>1. CASE i = index
    BY <1>4, <1>7, <2>0, <2>1
  <2>2. CASE i # index
    <3>1. i \in L /\ bl2[i] = bl[i] /\ bs2[i] = bs[i] /\ bl[i] \in B /\ bl[i] # p /\ bl[i] \in Nat /\ bs[i] \in Nat
      BY <1>0, <1>1, <1>7, <2>2
    <3>2. t.mem[a] = i
      BY <1>0, <3>1
    <3>3. a \in Int /\ bl[i] <= a /\ a < bl[i] + bs[i]
      BY <2>0, <3>1, PayloadIs, Layout
    <3>4. S[bl[i]] >= bs[i] + 8 /\ S[bl[i]] \in Nat /\ (bl[i] + S[bl[i]] <= p \/ p + S[p] <= bl[i])
      BY <1>0, <1>1, <1>2, <3>1
    <3>5. ~(p <= a /\ a < p + size)
      BY <1>0, <1>2, <3>1, <3>3, <3>4
    <3> QED
      BY <1>3, <1>4, <2>0, <3>2, <3>5
  <2> QED
    BY <2>1, <2>2
<1>12. Owns(u, S, A2, L2, bl2, bs2)
  BY <1>7, <1>8, <1>9, <1>10, <1>11 DEF Owns
<1>13. add_range(rs, p, size) = Extents(L2, bl2, bs2)
  BY <1>0, <1>7 DEF add_range, Extents
<1> QED
  BY <1>6, <1>12, <1>13

(* The blocks of the program without one of them.                          *)
LEMMA Without ==
  ASSUME NEW h, NEW S, NEW A, NEW L, NEW bl, NEW bs, Owns(h, S, A, L, bl, bs),
         NEW index \in L, NEW p, p = bl[index], NEW L1, L1 = L \ {index}, NEW A1, A1 = A \ {p}
  PROVE  /\ A1 = {bl[i] : i \in L1}
         /\ remove_range(Extents(L, bl, bs), p) = Extents(L1, bl, bs)
<1>0. /\ A = {bl[i] : i \in L} /\ \A i, k \in L : bl[i] = bl[k] => i = k
  BY DEF Owns
<1>1. \A i \in L : bl[i] # p <=> i \in L1
  BY <1>0
<1>2. A1 = {bl[i] : i \in L1}
  BY <1>0, <1>1
<1>3. remove_range(Extents(L, bl, bs), p) = Extents(L1, bl, bs)
  BY <1>1 DEF remove_range, Extents
<1> QED
  BY <1>2, <1>3

----------------------------------------------------------------------------
(* The inductive invariant.                                                *)

(* The indices of the blocks held.                                         *)
LiveIn(bl) == {i \in Ids : bl[i] # 0}

(* The allocated blocks are the ones held, and the ranges are theirs.      *)
Holds(h, S, A, bl, bs, rs) ==
    Owns(h, S, A, LiveIn(bl), bl, bs) /\ rs = Extents(LiveIn(bl), bl, bs)

(* The heap is settled and its allocated blocks are those of the program.  *)
(* A realloc to 0 bytes, which frees and then fails, ends the latter.      *)
Good(h, bl, bs, rs, out) ==
    /\ bl \in [Ids -> Pointers] /\ bs \in [Ids -> Nat]
    /\ \A r \in rs : r \in [lo : Nat, hi : Nat]
    /\ out \in {"running", "failed"}
    /\ first < h.brk
    /\ \E B, S, A : /\ Settled(h, B, S, A)
                    /\ out = "running" \/ 0 \notin Sizes => Holds(h, S, A, bl, bs, rs)

(* An empty heap after mm_init is such a state.                            *)
LEMMA Began ==
  ASSUME NEW h, h = mm_init, NEW bl, bl = [i \in Ids |-> NULL], NEW bs, bs = [i \in Ids |-> 0],
         NEW rs, rs = {}, NEW out, out = "running"
  PROVE  Good(h, bl, bs, rs, out)
<1>1. PICK B, S : Settled(h, B, S, {})
  BY Initial
<1>2. first < h.brk
  BY Initial
<1>3. /\ bl \in [Ids -> Pointers] /\ bs \in [Ids -> Nat] /\ LiveIn(bl) = {} /\ bl \in [Ids -> Nat]
  BY DEF Pointers, LiveIn, NULL
<1>4. Owns(h, S, {}, {}, bl, bs) /\ rs = Extents({}, bl, bs)
  BY <1>3 DEF Owns, Extents
<1>5. Holds(h, S, {}, bl, bs, rs)
  BY <1>3, <1>4 DEF Holds
<1>6. \A r \in rs : r \in [lo : Nat, hi : Nat]
  OBVIOUS
<1> QED
  BY <1>1, <1>2, <1>3, <1>5, <1>6 DEF Good

(* A block that realloc moved holds what its index wrote.                  *)
Carried(h, t, S, p, q, size) ==
    \A a \in Words : q <= a /\ a < q + size /\ a < q + (S[p] - 8) => t.mem[a] = h.mem[p + (a - q)]

(* What realloc copied is what the driver checks after it.                 *)
LEMMA KeptBytes ==
  ASSUME NEW h, NEW B, NEW S, NEW A, Settled(h, B, S, A), NEW L, NEW bl, NEW bs,
         Owns(h, S, A, L, bl, bs), NEW index \in L, NEW p, p = bl[index],
         NEW q, q \in Nat, Al(q), NEW size \in Nat, NEW t, Carried(h, t, S, p, q, size)
  PROVE  \A a \in Payload(q, MinOf(size, bs[index])) : t.mem[a] = index
<1>0. /\ p \in A /\ bs[index] \in Nat /\ S[p] >= bs[index] + 8 /\ index \in Ids
      /\ \A a \in Payload(p, bs[index]) : h.mem[a] = index
  BY DEF Owns
<1>1. p \in Nat /\ S[p] \in Nat /\ Al(p) /\ p >= first /\ p + S[p] <= h.brk /\ h.brk \in Nat
      /\ h.brk <= MAX_HEAP /\ MAX_HEAP \in Nat /\ first \in Nat
  <2>1. /\ \A b \in B : b \in Nat /\ S[b] \in Nat /\ b >= first /\ b + S[b] <= h.brk /\ Al(b)
        /\ A \subseteq B /\ h.brk \in Nat /\ h.brk <= MAX_HEAP /\ MAX_HEAP \in Nat /\ first \in Nat
    BY HeapPlaces DEF Settled
  <2> QED
    BY <1>0, <2>1
<1>2. PICK n \in Nat : n = MinOf(size, bs[index]) /\ n <= size /\ n <= bs[index]
  BY <1>0 DEF MinOf
<1>3. ASSUME NEW a \in Payload(q, n) PROVE t.mem[a] = index
  <2>1. a \in Words /\ q <= a /\ a < q + n
    BY <1>2, PayloadIs
  <2>2. a \in Int /\ a % 4 = 0 /\ Words = {x \in first - 12 .. MAX_HEAP - 1 : x % 4 = 0}
    BY <2>1, Layout
  <2>3. PICK i \in Nat : a - q = i /\ i < n /\ a = q + i
    <3>1. a - q \in Nat /\ a - q < n /\ a = q + (a - q)
      BY <1>2, <2>1, <2>2
    <3> QED
      BY <3>1
  <2>4. (p + i) % 4 = 0
    BY <1>1, <2>2, <2>3 DEF Al
  <2>5. p + i \in first - 12 .. MAX_HEAP - 1 /\ p <= p + i /\ p + i < p + bs[index]
    BY <1>0, <1>1, <1>2, <2>3
  <2>6. p + i \in Payload(p, bs[index])
    BY <1>0, <1>1, <2>2, <2>4, <2>5, PayloadIs
  <2>7. h.mem[p + (a - q)] = index
    BY <1>0, <2>3, <2>6
  <2>8. a < q + size /\ a < q + (S[p] - 8)
    BY <1>0, <1>1, <1>2, <2>1, <2>2
  <2> QED
    BY <2>1, <2>7, <2>8 DEF Carried
<1> QED
  BY <1>2, <1>3

(* The state after a request that was served.                              *)
Takes(t, B, S, A1, A2, L, bl, bs, index, size, p, rs, u, bl2, bs2, rs2, out) ==
    /\ Gets(t, B, S, A1, A2, L, bl, bs, index, size, p, rs)
    /\ L = LiveIn(bl) \ {index} /\ first < t.brk /\ bl \in [Ids -> Pointers]
    /\ u = memset(t, p, index, size)
    /\ bl2 = [bl EXCEPT ![index] = p] /\ bs2 = [bs EXCEPT ![index] = size]
    /\ rs2 = add_range(rs, p, size) /\ out = "running"

(* A request that was served leads to such a state again.                  *)
LEMMA Took ==
  ASSUME NEW t, NEW B, NEW S, NEW A1, NEW A2, NEW L, NEW bl, NEW bs, NEW index, NEW size, NEW p, NEW rs,
         NEW u, NEW bl2, NEW bs2, NEW rs2, NEW out,
         Takes(t, B, S, A1, A2, L, bl, bs, index, size, p, rs, u, bl2, bs2, rs2, out)
  PROVE  Good(u, bl2, bs2, rs2, out)
<1>0. /\ Settled(t, B, S, A2) /\ p \in A2 /\ index \in Ids /\ size \in Nat /\ bs \in [Ids -> Nat]
      /\ bl \in [Ids -> Nat]
      /\ Gets(t, B, S, A1, A2, L, bl, bs, index, size, p, rs)
      /\ L = LiveIn(bl) \ {index} /\ first < t.brk /\ bl \in [Ids -> Pointers]
      /\ u = memset(t, p, index, size)
      /\ bl2 = [bl EXCEPT ![index] = p] /\ bs2 = [bs EXCEPT ![index] = size]
      /\ rs2 = add_range(rs, p, size) /\ out = "running"
  BY DEF Takes, Gets, Owns
<1>1. PICK L2 : L2 = L \cup {index}
  OBVIOUS
<1>2. Settled(u, B, S, A2) /\ u.brk = t.brk /\ Owns(u, S, A2, L2, bl2, bs2) /\ rs2 = Extents(L2, bl2, bs2)
  <2>1. Hands(t, L, bl, bs, index, size, p, u, bl2, bs2, L2)
    BY <1>0, <1>1 DEF Hands
  <2>2. /\ Settled(u, B, S, A2) /\ u.brk = t.brk
        /\ Owns(u, S, A2, L2, bl2, bs2)
        /\ add_range(rs, p, size) = Extents(L2, bl2, bs2)
    BY <1>0, <2>1, Handed
  <2> QED
    BY <1>0, <2>2
<1>3. /\ \A b \in B : b \in Nat /\ b >= 24 /\ b \in Words /\ b % 8 = 0
      /\ A2 \subseteq B
  BY <1>0, HeapPlaces DEF Settled, Al
<1>4. p \in Pointers /\ p # 0
  BY <1>0, <1>3 DEF Pointers, ALIGNMENT
<1>5. bl2 \in [Ids -> Pointers] /\ bs2 \in [Ids -> Nat] /\ LiveIn(bl2) = L2
  <2>1. bl2 \in [Ids -> Pointers] /\ bs2 \in [Ids -> Nat]
    BY <1>0, <1>4
  <2>2. bl2[index] = p /\ \A i \in Ids : i # index => bl2[i] = bl[i]
    BY <1>0
  <2>3. LiveIn(bl2) = L2
    BY <1>0, <1>1, <1>4, <2>2 DEF LiveIn
  <2> QED
    BY <2>1, <2>3
<1>6. \A r \in rs2 : r \in [lo : Nat, hi : Nat]
  <2>1. ASSUME NEW i \in L2 PROVE bl2[i] \in Nat /\ bl2[i] + bs2[i] - 1 \in Nat
    <3>1. bl2[i] \in A2 /\ i \in Ids /\ bs2[i] \in Nat
      BY <1>2, <1>5 DEF Owns
    <3>2. bl2[i] \in Nat /\ bl2[i] >= 24
      BY <1>3, <3>1
    <3> QED
      BY <3>1, <3>2
  <2> QED
    BY <1>2, <2>1 DEF Extents
<1>7. Holds(u, S, A2, bl2, bs2, rs2)
  BY <1>2, <1>5 DEF Holds
<1>8. first < u.brk
  BY <1>0, <1>2
<1> QED
  BY <1>0, <1>2, <1>5, <1>6, <1>7, <1>8 DEF Good

(* The inductive invariant.                                                *)
IInv == Good(heap, blocks, block_sizes, ranges, outcome)

(* What a block that serves a request makes of the state.                  *)
LEMMA Accepted ==
  ASSUME NEW r, NEW B, NEW S, NEW A1, NEW A2, NEW L, NEW index \in Ids, NEW size, NEW rs, NEW keep,
         Gets(r.h, B, S, A1, A2, L, blocks, block_sizes, index, size, r.p, rs),
         L = LiveIn(blocks) \ {index}, first < r.h.brk, blocks \in [Ids -> Pointers],
         outcome = "running",
         Answer(r, rs, index, size, keep), \A a \in Payload(r.p, keep) : r.h.mem[a] = index,
         r.p # 0
  PROVE  IInv'
<1>1. PICK t, p : t = r.h /\ p = r.p
  OBVIOUS
<1>2. Gets(t, B, S, A1, A2, L, blocks, block_sizes, index, size, p, rs)
  BY <1>1
<1>3. RangeOK(t, rs, p, size)
  BY <1>2, InRange
<1>4. /\ heap' = memset(t, p, index, size)
      /\ ranges' = add_range(rs, p, size)
      /\ blocks' = [blocks EXCEPT ![index] = p]
      /\ block_sizes' = [block_sizes EXCEPT ![index] = size]
      /\ outcome' = "running"
  BY <1>1, <1>3 DEF Answer, NULL
<1>5. PICK bl, bs : bl = blocks /\ bs = block_sizes
  OBVIOUS
<1>6. PICK u, bl2, bs2, rs2, out :
         /\ u = memset(t, p, index, size) /\ bl2 = [bl EXCEPT ![index] = p]
         /\ bs2 = [bs EXCEPT ![index] = size] /\ rs2 = add_range(rs, p, size) /\ out = "running"
  OBVIOUS
<1>7. Takes(t, B, S, A1, A2, L, bl, bs, index, size, p, rs, u, bl2, bs2, rs2, out)
  BY <1>1, <1>2, <1>5, <1>6 DEF Takes
<1>8. Good(u, bl2, bs2, rs2, out)
  BY <1>7, Took
<1>9. heap' = u /\ ranges' = rs2 /\ blocks' = bl2 /\ block_sizes' = bs2 /\ outcome' = out
  BY <1>4, <1>5, <1>6
<1> QED
  BY <1>8, <1>9 DEF IInv

(* An allocation keeps it, served or failed (mdriver.c, ALLOC).            *)
LEMMA AllocKeeps ==
  ASSUME IInv, NEW index \in Ids, NEW size \in Sizes, Alloc(index, size)
  PROVE  IInv'
<1>0. /\ outcome = "running" /\ blocks[index] = 0
      /\ Answer(mm_malloc(heap, size), ranges, index, size, 0)
  BY DEF Alloc, NULL
<1>1. /\ blocks \in [Ids -> Pointers] /\ block_sizes \in [Ids -> Nat]
      /\ \A r \in ranges : r \in [lo : Nat, hi : Nat]
      /\ first < heap.brk
  BY DEF IInv, Good
<1>2. PICK B, S, A : Settled(heap, B, S, A) /\ Holds(heap, S, A, blocks, block_sizes, ranges)
  BY <1>0 DEF IInv, Good
<1>3. PICK L, bl, bs : L = LiveIn(blocks) /\ bl = blocks /\ bs = block_sizes
  OBVIOUS
<1>4. Owns(heap, S, A, L, bl, bs) /\ ranges = Extents(L, bl, bs)
  BY <1>2, <1>3 DEF Holds
<1>5. PICK r : r = mm_malloc(heap, size) /\ Mallocs(heap, size, r)
  BY SizesAssumption DEF Mallocs
<1>6. CASE r.p = 0 /\ r.h = heap
  <2>1. /\ heap' = heap /\ outcome' = "failed"
        /\ UNCHANGED <<blocks, block_sizes, ranges>>
    BY <1>0, <1>5, <1>6 DEF Answer, NULL
  <2> QED
    BY <1>0, <1>1, <1>2, <2>1 DEF IInv, Good
<1>7. CASE Served(heap, S, A, size, r)
  <2>1. PICK B2, S2, A2 : /\ Settled(r.h, B2, S2, A2) /\ A2 = A \cup {r.p}
                          /\ Kept(heap, r.h, S, A) /\ \A a \in A : S2[a] = S[a]
                          /\ S2[r.p] >= Adjust(size)
    BY <1>7 DEF Served
  <2>2. r.p \notin A /\ r.p # 0 /\ r.h.brk >= heap.brk /\ size > 0
    BY <1>7 DEF Served
  <2>3. size \in Nat /\ S2[r.p] >= size + 8
    <3>1. size \in Nat
      BY <1>5 DEF Mallocs
    <3>2. A2 \subseteq B2 /\ \A b \in B2 : S2[b] \in Nat
      BY <2>1, HeapPlaces DEF Settled
    <3>3. Adjust(size) \in Nat /\ Adjust(size) >= size + 8
      BY <3>1, AdjustFacts
    <3> QED
      BY <2>1, <3>1, <3>2, <3>3
  <2>4. Owns(r.h, S2, A, L, bl, bs)
    <3>1. PICK h, t : h = heap /\ t = r.h
      OBVIOUS
    <3>2. Keeps(h, t, S, S2, A, A, L, L, bl, bs)
      BY <1>4, <2>1, <3>1 DEF Keeps, Owns
    <3>3. Settled(h, B, S, A)
      BY <1>2, <3>1
    <3>4. Owns(t, S2, A, L, bl, bs)
      BY <3>2, <3>3, OwnsKept
    <3> QED
      BY <3>1, <3>4
  <2>5. index \notin L /\ L = LiveIn(blocks) \ {index}
    BY <1>0, <1>3 DEF LiveIn
  <2>6. Gets(r.h, B2, S2, A, A2, L, blocks, block_sizes, index, size, r.p, ranges)
    BY <1>3, <1>4, <2>1, <2>2, <2>3, <2>4, <2>5 DEF Gets
  <2>7. first < r.h.brk
    <3>1. first \in Nat /\ heap.brk \in Nat /\ r.h.brk \in Nat
      BY <1>2, <2>1, HeapPlaces DEF Settled
    <3> QED
      BY <1>1, <2>2, <3>1
  <2>8. \A a \in Payload(r.p, 0) : r.h.mem[a] = index
    <3>1. r.p \in Nat
      BY <2>1, HeapPlaces DEF Settled
    <3>2. \A a \in Words : a \in Int
      BY Layout
    <3> QED
      BY <3>1, <3>2 DEF Payload
  <2>9. Answer(r, ranges, index, size, 0)
    BY <1>0, <1>5
  <2> QED
    BY <1>0, <1>1, <2>2, <2>5, <2>6, <2>7, <2>8, <2>9, Accepted
<1> QED
  BY <1>2, <1>5, <1>6, <1>7, Malloced

(* A realloc keeps it, served or failed (mdriver.c, REALLOC).              *)
LEMMA ReallocKeeps ==
  ASSUME IInv, NEW index \in Ids, NEW size \in Sizes, Realloc(index, size)
  PROVE  IInv'
<1>1. /\ blocks \in [Ids -> Pointers] /\ block_sizes \in [Ids -> Nat]
      /\ \A r \in ranges : r \in [lo : Nat, hi : Nat]
      /\ first < heap.brk /\ outcome = "running" /\ blocks[index] # 0
  BY DEF IInv, Good, Realloc, NULL
<1>2. PICK B, S, A : Settled(heap, B, S, A) /\ Holds(heap, S, A, blocks, block_sizes, ranges)
  BY <1>1 DEF IInv, Good
<1>3. PICK h, L, bl, bs : h = heap /\ L = LiveIn(blocks) /\ bl = blocks /\ bs = block_sizes
  OBVIOUS
<1>4. Settled(h, B, S, A) /\ Owns(h, S, A, L, bl, bs) /\ ranges = Extents(L, bl, bs)
  BY <1>2, <1>3 DEF Holds
<1>5. PICK p, A1, L1, rs : p = bl[index] /\ A1 = A \ {p} /\ L1 = L \ {index} /\ rs = remove_range(ranges, p)
  OBVIOUS
<1>6. index \in L /\ p \in A
  BY <1>1, <1>3, <1>4, <1>5 DEF LiveIn, Owns
<1>7. A1 = {bl[i] : i \in L1} /\ rs = Extents(L1, bl, bs)
  BY <1>4, <1>5, <1>6, Without, SMTT(30)
<1>8. PICK r : r = mm_realloc(h, p, size)
  OBVIOUS
<1>9. Reallocs(h, p, size, r, A, A1) /\ size \in Nat
  BY <1>5, <1>6, <1>8, SizesAssumption DEF Reallocs
<1>10. PICK keep : keep = MinOf(size, bs[index])
  OBVIOUS
<1>11. Answer(r, rs, index, size, keep)
  BY <1>3, <1>5, <1>8, <1>10 DEF Realloc
<1>12. CASE size = 0 /\ r.p = 0 /\ Dropped(h, r.h, S, A1)
  <2>1. /\ heap' = r.h /\ outcome' = "failed"
        /\ UNCHANGED <<blocks, block_sizes, ranges>>
    BY <1>11, <1>12 DEF Answer, NULL
  <2>2. PICK B2, S2 : Settled(r.h, B2, S2, A1) /\ r.h.brk = h.brk
    BY <1>12 DEF Dropped
  <2>3. 0 \in Sizes
    BY <1>12
  <2> QED
    BY <1>1, <1>3, <2>1, <2>2, <2>3 DEF IInv, Good
<1>13. CASE size > 0 /\ r.p = 0 /\ r.h = h
  <2>1. /\ heap' = heap /\ outcome' = "failed"
        /\ UNCHANGED <<blocks, block_sizes, ranges>>
    BY <1>3, <1>11, <1>13 DEF Answer, NULL
  <2> QED
    BY <1>1, <1>2, <2>1 DEF IInv, Good
<1>14. CASE size > 0 /\ Resized(h, S, A1, p, size, r)
  <2>1. PICK t, q : t = r.h /\ q = r.p
    OBVIOUS
  <2>2. /\ q \notin A1 /\ q # 0 /\ t.brk >= h.brk /\ Kept(h, t, S, A1) /\ Carried(h, t, S, p, q, size)
    BY <1>14, <2>1 DEF Resized, Carried
  <2>3. PICK B2, S2, A2 : /\ Settled(t, B2, S2, A2) /\ A2 = A1 \cup {q} /\ (\A a \in A1 : S2[a] = S[a])
                          /\ S2[q] >= size + 8
    BY <1>14, <2>1 DEF Resized
  <2>4. Owns(t, S2, A1, L1, bl, bs)
    <3>1. Keeps(h, t, S, S2, A, A1, L, L1, bl, bs)
      BY <1>4, <1>5, <1>7, <2>2, <2>3 DEF Keeps
    <3> QED
      BY <1>4, <3>1, OwnsKept
  <2>5. Gets(t, B2, S2, A1, A2, L1, bl, bs, index, size, q, rs)
    BY <1>5, <1>7, <1>9, <1>14, <2>2, <2>3, <2>4 DEF Gets
  <2>6. q \in Nat /\ Al(q) /\ first \in Nat /\ t.brk \in Nat /\ h.brk \in Nat
    <3>1. /\ \A b \in B2 : b \in Nat /\ Al(b)
          /\ A2 \subseteq B2 /\ first \in Nat /\ t.brk \in Nat
      BY <2>3, HeapPlaces DEF Settled
    <3>2. h.brk \in Nat
      BY <1>4, HeapPlaces DEF Settled
    <3> QED
      BY <2>3, <3>1, <3>2
  <2>7. first < t.brk
    BY <1>1, <1>3, <2>2, <2>6
  <2>8. \A a \in Payload(q, keep) : t.mem[a] = index
    BY <1>4, <1>5, <1>6, <1>9, <1>10, <2>2, <2>6, KeptBytes
  <2>9. L1 = LiveIn(blocks) \ {index}
    BY <1>3, <1>5
  <2>10. Gets(r.h, B2, S2, A1, A2, L1, blocks, block_sizes, index, size, r.p, rs)
    BY <1>3, <2>1, <2>5
  <2>11. first < r.h.brk /\ r.p # 0 /\ \A a \in Payload(r.p, keep) : r.h.mem[a] = index
    BY <2>1, <2>2, <2>7, <2>8
  <2> QED
    BY <1>1, <1>11, <2>9, <2>10, <2>11, Accepted
<1> QED
  BY <1>4, <1>9, <1>12, <1>13, <1>14, Reallocated

(* A free keeps it (mdriver.c, FREE).                                      *)
LEMMA FreeKeeps ==
  ASSUME IInv, NEW index \in Ids, Free(index)
  PROVE  IInv'
<1>1. /\ blocks \in [Ids -> Pointers] /\ block_sizes \in [Ids -> Nat]
      /\ \A r \in ranges : r \in [lo : Nat, hi : Nat]
      /\ first < heap.brk /\ outcome = "running" /\ blocks[index] # 0
  BY DEF IInv, Good, Free, NULL
<1>2. PICK B, S, A : Settled(heap, B, S, A) /\ Holds(heap, S, A, blocks, block_sizes, ranges)
  BY <1>1 DEF IInv, Good
<1>3. PICK h, L, bl, bs : h = heap /\ L = LiveIn(blocks) /\ bl = blocks /\ bs = block_sizes
  OBVIOUS
<1>4. Settled(h, B, S, A) /\ Owns(h, S, A, L, bl, bs) /\ ranges = Extents(L, bl, bs)
  BY <1>2, <1>3 DEF Holds
<1>5. PICK p, A1, L1, rs, t : /\ p = bl[index] /\ A1 = A \ {p} /\ L1 = L \ {index}
                              /\ rs = remove_range(ranges, p) /\ t = mm_free(h, p)
  OBVIOUS
<1>6. index \in L /\ p \in A
  BY <1>1, <1>3, <1>4, <1>5 DEF LiveIn, Owns
<1>7. A1 = {bl[i] : i \in L1} /\ rs = Extents(L1, bl, bs)
  BY <1>4, <1>5, <1>6, Without
<1>8. PICK B2, S2 : /\ Settled(t, B2, S2, A1) /\ t.brk = h.brk
                    /\ Kept(h, t, S, A1) /\ \A a \in A1 : S2[a] = S[a]
  <2>1. Frees(h, p, t, A, A1)
    BY <1>5, <1>6 DEF Frees
  <2> QED
    BY <1>4, <2>1, Freed
<1>9. Owns(t, S2, A1, L1, bl, bs)
  <2>1. Keeps(h, t, S, S2, A, A1, L, L1, bl, bs)
    BY <1>4, <1>5, <1>7, <1>8 DEF Keeps
  <2> QED
    BY <1>4, <2>1, OwnsKept
<1>10. /\ heap' = t /\ ranges' = rs /\ outcome' = "running"
       /\ blocks' = [blocks EXCEPT ![index] = 0] /\ block_sizes' = [block_sizes EXCEPT ![index] = 0]
  BY <1>1, <1>3, <1>5 DEF Free, NULL
<1>11. /\ blocks' \in [Ids -> Pointers] /\ block_sizes' \in [Ids -> Nat]
       /\ LiveIn(blocks') = L1 /\ \A i \in L1 : blocks'[i] = bl[i] /\ block_sizes'[i] = bs[i]
  <2>1. 0 \in Pointers
    BY DEF Pointers, NULL
  <2>2. L1 \subseteq Ids /\ index \notin L1
    BY <1>3, <1>5 DEF LiveIn
  <2>3. LiveIn(blocks') = L1
    BY <1>1, <1>3, <1>5, <1>10 DEF LiveIn
  <2> QED
    BY <1>1, <1>3, <1>10, <2>1, <2>2, <2>3
<1>12. Holds(t, S2, A1, blocks', block_sizes', ranges')
  <2>1. PICK bl2, bs2 : bl2 = blocks' /\ bs2 = block_sizes'
    OBVIOUS
  <2>2. bl2 \in [Ids -> Nat] /\ bs2 \in [Ids -> Nat] /\ \A i \in L1 : bl2[i] = bl[i] /\ bs2[i] = bs[i]
    <3>1. Pointers \subseteq Nat
      <4>1. \A a \in Words : a \in Nat
        <5>1. first \in Nat /\ first >= 24 /\ MAX_HEAP \in Nat
          BY Layout
        <5>2. \A a \in first - 12 .. MAX_HEAP - 1 : a \in Nat
          BY <5>1
        <5> QED
          BY <5>2, Layout
      <4> QED
        BY <4>1 DEF Pointers, NULL
    <3> QED
      BY <1>11, <2>1, <3>1
  <2>3. Owns(t, S2, A1, L1, bl2, bs2)
    BY <1>9, <2>2 DEF Owns
  <2>4. rs = Extents(L1, bl2, bs2)
    BY <1>7, <2>2 DEF Extents
  <2> QED
    BY <1>10, <1>11, <2>1, <2>3, <2>4 DEF Holds
<1>13. \A r \in ranges' : r \in [lo : Nat, hi : Nat]
  BY <1>1, <1>5, <1>10 DEF remove_range
<1>14. first < heap'.brk
  BY <1>1, <1>3, <1>8, <1>10
<1> QED
  BY <1>8, <1>10, <1>11, <1>12, <1>13, <1>14 DEF IInv, Good

----------------------------------------------------------------------------
(* The invariants that follow.                                             *)

(* The blocks that going from header to header finds are the ones the      *)
(* invariant speaks of.                                                    *)
LEMMA BlocksAre ==
  ASSUME NEW B, NEW S, NEW A, Settled(heap, B, S, A), first < heap.brk
  PROVE  /\ BlockSet = B /\ FreeBlocks = B \ A /\ BlockSet \ FreeBlocks = A
         /\ \A b \in B : /\ GETSIZE(heap, HDRP(b)) = S[b] /\ NEXT_BLKP(heap, b) = b + S[b]
                         /\ FTRP(heap, b) = b + S[b] - 8
<1>1. PICK X : Heaped(heap, B, S, A, X) /\ Shape(heap, B, S, A) /\ A \subseteq B
  BY DEF Settled, Heaped, Shape
<1>2. BlockSet = B
  BY <1>1, BlockSetIs
<1>3. \A b \in B : /\ GETSIZE(heap, HDRP(b)) = S[b] /\ NEXT_BLKP(heap, b) = b + S[b]
                   /\ FTRP(heap, b) = b + S[b] - 8 /\ GETALLOC(heap, HDRP(b)) = Bit(A, b)
  BY <1>1, Seen
<1>4. FreeBlocks = B \ A
  BY <1>1, <1>2, <1>3 DEF FreeBlocks, Bit
<1> QED
  BY <1>1, <1>2, <1>3, <1>4

(* The heap of a state with the invariant is well formed.                  *)
LEMMA WellFormed ==
  ASSUME IInv
  PROVE  HeapWellFormed
<1>1. PICK B, S, A : Settled(heap, B, S, A)
  BY DEF IInv, Good
<1>2. /\ blocks \in [Ids -> Pointers] /\ block_sizes \in [Ids -> Nat]
      /\ \A r \in ranges : r \in [lo : Nat, hi : Nat]
      /\ outcome \in {"running", "failed"} /\ first < heap.brk
  BY DEF IInv, Good
<1>3. /\ BlockSet = B /\ FreeBlocks = B \ A
      /\ \A b \in B : /\ GETSIZE(heap, HDRP(b)) = S[b] /\ NEXT_BLKP(heap, b) = b + S[b]
                      /\ FTRP(heap, b) = b + S[b] - 8
  BY <1>1, <1>2, BlocksAre
<1>4. /\ \A b \in B : /\ b \in Nat /\ S[b] \in Nat /\ S[b] >= 16 /\ b + S[b] <= heap.brk /\ Al(b)
                      /\ b \in Words
      /\ heap \in HeapT /\ heap.brk \in Nat /\ heap.brk <= MAX_HEAP /\ MAX_HEAP \in Nat
  BY <1>1, HeapPlaces DEF Settled
<1>5. TypeOK
  <2>1. heap.mem \in [Words -> Nat]
    BY <1>4 DEF HeapT
  <2>2. heap.brk \in prologue .. MAX_HEAP
    <3>1. prologue \in Int /\ first = prologue + 8
      BY Layout, ClassSizeAssumption DEF prologue, heap_listp, WSIZE
    <3> QED
      BY <1>2, <1>4, <3>1
  <2>3. heap.free_list \in [Classes -> Pointers]
    <3>1. heap.free_list \in [Classes -> Nat]
      BY <1>4 DEF HeapT
    <3>2. ASSUME NEW c \in Classes PROVE heap.free_list[c] \in Pointers
      <4>1. heap.free_list[c] # 0 => heap.free_list[c] \in B
        BY <1>1 DEF Settled, Heaped, Linked
      <4> QED
        BY <1>4, <4>1 DEF Pointers, ALIGNMENT, Al, NULL
    <3> QED
      BY <3>1, <3>2
  <2> QED
    BY <1>2, <2>1, <2>2, <2>3 DEF TypeOK
<1>6. heap.mem[HDRP(heap.brk)] = PACK(0, 1)
  BY <1>1 DEF Settled, Heaped, Shape, HDRP, PACK, WSIZE
<1>7. ASSUME NEW b \in BlockSet
      PROVE  /\ b % ALIGNMENT = 0 /\ GETSIZE(heap, HDRP(b)) >= 2 * DSIZE
             /\ NEXT_BLKP(heap, b) <= heap.brk
             /\ heap.mem[FTRP(heap, b)] = heap.mem[HDRP(b)]
  <2>1. b \in B
    BY <1>3
  <2>2. heap.mem[b - 4] = S[b] + Bit(A, b) /\ heap.mem[b + S[b] - 8] = S[b] + Bit(A, b)
    BY <1>1, <2>1 DEF Settled, Heaped, Shape
  <2>3. heap.mem[FTRP(heap, b)] = heap.mem[HDRP(b)]
    BY <1>3, <2>1, <2>2 DEF HDRP, WSIZE
  <2>4. b % ALIGNMENT = 0 /\ S[b] >= 2 * DSIZE
    BY <1>4, <2>1 DEF ALIGNMENT, DSIZE, Al
  <2> QED
    BY <1>3, <1>4, <2>1, <2>3, <2>4
<1>8. \A b \in FreeBlocks : NEXT_BLKP(heap, b) \notin FreeBlocks
  BY <1>1, <1>3 DEF Settled, NoPair
<1> QED
  BY <1>5, <1>6, <1>7, <1>8 DEF HeapWellFormed

(* Its lists hold the free blocks.                                         *)
LEMMA ListsExact ==
  ASSUME IInv
  PROVE  FreeListsExact
<1>1. PICK B, S, A : Settled(heap, B, S, A) /\ first < heap.brk
  BY DEF IInv, Good
<1>2. /\ FreeBlocks = B \ A
      /\ \A b \in B : GETSIZE(heap, HDRP(b)) = S[b]
  BY <1>1, BlocksAre
<1>3. SUFFICES ASSUME NEW c \in Classes, NEW s, s = Chain(heap, c)
               PROVE  /\ ToSet(s) = {b \in FreeBlocks : find_class(GETSIZE(heap, HDRP(b))) = c}
                      /\ IsInjective(s)
                      /\ \A i \in DOMAIN s :
                            LIST_PREVP(heap, s[i]) = IF i = 1 THEN NULL ELSE s[i - 1]
  BY DEF FreeListsExact
<1>4. PICK X : X = B \ A /\ Heaped(heap, B, S, A, X)
  BY <1>1 DEF Settled
<1>5. /\ ToSet(s) = {b \in X : cls(S, b) = c}
      /\ IsInjective(s)
      /\ \A i \in DOMAIN s : LIST_PREVP(heap, s[i]) = IF i = 1 THEN NULL ELSE s[i - 1]
  BY <1>3, <1>4, ChainExact
<1>6. {b \in X : cls(S, b) = c} = {b \in FreeBlocks : find_class(GETSIZE(heap, HDRP(b))) = c}
  BY <1>2, <1>4 DEF cls
<1> QED
  BY <1>5, <1>6

(* Its allocated blocks are those of the program.                          *)
LEMMA Accounted ==
  ASSUME IInv
  PROVE  BlocksAccounted
<1>1. SUFFICES ASSUME outcome = "running"
               PROVE  /\ BlockSet \ FreeBlocks = {blocks[i] : i \in Live}
                      /\ \A i, k \in Live : blocks[i] = blocks[k] => i = k
                      /\ \A i \in Live : GETSIZE(heap, HDRP(blocks[i])) >= block_sizes[i] + DSIZE
  BY DEF BlocksAccounted
<1>2. PICK B, S, A : /\ Settled(heap, B, S, A) /\ first < heap.brk
                     /\ Holds(heap, S, A, blocks, block_sizes, ranges)
  BY <1>1 DEF IInv, Good
<1>3. /\ BlockSet \ FreeBlocks = A
      /\ \A b \in B : GETSIZE(heap, HDRP(b)) = S[b]
  BY <1>2, BlocksAre
<1>4. A \subseteq B
  BY <1>2, HeapPlaces DEF Settled
<1>5. Live = LiveIn(blocks)
  BY DEF Live, LiveIn, NULL
<1>6. Owns(heap, S, A, Live, blocks, block_sizes)
  BY <1>2, <1>5 DEF Holds
<1>7. /\ A = {blocks[i] : i \in Live}
      /\ \A i, k \in Live : blocks[i] = blocks[k] => i = k
      /\ \A i \in Live : S[blocks[i]] >= block_sizes[i] + 8
  BY <1>6 DEF Owns
<1>8. \A i \in Live : blocks[i] \in B
  BY <1>4, <1>7
<1> QED
  BY <1>3, <1>7, <1>8 DEF DSIZE

(* What the program wrote into them is there.                              *)
LEMMA Intact ==
  ASSUME IInv, 0 \notin Sizes
  PROVE  ContentsIntact
<1>1. PICK B, S, A : Holds(heap, S, A, blocks, block_sizes, ranges)
  BY DEF IInv, Good
<1>2. Live = LiveIn(blocks)
  BY DEF Live, LiveIn, NULL
<1> QED
  BY <1>1, <1>2 DEF Holds, Owns, ContentsIntact

(* Whatever a trace asks of mm_malloc, mm_realloc and mm_free, the blocks  *)
(* fill the heap without free neighbours, the lists hold the free ones, and*)
(* the allocated ones are the program's with what it wrote.                *)
THEOREM Invariant == Spec => []IInv
<1>1. Init => IInv
  BY Began DEF Init, IInv
<1>2. ASSUME IInv, [Next]_vars PROVE IInv'
  <2>1. CASE \E i \in Ids, size \in Sizes : Alloc(i, size) \/ Realloc(i, size)
    BY <1>2, <2>1, AllocKeeps, ReallocKeeps
  <2>2. CASE \E i \in Ids : Free(i)
    BY <1>2, <2>2, FreeKeeps
  <2>3. CASE NextTrace
    <3>1. Good(heap', blocks', block_sizes', ranges', outcome')
      BY <2>3, Began DEF NextTrace
    <3> QED
      BY <3>1 DEF IInv
  <2>4. CASE UNCHANGED vars
    BY <1>2, <2>4 DEF vars, IInv
  <2> QED
    BY <1>2, <2>1, <2>2, <2>3, <2>4 DEF Next
<1> QED
  BY <1>1, <1>2, PTL DEF Spec

(* What mm_check of mm.c means to check of the blocks holds after every    *)
(* request: they fill the heap, footers repeat headers, no two neighbours  *)
(* are free.                                                               *)
THEOREM HeapStaysWellFormed == Spec => []HeapWellFormed
<1>1. IInv => HeapWellFormed
  BY WellFormed
<1> QED
  BY <1>1, Invariant, PTL

(* After every request insert_list and remove_list of mm.c have left each  *)
(* free block in the list of its size, once, linked both ways.             *)
THEOREM FreeListsStayExact == Spec => []FreeListsExact
<1>1. IInv => FreeListsExact
  BY ListsExact
<1> QED
  BY <1>1, Invariant, PTL

(* mm.c loses no block and hands none out twice, and each is as large as   *)
(* was asked for.                                                          *)
THEOREM BlocksStayAccounted == Spec => []BlocksAccounted
<1>1. IInv => BlocksAccounted
  BY Accounted
<1> QED
  BY <1>1, Invariant, PTL

(* The driver, eval_mm_valid of mdriver.c, never finds a block that is     *)
(* misaligned, outside the heap, overlapping or spoilt by a realloc.       *)
THEOREM TracesStayValid == Spec => []TraceValid
<1>1. IInv => TraceValid
  BY DEF IInv, Good, TraceValid
<1> QED
  BY <1>1, Invariant, PTL

(* mm.c never writes into a payload that the program holds, and realloc    *)
(* moves it unharmed. A trace that resizes a block to 0 bytes is left out: *)
(* mm_realloc then frees the block and returns NULL, which the driver takes*)
(* for a failure while it still counts the block.                          *)
THEOREM ContentsStayIntact ==
  ASSUME 0 \notin Sizes
  PROVE  Spec => []ContentsIntact
<1>1. IInv => ContentsIntact
  BY Intact
<1> QED
  BY <1>1, Invariant, PTL

(* A request that fails leaves the heap as it was.                         *)
LEMMA FailedAlone ==
  ASSUME IInv, 0 \notin Sizes, Next, outcome' = "failed"
  PROVE  heap' = heap
<1>1. PICK i \in Ids, size \in Sizes : Alloc(i, size) \/ Realloc(i, size)
  <2>1. ASSUME NEW i \in Ids, Free(i) PROVE FALSE
    BY <2>1 DEF Free
  <2>2. ASSUME NextTrace PROVE FALSE
    BY <2>2 DEF NextTrace
  <2> QED
    BY <2>1, <2>2 DEF Next
<1>2. size \in Nat /\ size # 0
  BY SizesAssumption
<1>3. outcome = "running" /\ outcome # "failed"
  BY <1>1 DEF Alloc, Realloc
<1>4. PICK B, S, A : Settled(heap, B, S, A) /\ Holds(heap, S, A, blocks, block_sizes, ranges)
  BY <1>3 DEF IInv, Good
<1>5. CASE Alloc(i, size)
  <2>1. PICK r : r = mm_malloc(heap, size) /\ Mallocs(heap, size, r)
    BY <1>2 DEF Mallocs
  <2>2. r.p = 0 /\ heap' = r.h
    BY <1>3, <1>5, <2>1 DEF Alloc, Answer, NULL
  <2>3. (r.p = 0 /\ r.h = heap) \/ Served(heap, S, A, size, r)
    BY <1>4, <2>1, Malloced
  <2> QED
    BY <2>2, <2>3 DEF Served
<1>6. CASE Realloc(i, size)
  <2>1. PICK p, A1, r : p = blocks[i] /\ A1 = A \ {p} /\ r = mm_realloc(heap, p, size)
    OBVIOUS
  <2>2. r.p = 0 /\ heap' = r.h
    BY <1>3, <1>6, <2>1 DEF Realloc, Answer, NULL
  <2>3. p \in A
    BY <1>4, <1>6, <2>1 DEF Realloc, Holds, Owns, LiveIn, NULL
  <2>4. Reallocs(heap, p, size, r, A, A1)
    BY <1>2, <2>1, <2>3 DEF Reallocs
  <2>5. \/ size = 0 /\ r.p = 0 /\ Dropped(heap, r.h, S, A1)
        \/ size > 0 /\ r.p = 0 /\ r.h = heap
        \/ size > 0 /\ Resized(heap, S, A1, p, size, r)
    BY <1>4, <2>4, Reallocated
  <2> QED
    BY <1>2, <2>2, <2>5 DEF Resized
<1> QED
  BY <1>1, <1>5, <1>6

(* A request that mm.c cannot serve leaves its heap untouched: find_fit and*)
(* extend_heap fail before anything is written. A realloc to 0 bytes, which*)
(* frees, is left out as above.                                            *)
THEOREM FailuresStayHarmless ==
  ASSUME 0 \notin Sizes
  PROVE  Spec => FailureHarmless
<1>1. ASSUME IInv, [Next]_vars PROVE [outcome' = "failed" => heap' = heap]_vars
  BY <1>1, FailedAlone
<1> QED
  BY <1>1, Invariant, PTL DEF Spec, FailureHarmless
=============================================================================
