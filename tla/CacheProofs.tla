---------------------------- MODULE CacheProofs -----------------------------
(***************************************************************************)
(* The cache lab.  The cache simulator, for every geometry of the cache    *)
(* and every trace, provided that memory from malloc holds no line that    *)
(* looks valid: its lines stay distinct, its counters agree with its       *)
(* contents, and both are those of a least recently used cache.  The       *)
(* transpositions, access by access: each of the sizes of the handout is   *)
(* transposed, and nothing that is in place is disturbed.                  *)
(***************************************************************************)
EXTENDS Csim, Trans, FiniteSetTheorems, WellFoundedInduction, SequenceTheorems, TLAPS

----------------------------------------------------------------------------
(* Least elements, for the line that is found or evicted, and powers,      *)
(* quotients and remainders, for the fields of an address.                 *)

(* A nonempty set of naturals has a least element, and Min is it.          *)
LEMMA MinNat ==
  ASSUME NEW S, S \subseteq Nat, S # {}
  PROVE  Min(S) \in S /\ \A y \in S : Min(S) <= y
<1> DEFINE R == {ss \in Nat \X Nat : ss[1] < ss[2]}
<1>1. IsWellFoundedOn(R, Nat)
  BY NatLessThanWellFounded, Zenon DEF OpToRel
<1>2. PICK x \in S : \A y \in S : ~ (<<y, x>> \in R)
  <2> HIDE DEF R
  <2> QED  BY <1>1, WFMin, Zenon
<1>3. ASSUME NEW y \in S  PROVE x <= y
  <2>1. x \in Nat /\ y \in Nat
    OBVIOUS
  <2>2. ~ (<<y, x>> \in R)
    BY <1>2
  <2>3. ~ (y < x)
    BY <2>1, <2>2
  <2> QED  BY <2>1, <2>3
<1>4. QED  BY <1>3, Zenon DEF Min

(* 2^e counts the subsets of an e-element set.                             *)
LEMMA PowerCounts ==
  ASSUME NEW e \in Nat
  PROVE  /\ IsFiniteSet(SUBSET (1 .. e)) /\ Cardinality(SUBSET (1 .. e)) = 2 ^ e
         /\ 2 ^ e \in Nat \ {0}
<1>1. IsFiniteSet(1 .. e) /\ Cardinality(1 .. e) = e
  BY FS_Interval
<1>2. IsFiniteSet(SUBSET (1 .. e)) /\ Cardinality(SUBSET (1 .. e)) = 2 ^ e
  BY <1>1, FS_SUBSET
<1>3. SUBSET (1 .. e) # {}
  OBVIOUS
<1>4. 2 ^ e \in Nat /\ 2 ^ e # 0
  BY <1>2, <1>3, FS_CardinalityType, FS_EmptySet
<1> QED
  BY <1>2, <1>4

(* The subsets of m + e elements are the pairs of a subset of the first m  *)
(* and a subset of the last e.                                             *)
LEMMA PowerSum ==
  ASSUME NEW m \in Nat, NEW e \in Nat
  PROVE  2 ^ (m + e) = 2 ^ m * 2 ^ e
<1> DEFINE low == 1 .. m
           high == (m + 1) .. (m + e)
           C == 1 .. (m + e)
           PA == SUBSET low
           PB == SUBSET high
           f == [X \in SUBSET C |-> <<X \cap low, X \cap high>>]
<1>1. C = low \cup high /\ low \cap high = {}
  OBVIOUS
<1>2. IsFiniteSet(high) /\ Cardinality(high) = e
  BY FS_Interval
<1>3. /\ IsFiniteSet(SUBSET low) /\ Cardinality(SUBSET low) = 2 ^ m
      /\ IsFiniteSet(SUBSET C) /\ Cardinality(SUBSET C) = 2 ^ (m + e)
  BY PowerCounts
<1>4. IsFiniteSet(SUBSET high) /\ Cardinality(SUBSET high) = 2 ^ e
  BY <1>2, FS_SUBSET
<1> HIDE DEF low, high, C
<1>5. f \in Bijection(SUBSET C, PA \X PB)
  <2>1. f \in [SUBSET C -> PA \X PB]
    OBVIOUS
  <2>2. ASSUME NEW X \in SUBSET C, NEW Y \in SUBSET C, f[X] = f[Y] PROVE X = Y
    <3>1. X \cap low = Y \cap low /\ X \cap high = Y \cap high
      BY <2>2
    <3> QED
      BY <1>1, <3>1
  <2>3. ASSUME NEW z \in PA \X PB PROVE \E X \in SUBSET C : f[X] = z
    <3>1. PICK X, Y : z = <<X, Y>> /\ X \in PA /\ Y \in PB
      OBVIOUS
    <3>2. X \cup Y \in SUBSET C /\ (X \cup Y) \cap low = X /\ (X \cup Y) \cap high = Y
      BY <1>1, <3>1
    <3> QED
      BY <3>1, <3>2
  <2> HIDE DEF f
  <2> QED
    BY <2>1, <2>2, <2>3 DEF Bijection, Injection, IsInjective, Surjection
<1>6. Cardinality(PA \X PB) = Cardinality(SUBSET C)
  <2>1. ExistsBijection(SUBSET C, PA \X PB)
    BY <1>5 DEF ExistsBijection
  <2> QED
    BY <1>3, <2>1, FS_Bijection
<1>7. IsFiniteSet(PA) /\ Cardinality(PA) = 2 ^ m /\ IsFiniteSet(PB) /\ Cardinality(PB) = 2 ^ e
  BY <1>3, <1>4
<1>8. Cardinality(PA \X PB) = 2 ^ m * 2 ^ e
  <2> HIDE DEF PA, PB, f
  <2>1. Cardinality(PA \X PB) = Cardinality(PA) * Cardinality(PB)
    BY <1>7, FS_Product, Zenon
  <2> QED
    BY <1>7, <2>1
<1> QED
  BY <1>3, <1>6, <1>8

(* Quotient and remainder are determined by what they satisfy.             *)
LEMMA DivMod ==
  ASSUME NEW x \in Nat, NEW k \in Nat \ {0}, NEW q \in Nat, NEW r \in 0 .. k - 1, x = k * q + r
  PROVE  x \div k = q /\ x % k = r
OBVIOUS

(* Dividend, quotient and remainder.                                       *)
LEMMA DivModExist ==
  ASSUME NEW x \in Nat, NEW k \in Nat \ {0}
  PROVE  x \div k \in Nat /\ x % k \in 0 .. k - 1 /\ x = k * (x \div k) + (x % k)
OBVIOUS

(* Dividing by a product is dividing twice.                                *)
LEMMA DivModProduct ==
  ASSUME NEW x \in Nat, NEW k \in Nat \ {0}, NEW m \in Nat \ {0}
  PROVE  /\ x \div (k * m) = (x \div m) \div k
         /\ (x % (k * m)) \div m = (x \div m) % k
         /\ (x % (k * m)) % m = x % m
<1> DEFINE q == x \div m
           r == x % m
           p == q \div k
           u == q % k
<1>1. q \in Nat /\ r \in 0 .. m - 1 /\ x = m * q + r
  BY DivModExist
<1>2. p \in Nat /\ u \in 0 .. k - 1 /\ q = k * p + u
  BY <1>1, DivModExist
<1> HIDE DEF q, r, p, u
<1>3. k * m \in Nat \ {0}
  OBVIOUS
<1>4. m * u + r \in 0 .. k * m - 1
  <2>1. m * u <= m * (k - 1)
    BY <1>2
  <2>2. m * (k - 1) = k * m - m
    OBVIOUS
  <2>3. m * u \in Nat
    BY <1>2
  <2> QED
    BY <1>1, <2>1, <2>2, <2>3
<1>5. x = (k * m) * p + (m * u + r)
  <2>1. m * q = m * (k * p) + m * u
    BY <1>2
  <2>2. m * (k * p) = (k * m) * p
    BY <1>2
  <2> QED
    BY <1>1, <1>2, <2>1, <2>2
<1>6. x \div (k * m) = p /\ x % (k * m) = m * u + r
  BY <1>2, <1>3, <1>4, <1>5, DivMod
<1>7. (m * u + r) \div m = u /\ (m * u + r) % m = r
  <2>1. m * u + r \in Nat
    BY <1>1, <1>2
  <2> QED
    BY <1>1, <1>2, <2>1, DivMod
<1> QED
  BY <1>6, <1>7 DEF q, r, p, u

----------------------------------------------------------------------------
(* The simulator.                                                          *)

Tags == {UnusedLine.tag} \cup {l.tag : l \in Leftovers} \cup {FindTag(addr) : addr \in Addrs}

CLine == [valid : BOOLEAN, tag : Tags, callTime : Nat]

(* No left-over line looks valid.                                          *)
BlankLeftovers == Leftovers \subseteq [valid : {FALSE}, tag : UInt, callTime : UInt]

(* A set of lines between two uses: each block once, each time of use      *)
(* once, none later than now.                                              *)
DistinctUntil(c, now) ==
    /\ \A j, k \in Lines : c[j].valid /\ c[k].valid /\ j # k =>
          c[j].tag # c[k].tag /\ c[j].callTime # c[k].callTime
    /\ \A j \in Lines : c[j].valid => c[j].callTime \in 1 .. now

(* While a line of the trace is processed only the block it names carries  *)
(* the present time: a modification uses the set twice.                    *)
Using(c, tag, now) ==
    /\ c \in [Lines -> CLine]
    /\ DistinctUntil(c, now)
    /\ \A j \in Lines : c[j].valid /\ c[j].callTime = now => c[j].tag = tag

LEMMA LinesNat == Lines \subseteq Nat /\ 0 \in Lines
BY GeometryAssumption DEF Lines

LEMMA UIntNat == UInt \subseteq Nat /\ 0 \in UInt /\ 2 ^ WORDSIZE - 1 \in UInt
<1>1. 2 ^ WORDSIZE \in Nat \ {0}
  BY GeometryAssumption, PowerCounts
<1> DEFINE p == 2 ^ WORDSIZE
<1>2. UInt = 0 .. p - 1
  BY DEF UInt
<1> HIDE DEF p
<1>3. p \in Nat \ {0}
  BY <1>1 DEF p
<1>4. 0 .. p - 1 \subseteq Nat /\ 0 \in 0 .. p - 1 /\ p - 1 \in 0 .. p - 1
  BY <1>3
<1> QED
  BY <1>2, <1>4 DEF p

(* The evicted line is one whose last use is the oldest.                   *)
LEMMA VictimIsOldest ==
  ASSUME NEW c \in [Lines -> CLine]
  PROVE  Victim(c) \in Lines /\ \A k \in Lines : c[Victim(c)].callTime <= c[k].callTime
<1> DEFINE times == {c[j].callTime : j \in Lines}
           oldest == {j \in Lines : \A k \in Lines : c[j].callTime <= c[k].callTime}
<1>1. times \subseteq Nat /\ times # {}
  <2>1. ASSUME NEW j \in Lines PROVE c[j].callTime \in Nat
    BY DEF CLine
  <2>2. 0 \in Lines
    BY LinesNat
  <2> QED
    BY <2>1, <2>2, Zenon
<1>2. PICK j \in Lines : c[j].callTime = Min(times)
  <2>1. Min(times) \in times
    <3> HIDE DEF times
    <3> QED  BY <1>1, MinNat
  <2> QED  BY <2>1
<1>3. \A y \in times : Min(times) <= y
  <2> HIDE DEF times
  <2> QED  BY <1>1, MinNat
<1>4. j \in oldest
  <2>1. \A k \in Lines : c[k].callTime \in times
    OBVIOUS
  <2> HIDE DEF times
  <2> QED  BY <1>2, <1>3, <2>1
<1>5. Min(oldest) \in oldest
  <2>1. oldest \subseteq Nat
    BY LinesNat
  <2> HIDE DEF oldest
  <2> QED  BY <1>4, <2>1, MinNat
<1>6. QED  BY <1>5 DEF Victim

(* Storing a block that the set does not hold.                             *)
LEMMA StoreUsing ==
  ASSUME NEW tag \in Tags, NEW now \in Nat \ {0}, NEW c, Using(c, tag, now),
         Holding(c, tag) = {}, Blank(c) # {}
  PROVE  Using(StoreCache(c, tag, now), tag, now)
<1>1. Min(Blank(c)) \in Blank(c)
  <2>1. Blank(c) \subseteq Nat
    BY LinesNat DEF Blank
  <2> QED  BY <2>1, MinNat
<1> DEFINE i == Min(Blank(c))
           new == [valid |-> TRUE, tag |-> tag, callTime |-> now]
           d == [c EXCEPT ![i] = new]
<1>2. i \in Lines /\ new \in CLine
  BY <1>1 DEF Blank, CLine
<1>3. d \in [Lines -> CLine] /\ d[i] = new /\ \A j \in Lines \ {i} : d[j] = c[j]
  BY <1>2 DEF Using
<1>4. \A j \in Lines : c[j].valid => c[j].tag # tag /\ c[j].callTime # now
  BY DEF Holding, Using
<1>5. DistinctUntil(d, now)
  <2> HIDE DEF i, d
  <2> QED  BY <1>3, <1>4 DEF DistinctUntil, Using
<1>6. \A j \in Lines : d[j].valid /\ d[j].callTime = now => d[j].tag = tag
  <2> HIDE DEF i, d
  <2> QED  BY <1>3 DEF Using
<1>7. QED  BY <1>3, <1>5, <1>6 DEF Using, StoreCache

LEMMA EvictUsing ==
  ASSUME NEW tag \in Tags, NEW now \in Nat \ {0}, NEW c, Using(c, tag, now),
         Holding(c, tag) = {}
  PROVE  /\ Using(EvictLine(c), tag, now)
         /\ Holding(EvictLine(c), tag) = {} /\ Blank(EvictLine(c)) # {}
<1> DEFINE i == Victim(c)
           d == [c EXCEPT ![i].valid = FALSE]
<1>1. i \in Lines
  BY VictimIsOldest DEF Using
<1>2. /\ d \in [Lines -> CLine] /\ ~d[i].valid
      /\ \A j \in Lines : d[j].tag = c[j].tag /\ d[j].callTime = c[j].callTime
      /\ \A j \in Lines : d[j].valid => c[j].valid
  <2> HIDE DEF i
  <2> QED  BY <1>1 DEF Using, CLine
<1>3. Using(d, tag, now) /\ Holding(d, tag) = {} /\ Blank(d) # {}
  <2> HIDE DEF i, d
  <2> QED  BY <1>1, <1>2 DEF Using, DistinctUntil, Holding, Blank
<1>4. QED  BY <1>3 DEF EvictLine

LEMMA FindUsing ==
  ASSUME NEW tag \in Tags, NEW now \in Nat \ {0}, NEW c, Using(c, tag, now)
  PROVE  Using(FindLine(c, tag, now), tag, now)
<1> DEFINE d == FindLine(c, tag, now)
<1>1. /\ d \in [Lines -> CLine]
      /\ \A j \in Lines : d[j].tag = c[j].tag /\ d[j].valid = c[j].valid
      /\ \A j \in Lines : d[j].callTime = IF j \in Holding(c, tag) THEN now ELSE c[j].callTime
  BY DEF Using, FindLine, CLine
<1>2. Using(d, tag, now)
  <2> HIDE DEF d
  <2> QED  BY <1>1 DEF Using, DistinctUntil, Holding
<1>3. QED  BY <1>2

(* One use of a set keeps its lines distinct.                              *)
LEMMA AccessUsing ==
  ASSUME NEW tag \in Tags, NEW now \in Nat \ {0}, NEW c, Using(c, tag, now)
  PROVE  Using(Access(c, tag, now).set, tag, now)
<1>1. CASE Holding(c, tag) # {}
  BY <1>1, FindUsing DEF Access
<1>2. CASE Holding(c, tag) = {} /\ ~IsSetFull(c)
  BY <1>2, StoreUsing DEF Access, IsSetFull
<1>3. CASE Holding(c, tag) = {} /\ IsSetFull(c)
  BY <1>3, StoreUsing, EvictUsing DEF Access
<1>4. QED  BY <1>1, <1>2, <1>3

----------------------------------------------------------------------------
CInv ==
    /\ line \in [CacheSets -> [Lines -> CLine]] /\ useTimer \in Nat
    /\ \A t \in CacheSets : DistinctUntil(line[t], useTimer)

LEMMA CInvInit == BlankLeftovers /\ CsimInit => CInv
<1> SUFFICES ASSUME BlankLeftovers, CsimInit PROVE CInv
  OBVIOUS
<1>1. \A l \in Leftovers \cup {UnusedLine} : l \in CLine /\ ~l.valid
  <2>1. UnusedLine \in CLine /\ ~UnusedLine.valid
    BY DEF UnusedLine, CLine, Tags
  <2>2. ASSUME NEW l \in Leftovers PROVE l \in CLine /\ ~l.valid
    BY <2>2, UIntNat DEF BlankLeftovers, CLine, Tags
  <2> QED  BY <2>1, <2>2
<1>2. \A t \in CacheSets : line[t] \in [Lines -> Leftovers \cup {UnusedLine}]
  BY DEF CsimInit
<1>3. line \in [CacheSets -> [Lines -> CLine]] /\ useTimer = 0
  BY <1>1, <1>2 DEF CsimInit
<1>4. \A t \in CacheSets : DistinctUntil(line[t], useTimer)
  BY <1>1, <1>2 DEF DistinctUntil
<1>5. QED  BY <1>3, <1>4 DEF CInv

(* What is left to do once the set that was used has been put back.        *)
LEMMA UseStep ==
  ASSUME CInv, NEW addr \in Addrs, NEW c,
         FindSet(addr) \in CacheSets => Using(c, FindTag(addr), useTimer + 1),
         useTimer' = useTimer + 1, line' = [line EXCEPT ![FindSet(addr)] = c]
  PROVE  CInv'
<1>1. line' \in [CacheSets -> [Lines -> CLine]] /\ useTimer' \in Nat
  <2>1. FindSet(addr) \in CacheSets => c \in [Lines -> CLine]
    BY DEF Using
  <2>2. line \in [CacheSets -> [Lines -> CLine]] /\ useTimer' \in Nat
    BY DEF CInv
  <2> DEFINE L == [Lines -> CLine]
  <2>3. line' \in [CacheSets -> L]
    <3>1. line \in [CacheSets -> L] /\ (FindSet(addr) \in CacheSets => c \in L)
      BY <2>1, <2>2
    <3> HIDE DEF L
    <3> QED  BY <3>1
  <2> QED  BY <2>2, <2>3
<1>2. ASSUME NEW t \in CacheSets PROVE DistinctUntil(line'[t], useTimer')
  <2>1. CASE t = FindSet(addr)
    BY <2>1 DEF CInv, Using
  <2>2. CASE t # FindSet(addr)
    <3>1. line'[t] = line[t]
      BY <2>2 DEF CInv
    <3>2. DistinctUntil(line[t], useTimer)
      BY DEF CInv
    <3> QED  BY <3>1, <3>2 DEF DistinctUntil, CInv
  <2> QED  BY <2>1, <2>2
<1>3. QED  BY <1>1, <1>2 DEF CInv

(* The use of a set begins with a time at which nothing was used yet.      *)
LEMMA UseBegins ==
  ASSUME CInv, NEW addr \in Addrs, FindSet(addr) \in CacheSets
  PROVE  Using(line[FindSet(addr)], FindTag(addr), useTimer + 1)
<1> DEFINE c == line[FindSet(addr)]
<1>1. c \in [Lines -> CLine] /\ DistinctUntil(c, useTimer) /\ useTimer \in Nat
  BY DEF CInv
<1>2. \A j \in Lines : c[j].valid => c[j].callTime \in 1 .. useTimer
  BY <1>1 DEF DistinctUntil
<1>3. Using(c, FindTag(addr), useTimer + 1)
  <2> HIDE DEF c
  <2> QED  BY <1>1, <1>2 DEF Using, DistinctUntil
<1>4. QED  BY <1>3

LEMMA CInvNext == CInv /\ [CsimNext]_csimVars => CInv'
<1> SUFFICES ASSUME CInv, [CsimNext]_csimVars PROVE CInv'
  OBVIOUS
<1>1. useTimer + 1 \in Nat \ {0}
  BY DEF CInv
<1>2. \A addr \in Addrs : FindTag(addr) \in Tags
  BY DEF Tags
<1>3. ASSUME NEW addr \in Addrs, LoadOrStore(addr) PROVE CInv'
  <2> DEFINE r == Access(line[FindSet(addr)], FindTag(addr), useTimer + 1)
  <2>1. useTimer' = useTimer + 1 /\ line' = [line EXCEPT ![FindSet(addr)] = r.set]
    BY <1>3 DEF LoadOrStore
  <2>2. FindSet(addr) \in CacheSets => Using(r.set, FindTag(addr), useTimer + 1)
    BY <1>1, <1>2, UseBegins, AccessUsing
  <2> QED  BY <2>1, <2>2, UseStep
<1>4. ASSUME NEW addr \in Addrs, Modify(addr) PROVE CInv'
  <2> DEFINE r == Access(line[FindSet(addr)], FindTag(addr), useTimer + 1)
             w == Access(r.set, FindTag(addr), useTimer + 1)
  <2>1. useTimer' = useTimer + 1 /\ line' = [line EXCEPT ![FindSet(addr)] = w.set]
    BY <1>4 DEF Modify
  <2>2. FindSet(addr) \in CacheSets => Using(r.set, FindTag(addr), useTimer + 1)
    BY <1>1, <1>2, UseBegins, AccessUsing
  <2>3. FindSet(addr) \in CacheSets => Using(w.set, FindTag(addr), useTimer + 1)
    BY <2>2, <1>1, <1>2, AccessUsing
  <2> QED  BY <2>1, <2>3, UseStep
<1>5. CASE UNCHANGED csimVars
  BY <1>5 DEF CInv, csimVars
<1>6. QED  BY <1>3, <1>4, <1>5 DEF CsimNext

(* Hits and victims stay unambiguous in every trace.                       *)
THEOREM LinesStayDistinct ==
  ASSUME BlankLeftovers
  PROVE  CsimSpec => []LinesDistinct
<1>1. CsimInit => CInv
  BY CInvInit
<1>2. CInv /\ [CsimNext]_csimVars => CInv'
  BY CInvNext
<1>3. CInv => LinesDistinct
  BY DEF CInv, LinesDistinct, DistinctUntil, ValidLines
<1>4. QED  BY <1>1, <1>2, <1>3, PTL DEF CsimSpec

----------------------------------------------------------------------------
(* FindSet and FindTag cut an address into the fields of its block.        *)
LEMMA Addressing ==
  ASSUME NEW addr \in Addrs
  PROVE  /\ BlockOf(addr) \in Nat
         /\ FindSet(addr) = SetOf(BlockOf(addr)) /\ FindSet(addr) \in CacheSets
         /\ FindTag(addr) = TagOf(BlockOf(addr)) /\ FindTag(addr) \in UInt
         /\ d_addr(addr) \div 2 ^ BlockBits = 2 ^ SetBits * FindTag(addr) + FindSet(addr)
<1> DEFINE width == 2 ^ BlockBits
           S == 2 ^ SetBits
           T == 2 ^ (WORDSIZE - SetBits - BlockBits)
<1>1. width \in Nat \ {0} /\ S \in Nat \ {0} /\ T \in Nat \ {0} /\ addr \in Nat
  <2>1. WORDSIZE - SetBits - BlockBits \in Nat
    BY GeometryAssumption
  <2> QED
    BY <2>1, GeometryAssumption, AddrsAssumption, PowerCounts
<1>2. 2 ^ (SetBits + BlockBits) = S * width /\ 2 ^ WORDSIZE = T * (S * width)
  <2>1. /\ WORDSIZE - SetBits - BlockBits \in Nat /\ SetBits + BlockBits \in Nat
        /\ WORDSIZE = (WORDSIZE - SetBits - BlockBits) + (SetBits + BlockBits)
    BY GeometryAssumption
  <2>2. 2 ^ (SetBits + BlockBits) = S * width
    BY GeometryAssumption, PowerSum
  <2>3. 2 ^ ((WORDSIZE - SetBits - BlockBits) + (SetBits + BlockBits)) = T * 2 ^ (SetBits + BlockBits)
    BY <2>1, PowerSum
  <2> QED
    BY <2>1, <2>2, <2>3
<1> HIDE DEF width, S, T
<1>3. S * width \in Nat \ {0} /\ T * S \in Nat \ {0} /\ T * (S * width) = (T * S) * width
  BY <1>1
<1> DEFINE d == addr % (T * (S * width))
<1>4. d \in 0 .. T * (S * width) - 1
  <2> DEFINE k == T * (S * width)
  <2>1. k \in Nat \ {0}
    BY <1>1, <1>3
  <2> HIDE DEF k
  <2>2. addr % k \in 0 .. k - 1
    BY <1>1, <2>1, DivModExist
  <2> QED
    BY <2>2 DEF k
<1>5. d \div (S * width) = (addr \div (S * width)) % T /\ d % (S * width) = addr % (S * width)
  <2> DEFINE k == S * width
  <2>1. k \in Nat \ {0}
    BY <1>3
  <2> HIDE DEF k
  <2>2. (addr % (T * k)) \div k = (addr \div k) % T /\ (addr % (T * k)) % k = addr % k
    BY <1>1, <2>1, DivModProduct, ZenonT(60)
  <2> QED
    BY <2>2 DEF k
<1> HIDE DEF d
<1>0. d \in Nat
  BY <1>4
<1>6. /\ addr \div (S * width) = (addr \div width) \div S
      /\ (addr % (S * width)) \div width = (addr \div width) % S
  BY <1>1, DivModProduct
<1>7. d \div (S * width) = (d \div width) \div S /\ (d % (S * width)) \div width = (d \div width) % S
  BY <1>0, <1>1, DivModProduct, ZenonT(60)
<1>8. d \div width \in Nat /\ d \div width = S * ((d \div width) \div S) + ((d \div width) % S)
  BY <1>0, <1>1, DivModExist
<1>9. d \div (S * width) \in 0 .. T * (S * width) - 1
  <2> DEFINE k == S * width
             q == d \div k
             r == d % k
  <2>1. k \in Nat \ {0}
    BY <1>3
  <2> HIDE DEF k
  <2>2. q \in Nat /\ r \in Nat /\ d = k * q + r
    BY <1>0, <2>1, DivModExist
  <2> HIDE DEF q, r
  <2>3. q <= k * q /\ k * q \in Nat
    BY <2>1, <2>2
  <2>4. q \in Nat /\ q <= d
    BY <2>2, <2>3
  <2>5. q \in 0 .. T * (S * width) - 1
    <3> DEFINE top == T * (S * width) - 1
    <3>1. top \in Int /\ d \in 0 .. top
      BY <1>3, <1>1, <1>4
    <3> HIDE DEF top
    <3>2. q \in 0 .. top
      BY <2>4, <3>1
    <3> QED
      BY <3>2 DEF top
  <2> QED
    BY <2>5 DEF q, k
<1>10. addr \div width \in Nat /\ (addr \div width) % S \in 0 .. S - 1
  BY <1>1, DivModExist
<1>11. /\ BlockOf(addr) = addr \div width /\ SetOf(BlockOf(addr)) = (addr \div width) % S
       /\ TagOf(BlockOf(addr)) = ((addr \div width) \div S) % T
       /\ FindSet(addr) = (d % (S * width)) \div width /\ FindTag(addr) = d \div (S * width)
       /\ d_addr(addr) = d
  BY <1>2 DEF BlockOf, SetOf, TagOf, FindSet, FindTag, d_addr, width, S, T, d
<1>12. FindSet(addr) = SetOf(BlockOf(addr)) /\ FindTag(addr) = TagOf(BlockOf(addr))
  BY <1>5, <1>6, <1>11
<1>13. FindSet(addr) \in CacheSets
  BY <1>10, <1>11, <1>12 DEF CacheSets, S
<1>14. FindTag(addr) \in UInt
  BY <1>2, <1>9, <1>11 DEF UInt
<1>15. d_addr(addr) \div width = S * FindTag(addr) + FindSet(addr)
  BY <1>7, <1>8, <1>11
<1> QED
  BY <1>10, <1>11, <1>12, <1>13, <1>14, <1>15 DEF width, S

(* What a use of a set does to its lines: one line i then holds the block, *)
(* and it is the line that held it, a blank line, or the victim of a full  *)
(* set.                                                                    *)
Serves(c, tag, now, r, i) ==
    /\ i \in Lines
    /\ r.set = [c EXCEPT ![i] = [valid |-> TRUE, tag |-> tag, callTime |-> now]]
    /\ \/ /\ i \in Holding(c, tag)
          /\ r.hit = 1 /\ r.miss = 0 /\ r.evict = 0
       \/ /\ Holding(c, tag) = {} /\ i \in Blank(c)
          /\ r.hit = 0 /\ r.miss = 1 /\ r.evict = 0
       \/ /\ Holding(c, tag) = {} /\ IsSetFull(c) /\ i = Victim(c)
          /\ r.hit = 0 /\ r.miss = 1 /\ r.evict = 1

LEMMA AccessServes ==
  ASSUME NEW tag \in Tags, NEW now \in Nat \ {0}, NEW c, Using(c, tag, now)
  PROVE  \E i \in Lines : Serves(c, tag, now, Access(c, tag, now), i)
<1> DEFINE new == [valid |-> TRUE, tag |-> tag, callTime |-> now]
           r == Access(c, tag, now)
<1>0. c \in [Lines -> CLine]
  BY DEF Using
<1>1. CASE Holding(c, tag) # {}
  <2>1. PICK i \in Holding(c, tag) : TRUE
    BY <1>1
  <2>2. \A j \in Lines : j \in Holding(c, tag) <=> j = i
    BY <2>1 DEF Holding, Using, DistinctUntil
  <2>3. i \in Lines /\ [c[i] EXCEPT !.callTime = now] = new
    <3> DEFINE l == c[i]
               m == [l EXCEPT !.callTime = now]
    <3>1. i \in Lines /\ l \in CLine /\ l.tag = tag /\ l.valid = TRUE
      BY <1>0, <2>1 DEF Holding, CLine
    <3> HIDE DEF l
    <3>2. m \in CLine
      BY <3>1 DEF CLine
    <3>3. m.valid = TRUE /\ m.tag = tag /\ m.callTime = now
      BY <3>1 DEF CLine
    <3> HIDE DEF m
    <3>4. m = [valid |-> m.valid, tag |-> m.tag, callTime |-> m.callTime]
      BY <3>2 DEF CLine
    <3> QED
      BY <3>1, <3>3, <3>4 DEF l, m
  <2>4. FindLine(c, tag, now) = [c EXCEPT ![i] = new]
    <3>1. i \in Lines /\ [c[i] EXCEPT !.callTime = now] = new
      BY <2>3
    <3> HIDE DEF new
    <3>2. \A j \in Lines : FindLine(c, tag, now)[j] = IF j = i THEN new ELSE c[j]
      BY <2>2, <3>1 DEF FindLine
    <3>3. \A j \in Lines : [c EXCEPT ![i] = new][j] = IF j = i THEN new ELSE c[j]
      BY <1>0
    <3>4. DOMAIN [c EXCEPT ![i] = new] = Lines
      BY <1>0
    <3> QED
      BY <3>2, <3>3, <3>4 DEF FindLine
  <2>5. r.set = FindLine(c, tag, now) /\ r.hit = 1 /\ r.miss = 0 /\ r.evict = 0
    BY <1>1 DEF Access
  <2>6. Serves(c, tag, now, r, i)
    <3> HIDE DEF r
    <3> QED
      BY <2>1, <2>3, <2>4, <2>5 DEF Serves
  <2> QED
    BY <2>3, <2>6
<1>2. CASE Holding(c, tag) = {} /\ ~IsSetFull(c)
  <2> DEFINE i == Min(Blank(c))
  <2>1. i \in Blank(c) /\ i \in Lines
    BY <1>2, LinesNat, MinNat DEF Blank, IsSetFull
  <2>2. /\ r.set = [c EXCEPT ![i] = new]
        /\ r.hit = 0 /\ r.miss = 1 /\ r.evict = 0
    BY <1>2 DEF Access, StoreCache
  <2>3. Serves(c, tag, now, r, i)
    <3> HIDE DEF r, i
    <3> QED
      BY <1>2, <2>1, <2>2 DEF Serves
  <2> QED
    BY <2>1, <2>3
<1>3. CASE Holding(c, tag) = {} /\ IsSetFull(c)
  <2> DEFINE i == Victim(c)
             d == EvictLine(c)
  <2>1. i \in Lines
    BY <1>0, VictimIsOldest
  <2>2. d = [c EXCEPT ![i] = [c[i] EXCEPT !.valid = FALSE]]
    BY DEF EvictLine
  <2>3. ~[c[i] EXCEPT !.valid = FALSE].valid
    <3> HIDE DEF i
    <3> QED
      BY <1>0, <2>1 DEF CLine
  <2>4. Blank(d) = {i}
    <3> DEFINE blank == [c[i] EXCEPT !.valid = FALSE]
    <3>1. d = [c EXCEPT ![i] = blank] /\ ~blank.valid
      BY <2>2, <2>3
    <3> HIDE DEF i, d, blank
    <3> QED
      BY <1>0, <1>3, <2>1, <3>1 DEF Blank, IsSetFull
  <2>5. Min(Blank(d)) = i
    <3> HIDE DEF i, d
    <3> QED
      BY <2>1, <2>4, LinesNat, MinNat
  <2>6. [d EXCEPT ![i] = new] = [c EXCEPT ![i] = new]
    <3> HIDE DEF i, new
    <3> QED
      BY <1>0, <2>1, <2>2
  <2>7. /\ r.set = [c EXCEPT ![i] = new]
        /\ r.hit = 0 /\ r.miss = 1 /\ r.evict = 1
    <3>1. r.set = StoreCache(d, tag, now) /\ r.hit = 0 /\ r.miss = 1 /\ r.evict = 1
      BY <1>3 DEF Access
    <3> QED
      BY <2>5, <2>6, <3>1 DEF StoreCache
  <2>8. Serves(c, tag, now, r, i)
    <3>1. i = Victim(c)
      OBVIOUS
    <3> HIDE DEF r, i, d
    <3> QED
      BY <1>3, <2>1, <2>7, <3>1 DEF Serves
  <2> QED
    BY <2>1, <2>8
<1> QED
  BY <1>1, <1>2, <1>3

(* The store of a modification hits the line that its load has filled and  *)
(* changes nothing.                                                        *)
LEMMA AgainServes ==
  ASSUME NEW tag \in Tags, NEW now \in Nat \ {0}, NEW c, Using(c, tag, now), NEW i,
         Serves(c, tag, now, Access(c, tag, now), i)
  PROVE  LET d == Access(c, tag, now).set
             w == Access(d, tag, now)
         IN  w.set = d /\ w.hit = 1 /\ w.miss = 0 /\ w.evict = 0
<1> DEFINE d == Access(c, tag, now).set
           new == [valid |-> TRUE, tag |-> tag, callTime |-> now]
<1>1. Using(d, tag, now)
  BY AccessUsing
<1>2. i \in Lines /\ d = [c EXCEPT ![i] = new] /\ c \in [Lines -> CLine]
  BY DEF Serves, Using
<1> HIDE DEF d
<1>3. i \in Lines /\ d[i] = new
  BY <1>2
<1>4. i \in Holding(d, tag)
  BY <1>3 DEF Holding
<1>5. PICK k \in Lines : Serves(d, tag, now, Access(d, tag, now), k)
  BY <1>1, AccessServes
<1>6. k \in Holding(d, tag)
  BY <1>4, <1>5 DEF Serves
<1>7. k = i
  BY <1>1, <1>4, <1>6 DEF Holding, Using, DistinctUntil
<1>8. [d EXCEPT ![i] = new] = d
  <2> HIDE DEF new
  <2> QED
    BY <1>1, <1>3 DEF Using
<1> DEFINE w == Access(d, tag, now)
<1>9. w.set = [d EXCEPT ![k] = new] /\ w.hit = 1 /\ w.miss = 0 /\ w.evict = 0
  BY <1>4, <1>5 DEF Serves
<1> HIDE DEF w
<1> QED
  BY <1>7, <1>8, <1>9 DEF d, w

----------------------------------------------------------------------------
(* The useTimer does not run over: the trace has fewer than 2^WORDSIZE lines. *)
TraceFits == MaxTimer \in UInt

Used == {p \in CacheSets \X Lines : line[p[1]][p[2]].valid}

LEMMA UsedFinite == IsFiniteSet(Used)
<1>1. IsFiniteSet(CacheSets) /\ IsFiniteSet(Lines)
  <2>1. 2 ^ SetBits - 1 \in Int /\ Assoc - 1 \in Int
    BY GeometryAssumption, PowerCounts
  <2> QED
    BY <2>1, FS_Interval DEF CacheSets, Lines
<1>2. IsFiniteSet(CacheSets \X Lines)
  BY <1>1, FS_Product
<1> QED
  BY <1>2, FS_Subset DEF Used

LEMMA TypeInit == BlankLeftovers /\ CsimInit => CsimTypeOK
<1> SUFFICES ASSUME BlankLeftovers, CsimInit PROVE CsimTypeOK
  OBVIOUS
<1>1. \A l \in Leftovers \cup {UnusedLine} : l \in CacheLine
  <2>1. UnusedLine \in CacheLine
    BY UIntNat DEF UnusedLine, CacheLine
  <2>2. Leftovers \subseteq CacheLine
    BY DEF BlankLeftovers, CacheLine
  <2> QED
    BY <2>1, <2>2
<1>2. line \in [CacheSets -> [Lines -> CacheLine]]
  BY <1>1 DEF CsimInit
<1> QED
  BY <1>2, UIntNat DEF CsimInit, CsimTypeOK

LEMMA NoneUsed ==
  BlankLeftovers /\ CsimInit => Used = {} /\ \A t \in CacheSets, j \in Lines : ~line[t][j].valid
<1> SUFFICES ASSUME BlankLeftovers, CsimInit
             PROVE  Used = {} /\ \A t \in CacheSets, j \in Lines : ~line[t][j].valid
  OBVIOUS
<1>1. \A l \in Leftovers \cup {UnusedLine} : ~l.valid
  <2>1. ~UnusedLine.valid
    BY DEF UnusedLine
  <2>2. \A l \in Leftovers : ~l.valid
    BY DEF BlankLeftovers
  <2> QED
    BY <2>1, <2>2
<1>2. \A t \in CacheSets, j \in Lines : line[t][j] \in Leftovers \cup {UnusedLine}
  BY DEF CsimInit
<1>3. \A t \in CacheSets, j \in Lines : ~line[t][j].valid
  BY <1>1, <1>2
<1> QED
  BY <1>3 DEF Used

(* What a use of a set adds to the counters it adds to the contents.       *)
LEMMA UseCounts ==
  ASSUME line \in [CacheSets -> [Lines -> CacheLine]], NEW t \in CacheSets, NEW i, NEW r,
         NEW tag \in UInt, NEW now \in UInt,
         Serves(line[t], tag, now, r, i),
         line' = [line EXCEPT ![t] = r.set]
  PROVE  /\ line' \in [CacheSets -> [Lines -> CacheLine]]
         /\ r.hit \in Nat /\ r.miss \in Nat /\ r.evict \in Nat
         /\ Cardinality(Used') = Cardinality(Used) + r.miss - r.evict
<1> DEFINE new == [valid |-> TRUE, tag |-> tag, callTime |-> now]
           c == line[t]
           d == [c EXCEPT ![i] = new]
<1>1. i \in Lines /\ new \in CacheLine /\ new.valid = TRUE /\ c \in [Lines -> CacheLine] /\ r.set = d
  BY DEF Serves, CacheLine
<1>2. /\ \/ c[i].valid /\ r.miss - r.evict = 0
         \/ ~c[i].valid /\ r.miss - r.evict = 1
      /\ r.hit \in Nat /\ r.miss \in Nat /\ r.evict \in Nat
  BY DEF Serves, Holding, Blank, IsSetFull
<1> HIDE DEF new
<1>3. d \in [Lines -> CacheLine] /\ d[i] = new /\ \A j \in Lines \ {i} : d[j] = c[j]
  BY <1>1
<1> HIDE DEF d
<1>4. /\ line' \in [CacheSets -> [Lines -> CacheLine]]
      /\ line'[t] = d /\ \A u \in CacheSets \ {t} : line'[u] = line[u]
  <2> DEFINE L == [Lines -> CacheLine]
  <2>1. line \in [CacheSets -> L] /\ d \in L /\ line' = [line EXCEPT ![t] = d]
    BY <1>1, <1>3
  <2> HIDE DEF L
  <2>2. line' \in [CacheSets -> L] /\ line'[t] = d /\ \A u \in CacheSets \ {t} : line'[u] = line[u]
    BY <2>1
  <2> QED
    BY <2>2 DEF L
<1>5. Used' = Used \cup {<<t, i>>}
  <2>1. \A u \in CacheSets, j \in Lines :
           line'[u][j].valid <=> line[u][j].valid \/ (u = t /\ j = i)
    BY <1>1, <1>3, <1>4
  <2> QED
    BY <2>1, <1>1 DEF Used
<1>6. <<t, i>> \in Used <=> c[i].valid
  BY <1>1 DEF Used
<1>7. Cardinality(Used) \in Nat
  BY UsedFinite, FS_CardinalityType
<1>8. CASE c[i].valid
  <2>1. Used' = Used
    BY <1>5, <1>6, <1>8
  <2>2. Cardinality(Used) = Cardinality(Used) + r.miss - r.evict
    BY <1>2, <1>7, <1>8
  <2> QED
    BY <1>2, <1>4, <2>1, <2>2
<1>9. CASE ~c[i].valid
  <2>1. Cardinality(Used') = Cardinality(Used) + 1
    BY <1>5, <1>6, <1>9, UsedFinite, FS_AddElement
  <2> QED
    BY <1>2, <1>4, <1>7, <1>9, <2>1
<1> QED
  BY <1>8, <1>9

(* A line of the trace uses one set, at a time of its own.                 *)
LEMMA LoadServes ==
  ASSUME CInv, NEW addr \in Addrs, LoadOrStore(addr)
  PROVE  LET t == FindSet(addr)
             r == Access(line[t], FindTag(addr), useTimer + 1)
         IN  /\ \E i \in Lines : Serves(line[t], FindTag(addr), useTimer + 1, r, i)
             /\ line' = [line EXCEPT ![t] = r.set] /\ useTimer' = useTimer + 1
             /\ hit_count' = hit_count + r.hit
             /\ miss_count' = miss_count + r.miss
             /\ evict_count' = evict_count + r.evict
<1>1. FindSet(addr) \in CacheSets /\ FindTag(addr) \in Tags /\ useTimer + 1 \in Nat \ {0}
  BY Addressing DEF Tags, CInv
<1>2. Using(line[FindSet(addr)], FindTag(addr), useTimer + 1)
  BY <1>1, UseBegins
<1> QED
  BY <1>1, <1>2, AccessServes DEF LoadOrStore

LEMMA ModifyServes ==
  ASSUME CInv, NEW addr \in Addrs, Modify(addr)
  PROVE  LET t == FindSet(addr)
             r == Access(line[t], FindTag(addr), useTimer + 1)
         IN  /\ \E i \in Lines : Serves(line[t], FindTag(addr), useTimer + 1, r, i)
             /\ line' = [line EXCEPT ![t] = r.set] /\ useTimer' = useTimer + 1
             /\ hit_count' = hit_count + r.hit + 1
             /\ miss_count' = miss_count + r.miss + 0
             /\ evict_count' = evict_count + r.evict + 0
<1> DEFINE c == line[FindSet(addr)]
           tag == FindTag(addr)
           now == useTimer + 1
           r == Access(c, tag, now)
           w == Access(r.set, tag, now)
<1>1. FindSet(addr) \in CacheSets /\ tag \in Tags /\ now \in Nat \ {0}
  BY Addressing DEF Tags, CInv
<1>2. Using(c, tag, now)
  BY <1>1, UseBegins
<1>3. PICK i \in Lines : Serves(c, tag, now, r, i)
  BY <1>1, <1>2, AccessServes
<1>4. w.set = r.set /\ w.hit = 1 /\ w.miss = 0 /\ w.evict = 0
  BY <1>1, <1>2, <1>3, AgainServes
<1>5. /\ line' = [line EXCEPT ![FindSet(addr)] = w.set] /\ useTimer' = useTimer + 1
      /\ hit_count' = hit_count + r.hit + w.hit
      /\ miss_count' = miss_count + r.miss + w.miss
      /\ evict_count' = evict_count + r.evict + w.evict
  BY DEF Modify
<1> HIDE DEF w, r
<1> QED
  BY <1>3, <1>4, <1>5 DEF r

LEMMA CountsNext ==
  TraceFits /\ CInv /\ CountsMatchContents /\ [CsimNext]_csimVars => CountsMatchContents'
<1> SUFFICES ASSUME TraceFits, CInv, CountsMatchContents, [CsimNext]_csimVars
             PROVE  CountsMatchContents'
  OBVIOUS
<1> USE DEF CountsMatchContents
<1>1. CsimTypeOK /\ miss_count - evict_count = Cardinality(Used)
  BY DEF Used
<1>2. SUFFICES CsimTypeOK' /\ miss_count' - evict_count' = Cardinality(Used')
  BY DEF Used
<1>3. ASSUME NEW addr \in Addrs, LoadOrStore(addr) \/ Modify(addr)
      PROVE  CsimTypeOK' /\ miss_count' - evict_count' = Cardinality(Used')
  <2> DEFINE t == FindSet(addr)
             tag == FindTag(addr)
             r == Access(line[t], tag, useTimer + 1)
  <2>1. useTimer + 1 \in UInt
    <3>1. useTimer < MaxTimer
      BY <1>3 DEF LoadOrStore, Modify
    <3>2. useTimer \in Nat /\ MaxTimer \in Nat /\ MaxTimer <= 2 ^ WORDSIZE - 1
      BY <1>1, GeometryAssumption, PowerCounts DEF CsimTypeOK, TraceFits, UInt
    <3> QED
      BY <3>1, <3>2, GeometryAssumption, PowerCounts DEF UInt
  <2>2. PICK i \in Lines : Serves(line[t], tag, useTimer + 1, r, i)
    BY <1>3, LoadServes, ModifyServes
  <2>3. PICK more \in {0, 1} :
          /\ line' = [line EXCEPT ![t] = r.set] /\ useTimer' = useTimer + 1
          /\ hit_count' = hit_count + r.hit + more
          /\ miss_count' = miss_count + r.miss
          /\ evict_count' = evict_count + r.evict
    <3>1. /\ line' = [line EXCEPT ![t] = r.set] /\ useTimer' = useTimer + 1
          /\ hit_count' = hit_count + r.hit \/ hit_count' = hit_count + r.hit + 1
          /\ miss_count' = miss_count + r.miss \/ miss_count' = miss_count + r.miss + 0
          /\ evict_count' = evict_count + r.evict \/ evict_count' = evict_count + r.evict + 0
      BY <1>3, LoadServes, ModifyServes
    <3>2. r.hit \in Nat /\ r.miss \in Nat /\ r.evict \in Nat
      BY <2>2 DEF Serves
    <3> HIDE DEF r, t
    <3> QED
      BY <1>1, <3>1, <3>2 DEF CsimTypeOK
  <2>4. t \in CacheSets /\ tag \in UInt
    BY <1>3, Addressing
  <2>5. /\ line' \in [CacheSets -> [Lines -> CacheLine]]
        /\ r.hit \in Nat /\ r.miss \in Nat /\ r.evict \in Nat
        /\ Cardinality(Used') = Cardinality(Used) + r.miss - r.evict
    <3> HIDE DEF r, t, tag
    <3> QED
      BY <1>1, <2>1, <2>2, <2>3, <2>4, UseCounts DEF CsimTypeOK
  <2> HIDE DEF r, t, tag
  <2> QED
    BY <1>1, <2>1, <2>3, <2>5 DEF CsimTypeOK
<1>4. CASE UNCHANGED csimVars
  BY <1>1, <1>4 DEF csimVars, CsimTypeOK, Used
<1> QED
  BY <1>3, <1>4 DEF CsimNext

(* Every block brought in is still held or was counted as evicted, in      *)
(* every trace: misses less evictions are the valid lines of the cache.    *)
THEOREM CountsAlwaysMatch ==
  ASSUME BlankLeftovers, TraceFits
  PROVE  CsimSpec => []CountsMatchContents
<1>1. CsimInit => CInv
  BY CInvInit
<1>2. CsimInit => CountsMatchContents
  <2> SUFFICES ASSUME CsimInit PROVE CountsMatchContents
    OBVIOUS
  <2>1. CsimTypeOK
    BY TypeInit
  <2>2. Cardinality(Used) = 0
    BY NoneUsed, FS_EmptySet
  <2> QED
    BY <2>1, <2>2 DEF CountsMatchContents, Used, CsimInit
<1>3. CInv /\ [CsimNext]_csimVars => CInv'
  BY CInvNext
<1>4. CInv /\ CountsMatchContents /\ [CsimNext]_csimVars => CountsMatchContents'
  BY CountsNext
<1> QED
  BY <1>1, <1>2, <1>3, <1>4, PTL DEF CsimSpec

----------------------------------------------------------------------------
(* Every block in the cache is one that the trace names.                   *)
Known ==
    \A t \in CacheSets, j \in Lines : line[t][j].valid =>
       \E x \in Blocks : SetOf(x) = t /\ TagOf(x) = line[t][j].tag

LInv ==
    /\ CInv /\ Known
    /\ hit_count \in Nat /\ miss_count \in Nat /\ evict_count \in Nat

Newer == {p \in Blocks \X Blocks : UsedAfter(p[1], p[2])}

LEMMA SetOfBlock ==
  ASSUME NEW x \in Blocks
  PROVE  SetOf(x) \in CacheSets
BY Addressing DEF Blocks

(* Set and tag tell the blocks of a trace apart.                           *)
LEMMA OneBlock ==
  ASSUME NoAliases, NEW x \in Blocks, NEW y \in Blocks,
         SetOf(x) = SetOf(y), TagOf(x) = TagOf(y)
  PROVE  x = y
<1>1. PICK v \in Addrs, w \in Addrs : x = BlockOf(v) /\ y = BlockOf(w)
  BY DEF Blocks
<1>2. d_addr(v) \div 2 ^ BlockBits = d_addr(w) \div 2 ^ BlockBits
  BY <1>1, Addressing
<1> QED
  BY <1>1, <1>2 DEF NoAliases

(* A block is in one line at most, and a line holds one block at most.     *)
LEMMA OneLine ==
  ASSUME CInv, NEW x \in Blocks, NEW i \in LinesOf(x), NEW j \in LinesOf(x)
  PROVE  i = j
BY SetOfBlock DEF CInv, DistinctUntil, LinesOf, Holding

LEMMA OneHolder ==
  ASSUME NoAliases, NEW x \in Blocks, NEW y \in Blocks, SetOf(x) = SetOf(y),
         NEW i \in LinesOf(x), i \in LinesOf(y)
  PROVE  x = y
BY OneBlock DEF LinesOf, Holding

(* The blocks of a set are as many as its valid lines.                     *)
LEMMA FullSet ==
  ASSUME NoAliases, CInv, Known, NEW t \in CacheSets
  PROVE  Cardinality({x \in Held : SetOf(x) = t}) = Assoc <=> IsSetFull(line[t])
<1> DEFINE mates == {x \in Held : SetOf(x) = t}
           V == {j \in Lines : line[t][j].valid}
<1>1. IsFiniteSet(Lines) /\ Cardinality(Lines) = Assoc
  BY GeometryAssumption, FS_Interval DEF Lines
<1>2. \A x \in mates : x \in Blocks /\ LinesOf(x) # {} /\ LinesOf(x) \subseteq V
  BY DEF Held, LinesOf, Holding
<1>3. \A j \in V : \E x \in mates : j \in LinesOf(x)
  BY DEF Known, Held, LinesOf, Holding
<1>4. \A x, y \in mates : \A j : j \in LinesOf(x) /\ j \in LinesOf(y) => x = y
  BY <1>2, OneHolder
<1>5. \A x \in mates : \A i, j \in LinesOf(x) : i = j
  BY <1>2, OneLine
<1> DEFINE f == [j \in V |-> CHOOSE x \in mates : j \in LinesOf(x)]
<1> HIDE DEF mates, V
<1>6. \A j \in V : f[j] \in mates /\ j \in LinesOf(f[j])
  BY <1>3
<1>7. f \in Bijection(V, mates)
  <2>1. f \in [V -> mates]
    BY <1>6
  <2>2. ASSUME NEW i \in V, NEW j \in V, f[i] = f[j] PROVE i = j
    BY <1>5, <1>6, <2>2
  <2>3. ASSUME NEW x \in mates PROVE \E j \in V : f[j] = x
    BY <1>2, <1>4, <1>6
  <2> HIDE DEF f
  <2> QED
    BY <2>1, <2>2, <2>3 DEF Bijection, Injection, IsInjective, Surjection
<1>8. V \subseteq Lines
  BY DEF V
<1>9. IsFiniteSet(V) /\ (Cardinality(V) = Assoc <=> V = Lines)
  BY <1>1, <1>8, FS_Subset
<1>10. Cardinality(mates) = Cardinality(V)
  <2>1. ExistsBijection(V, mates)
    BY <1>7 DEF ExistsBijection
  <2> QED
    BY <1>9, <2>1, FS_Bijection
<1>11. V = Lines <=> IsSetFull(line[t])
  BY DEF V, IsSetFull, Blank
<1> QED
  BY <1>9, <1>10, <1>11 DEF mates

(* The blocks that stay when line i of its set is given to block: the      *)
(* others, but for one that line i held.                                   *)
Kept(block, i) ==
    {x \in Held : x # block /\ ~(SetOf(x) = SetOf(block) /\ i \in LinesOf(x))}

(* What module Lru asks of a set of the cache.                             *)
Mates(block)  == {x \in Held : SetOf(x) = SetOf(block)}
Oldest(block) == {x \in Mates(block) : \A y \in Mates(block) : <<x, y>> \notin Newer}
Full(block)   == Cardinality(Mates(block)) = Assoc

(* A use of block is counted and makes room in line i as module Lru says.  *)
AsLru(block, i, r) ==
    /\ LinesOf(block) \subseteq {i}
    /\ block \in Held =>
          /\ Kept(block, i) = Held \ {block}
          /\ r.hit = 1 /\ r.miss = 0 /\ r.evict = 0
    /\ block \notin Held /\ ~Full(block) =>
          /\ Kept(block, i) = Held \ {block}
          /\ r.hit = 0 /\ r.miss = 1 /\ r.evict = 0
    /\ block \notin Held /\ Full(block) =>
          /\ Kept(block, i) = (Held \ Oldest(block)) \ {block}
          /\ r.hit = 0 /\ r.miss = 1 /\ r.evict = 1

LEMMA KeptByLru ==
  ASSUME NoAliases, LInv, NEW block \in Blocks, NEW i, NEW r, NEW now,
         Serves(line[SetOf(block)], TagOf(block), now, r, i)
  PROVE  AsLru(block, i, r)
<1> DEFINE t == SetOf(block)
           c == line[t]
           mates == {x \in Held : SetOf(x) = t}
           oldest == {x \in mates : \A y \in mates : <<x, y>> \notin Newer}
           hit == block \in Held
           full == Cardinality(mates) = Assoc
<1>1. t \in CacheSets /\ CInv /\ Known
  BY SetOfBlock DEF LInv
<1>2. c \in [Lines -> CLine] /\ DistinctUntil(c, useTimer)
  BY <1>1 DEF CInv
<1>3. full <=> IsSetFull(c)
  BY <1>1, FullSet
<1>4. LinesOf(block) = Holding(c, TagOf(block)) /\ (hit <=> LinesOf(block) # {})
  BY DEF LinesOf, Held
<1>5. mates \subseteq Held /\ Held \subseteq Blocks
  BY DEF Held
<1> HIDE DEF full
<1>6. CASE i \in Holding(c, TagOf(block))
  <2>1. hit /\ \A x \in Held : SetOf(x) = t /\ i \in LinesOf(x) => x = block
    BY <1>4, <1>5, <1>6, OneHolder
  <2>2. LinesOf(block) \subseteq {i}
    BY <1>1, <1>4, <1>6, OneLine
  <2>3. Kept(block, i) = Held \ {block}
    BY <2>1 DEF Kept
  <2>4. r.hit = 1 /\ r.miss = 0 /\ r.evict = 0
    BY <1>6 DEF Serves
  <2> HIDE DEF hit, oldest, mates
  <2> QED
    BY <2>1, <2>2, <2>3, <2>4 DEF AsLru, full, hit, oldest, mates, Full, Oldest, Mates
<1>7. CASE Holding(c, TagOf(block)) = {} /\ i \in Blank(c)
  <2>1. ~hit /\ ~full /\ LinesOf(block) \subseteq {i}
    BY <1>3, <1>4, <1>7 DEF IsSetFull
  <2>2. \A x \in Held : SetOf(x) = t => i \notin LinesOf(x)
    BY <1>7 DEF LinesOf, Holding, Blank
  <2>3. Kept(block, i) = Held \ {block}
    BY <2>2 DEF Kept
  <2>4. r.hit = 0 /\ r.miss = 1 /\ r.evict = 0
    BY <1>7 DEF Serves, IsSetFull
  <2> HIDE DEF hit, oldest, mates
  <2> QED
    BY <2>1, <2>3, <2>4 DEF AsLru, full, hit, oldest, mates, Full, Oldest, Mates
<1>8. CASE Holding(c, TagOf(block)) = {} /\ IsSetFull(c) /\ i = Victim(c)
  <2>1. ~hit /\ full /\ LinesOf(block) \subseteq {i}
    BY <1>3, <1>4, <1>8
  <2>2. r.hit = 0 /\ r.miss = 1 /\ r.evict = 1
    BY <1>8 DEF Serves, IsSetFull
  <2>3. i \in Lines /\ \A k \in Lines : c[i].callTime <= c[k].callTime
    BY <1>2, <1>8, VictimIsOldest
  <2>4. \A k \in Lines : c[k].valid /\ c[k].callTime \in Nat
    BY <1>2, <1>8 DEF IsSetFull, Blank, CLine
  <2>5. \A k \in Lines : k # i => c[i].callTime < c[k].callTime
    BY <1>2, <2>3, <2>4 DEF DistinctUntil
  <2>6. PICK z \in mates : i \in LinesOf(z)
    BY <1>1, <2>3, <2>4 DEF Known, Held, LinesOf, Holding
  <2>7. \A x \in mates : LinesOf(x) # {} /\ LinesOf(x) \subseteq Lines
    BY DEF Held, LinesOf, Holding
  <2>8. \A x \in mates : x \in oldest <=> i \in LinesOf(x)
    <3>1. ASSUME NEW x \in mates, i \in LinesOf(x) PROVE x \in oldest
      <4>1. ASSUME NEW y \in mates, <<x, y>> \in Newer PROVE FALSE
        <5>1. PICK j \in LinesOf(x), k \in LinesOf(y) : c[j].callTime > c[k].callTime
          BY <4>1 DEF Newer, UsedAfter
        <5>2. j = i
          BY <1>1, <1>5, <3>1, OneLine
        <5>3. k \in Lines /\ j \in Lines
          BY <2>7
        <5> QED
          BY <2>3, <2>4, <5>1, <5>2, <5>3
      <4> QED
        BY <3>1, <4>1
    <3>2. ASSUME NEW x \in mates, i \notin LinesOf(x) PROVE x \notin oldest
      <4>1. PICK j \in LinesOf(x) : j \in Lines /\ j # i
        BY <2>7, <3>2
      <4>2. c[j].callTime > c[i].callTime
        BY <2>3, <2>4, <2>5, <4>1
      <4>3. <<x, z>> \in Newer
        BY <1>5, <2>6, <4>1, <4>2 DEF Newer, UsedAfter
      <4> QED
        BY <2>6, <4>3
    <3> QED
      BY <3>1, <3>2
  <2>9. Kept(block, i) = (Held \ oldest) \ {block}
    <3>1. \A x \in Held : x \in oldest <=> SetOf(x) = t /\ i \in LinesOf(x)
      BY <2>8
    <3> HIDE DEF oldest
    <3> QED
      BY <3>1 DEF Kept
  <2> HIDE DEF hit, oldest, mates
  <2> QED
    BY <2>1, <2>2, <2>9 DEF AsLru, full, hit, oldest, mates, Full, Oldest, Mates
<1> QED
  BY <1>6, <1>7, <1>8 DEF Serves

(* Where the blocks are after a use.                                       *)
LEMMA LinesAfter ==
  ASSUME NoAliases, LInv, NEW block \in Blocks, NEW i, NEW r, NEW now,
         Serves(line[SetOf(block)], TagOf(block), now, r, i),
         line' = [line EXCEPT ![SetOf(block)] = r.set]
  PROVE  /\ LinesOf(block)' = {i}
         /\ line'[SetOf(block)][i].callTime = now
         /\ \A x \in Blocks : SetOf(x) # SetOf(block) => LinesOf(x)' = LinesOf(x)
         /\ \A x \in Blocks \ {block} :
               SetOf(x) = SetOf(block) => LinesOf(x)' = LinesOf(x) \ {i}
         /\ \A x \in Blocks, j \in Lines : ~(SetOf(x) = SetOf(block) /\ j = i) =>
               line'[SetOf(x)][j] = line[SetOf(x)][j]
<1> DEFINE t == SetOf(block)
           c == line[t]
           new == [valid |-> TRUE, tag |-> TagOf(block), callTime |-> now]
           d == [c EXCEPT ![i] = new]
<1>1. t \in CacheSets /\ line \in [CacheSets -> [Lines -> CLine]] /\ i \in Lines
  BY SetOfBlock DEF LInv, CInv, Serves
<1>2. d[i] = new /\ \A j \in Lines \ {i} : d[j] = c[j]
  BY <1>1
<1>3. line'[t] = d /\ \A u \in CacheSets \ {t} : line'[u] = line[u]
  BY <1>1 DEF Serves
<1>4. new.valid /\ new.tag = TagOf(block) /\ new.callTime = now
  OBVIOUS
<1> HIDE DEF d, new, c
<1>5. \A x : LinesOf(x)' =
         {j \in Lines : line'[SetOf(x)][j].tag = TagOf(x) /\ line'[SetOf(x)][j].valid}
  BY DEF LinesOf, Holding
<1>6. \A x : LinesOf(x) =
         {j \in Lines : line[SetOf(x)][j].tag = TagOf(x) /\ line[SetOf(x)][j].valid}
  BY DEF LinesOf, Holding
<1>7. LinesOf(block) \subseteq {i}
  BY KeptByLru DEF AsLru
<1>8. LinesOf(block)' = {i}
  BY <1>1, <1>2, <1>3, <1>4, <1>5, <1>6, <1>7 DEF c
<1>9. ASSUME NEW x \in Blocks \ {block}, SetOf(x) = t PROVE LinesOf(x)' = LinesOf(x) \ {i}
  <2>1. TagOf(x) # TagOf(block)
    BY <1>9, OneBlock
  <2> QED
    BY <1>2, <1>3, <1>4, <1>5, <1>6, <1>9, <2>1 DEF c
<1>10. ASSUME NEW x \in Blocks, SetOf(x) # t PROVE LinesOf(x)' = LinesOf(x)
  <2>1. line'[SetOf(x)] = line[SetOf(x)]
    BY <1>3, <1>10, SetOfBlock
  <2> QED
    BY <1>5, <1>6, <2>1
<1>11. \A x \in Blocks, j \in Lines : ~(SetOf(x) = t /\ j = i) =>
          line'[SetOf(x)][j] = line[SetOf(x)][j]
  BY <1>2, <1>3, SetOfBlock DEF c
<1> QED
  BY <1>2, <1>3, <1>4, <1>8, <1>9, <1>10, <1>11

(* A use leaves the blocks kept and the block used, which is newer than    *)
(* every other block of its set.                                           *)
LEMMA ContentsAfter ==
  ASSUME NoAliases, LInv, NEW block \in Blocks, NEW i, NEW r,
         Serves(line[SetOf(block)], TagOf(block), useTimer + 1, r, i),
         line' = [line EXCEPT ![SetOf(block)] = r.set]
  PROVE  /\ Held' = Kept(block, i) \cup {block}
         /\ Newer' = {p \in Newer : p[1] \in Kept(block, i) /\ p[2] \in Kept(block, i)}
                     \cup {<<block, x>> : x \in Kept(block, i) \cap Mates(block)}
<1> DEFINE t == SetOf(block)
           now == useTimer + 1
           kept == Kept(block, i)
           mates == {x \in Held : SetOf(x) = t}
           time(x, j) == line[SetOf(x)][j].callTime
           after(x, j) == line'[SetOf(x)][j].callTime
<1>1. /\ LinesOf(block)' = {i} /\ after(block, i) = now
      /\ \A x \in Blocks : SetOf(x) # t => LinesOf(x)' = LinesOf(x)
      /\ \A x \in Blocks \ {block} : SetOf(x) = t => LinesOf(x)' = LinesOf(x) \ {i}
      /\ \A x \in Blocks, j \in Lines : ~(SetOf(x) = t /\ j = i) => after(x, j) = time(x, j)
  <2>1. /\ LinesOf(block)' = {i}
        /\ line'[t][i].callTime = now
        /\ \A x \in Blocks : SetOf(x) # t => LinesOf(x)' = LinesOf(x)
        /\ \A x \in Blocks \ {block} : SetOf(x) = t => LinesOf(x)' = LinesOf(x) \ {i}
        /\ \A x \in Blocks, j \in Lines : ~(SetOf(x) = t /\ j = i) =>
              line'[SetOf(x)][j] = line[SetOf(x)][j]
    BY LinesAfter
  <2> QED
    BY <2>1
<1>2. \A x \in Blocks : x \in Held <=> LinesOf(x) # {}
  BY DEF Held
<1>3. \A x \in Blocks : x \in Held' <=> LinesOf(x)' # {}
  BY DEF Held, Blocks, BlockOf
<1>4. Held \subseteq Blocks /\ Held' \subseteq Blocks
  BY DEF Held, Blocks, BlockOf
<1>5. \A x \in Blocks : \A j, k \in LinesOf(x) : j = k
  BY OneLine DEF LInv
<1>6. \A x \in Blocks : x \in kept <=>
         x \in Held /\ x # block /\ ~(SetOf(x) = t /\ i \in LinesOf(x))
  BY <1>4 DEF Kept
<1>7. \A x \in Blocks : x \in kept <=> x # block /\ LinesOf(x)' # {}
  <2>1. ASSUME NEW x \in Blocks \ {block}, SetOf(x) # t
        PROVE  x \in kept <=> LinesOf(x)' # {}
    BY <1>1, <1>2, <1>6, <2>1
  <2>2. ASSUME NEW x \in Blocks \ {block}, SetOf(x) = t
        PROVE  x \in kept <=> LinesOf(x)' # {}
    BY <1>1, <1>2, <1>5, <1>6, <2>2
  <2>3. block \notin kept
    BY <1>6
  <2> QED
    BY <2>1, <2>2, <2>3
<1>8. Held' = kept \cup {block}
  <2>1. block \in Held'
    BY <1>1, <1>3
  <2>2. kept \subseteq Blocks
    BY <1>4 DEF Kept
  <2> QED
    BY <1>3, <1>4, <1>7, <2>1, <2>2
<1>9. \A x, y : UsedAfter(x, y) <=>
         /\ SetOf(x) = SetOf(y)
         /\ \E j \in LinesOf(x), k \in LinesOf(y) : time(x, j) > time(y, k)
  BY DEF UsedAfter
<1>10. \A x, y : UsedAfter(x, y)' <=>
         /\ SetOf(x) = SetOf(y)
         /\ \E j \in LinesOf(x)', k \in LinesOf(y)' : after(x, j) > after(y, k)
  BY DEF UsedAfter, SetOf
<1>11. \A x \in Blocks : \A j \in LinesOf(x) : j \in Lines /\ time(x, j) \in Nat /\ time(x, j) < now
  <2>1. ASSUME NEW x \in Blocks, NEW j \in LinesOf(x)
        PROVE  j \in Lines /\ time(x, j) \in Nat /\ time(x, j) < now
    <3>1. SetOf(x) \in CacheSets /\ j \in Lines /\ line[SetOf(x)][j].valid /\ useTimer \in Nat
      BY SetOfBlock DEF LinesOf, Holding, LInv, CInv
    <3>2. time(x, j) \in 1 .. useTimer
      BY <3>1 DEF LInv, CInv, DistinctUntil
    <3> QED
      BY <3>1, <3>2
  <2> QED
    BY <2>1
<1>12. now \in Nat
  BY DEF LInv, CInv
<1> HIDE DEF now, kept, time, after
<1>13. ASSUME NEW x \in Blocks, NEW y \in Blocks
       PROVE  UsedAfter(x, y)' <=>
                 \/ UsedAfter(x, y) /\ x \in kept /\ y \in kept
                 \/ x = block /\ y \in kept /\ SetOf(y) = t
  <2>1. CASE SetOf(x) # SetOf(y)
    BY <1>9, <1>10, <2>1
  <2>2. CASE SetOf(x) = SetOf(y) /\ SetOf(x) # t
    <3>1. LinesOf(x)' = LinesOf(x) /\ LinesOf(y)' = LinesOf(y)
      BY <1>1, <2>2
    <3>2. \A j \in LinesOf(x) : after(x, j) = time(x, j)
      BY <1>1, <1>11, <2>2
    <3>3. \A k \in LinesOf(y) : after(y, k) = time(y, k)
      BY <1>1, <1>11, <2>2
    <3>4. UsedAfter(x, y)' <=> UsedAfter(x, y)
      BY <1>9, <1>10, <3>1, <3>2, <3>3
    <3>5. UsedAfter(x, y) => x \in kept /\ y \in kept
      BY <1>7, <1>9, <2>2, <3>1
    <3> QED
      BY <2>2, <3>4, <3>5
  <2>3. CASE SetOf(x) = t /\ SetOf(y) = t /\ x = block /\ y = block
    <3>1. ~UsedAfter(x, y)'
      BY <1>1, <1>10, <1>12, <2>3
    <3> QED
      BY <1>6, <2>3, <3>1
  <2>4. CASE SetOf(x) = t /\ SetOf(y) = t /\ x = block /\ y # block
    <3>1. LinesOf(y)' = LinesOf(y) \ {i} /\ LinesOf(x)' = {i}
      BY <1>1, <2>4
    <3>2. \A k \in LinesOf(y)' : after(x, i) > after(y, k)
      BY <1>1, <1>11, <1>12, <2>4, <3>1
    <3>3. UsedAfter(x, y)' <=> LinesOf(y)' # {}
      BY <1>10, <2>4, <3>1, <3>2
    <3> QED
      BY <1>6, <1>7, <2>4, <3>3
  <2>5. CASE SetOf(x) = t /\ SetOf(y) = t /\ x # block /\ y = block
    <3>1. LinesOf(x)' = LinesOf(x) \ {i} /\ LinesOf(y)' = {i}
      BY <1>1, <2>5
    <3>2. \A j \in LinesOf(x)' : ~(after(x, j) > after(y, i))
      BY <1>1, <1>11, <1>12, <2>5, <3>1
    <3>3. ~UsedAfter(x, y)'
      BY <1>10, <3>1, <3>2
    <3> QED
      BY <1>6, <2>5, <3>3
  <2>6. CASE SetOf(x) = t /\ SetOf(y) = t /\ x # block /\ y # block
    <3>1. LinesOf(x)' = LinesOf(x) \ {i} /\ LinesOf(y)' = LinesOf(y) \ {i}
      BY <1>1, <2>6
    <3>2. \A j \in LinesOf(x)' : after(x, j) = time(x, j)
      BY <1>1, <1>11, <2>6, <3>1
    <3>3. \A k \in LinesOf(y)' : after(y, k) = time(y, k)
      BY <1>1, <1>11, <2>6, <3>1
    <3>4. UsedAfter(x, y)' <=> UsedAfter(x, y) /\ LinesOf(x)' # {} /\ LinesOf(y)' # {}
      BY <1>5, <1>9, <1>10, <3>1, <3>2, <3>3
    <3> QED
      BY <1>7, <2>6, <3>4
  <2> QED
    BY <2>1, <2>2, <2>3, <2>4, <2>5, <2>6
<1>14. Newer' = {p \in Newer : p[1] \in kept /\ p[2] \in kept}
                 \cup {<<block, x>> : x \in kept \cap mates}
  <2>1. \A x, y : <<x, y>> \in Newer <=> x \in Blocks /\ y \in Blocks /\ UsedAfter(x, y)
    BY DEF Newer
  <2>2. \A x, y : <<x, y>> \in Newer' <=> x \in Blocks /\ y \in Blocks /\ UsedAfter(x, y)'
    BY DEF Newer, Blocks, BlockOf
  <2>3. /\ \A p \in Newer : p = <<p[1], p[2]>>
        /\ \A p \in Newer' : p = <<p[1], p[2]>>
    BY DEF Newer
  <2>4. \A x : x \in kept => x \in Blocks /\ x \in Held
    BY <1>4 DEF kept, Kept
  <2>5. \A x, y : <<x, y>> \in Newer' <=>
           \/ <<x, y>> \in Newer /\ x \in kept /\ y \in kept
           \/ x = block /\ y \in kept /\ SetOf(y) = t
    BY <1>13, <2>1, <2>2, <2>4
  <2> DEFINE rest == {p \in Newer : p[1] \in kept /\ p[2] \in kept}
             fresh == {<<block, x>> : x \in kept \cap mates}
  <2>6. \A x, y : <<x, y>> \in rest <=> <<x, y>> \in Newer /\ x \in kept /\ y \in kept
    OBVIOUS
  <2>7. \A x, y : <<x, y>> \in fresh <=> x = block /\ y \in kept /\ SetOf(y) = t
    BY <2>4
  <2>8. \A p \in rest \cup fresh : p = <<p[1], p[2]>>
    BY <2>3
  <2> HIDE DEF rest, fresh
  <2>9. Newer' \subseteq rest \cup fresh
    BY <2>3, <2>5, <2>6, <2>7
  <2>10. rest \cup fresh \subseteq Newer'
    BY <2>5, <2>6, <2>7, <2>8
  <2>11. Newer' = rest \cup fresh
    BY <2>9, <2>10
  <2> QED
    BY <2>11 DEF rest, fresh
<1> QED
  BY <1>8, <1>14 DEF kept, Mates

LEMMA LInvInit == BlankLeftovers /\ CsimInit => LInv
<1> SUFFICES ASSUME BlankLeftovers, CsimInit PROVE LInv
  OBVIOUS
<1>1. \A t \in CacheSets, j \in Lines : ~line[t][j].valid
  BY NoneUsed
<1> QED
  BY <1>1, CInvInit DEF LInv, Known, CsimInit

(* A use of a set by uses accesses that name the same block.                  *)
LEMMA UseRefines ==
  ASSUME NoAliases, LInv, NEW addr \in Addrs, NEW uses \in {1, 2}, NEW i, NEW r,
         Serves(line[FindSet(addr)], FindTag(addr), useTimer + 1, r, i),
         line' = [line EXCEPT ![FindSet(addr)] = r.set],
         hit_count' = hit_count + r.hit + (uses - 1),
         miss_count' = miss_count + r.miss, evict_count' = evict_count + r.evict
  PROVE  LRU!Use(BlockOf(addr), uses)
<1> DEFINE block == BlockOf(addr)
           hit == block \in Held
           evicts == ~hit /\ Full(block)
           kept == (IF evicts THEN Held \ Oldest(block) ELSE Held) \ {block}
<1>1. /\ block \in Blocks
      /\ Serves(line[SetOf(block)], TagOf(block), useTimer + 1, r, i)
      /\ line' = [line EXCEPT ![SetOf(block)] = r.set]
  BY Addressing DEF Blocks
<1>2. /\ Kept(block, i) = kept
      /\ r.hit = (IF hit THEN 1 ELSE 0)
      /\ r.miss = (IF hit THEN 0 ELSE 1)
      /\ r.evict = (IF evicts THEN 1 ELSE 0)
  <2> HIDE DEF block
  <2>1. AsLru(block, i, r)
    BY <1>1, KeptByLru
  <2> QED
    BY <2>1 DEF AsLru
<1>3. /\ Held' = kept \cup {block}
      /\ Newer' = {p \in Newer : p[1] \in kept /\ p[2] \in kept}
                  \cup {<<block, x>> : x \in kept \cap Mates(block)}
  <2> HIDE DEF kept
  <2> QED
    BY <1>1, <1>2, ContentsAfter
<1>4. /\ hit_count' = hit_count + uses - (IF ~hit THEN 1 ELSE 0)
      /\ miss_count' = miss_count + (IF ~hit THEN 1 ELSE 0)
      /\ evict_count' = evict_count + (IF evicts THEN 1 ELSE 0)
  <2> HIDE DEF hit, evicts
  <2> QED
    BY <1>2 DEF LInv
<1>5. LRU!Cardinality(Mates(block)) = Cardinality(Mates(block))
  BY DEF LRU!Cardinality, Cardinality
<1>6. /\ {p \in Blocks \X Blocks : UsedAfter(p[1], p[2])} = Newer
      /\ {p \in Blocks \X Blocks : UsedAfter(p[1], p[2])}' = Newer'
  BY DEF Newer
<1> QED
  BY <1>3, <1>4, <1>5, <1>6 DEF LRU!Use, Full, Oldest, Mates

LEMMA KnownNext ==
  ASSUME NoAliases, LInv, NEW addr \in Addrs, NEW i, NEW r,
         Serves(line[FindSet(addr)], FindTag(addr), useTimer + 1, r, i),
         line' = [line EXCEPT ![FindSet(addr)] = r.set]
  PROVE  Known'
<1> DEFINE block == BlockOf(addr)
           new == [valid |-> TRUE, tag |-> TagOf(block), callTime |-> useTimer + 1]
           t == SetOf(block)
           c == line[t]
           d == [c EXCEPT ![i] = new]
<1>1. /\ block \in Blocks /\ t \in CacheSets /\ i \in Lines
      /\ line' = [line EXCEPT ![t] = d] /\ line \in [CacheSets -> [Lines -> CLine]]
  <2>1. FindSet(addr) = t /\ FindTag(addr) = TagOf(block) /\ t \in CacheSets
    BY Addressing
  <2> QED
    BY <2>1 DEF Blocks, Serves, LInv, CInv
<1>2. new.tag = TagOf(block)
  OBVIOUS
<1>3. d[i] = new /\ \A j \in Lines \ {i} : d[j] = c[j]
  BY <1>1
<1> HIDE DEF block, new, t, d
<1>4. line'[t] = d /\ \A u \in CacheSets \ {t} : line'[u] = line[u]
  BY <1>1
<1>5. ASSUME NEW u \in CacheSets, NEW j \in Lines, line'[u][j].valid
      PROVE  \E x \in Blocks : SetOf(x) = u /\ TagOf(x) = line'[u][j].tag
  <2>1. CASE u = t /\ j = i
    BY <1>1, <1>2, <1>3, <1>4, <2>1 DEF t
  <2>2. CASE ~(u = t /\ j = i)
    <3>1. line'[u][j] = line[u][j]
      BY <1>3, <1>4, <2>2
    <3> QED
      BY <1>5, <3>1 DEF LInv, Known
  <2> QED
    BY <2>1, <2>2
<1> QED
  BY <1>5 DEF Known, Blocks, BlockOf, SetOf, TagOf

(* One line of the trace, in the cache and in its abstraction.             *)
LEMMA TraceLineRefines ==
  ASSUME NoAliases, LInv, NEW addr \in Addrs
  PROVE  /\ LoadOrStore(addr) => LInv' /\ LRU!Use(BlockOf(addr), 1)
         /\ Modify(addr) => LInv' /\ LRU!Use(BlockOf(addr), 2)
<1> DEFINE r == Access(line[FindSet(addr)], FindTag(addr), useTimer + 1)
<1>1. CInv
  BY DEF LInv
<1>2. LoadOrStore(addr) \/ Modify(addr) => CInv'
  BY <1>1, CInvNext DEF CsimNext
<1>3. ASSUME NEW uses \in {1, 2}, NEW i \in Lines,
             Serves(line[FindSet(addr)], FindTag(addr), useTimer + 1, r, i),
             line' = [line EXCEPT ![FindSet(addr)] = r.set],
             hit_count' = hit_count + r.hit + (uses - 1),
             miss_count' = miss_count + r.miss, evict_count' = evict_count + r.evict,
             CInv'
      PROVE  LInv' /\ LRU!Use(BlockOf(addr), uses)
  <2> HIDE DEF r
  <2>1. Known'
    BY <1>3, KnownNext
  <2>2. LRU!Use(BlockOf(addr), uses)
    BY <1>3, UseRefines
  <2>3. hit_count' \in Nat /\ miss_count' \in Nat /\ evict_count' \in Nat
    BY <1>3 DEF Serves, LInv
  <2> QED
    BY <1>3, <2>1, <2>2, <2>3 DEF LInv
<1>4. ASSUME LoadOrStore(addr) PROVE LInv' /\ LRU!Use(BlockOf(addr), 1)
  <2>1. PICK i \in Lines : Serves(line[FindSet(addr)], FindTag(addr), useTimer + 1, r, i)
    BY <1>1, <1>4, LoadServes
  <2>2. /\ line' = [line EXCEPT ![FindSet(addr)] = r.set]
        /\ hit_count' = hit_count + r.hit
        /\ miss_count' = miss_count + r.miss /\ evict_count' = evict_count + r.evict
    BY <1>1, <1>4, LoadServes
  <2>3. hit_count + r.hit + (1 - 1) = hit_count + r.hit
    <3>1. hit_count \in Nat /\ r.hit \in Nat
      BY <2>1 DEF Serves, LInv
    <3> HIDE DEF r
    <3> QED
      BY <3>1
  <2> QED
    BY <1>2, <1>3, <1>4, <2>1, <2>2, <2>3
<1>5. ASSUME Modify(addr) PROVE LInv' /\ LRU!Use(BlockOf(addr), 2)
  <2>1. PICK i \in Lines : Serves(line[FindSet(addr)], FindTag(addr), useTimer + 1, r, i)
    BY <1>1, <1>5, ModifyServes
  <2>2. /\ line' = [line EXCEPT ![FindSet(addr)] = r.set]
        /\ hit_count' = hit_count + r.hit + 1
        /\ miss_count' = miss_count + r.miss + 0 /\ evict_count' = evict_count + r.evict + 0
    BY <1>1, <1>5, ModifyServes
  <2>3. /\ miss_count + r.miss + 0 = miss_count + r.miss
        /\ evict_count + r.evict + 0 = evict_count + r.evict
    <3>1. miss_count \in Nat /\ r.miss \in Nat /\ evict_count \in Nat /\ r.evict \in Nat
      BY <2>1 DEF Serves, LInv
    <3> HIDE DEF r
    <3> QED
      BY <3>1
  <2>4. hit_count + r.hit + (2 - 1) = hit_count + r.hit + 1
    OBVIOUS
  <2> QED
    BY <1>2, <1>3, <1>5, <2>1, <2>2, <2>3, <2>4
<1> QED
  BY <1>4, <1>5

(* Each line of any trace does to contents and counters what it does to a  *)
(* least recently used cache, for every geometry, provided that no two     *)
(* blocks of the trace agree in the bits that the code looks at.           *)
THEOREM Implements ==
  ASSUME BlankLeftovers, NoAliases
  PROVE  CsimSpec => ImplementsLRU
<1>1. CsimInit => LInv
  BY LInvInit
<1>2. CsimInit => LRU!Init
  <2> SUFFICES ASSUME CsimInit PROVE LRU!Init
    OBVIOUS
  <2>1. \A x \in Blocks : LinesOf(x) = {}
    BY NoneUsed, SetOfBlock DEF LinesOf, Holding
  <2>2. Held = {} /\ {p \in Blocks \X Blocks : UsedAfter(p[1], p[2])} = {}
    BY <2>1 DEF Held, UsedAfter
  <2> QED
    BY <2>2 DEF CsimInit, LRU!Init
<1>3. LInv /\ [CsimNext]_csimVars => LInv'
  <2>1. LInv /\ UNCHANGED csimVars => LInv'
    <3> SUFFICES ASSUME LInv, UNCHANGED csimVars PROVE LInv'
      OBVIOUS
    <3>1. CInv'
      BY CInvNext DEF LInv
    <3> QED
      BY <3>1 DEF LInv, csimVars, Known, Blocks, BlockOf, SetOf, TagOf
  <2> QED
    BY <2>1, TraceLineRefines DEF CsimNext
<1>4. LInv /\ [CsimNext]_csimVars =>
         [\A addr \in Addrs : /\ LoadOrStore(addr) => LRU!Use(BlockOf(addr), 1)
                              /\ Modify(addr) => LRU!Use(BlockOf(addr), 2)]_csimVars
  BY TraceLineRefines
<1> QED
  BY <1>1, <1>2, <1>3, <1>4, PTL DEF CsimSpec, ImplementsLRU

----------------------------------------------------------------------------
(* THE TRANSPOSITIONS.                                                     *)

(* What accesses do, one after the other, in plain words: z holds the      *)
(* matrix B and the variables a0 ... a7 before the first one and after     *)
(* each of them.                                                           *)
Machine == [B : [Cells -> Int], a : [1 .. 8 -> Int]]
AccessOf == [op : {"L", "S"}, of : {"A", "B"}, cell : Cells, a : 1 .. 8]
Entered == [B |-> B, a |-> [v \in 1 .. 8 |-> Junk]]

Performs(xs, m, z) ==
    /\ z \in [0 .. m -> Machine]
    /\ z[0] = Entered
    /\ \A k \in 1 .. m : z[k] = Perform(z[k - 1], xs[k])

(* An access leaves a machine, and it is a store or one of two loads.      *)
LEMMA PerformType ==
  ASSUME NEW z \in Machine, NEW x \in AccessOf
  PROVE  /\ Perform(z, x) \in Machine
         /\ x.op = "S" => Perform(z, x) = [z EXCEPT !.B[x.cell] = z.a[x.a]]
         /\ x.op = "L" => Perform(z, x) = [z EXCEPT !.a[x.a] = IF x.of = "A" THEN x.cell ELSE z.B[x.cell]]
<1>1. /\ z.B \in [Cells -> Int] /\ z.a \in [1 .. 8 -> Int] /\ x.cell \in Cells /\ x.a \in 1 .. 8
      /\ x.op \in {"L", "S"} /\ x.of \in {"A", "B"} /\ x.cell \in Int
  <2>1. z.B \in [Cells -> Int] /\ z.a \in [1 .. 8 -> Int]
    BY DEF Machine
  <2>2. x.cell \in Cells /\ x.a \in 1 .. 8 /\ x.op \in {"L", "S"} /\ x.of \in {"A", "B"}
    BY DEF AccessOf
  <2>3. \A e \in Cells : e \in Int
    BY DEF Cells
  <2> QED
    BY <2>1, <2>2, <2>3, Zenon
<1>2. CASE x.op = "S"
  <2>1. Perform(z, x) = [z EXCEPT !.B[x.cell] = z.a[x.a]]
    BY <1>1, <1>2, Zenon DEF Perform
  <2> QED
    BY <1>1, <1>2, <2>1 DEF Machine
<1>3. CASE x.op = "L"
  <2>1. CASE x.of = "A"
    <3>1. Perform(z, x) = [z EXCEPT !.a[x.a] = x.cell]
      BY <1>3, <2>1 DEF Perform, A
    <3> QED
      BY <1>1, <1>3, <2>1, <3>1 DEF Machine
  <2>2. CASE x.of = "B"
    <3>1. Perform(z, x) = [z EXCEPT !.a[x.a] = z.B[x.cell]]
      BY <1>3, <2>2 DEF Perform
    <3> QED
      BY <1>1, <1>3, <2>2, <3>1 DEF Machine
  <2> QED
    BY <1>1, <2>1, <2>2
<1> QED
  BY <1>1, <1>2, <1>3

(* The registers hold nothing of the matrix when a pass begins.            *)
LEMMA EnteredType == B \in [Cells -> Int] => Entered \in Machine
BY DEF Entered, Machine, Junk

(* The accesses of a sequence have states between them.                    *)
LEMMA PerformsExist ==
  ASSUME B \in [Cells -> Int], NEW xs \in Seq(AccessOf), NEW m \in 0 .. Len(xs)
  PROVE  \E z : Performs(xs, m, z)
<1> DEFINE Bad == {k \in 0 .. m : ~ \E z : Performs(xs, k, z)}
<1>1. SUFFICES ASSUME Bad # {} PROVE FALSE
  <2>1. m \in 0 .. m
    OBVIOUS
  <2>2. Bad = {} => \E z : Performs(xs, m, z)
    BY <2>1
  <2> QED
    BY <2>2
<1>2. PICK k : k \in Bad /\ \A j \in Bad : k <= j
  <2>1. Bad \subseteq Nat
    OBVIOUS
  <2> HIDE DEF Bad
  <2> QED
    BY <1>1, <2>1, MinNat
<1>3. k # 0
  <2>1. Performs(xs, 0, [i \in 0 .. 0 |-> Entered])
    BY EnteredType DEF Performs
  <2> QED
    BY <1>2, <2>1
<1>4. k \in 1 .. m /\ k - 1 \in 0 .. m /\ k \in 1 .. Len(xs)
  BY <1>2, <1>3
<1>5. k - 1 \notin Bad
  BY <1>2, <1>4
<1>6. PICK f : Performs(xs, k - 1, f)
  BY <1>4, <1>5
<1>7. f[k - 1] \in Machine /\ xs[k] \in AccessOf /\ Perform(f[k - 1], xs[k]) \in Machine
  <2>1. f[k - 1] \in Machine /\ xs[k] \in AccessOf
    BY <1>4, <1>6 DEF Performs
  <2> QED
    BY <2>1, PerformType
<1> DEFINE g == [i \in 0 .. k |-> IF i = k THEN Perform(f[k - 1], xs[k]) ELSE f[i]]
<1>8. Performs(xs, k, g)
  <2>1. \A i \in 0 .. k - 1 : f[i] \in Machine
    BY <1>6 DEF Performs
  <2>2. \A i \in 0 .. k : i = k \/ i \in 0 .. k - 1
    BY <1>4
  <2>3. g \in [0 .. k -> Machine]
    BY <1>4, <1>7, <2>1, <2>2
  <2>4. g[0] = Entered
    BY <1>4, <1>6 DEF Performs
  <2>5. ASSUME NEW i \in 1 .. k PROVE g[i] = Perform(g[i - 1], xs[i])
    <3>1. CASE i = k
      BY <1>4, <3>1
    <3>2. CASE i # k
      <4>1. i \in 1 .. k - 1 /\ i - 1 \in 0 .. k /\ i - 1 # k /\ i \in 0 .. k
        BY <1>4, <3>2
      <4>2. g[i] = f[i] /\ g[i - 1] = f[i - 1]
        BY <3>2, <4>1
      <4> HIDE DEF g
      <4>3. f[i] = Perform(f[i - 1], xs[i])
        BY <1>6, <4>1 DEF Performs
      <4> QED
        BY <4>2, <4>3
    <3> QED
      BY <3>1, <3>2
  <2> HIDE DEF g
  <2> QED
    BY <2>3, <2>4, <2>5 DEF Performs
<1> QED
  BY <1>2, <1>8

(* Performed is the matrix B after the last of them.                       *)
LEMMA PerformedIs ==
  ASSUME B \in [Cells -> Int], NEW xs \in Seq(AccessOf)
  PROVE  \E z : Performs(xs, Len(xs), z) /\ Performed(xs) = z[Len(xs)].B
<1> DEFINE m == Len(xs)
           F(f) == [k \in 0 .. m |-> IF k = 0 THEN Entered ELSE Perform(f[k - 1], xs[k])]
           after == CHOOSE f : f = F(f)
<1>1. m \in Nat
  OBVIOUS
<1>2. PICK z : Performs(xs, m, z)
  BY <1>1, PerformsExist
<1>3. z = F(z)
  <2>1. z \in [0 .. m -> Machine] /\ z[0] = Entered /\ \A k \in 1 .. m : z[k] = Perform(z[k - 1], xs[k])
    BY <1>2 DEF Performs
  <2>2. \A k \in 0 .. m : z[k] = IF k = 0 THEN Entered ELSE Perform(z[k - 1], xs[k])
    BY <1>1, <2>1
  <2> QED
    BY <2>1, <2>2
<1>4. after = F(after)
  <2> HIDE DEF F
  <2> QED
    BY <1>3
<1>5. Performed(xs) = after[m].B
  BY DEF Performed, Entered
<1>6. after = z
  <2> DEFINE Bad == {k \in 0 .. m : after[k] # z[k]}
  <2>1. after = [k \in 0 .. m |-> after[k]] /\ z = [k \in 0 .. m |-> z[k]]
    <3> HIDE DEF after
    <3> QED
      BY <1>3, <1>4
  <2>2. ASSUME Bad # {} PROVE FALSE
    <3>1. PICK k : k \in Bad /\ \A j \in Bad : k <= j
      <4>1. Bad \subseteq Nat
        OBVIOUS
      <4> HIDE DEF Bad
      <4> QED
        BY <2>2, <4>1, MinNat
    <3> HIDE DEF after
    <3>2. k # 0
      BY <1>1, <1>2, <1>4, <3>1 DEF Performs
    <3>3. k \in 1 .. m /\ k - 1 \in 0 .. m
      BY <3>1, <3>2
    <3>4. after[k - 1] = z[k - 1]
      BY <3>1, <3>3
    <3>5. after[k] = Perform(after[k - 1], xs[k])
      BY <1>4, <3>3
    <3>6. z[k] = Perform(z[k - 1], xs[k])
      BY <1>3, <3>3
    <3> QED
      BY <3>1, <3>4, <3>5, <3>6
  <2>3. \A k \in 0 .. m : after[k] = z[k]
    BY <2>2
  <2> HIDE DEF after
  <2> QED
    BY <2>1, <2>3
<1> QED
  BY <1>2, <1>5, <1>6

(* The machine at each access.                                             *)
LEMMA PerformsAt ==
  ASSUME NEW xs \in Seq(AccessOf), NEW z, Performs(xs, Len(xs), z), NEW i \in 1 .. Len(xs)
  PROVE  /\ z[i] = Perform(z[i - 1], xs[i])
         /\ z[i] \in Machine /\ z[i - 1] \in Machine
         /\ xs[i] \in AccessOf /\ xs[i].cell \in Cells
         /\ xs[i].a \in 1 .. 8 /\ xs[i].of \in {"A", "B"}
<1>1. xs[i] \in AccessOf /\ i \in 0 .. Len(xs) /\ i - 1 \in 0 .. Len(xs)
  OBVIOUS
<1>2. z[i] = Perform(z[i - 1], xs[i]) /\ z \in [0 .. Len(xs) -> Machine]
  BY DEF Performs
<1>3. z[i] \in Machine /\ z[i - 1] \in Machine
  BY <1>1, <1>2
<1>4. xs[i].cell \in Cells /\ xs[i].a \in 1 .. 8 /\ xs[i].of \in {"A", "B"}
  BY <1>1 DEF AccessOf
<1> QED
  BY <1>1, <1>2, <1>3, <1>4

(* First m loads, into the first registers; and behind the first p         *)
(* accesses m stores, to different cells.                                  *)
LoadRun(xs, m) == \A k \in 1 .. m : xs[k].op = "L" /\ xs[k].a = k
StoreRun(xs, p, m) ==
    /\ \A k \in 1 .. m : xs[p + k].op = "S"
    /\ \A k, l \in 1 .. m : xs[p + k].cell = xs[p + l].cell => k = l

Loaded(xs, z, m) ==
    /\ z[m].B = z[0].B
    /\ \A v \in 1 .. 8 : z[m].a[v] =
          IF v <= m
          THEN IF xs[v].of = "A" THEN xs[v].cell ELSE z[0].B[xs[v].cell]
          ELSE z[0].a[v]
Stored(xs, z, p, m) ==
    /\ z[p + m].a = z[p].a
    /\ \A k \in 1 .. m : z[p + m].B[xs[p + k].cell] = z[p].a[xs[p + k].a]
    /\ \A c \in Cells : (\A k \in 1 .. m : xs[p + k].cell # c) => z[p + m].B[c] = z[p].B[c]

(* A run of loads fills registers and leaves B alone.                      *)
LEMMA Loads ==
  ASSUME NEW xs \in Seq(AccessOf), NEW z, Performs(xs, Len(xs), z),
         NEW m \in Nat, m <= Len(xs), m <= 8,
         LoadRun(xs, m)
  PROVE  z[m] \in Machine /\ z[0] \in Machine /\ Loaded(xs, z, m)
<1> DEFINE Got(k) ==
       /\ z[k].B = z[0].B
       /\ \A v \in 1 .. 8 : z[k].a[v] =
             IF v <= k
             THEN IF xs[v].of = "A" THEN xs[v].cell ELSE z[0].B[xs[v].cell]
             ELSE z[0].a[v]
       Bad == {k \in 0 .. m : ~ Got(k)}
<1>1. \A k \in 0 .. m : k \in 0 .. Len(xs) /\ z[k] \in Machine
  BY DEF Performs
<1>2. Got(0)
  OBVIOUS
<1>3. ASSUME Bad # {} PROVE FALSE
  <2>1. PICK k : k \in Bad /\ \A j \in Bad : k <= j
    <3>1. Bad \subseteq Nat
      OBVIOUS
    <3> HIDE DEF Bad
    <3> QED
      BY <1>3, <3>1, MinNat
  <2>2. k \in 1 .. m /\ k - 1 \in 0 .. m
    <3> HIDE DEF Got
    <3>1. k # 0
      BY <1>2, <2>1
    <3> QED
      BY <2>1, <3>1
  <2>12. Got(k - 1) /\ ~ Got(k)
    <3> HIDE DEF Got
    <3>1. ~ (k <= k - 1)
      BY <2>2
    <3>2. k - 1 \notin Bad
      BY <2>1, <3>1
    <3> QED
      BY <2>1, <2>2, <3>2
  <2> HIDE DEF Got, Bad
  <2>3. k \in 1 .. Len(xs)
    BY <2>2
  <2>14. xs[k] \in AccessOf
    BY <2>3
  <2>4. z[k] = Perform(z[k - 1], xs[k])
    BY <2>3, PerformsAt
  <2> DEFINE y == z[k - 1]
             x == xs[k]
  <2>15. z[k] = Perform(y, x)
    BY <2>4
  <2>5. y \in Machine /\ x \in AccessOf /\ x.op = "L" /\ x.a = k
    BY <1>1, <2>2, <2>14 DEF LoadRun
  <2>6. z[k] = [y EXCEPT !.a[k] = IF x.of = "A" THEN x.cell ELSE y.B[x.cell]]
    <3> HIDE DEF y, x
    <3> QED
      BY <2>5, <2>15, PerformType
  <2>7. /\ y.B = z[0].B
        /\ \A v \in 1 .. 8 : y.a[v] =
             IF v <= k - 1
             THEN IF xs[v].of = "A" THEN xs[v].cell ELSE z[0].B[xs[v].cell]
             ELSE z[0].a[v]
    BY <2>12 DEF Got
  <2>8. k \in 1 .. 8
    BY <2>2
  <2> HIDE DEF y
  <2>9. z[k].B = y.B /\ \A v \in 1 .. 8 : z[k].a[v] =
           IF v = k THEN (IF x.of = "A" THEN x.cell ELSE y.B[x.cell]) ELSE y.a[v]
    BY <2>5, <2>6, <2>8 DEF Machine
  <2>10. ASSUME NEW v \in 1 .. 8
         PROVE  z[k].a[v] =
             IF v <= k
             THEN IF xs[v].of = "A" THEN xs[v].cell ELSE z[0].B[xs[v].cell]
             ELSE z[0].a[v]
    <3>1. CASE v = k
      <4>1. v <= k /\ v = k
        BY <2>2, <3>1
      <4> QED
        BY <2>7, <2>9, <3>1, <4>1
    <3>2. CASE v # k
      <4>1. v <= k <=> v <= k - 1
        BY <2>2, <3>2
      <4> QED
        BY <2>7, <2>9, <3>2, <4>1
    <3> QED
      BY <3>1, <3>2
  <2>11. Got(k)
    BY <2>7, <2>9, <2>10 DEF Got
  <2> QED
    BY <2>12, <2>11
<1>4. Got(m)
  <2>1. m \in 0 .. m
    OBVIOUS
  <2> HIDE DEF Got
  <2> QED
    BY <1>3, <2>1
<1>5. z[m] \in Machine /\ z[0] \in Machine
  <2>1. m \in 0 .. m /\ 0 \in 0 .. m
    OBVIOUS
  <2> HIDE DEF Got
  <2>2. z[m] \in Machine
    BY <1>1, <2>1
  <2>3. z[0] \in Machine
    BY <1>1, <2>1
  <2> QED
    BY <2>2, <2>3
<1> QED
  BY <1>4, <1>5 DEF Loaded

(* A run of stores to different cells leaves the registers alone.          *)
LEMMA Stores ==
  ASSUME NEW xs \in Seq(AccessOf), NEW z, Performs(xs, Len(xs), z),
         NEW p \in Nat, NEW m \in Nat, p + m <= Len(xs),
         StoreRun(xs, p, m)
  PROVE  z[p + m] \in Machine /\ z[p] \in Machine /\ Stored(xs, z, p, m)
<1> DEFINE Put(l) ==
       /\ z[p + l].a = z[p].a
       /\ \A k \in 1 .. l : z[p + l].B[xs[p + k].cell] = z[p].a[xs[p + k].a]
       /\ \A c \in Cells : (\A k \in 1 .. l : xs[p + k].cell # c) => z[p + l].B[c] = z[p].B[c]
       Bad == {k \in 0 .. m : ~ Put(k)}
<1>1. \A k \in 0 .. m : p + k \in 0 .. Len(xs) /\ z[p + k] \in Machine
  BY DEF Performs
<1>2. Put(0)
  OBVIOUS
<1>3. ASSUME Bad # {} PROVE FALSE
  <2>1. PICK k : k \in Bad /\ \A j \in Bad : k <= j
    <3>1. Bad \subseteq Nat
      OBVIOUS
    <3> HIDE DEF Bad
    <3> QED
      BY <1>3, <3>1, MinNat
  <2>2. k \in 1 .. m /\ k - 1 \in 0 .. m
    <3> HIDE DEF Put
    <3>1. k # 0
      BY <1>2, <2>1
    <3> QED
      BY <2>1, <3>1
  <2>12. Put(k - 1) /\ ~ Put(k)
    <3> HIDE DEF Put
    <3>1. ~ (k <= k - 1)
      BY <2>2
    <3>2. k - 1 \notin Bad
      BY <2>1, <3>1
    <3> QED
      BY <2>1, <2>2, <3>2
  <2> HIDE DEF Put, Bad
  <2>3. p + k \in 1 .. Len(xs) /\ p + (k - 1) = p + k - 1
    BY <2>2
  <2>14. xs[p + k] \in AccessOf
    BY <2>3
  <2>4. z[p + k] = Perform(z[p + (k - 1)], xs[p + k])
    <3> DEFINE i == p + k
    <3>1. i \in 1 .. Len(xs)
      BY <2>3
    <3> HIDE DEF i
    <3>2. z[i] = Perform(z[i - 1], xs[i])
      BY <3>1, PerformsAt
    <3> QED
      BY <2>2, <2>3, <3>2 DEF i
  <2> DEFINE y == z[p + (k - 1)]
             x == xs[p + k]
  <2>15. z[p + k] = Perform(y, x)
    BY <2>4
  <2>5. y \in Machine /\ x \in AccessOf /\ x.op = "S" /\ x.cell \in Cells
    BY <1>1, <2>2, <2>14 DEF AccessOf, StoreRun
  <2>6. z[p + k] = [y EXCEPT !.B[x.cell] = y.a[x.a]]
    <3> HIDE DEF y, x
    <3> QED
      BY <2>5, <2>15, PerformType
  <2>7. /\ y.a = z[p].a
        /\ \A l \in 1 .. k - 1 : y.B[xs[p + l].cell] = z[p].a[xs[p + l].a]
        /\ \A c \in Cells : (\A l \in 1 .. k - 1 : xs[p + l].cell # c) => y.B[c] = z[p].B[c]
    BY <2>12 DEF Put
  <2> HIDE DEF y
  <2>9. /\ z[p + k].a = y.a
        /\ \A c \in Cells : z[p + k].B[c] = IF c = x.cell THEN y.a[x.a] ELSE y.B[c]
    BY <2>5, <2>6 DEF Machine
  <2>10. ASSUME NEW l \in 1 .. k PROVE z[p + k].B[xs[p + l].cell] = z[p].a[xs[p + l].a]
    <3>1. CASE l = k
      BY <2>5, <2>7, <2>9, <3>1
    <3>2. CASE l # k
      <4>1. l \in 1 .. k - 1 /\ l \in 1 .. m /\ k \in 1 .. m
        BY <2>2, <3>2
      <4>2. xs[p + l].cell # x.cell
        BY <3>2, <4>1 DEF StoreRun
      <4>3. p + l \in 1 .. Len(xs)
        BY <4>1
      <4>4. xs[p + l].cell \in Cells
        BY <4>3, PerformsAt
      <4> QED
        BY <2>7, <2>9, <4>1, <4>2, <4>4
    <3> QED
      BY <3>1, <3>2
  <2>11. ASSUME NEW c \in Cells, \A l \in 1 .. k : xs[p + l].cell # c PROVE z[p + k].B[c] = z[p].B[c]
    <3>1. c # x.cell /\ \A l \in 1 .. k - 1 : xs[p + l].cell # c
      BY <2>2, <2>11
    <3> QED
      BY <2>7, <2>9, <3>1
  <2>13. Put(k)
    BY <2>7, <2>9, <2>10, <2>11 DEF Put
  <2> QED
    BY <2>12, <2>13
<1>4. Put(m)
  <2>1. m \in 0 .. m
    OBVIOUS
  <2> HIDE DEF Put
  <2> QED
    BY <1>3, <2>1
<1>5. z[p + m] \in Machine /\ z[p + 0] \in Machine /\ p + 0 = p
  <2>1. m \in 0 .. m /\ 0 \in 0 .. m
    OBVIOUS
  <2> HIDE DEF Put
  <2>2. z[p + m] \in Machine
    BY <1>1, <2>1
  <2>3. z[p + 0] \in Machine
    BY <1>1, <2>1
  <2> QED
    BY <2>2, <2>3
<1> QED
  BY <1>4, <1>5 DEF Stored

(* The cells, without the product.                                         *)
LEMMA CellsAre == Cells = 0 .. 4489
<1>1. 67 * 67 = 4489
  OBVIOUS
<1> QED
  BY <1>1 DEF Cells

LEMMA Below4489 == \A e \in Nat : e <= 4489 => e \in Cells
BY CellsAre

(* Alternating loads of A and stores: m copies.                            *)
CopyRun(xs, m) ==
    /\ Len(xs) = 2 * m
    /\ \A k \in 1 .. m : /\ xs[2 * k - 1].op = "L" /\ xs[2 * k - 1].of = "A" /\ xs[2 * k - 1].a = 1
                         /\ xs[2 * k].op = "S" /\ xs[2 * k].a = 1
    /\ \A k, l \in 1 .. m : xs[2 * k].cell = xs[2 * l].cell => k = l

(* Pairs of a load and a store to cells of their own: each store leaves    *)
(* what the load before it has read.                                       *)
LEMMA Copies ==
  ASSUME NEW xs \in Seq(AccessOf), NEW z, Performs(xs, Len(xs), z),
         NEW m \in Nat, CopyRun(xs, m)
  PROVE  /\ z[Len(xs)] \in Machine
         /\ \A k \in 1 .. m : z[Len(xs)].B[xs[2 * k].cell] = xs[2 * k - 1].cell
         /\ \A c \in Cells : (\A k \in 1 .. m : xs[2 * k].cell # c) => z[Len(xs)].B[c] = B[c]
<1> DEFINE Put(l) ==
       /\ \A k \in 1 .. l : z[2 * l].B[xs[2 * k].cell] = xs[2 * k - 1].cell
       /\ \A c \in Cells : (\A k \in 1 .. l : xs[2 * k].cell # c) => z[2 * l].B[c] = B[c]
       Bad == {k \in 0 .. m : ~ Put(k)}
<1>1. Len(xs) = 2 * m
  BY DEF CopyRun
<1>2. Put(0)
  <2>1. z[2 * 0] = Entered
    BY DEF Performs
  <2> QED
    BY <2>1 DEF Entered
<1>3. ASSUME Bad # {} PROVE FALSE
  <2>1. PICK k : k \in Bad /\ \A j \in Bad : k <= j
    <3>1. Bad \subseteq Nat
      OBVIOUS
    <3> HIDE DEF Bad
    <3> QED
      BY <1>3, <3>1, MinNat
  <2>2. k \in 1 .. m /\ k - 1 \in 0 .. m
    <3> HIDE DEF Put
    <3>1. k # 0
      BY <1>2, <2>1
    <3> QED
      BY <2>1, <3>1
  <2>3. Put(k - 1) /\ ~ Put(k)
    <3> HIDE DEF Put
    <3>1. ~ (k <= k - 1)
      BY <2>2
    <3>2. k - 1 \notin Bad
      BY <2>1, <3>1
    <3> QED
      BY <2>1, <2>2, <3>2
  <2> HIDE DEF Put, Bad
  <2> DEFINE i == 2 * k
  <2>4. i \in 1 .. Len(xs) /\ i - 1 \in 1 .. Len(xs) /\ 2 * (k - 1) = (i - 1) - 1 /\ i \in Int
    BY <1>1, <2>2
  <2>5. xs[i].op = "S" /\ xs[i].a = 1 /\ xs[i - 1].op = "L" /\ xs[i - 1].of = "A" /\ xs[i - 1].a = 1
    BY <2>2 DEF CopyRun
  <2> HIDE DEF i
  <2>6. /\ z[i] = Perform(z[i - 1], xs[i]) /\ z[i - 1] = Perform(z[(i - 1) - 1], xs[i - 1])
        /\ z[i] \in Machine /\ z[i - 1] \in Machine /\ z[(i - 1) - 1] \in Machine
        /\ xs[i] \in AccessOf /\ xs[i - 1] \in AccessOf /\ xs[i].cell \in Cells
    BY <2>4, PerformsAt
  <2> DEFINE y == z[(i - 1) - 1]
  <2>7. z[i - 1] = [y EXCEPT !.a[1] = xs[i - 1].cell]
    BY <2>5, <2>6, PerformType, ZenonT(60)
  <2>8. z[i] = [z[i - 1] EXCEPT !.B[xs[i].cell] = z[i - 1].a[1]]
    BY <2>5, <2>6, PerformType, ZenonT(60)
  <2>9. z[i - 1].B = y.B /\ z[i - 1].a[1] = xs[i - 1].cell
    <3>1. y \in Machine
      BY <2>6
    <3> HIDE DEF y
    <3>2. y.a \in [1 .. 8 -> Int] /\ 1 \in 1 .. 8
      BY <3>1 DEF Machine
    <3> QED
      BY <2>7, <3>1, <3>2 DEF Machine
  <2>10. \A c \in Cells : z[i].B[c] = IF c = xs[i].cell THEN xs[i - 1].cell ELSE y.B[c]
    BY <2>6, <2>8, <2>9, ZenonT(60) DEF Machine
  <2>11. /\ \A l \in 1 .. k - 1 : y.B[xs[2 * l].cell] = xs[2 * l - 1].cell
         /\ \A c \in Cells : (\A l \in 1 .. k - 1 : xs[2 * l].cell # c) => y.B[c] = B[c]
    BY <2>3, <2>4 DEF Put
  <2> HIDE DEF y
  <2>12. ASSUME NEW l \in 1 .. k PROVE z[i].B[xs[2 * l].cell] = xs[2 * l - 1].cell
    <3>1. CASE l = k
      BY <2>6, <2>10, <3>1 DEF i
    <3>2. CASE l # k
      <4>1. l \in 1 .. k - 1 /\ l \in 1 .. m /\ k \in 1 .. m /\ 2 * l \in 1 .. Len(xs)
        BY <1>1, <2>2, <3>2
      <4>2. xs[2 * l].cell # xs[i].cell
        BY <3>2, <4>1 DEF CopyRun, i
      <4>3. xs[2 * l].cell \in Cells
        <5> DEFINE j == 2 * l
        <5>1. j \in 1 .. Len(xs)
          BY <4>1
        <5> HIDE DEF j
        <5>2. xs[j].cell \in Cells
          BY <5>1, PerformsAt
        <5> QED
          BY <5>2 DEF j
      <4> QED
        BY <2>10, <2>11, <4>1, <4>2, <4>3
    <3> QED
      BY <3>1, <3>2
  <2>13. ASSUME NEW c \in Cells, \A l \in 1 .. k : xs[2 * l].cell # c PROVE z[i].B[c] = B[c]
    <3>1. c # xs[i].cell /\ \A l \in 1 .. k - 1 : xs[2 * l].cell # c
      BY <2>2, <2>13 DEF i
    <3> QED
      BY <2>10, <2>11, <3>1
  <2>14. Put(k)
    BY <2>12, <2>13 DEF Put, i
  <2> QED
    BY <2>3, <2>14
<1>4. Put(m)
  <2>1. m \in 0 .. m
    OBVIOUS
  <2> HIDE DEF Put
  <2> QED
    BY <1>3, <2>1
<1>5. z[Len(xs)] \in Machine
  BY DEF Performs
<1> QED
  BY <1>1, <1>4, <1>5

(* Pairs of accesses in one sequence.                                      *)
Pairs == {zz \in Seq(AccessOf) : Len(zz) = 2}
Woven(ps, m) == [q \in 1 .. 2 * m |-> IF q % 2 = 1 THEN ps[(q + 1) \div 2][1] ELSE ps[q \div 2][2]]

(* The pairs one after the other, and where each access of them stands.    *)
LEMMA WovenIs ==
  ASSUME NEW m \in Nat, NEW ps \in [1 .. m -> Pairs], NEW i \in 0 .. m
  PROVE  /\ Woven(ps, i) \in Seq(AccessOf) /\ Len(Woven(ps, i)) = 2 * i
         /\ \A k \in 1 .. i : Woven(ps, i)[2 * k - 1] = ps[k][1] /\ Woven(ps, i)[2 * k] = ps[k][2]
<1>1. \A k \in 1 .. m : ps[k] \in Seq(AccessOf) /\ Len(ps[k]) = 2 /\ ps[k][1] \in AccessOf /\ ps[k][2] \in AccessOf
  BY DEF Pairs
<1>2. ASSUME NEW q \in 1 .. 2 * i PROVE Woven(ps, i)[q] \in AccessOf
  <2>1. CASE q % 2 = 1
    <3>1. (q + 1) \div 2 \in 1 .. m
      BY <2>1
    <3> QED
      BY <1>1, <2>1, <3>1 DEF Woven
  <2>2. CASE q % 2 # 1
    <3>1. q \div 2 \in 1 .. m
      BY <2>2
    <3> QED
      BY <1>1, <2>2, <3>1 DEF Woven
  <2> QED
    BY <2>1, <2>2
<1>3. Woven(ps, i) \in [1 .. 2 * i -> AccessOf]
  BY <1>2 DEF Woven
<1>4. 2 * i \in Nat
  OBVIOUS
<1>5. Woven(ps, i) \in Seq(AccessOf) /\ Len(Woven(ps, i)) = 2 * i
  BY <1>3, <1>4
<1>6. ASSUME NEW k \in 1 .. i PROVE Woven(ps, i)[2 * k - 1] = ps[k][1] /\ Woven(ps, i)[2 * k] = ps[k][2]
  <2>1. /\ 2 * k - 1 \in 1 .. 2 * i /\ 2 * k \in 1 .. 2 * i
        /\ (2 * k - 1) % 2 = 1 /\ (2 * k) % 2 # 1 /\ (2 * k - 1 + 1) \div 2 = k /\ (2 * k) \div 2 = k
    OBVIOUS
  <2> QED
    BY <2>1 DEF Woven
<1> QED
  BY <1>5, <1>6

(* One more pair is appended.                                              *)
LEMMA WovenNext ==
  ASSUME NEW m \in Nat, NEW ps \in [1 .. m -> Pairs], NEW i \in 1 .. m
  PROVE  Woven(ps, i) = IF i = 1 THEN ps[i] ELSE Woven(ps, i - 1) \o ps[i]
<1>1. ps[i] \in Seq(AccessOf) /\ Len(ps[i]) = 2
  BY DEF Pairs
<1>2. /\ Woven(ps, i) \in Seq(AccessOf) /\ Len(Woven(ps, i)) = 2 * i
      /\ \A k \in 1 .. i : Woven(ps, i)[2 * k - 1] = ps[k][1] /\ Woven(ps, i)[2 * k] = ps[k][2]
  <2>1. i \in 0 .. m
    OBVIOUS
  <2> QED
    BY <2>1, WovenIs
<1>3. /\ Woven(ps, i - 1) \in Seq(AccessOf) /\ Len(Woven(ps, i - 1)) = 2 * (i - 1)
      /\ \A k \in 1 .. i - 1 : Woven(ps, i - 1)[2 * k - 1] = ps[k][1] /\ Woven(ps, i - 1)[2 * k] = ps[k][2]
  <2>1. i - 1 \in 0 .. m
    OBVIOUS
  <2> QED
    BY <2>1, WovenIs
<1> DEFINE u == Woven(ps, i)
           v == Woven(ps, i - 1)
           w == v \o ps[i]
<1>4. /\ w \in Seq(AccessOf) /\ Len(w) = 2 * i
      /\ \A q \in 1 .. 2 * i : w[q] = IF q <= 2 * (i - 1) THEN v[q] ELSE ps[i][q - 2 * (i - 1)]
  <2>1. v \in Seq(AccessOf) /\ Len(v) = 2 * (i - 1)
    BY <1>3
  <2> HIDE DEF v
  <2>2. /\ w \in Seq(AccessOf) /\ Len(w) = Len(v) + Len(ps[i])
        /\ \A q \in 1 .. Len(v) + Len(ps[i]) : w[q] = IF q <= Len(v) THEN v[q] ELSE ps[i][q - Len(v)]
    BY <1>1, <2>1, ConcatProperties
  <2>3. Len(v) + Len(ps[i]) = 2 * i
    BY <1>1, <2>1
  <2> HIDE DEF w
  <2> QED
    BY <2>1, <2>2, <2>3
<1>5. ASSUME NEW q \in 1 .. 2 * i PROVE w[q] = u[q]
  <2>1. w[q] = IF q <= 2 * (i - 1) THEN v[q] ELSE ps[i][q - 2 * (i - 1)]
    BY <1>4
  <2>2. PICK k \in 1 .. i : q = 2 * k - 1 \/ q = 2 * k
    <3>1. CASE q % 2 = 1
      <4>1. (q + 1) \div 2 \in 1 .. i /\ q = 2 * ((q + 1) \div 2) - 1
        BY <3>1
      <4> QED
        BY <4>1
    <3>2. CASE q % 2 # 1
      <4>1. q \div 2 \in 1 .. i /\ q = 2 * (q \div 2)
        BY <3>2
      <4> QED
        BY <4>1
    <3> QED
      BY <3>1, <3>2
  <2> HIDE DEF w, u, v
  <2>3. CASE k = i
    <3>1. ~ (q <= 2 * (i - 1)) /\ (q = 2 * k - 1 => q - 2 * (i - 1) = 1) /\ (q = 2 * k => q - 2 * (i - 1) = 2)
      BY <2>2, <2>3
    <3>2. u[2 * i - 1] = ps[i][1] /\ u[2 * i] = ps[i][2]
      BY <1>2 DEF u
    <3> QED
      BY <2>1, <2>2, <2>3, <3>1, <3>2
  <2>4. CASE k # i
    <3>1. k \in 1 .. i - 1 /\ q <= 2 * (i - 1)
      BY <2>2, <2>4
    <3>2. u[2 * k - 1] = ps[k][1] /\ u[2 * k] = ps[k][2]
      BY <1>2 DEF u
    <3>3. v[2 * k - 1] = ps[k][1] /\ v[2 * k] = ps[k][2]
      BY <1>3, <3>1 DEF v
    <3> QED
      BY <2>1, <2>2, <3>1, <3>2, <3>3
  <2> QED
    BY <2>3, <2>4
<1>6. u = w
  <2> HIDE DEF u, w
  <2>1. u \in Seq(AccessOf) /\ Len(u) = 2 * i
    BY <1>2 DEF u
  <2> QED
    BY <2>1, <1>4, <1>5, SeqEqual
<1>7. CASE i = 1
  <2>1. u \in Seq(AccessOf) /\ Len(u) = 2 /\ u[1] = ps[1][1] /\ u[2] = ps[1][2]
    <3> HIDE DEF u
    <3>1. u[2 * 1 - 1] = ps[1][1] /\ u[2 * 1] = ps[1][2]
      BY <1>2, <1>7 DEF u
    <3> QED
      BY <1>2, <1>7, <3>1 DEF u
  <2> HIDE DEF u
  <2>2. \A q \in 1 .. Len(u) : u[q] = ps[1][q]
    BY <2>1
  <2>3. u = ps[1]
    BY <1>1, <1>7, <2>1, <2>2, SeqEqual
  <2> QED
    BY <1>7, <2>3 DEF u
<1> QED
  BY <1>6, <1>7

(* FlattenSeq makes one sequence of the pairs.                             *)
LEMMA FlattenPairs ==
  ASSUME NEW m \in Nat \ {0}, NEW ps \in [1 .. m -> Pairs]
  PROVE  FlattenSeq(ps) = Woven(ps, m)
<1> DEFINE F(f) == [i \in 1 .. m |-> IF i = 1 THEN ps[i] ELSE f[i - 1] \o ps[i]]
           flatten == CHOOSE f : f = F(f)
           z == [i \in 1 .. m |-> Woven(ps, i)]
<1>1. Len(ps) = m /\ m # 0
  OBVIOUS
<1>2. z = F(z)
  <2>1. ASSUME NEW i \in 1 .. m
        PROVE  z[i] = IF i = 1 THEN ps[i] ELSE z[i - 1] \o ps[i]
    <3>1. z[i] = Woven(ps, i) /\ (i # 1 => z[i - 1] = Woven(ps, i - 1))
      OBVIOUS
    <3>2. Woven(ps, i) = IF i = 1 THEN ps[i] ELSE Woven(ps, i - 1) \o ps[i]
      BY WovenNext
    <3> HIDE DEF z
    <3> QED
      BY <3>1, <3>2
  <2>2. z = [i \in 1 .. m |-> z[i]]
    OBVIOUS
  <2> HIDE DEF z
  <2> QED
    BY <2>1, <2>2
<1>3. flatten = F(flatten)
  <2> HIDE DEF F, z
  <2> QED
    BY <1>2
<1>4. FlattenSeq(ps) = flatten[m]
  BY <1>1, Zenon DEF FlattenSeq
<1>5. flatten[m] = z[m]
  <2> DEFINE Bad == {k \in 1 .. m : flatten[k] # z[k]}
  <2> HIDE DEF flatten, z
  <2>1. ASSUME Bad # {} PROVE FALSE
    <3>1. PICK k : k \in Bad /\ \A j \in Bad : k <= j
      <4>1. Bad \subseteq Nat
        OBVIOUS
      <4> HIDE DEF Bad
      <4> QED
        BY <2>1, <4>1, MinNat
    <3>2. k \in 1 .. m
      BY <3>1
    <3>3. flatten[k] = (IF k = 1 THEN ps[k] ELSE flatten[k - 1] \o ps[k])
      BY <1>3, <3>2
    <3>4. z[k] = (IF k = 1 THEN ps[k] ELSE z[k - 1] \o ps[k])
      BY <1>2, <3>2
    <3>5. k # 1 => k - 1 \in 1 .. m /\ ~ (k <= k - 1)
      BY <3>2
    <3>6. k # 1 => flatten[k - 1] = z[k - 1]
      BY <3>1, <3>5
    <3> QED
      BY <3>1, <3>3, <3>4, <3>6
  <2>2. m \in 1 .. m
    OBVIOUS
  <2> QED
    BY <2>1, <2>2
<1> QED
  BY <1>4, <1>5

(* A pass of copies, one after the other.                                  *)
CopyPairs(ps, m) ==
    /\ \A k \in 1 .. m : /\ ps[k][1].op = "L" /\ ps[k][1].of = "A" /\ ps[k][1].a = 1
                         /\ ps[k][2].op = "S" /\ ps[k][2].a = 1
    /\ \A k, l \in 1 .. m : ps[k][2].cell = ps[l][2].cell => k = l

Copied(b, ps, m) ==
    /\ b \in [Cells -> Int]
    /\ \A k \in 1 .. m : b[ps[k][2].cell] = ps[k][1].cell
    /\ \A c \in Cells : (\A k \in 1 .. m : ps[k][2].cell # c) => b[c] = B[c]

(* What copies to different cells do to B.                                 *)
LEMMA CopyPass ==
  ASSUME B \in [Cells -> Int], NEW m \in Nat \ {0}, NEW ps \in [1 .. m -> Pairs], CopyPairs(ps, m)
  PROVE  Copied(Performed(FlattenSeq(ps)), ps, m)
<1> DEFINE xs == FlattenSeq(ps)
<1>1. /\ xs \in Seq(AccessOf) /\ Len(xs) = 2 * m
      /\ \A k \in 1 .. m : xs[2 * k - 1] = ps[k][1] /\ xs[2 * k] = ps[k][2]
  <2>1. m \in Nat /\ m \in 0 .. m /\ xs = Woven(ps, m)
    BY FlattenPairs
  <2> HIDE DEF xs
  <2>2. /\ Woven(ps, m) \in Seq(AccessOf) /\ Len(Woven(ps, m)) = 2 * m
        /\ \A k \in 1 .. m : Woven(ps, m)[2 * k - 1] = ps[k][1] /\ Woven(ps, m)[2 * k] = ps[k][2]
    BY <2>1, WovenIs
  <2> QED
    BY <2>1, <2>2
<1> HIDE DEF xs
<1>2. CopyRun(xs, m)
  <2>1. \A k \in 1 .. m : /\ xs[2 * k - 1].op = "L" /\ xs[2 * k - 1].of = "A" /\ xs[2 * k - 1].a = 1
                          /\ xs[2 * k].op = "S" /\ xs[2 * k].a = 1
    BY <1>1, Zenon DEF CopyPairs
  <2>2. \A k, l \in 1 .. m : xs[2 * k].cell = xs[2 * l].cell => k = l
    BY <1>1, Zenon DEF CopyPairs
  <2> QED
    BY <1>1, <2>1, <2>2, Zenon DEF CopyRun
<1>3. PICK z : Performs(xs, Len(xs), z) /\ Performed(xs) = z[Len(xs)].B
  BY <1>1, PerformedIs
<1>12. m \in Nat
  OBVIOUS
<1>4. /\ z[Len(xs)] \in Machine
      /\ \A k \in 1 .. m : z[Len(xs)].B[xs[2 * k].cell] = xs[2 * k - 1].cell
      /\ \A c \in Cells : (\A k \in 1 .. m : xs[2 * k].cell # c) => z[Len(xs)].B[c] = B[c]
  BY <1>1, <1>2, <1>3, <1>12, Copies, ZenonT(60)
<1>5. Performed(xs) \in [Cells -> Int]
  BY <1>3, <1>4 DEF Machine
<1>6. \A k \in 1 .. m : Performed(xs)[ps[k][2].cell] = ps[k][1].cell
  BY <1>1, <1>3, <1>4
<1>7. \A c \in Cells : (\A k \in 1 .. m : ps[k][2].cell # c) => Performed(xs)[c] = B[c]
  BY <1>1, <1>3, <1>4
<1> QED
  BY <1>5, <1>6, <1>7 DEF xs, Copied

(* A pass of m loads into the first registers, and then m stores.          *)
LoadsThenStores(xs, m) ==
    /\ Len(xs) = 2 * m
    /\ \A k \in 1 .. m : /\ xs[k].op = "L" /\ xs[k].a = k
                         /\ xs[m + k].op = "S" /\ xs[m + k].a \in 1 .. m
    /\ \A k, l \in 1 .. m : xs[m + k].cell = xs[m + l].cell => k = l
ValueOf(x) == IF x.of = "A" THEN x.cell ELSE B[x.cell]

Blocked(b, xs, m) ==
    /\ b \in [Cells -> Int]
    /\ \A k \in 1 .. m : b[xs[m + k].cell] = ValueOf(xs[xs[m + k].a])
    /\ \A c \in Cells : (\A k \in 1 .. m : xs[m + k].cell # c) => b[c] = B[c]

(* What up to eight loads and as many stores to different cells do to B.   *)
LEMMA BlockPass ==
  ASSUME B \in [Cells -> Int], NEW xs \in Seq(AccessOf), NEW m \in 1 .. 8, LoadsThenStores(xs, m)
  PROVE  Blocked(Performed(xs), xs, m)
<1>1. PICK z : Performs(xs, Len(xs), z) /\ Performed(xs) = z[Len(xs)].B
  BY PerformedIs
<1> DEFINE p == m
<1>2. z[0] = Entered /\ m \in Nat /\ p \in Nat
  BY <1>1 DEF Performs
<1>3. Len(xs) = 2 * m /\ m <= Len(xs) /\ p + m <= Len(xs) /\ m <= 8
  BY DEF LoadsThenStores
<1>4. LoadRun(xs, m)
  BY DEF LoadsThenStores, LoadRun
<1>5. StoreRun(xs, p, m)
  BY DEF LoadsThenStores, StoreRun
<1>6. Loaded(xs, z, m)
  BY <1>1, <1>2, <1>3, <1>4, Loads, Zenon
<1>7. z[m].B = B /\ \A v \in 1 .. m : z[m].a[v] = ValueOf(xs[v])
  <2>1. \A v \in 1 .. m : v \in 1 .. 8 /\ v <= m
    OBVIOUS
  <2>2. z[0].B = B
    BY <1>2 DEF Entered
  <2> QED
    BY <1>6, <2>1, <2>2 DEF ValueOf, Loaded
<1>8. /\ z[Len(xs)] \in Machine
      /\ \A k \in 1 .. m : z[Len(xs)].B[xs[m + k].cell] = z[m].a[xs[m + k].a]
      /\ \A c \in Cells : (\A k \in 1 .. m : xs[m + k].cell # c) => z[Len(xs)].B[c] = z[m].B[c]
  <2> HIDE DEF p
  <2>1. z[p + m] \in Machine /\ Stored(xs, z, p, m)
    BY <1>1, <1>2, <1>3, <1>5, Stores, Zenon
  <2>2. p + m = Len(xs) /\ p = m
    BY <1>3 DEF p
  <2> QED
    BY <2>1, <2>2 DEF Stored
<1>10. Performed(xs) \in [Cells -> Int]
  BY <1>1, <1>8 DEF Machine
<1>11. \A k \in 1 .. m : xs[m + k].a \in 1 .. m
  BY DEF LoadsThenStores
<1> QED
  BY <1>1, <1>7, <1>8, <1>10, <1>11 DEF Blocked

(* Sequences put together from runs of four and eight accesses.            *)
LEMMA RunIsSeq ==
  ASSUME NEW i \in Nat, NEW v \in [1 .. i -> AccessOf]
  PROVE  v \in Seq(AccessOf) /\ Len(v) = i
OBVIOUS

(* A run appended to a sequence.                                           *)
LEMMA Joins ==
  ASSUME NEW i \in Nat, NEW l \in Nat, NEW u \in Seq(AccessOf), Len(u) = i, NEW v \in [1 .. l -> AccessOf]
  PROVE  /\ u \o v \in Seq(AccessOf) /\ Len(u \o v) = i + l
         /\ \A k \in 1 .. i : (u \o v)[k] = u[k]
         /\ \A k \in 1 .. l : (u \o v)[i + k] = v[k]
<1>1. v \in Seq(AccessOf) /\ Len(v) = l
  BY RunIsSeq
<1>2. /\ u \o v \in Seq(AccessOf) /\ Len(u \o v) = Len(u) + Len(v)
      /\ \A k \in 1 .. Len(u) + Len(v) : (u \o v)[k] = IF k <= Len(u) THEN u[k] ELSE v[k - Len(u)]
  BY <1>1, ConcatProperties
<1> DEFINE w == u \o v
<1> HIDE DEF w
<1>3. ASSUME NEW k \in 1 .. l PROVE w[i + k] = v[k]
  <2>1. i + k \in 1 .. Len(u) + Len(v) /\ ~ (i + k <= Len(u)) /\ i + k - Len(u) = k
    BY <1>1
  <2> QED
    BY <1>2, <2>1 DEF w
<1>4. \A k \in 1 .. i : w[k] = u[k]
  BY <1>1, <1>2 DEF w
<1> QED
  BY <1>1, <1>2, <1>3, <1>4 DEF w

(* A run of copies from cells of A to different cells of B.                *)
AnAccess(op, of, cell, a) == [op |-> op, of |-> of, cell |-> cell, a |-> a]
Moved(b, m, from, to) ==
    /\ b \in [Cells -> Int]
    /\ \A k \in 1 .. m : b[to[k]] = from[k]
    /\ \A c \in Cells : (\A k \in 1 .. m : to[k] # c) => b[c] = B[c]

(* Copies from cells of A to different cells of B.                         *)
LEMMA CopyRow ==
  ASSUME B \in [Cells -> Int], NEW m \in Nat \ {0},
         NEW from \in [1 .. m -> Cells], NEW to \in [1 .. m -> Cells],
         \A k, l \in 1 .. m : to[k] = to[l] => k = l,
         NEW ps, ps = [k \in 1 .. m |-> <<AnAccess("L", "A", from[k], 1), AnAccess("S", "B", to[k], 1)>>]
  PROVE  Moved(Performed(FlattenSeq(ps)), m, from, to)
<1>1. ASSUME NEW k \in 1 .. m
      PROVE  /\ ps[k] \in Pairs
             /\ ps[k][1] = AnAccess("L", "A", from[k], 1)
             /\ ps[k][2] = AnAccess("S", "B", to[k], 1)
  <2> DEFINE u == AnAccess("L", "A", from[k], 1)
             v == AnAccess("S", "B", to[k], 1)
  <2>1. ps[k] = <<u, v>>
    OBVIOUS
  <2>2. u \in AccessOf /\ v \in AccessOf
    BY DEF AccessOf, AnAccess
  <2> HIDE DEF u, v
  <2>3. <<u, v>> \in Pairs
    BY <2>2 DEF Pairs
  <2> QED
    BY <2>1, <2>3 DEF u, v
<1>2. ps \in [1 .. m -> Pairs]
  <2>1. ps = [k \in 1 .. m |-> ps[k]]
    OBVIOUS
  <2> QED
    BY <1>1, <2>1
<1>3. CopyPairs(ps, m)
  <2>1. \A k \in 1 .. m : /\ ps[k][1].op = "L" /\ ps[k][1].of = "A" /\ ps[k][1].a = 1
                          /\ ps[k][2].op = "S" /\ ps[k][2].a = 1 /\ ps[k][2].cell = to[k]
    BY <1>1 DEF AnAccess
  <2>2. \A k, l \in 1 .. m : ps[k][2].cell = ps[l][2].cell => k = l
    BY <2>1
  <2> QED
    BY <2>1, <2>2 DEF CopyPairs
<1> DEFINE b == Performed(FlattenSeq(ps))
<1>4. Copied(b, ps, m)
  BY <1>2, <1>3, CopyPass
<1> HIDE DEF b
<1>5. \A k \in 1 .. m : ps[k][2].cell = to[k] /\ ps[k][1].cell = from[k]
  BY <1>1 DEF AnAccess
<1>6. Moved(b, m, from, to)
  <2>1. ASSUME NEW c \in Cells, \A k \in 1 .. m : to[k] # c PROVE b[c] = B[c]
    <3>1. \A k \in 1 .. m : ps[k][2].cell # c
      BY <1>5, <2>1
    <3> QED
      BY <1>4, <3>1 DEF Copied
  <2>2. ASSUME NEW k \in 1 .. m PROVE b[to[k]] = from[k]
    <3>1. b[ps[k][2].cell] = ps[k][1].cell
      BY <1>4 DEF Copied
    <3> QED
      BY <1>5, <3>1
  <2>3. b \in [Cells -> Int]
    BY <1>4 DEF Copied
  <2> QED
    BY <2>1, <2>2, <2>3 DEF Moved
<1> QED
  BY <1>6 DEF b

(* Where the elements lie: in the matrix, each in a cell of its own.       *)
OnMatrix(w, h) ==
    /\ \A r \in 0 .. h - 1, c \in 0 .. w - 1 : r * w + c \in Cells /\ c * h + r \in Cells
    /\ \A r, q \in 0 .. h - 1, c, d \in 0 .. w - 1 : c * h + r = d * h + q => c = d /\ r = q

(* The three sizes of the handout lie within the cells, no two elements in *)
(* one.                                                                    *)
LEMMA CellsOf32 == OnMatrix(32, 32)
<1> DEFINE w == 32
           h == 32
<1>1. ASSUME NEW r \in 0 .. h - 1, NEW c \in 0 .. w - 1
      PROVE  r * w + c \in Cells /\ c * h + r \in Cells
  <2>1. /\ r * w + c \in Nat /\ r * w + c <= 4489
        /\ c * h + r \in Nat /\ c * h + r <= 4489
    OBVIOUS
  <2> DEFINE e == r * w + c
             g == c * h + r
  <2>2. e \in Nat /\ e <= 4489 /\ g \in Nat /\ g <= 4489
    BY <2>1
  <2> HIDE DEF e, g, w, h
  <2>3. e \in Cells /\ g \in Cells
    BY <2>2, Below4489
  <2> QED
    BY <2>3 DEF e, g
<1>2. ASSUME NEW r \in 0 .. h - 1, NEW q \in 0 .. h - 1, NEW c \in 0 .. w - 1, NEW d \in 0 .. w - 1,
             c * h + r = d * h + q
      PROVE  c = d /\ r = q
  BY <1>2
<1> HIDE DEF w, h
<1>3. OnMatrix(w, h)
  BY <1>1, <1>2, Zenon DEF OnMatrix
<1> QED
  BY <1>3 DEF w, h

LEMMA CellsOf64 == OnMatrix(64, 64)
<1> DEFINE w == 64
           h == 64
<1>1. ASSUME NEW r \in 0 .. h - 1, NEW c \in 0 .. w - 1
      PROVE  r * w + c \in Cells /\ c * h + r \in Cells
  <2>1. /\ r * w + c \in Nat /\ r * w + c <= 4489
        /\ c * h + r \in Nat /\ c * h + r <= 4489
    OBVIOUS
  <2> DEFINE e == r * w + c
             g == c * h + r
  <2>2. e \in Nat /\ e <= 4489 /\ g \in Nat /\ g <= 4489
    BY <2>1
  <2> HIDE DEF e, g, w, h
  <2>3. e \in Cells /\ g \in Cells
    BY <2>2, Below4489
  <2> QED
    BY <2>3 DEF e, g
<1>2. ASSUME NEW r \in 0 .. h - 1, NEW q \in 0 .. h - 1, NEW c \in 0 .. w - 1, NEW d \in 0 .. w - 1,
             c * h + r = d * h + q
      PROVE  c = d /\ r = q
  BY <1>2
<1> HIDE DEF w, h
<1>3. OnMatrix(w, h)
  BY <1>1, <1>2, Zenon DEF OnMatrix
<1> QED
  BY <1>3 DEF w, h

LEMMA CellsOf67 == OnMatrix(61, 67)
<1> DEFINE w == 61
           h == 67
<1>1. ASSUME NEW r \in 0 .. h - 1, NEW c \in 0 .. w - 1
      PROVE  r * w + c \in Cells /\ c * h + r \in Cells
  <2>1. /\ r * w + c \in Nat /\ r * w + c <= 4489
        /\ c * h + r \in Nat /\ c * h + r <= 4489
    OBVIOUS
  <2> DEFINE e == r * w + c
             g == c * h + r
  <2>2. e \in Nat /\ e <= 4489 /\ g \in Nat /\ g <= 4489
    BY <2>1
  <2> HIDE DEF e, g, w, h
  <2>3. e \in Cells /\ g \in Cells
    BY <2>2, Below4489
  <2> QED
    BY <2>3 DEF e, g
<1>2. ASSUME NEW r \in 0 .. h - 1, NEW q \in 0 .. h - 1, NEW c \in 0 .. w - 1, NEW d \in 0 .. w - 1,
             c * h + r = d * h + q
      PROVE  c = d /\ r = q
  BY <1>2
<1> HIDE DEF w, h
<1>3. OnMatrix(w, h)
  BY <1>1, <1>2, Zenon DEF OnMatrix
<1> QED
  BY <1>3 DEF w, h

(* A matrix of the handout has one of three sizes.                         *)
LEMMA CellsOf ==
  ASSUME <<M, N>> \in Handout
  PROVE  /\ (M = 32 /\ N = 32) \/ (M = 64 /\ N = 64) \/ (M = 61 /\ N = 67)
         /\ OnMatrix(M, N)
<1>1. (M = 32 /\ N = 32) \/ (M = 64 /\ N = 64) \/ (M = 61 /\ N = 67)
  BY DEF Handout
<1>2. CASE M = 32 /\ N = 32
  BY <1>2, CellsOf32, Zenon
<1>3. CASE M = 64 /\ N = 64
  BY <1>3, CellsOf64, Zenon
<1>4. CASE M = 61 /\ N = 67
  BY <1>4, CellsOf67, Zenon
<1> QED
  BY <1>1, <1>2, <1>3, <1>4, Zenon

(* One pass of trans: a row of A.                                          *)
Right(r, c) == r * M + c
InRow(b, ii, j, m) ==
    /\ b \in [Cells -> Int]
    /\ \A r \in 0 .. N - 1, c \in 0 .. M - 1 :
         b[c * N + r] = IF r = ii /\ c \in j .. j + m - 1 THEN r * M + c ELSE B[c * N + r]

(* A pass that copies part of a row of A (trans, and the submission for N  *)
(* = 67) fills part of a column of B.                                      *)
LEMMA RowPass ==
  ASSUME <<M, N>> \in Handout, B \in [Cells -> Int],
         NEW ii \in 0 .. N - 1, NEW j \in 0 .. M - 1, NEW m \in 1 .. M - j,
         NEW ps, ps = [k \in 1 .. m |-> Copy(ii, j + k - 1)]
  PROVE  InRow(Performed(FlattenSeq(ps)), ii, j, m)
<1> DEFINE from == [k \in 1 .. m |-> ii * M + (j + k - 1)]
           to == [k \in 1 .. m |-> (j + k - 1) * N + ii]
<1>1. (M = 32 /\ N = 32) \/ (M = 64 /\ N = 64) \/ (M = 61 /\ N = 67)
  BY CellsOf
<1>9. \A k \in 1 .. m : j + k - 1 \in 0 .. M - 1
  BY <1>1
<1>2. from \in [1 .. m -> Cells] /\ to \in [1 .. m -> Cells]
  <2>1. ASSUME NEW k \in 1 .. m PROVE ii * M + (j + k - 1) \in Cells /\ (j + k - 1) * N + ii \in Cells
    BY <1>9, CellsOf, ZenonT(60) DEF OnMatrix
  <2> QED
    BY <2>1, Zenon
<1>3. ASSUME NEW r \in 0 .. N - 1, NEW c \in 0 .. M - 1, NEW k \in 1 .. m
      PROVE  c * N + r = (j + k - 1) * N + ii <=> c = j + k - 1 /\ r = ii
  <2> DEFINE d == j + k - 1
  <2>1. d \in 0 .. M - 1
    BY <1>9
  <2> HIDE DEF d, from, to
  <2>2. c * N + r = d * N + ii => c = d /\ r = ii
    BY <2>1, CellsOf, Zenon DEF OnMatrix
  <2>3. c = d /\ r = ii => c * N + r = d * N + ii
    BY Zenon
  <2> QED
    BY <2>2, <2>3, Zenon DEF d
<1>4. ASSUME NEW k \in 1 .. m, NEW l \in 1 .. m, to[k] = to[l] PROVE k = l
  <2>1. j + k - 1 \in 0 .. M - 1 /\ to[k] = (j + k - 1) * N + ii /\ to[l] = (j + l - 1) * N + ii
    BY <1>9, Zenon
  <2>2. j + k - 1 = j + l - 1
    BY <1>3, <1>4, <2>1, Zenon
  <2>3. j \in Int /\ k \in Int /\ l \in Int
    BY <1>1
  <2> QED
    BY <2>2, <2>3
<1>5. \A k \in 1 .. m : Copy(ii, j + k - 1) = <<AnAccess("L", "A", from[k], 1), AnAccess("S", "B", to[k], 1)>>
  BY DEF Copy, LoadA, StoreB, AnAccess
<1>6. ps = [k \in 1 .. m |-> <<AnAccess("L", "A", from[k], 1), AnAccess("S", "B", to[k], 1)>>]
  <2> HIDE DEF from, to
  <2> QED
    BY <1>5
<1> DEFINE b == Performed(FlattenSeq(ps))
<1>7. Moved(b, m, from, to)
  <2> HIDE DEF from, to
  <2>1. m \in Nat \ {0}
    BY <1>1
  <2> QED
    BY <1>2, <1>4, <1>6, <2>1, CopyRow
<1> HIDE DEF b
<1>8. ASSUME NEW r \in 0 .. N - 1, NEW c \in 0 .. M - 1
      PROVE b[c * N + r] = IF r = ii /\ c \in j .. j + m - 1 THEN r * M + c ELSE B[c * N + r]
  <2>1. CASE r = ii /\ c \in j .. j + m - 1
    <3> DEFINE k == c - j + 1
    <3>1. k \in 1 .. m /\ j + k - 1 = c
      BY <1>1, <2>1
    <3>2. to[k] = c * N + r /\ from[k] = r * M + c
      BY <2>1, <3>1
    <3> HIDE DEF k, to, from
    <3>3. b[to[k]] = from[k]
      BY <1>7, <3>1 DEF Moved
    <3> QED
      BY <2>1, <3>2, <3>3
  <2>2. CASE ~ (r = ii /\ c \in j .. j + m - 1)
    <3>1. \A k \in 1 .. m : to[k] # c * N + r
      BY <1>1, <1>3, <2>2
    <3>2. c * N + r \in Cells
      <4>1. OnMatrix(M, N)
        BY CellsOf, Zenon
      <4> QED
        BY <4>1, Zenon DEF OnMatrix
    <3> HIDE DEF to, from
    <3> QED
      BY <1>7, <2>2, <3>1, <3>2 DEF Moved
  <2> QED
    BY <2>1, <2>2
<1> QED
  BY <1>7, <1>8 DEF InRow, b, Moved
(* From and to where a pass of loads and stores moves what.                *)
Moves(xs, m, ld, from, to, reg) ==
    /\ ld \in [1 .. m -> {"A", "B"}] /\ from \in [1 .. m -> Cells]
    /\ to \in [1 .. m -> Cells] /\ reg \in [1 .. m -> 1 .. m]
    /\ xs \in Seq(AccessOf) /\ Len(xs) = 2 * m
    /\ \A k \in 1 .. m : /\ xs[k] = AnAccess("L", ld[k], from[k], k)
                         /\ xs[m + k] = AnAccess("S", "B", to[k], reg[k])
    /\ \A k, l \in 1 .. m : to[k] = to[l] => k = l
Source(ld, from, k) == IF ld[k] = "A" THEN from[k] ELSE B[from[k]]

(* The same for loads first and stores after, from A or from B.            *)
LEMMA BlockMove ==
  ASSUME B \in [Cells -> Int], NEW m \in 1 .. 8, NEW xs, NEW ld, NEW from, NEW to, NEW reg,
         Moves(xs, m, ld, from, to, reg)
  PROVE  Moved(Performed(xs), m, [k \in 1 .. m |-> Source(ld, from, reg[k])], to)
<1> DEFINE b == Performed(xs)
           v == [k \in 1 .. m |-> Source(ld, from, reg[k])]
<1>1. /\ ld \in [1 .. m -> {"A", "B"}] /\ from \in [1 .. m -> Cells]
      /\ to \in [1 .. m -> Cells] /\ reg \in [1 .. m -> 1 .. m]
      /\ xs \in Seq(AccessOf) /\ Len(xs) = 2 * m
      /\ \A k \in 1 .. m : /\ xs[k] = AnAccess("L", ld[k], from[k], k)
                           /\ xs[m + k] = AnAccess("S", "B", to[k], reg[k])
      /\ \A k, l \in 1 .. m : to[k] = to[l] => k = l
  BY DEF Moves
<1>2. ASSUME NEW k \in 1 .. m
      PROVE  /\ xs[k].op = "L" /\ xs[k].a = k /\ xs[k].of = ld[k] /\ xs[k].cell = from[k]
             /\ xs[m + k].op = "S" /\ xs[m + k].a = reg[k] /\ xs[m + k].cell = to[k]
             /\ reg[k] \in 1 .. m
  <2>1. xs[k] = AnAccess("L", ld[k], from[k], k) /\ xs[m + k] = AnAccess("S", "B", to[k], reg[k]) /\ reg[k] \in 1 .. m
    BY <1>1
  <2> QED
    BY <2>1 DEF AnAccess
<1>3. LoadsThenStores(xs, m)
  <2>1. ASSUME NEW k \in 1 .. m, NEW l \in 1 .. m, xs[m + k].cell = xs[m + l].cell PROVE k = l
    <3>1. to[k] = to[l]
      BY <1>2, <2>1
    <3> QED
      BY <1>1, <3>1
  <2>2. \A k \in 1 .. m : xs[m + k].a \in 1 .. m
    BY <1>2, Zenon
  <2> QED
    BY <1>1, <1>2, <2>1, <2>2, Zenon DEF LoadsThenStores
<1>4. Blocked(b, xs, m)
  BY <1>1, <1>3, BlockPass
<1> HIDE DEF b
<1>5. ASSUME NEW k \in 1 .. m PROVE b[to[k]] = v[k]
  <2>1. b[xs[m + k].cell] = ValueOf(xs[xs[m + k].a])
    BY <1>4 DEF Blocked
  <2>2. xs[m + k].cell = to[k] /\ xs[m + k].a = reg[k] /\ xs[reg[k]].of = ld[reg[k]] /\ xs[reg[k]].cell = from[reg[k]]
    BY <1>2
  <2>3. ValueOf(xs[reg[k]]) = Source(ld, from, reg[k])
    BY <2>2, Zenon DEF ValueOf, Source
  <2> QED
    BY <2>1, <2>2, <2>3
<1>6. ASSUME NEW c \in Cells, \A k \in 1 .. m : to[k] # c PROVE b[c] = B[c]
  <2>1. \A k \in 1 .. m : xs[m + k].cell # c
    BY <1>2, <1>6
  <2> QED
    BY <1>4, <2>1 DEF Blocked
<1> HIDE DEF v
<1>7. b \in [Cells -> Int]
  BY <1>4 DEF Blocked
<1>8. Moved(b, m, v, to)
  BY <1>5, <1>6, <1>7 DEF Moved
<1> QED
  BY <1>8 DEF b, v

(* Eight accesses and eight more.                                          *)
LEMMA Eight ==
  ASSUME NEW u \in [1 .. 8 -> AccessOf], NEW v \in [1 .. 8 -> AccessOf]
  PROVE  /\ u \o v \in Seq(AccessOf) /\ Len(u \o v) = 16
         /\ \A k \in 1 .. 8 : (u \o v)[k] = u[k] /\ (u \o v)[8 + k] = v[k]
<1> DEFINE e == 8
<1>1. e \in Nat /\ e = 8
  OBVIOUS
<1> HIDE DEF e
<1>2. u \in Seq(AccessOf) /\ Len(u) = e /\ v \in [1 .. e -> AccessOf]
  BY <1>1, RunIsSeq
<1>3. /\ u \o v \in Seq(AccessOf) /\ Len(u \o v) = e + e
      /\ \A k \in 1 .. e : (u \o v)[k] = u[k]
      /\ \A k \in 1 .. e : (u \o v)[e + k] = v[k]
  BY <1>1, <1>2, Joins, ZenonT(60)
<1>4. e + e = 16
  BY <1>1
<1> QED
  BY <1>1, <1>3, <1>4, Zenon

(* Different elements lie in different cells.                              *)
LEMMA SameCell ==
  ASSUME <<M, N>> \in Handout,
         NEW r \in 0 .. N - 1, NEW c \in 0 .. M - 1, NEW q \in 0 .. N - 1, NEW d \in 0 .. M - 1
  PROVE  /\ c * N + r \in Cells /\ r * M + c \in Cells
         /\ c * N + r = d * N + q <=> c = d /\ r = q
BY CellsOf, ZenonT(60) DEF OnMatrix

(* A row of a block, N = 32.                                               *)
RowOfBlock(xs, ii, j) ==
    xs = [k \in 1 .. 8 |-> LoadA(ii, j + k - 1, k)] \o [k \in 1 .. 8 |-> StoreB(j + k - 1, ii, k)]

(* A pass for N = 32 fills eight elements of a column of B.                *)
LEMMA RowBlock ==
  ASSUME <<M, N>> \in Handout, B \in [Cells -> Int], NEW ii \in 0 .. N - 1, NEW j \in 0 .. M - 8,
         NEW xs, RowOfBlock(xs, ii, j)
  PROVE  InRow(Performed(xs), ii, j, 8)
<1> DEFINE ld == [k \in 1 .. 8 |-> "A"]
           from == [k \in 1 .. 8 |-> ii * M + (j + k - 1)]
           to == [k \in 1 .. 8 |-> (j + k - 1) * N + ii]
           reg == [k \in 1 .. 8 |-> k]
           u == [k \in 1 .. 8 |-> AnAccess("L", "A", from[k], k)]
           v == [k \in 1 .. 8 |-> AnAccess("S", "B", to[k], k)]
<1>1. /\ \A k \in 1 .. 8 : LoadA(ii, j + k - 1, k) = AnAccess("L", "A", from[k], k)
      /\ \A k \in 1 .. 8 : StoreB(j + k - 1, ii, k) = AnAccess("S", "B", to[k], k)
  BY DEF LoadA, StoreB, AnAccess
<1>2. xs = u \o v
  <2> HIDE DEF from, to
  <2>1. xs = [k \in 1 .. 8 |-> LoadA(ii, j + k - 1, k)] \o [k \in 1 .. 8 |-> StoreB(j + k - 1, ii, k)]
    BY DEF RowOfBlock
  <2> QED
    BY <1>1, <2>1
<1>17. M \in Int
  BY CellsOf
<1>18. \A k \in 1 .. 8 : j + k - 1 \in 0 .. M - 1
  BY <1>17
<1>3. from \in [1 .. 8 -> Cells] /\ to \in [1 .. 8 -> Cells]
  <2>1. ASSUME NEW k \in 1 .. 8 PROVE ii * M + (j + k - 1) \in Cells /\ (j + k - 1) * N + ii \in Cells
    BY <1>18, CellsOf, ZenonT(60) DEF OnMatrix
  <2> QED
    BY <2>1, Zenon
<1>4. ld \in [1 .. 8 -> {"A", "B"}] /\ reg \in [1 .. 8 -> 1 .. 8]
  OBVIOUS
<1>5. \A k \in 1 .. 8 : ld[k] = "A" /\ reg[k] = k
  OBVIOUS
<1>6. ASSUME NEW r \in 0 .. N - 1, NEW c \in 0 .. M - 1, NEW k \in 1 .. 8
      PROVE  to[k] = c * N + r <=> c = j + k - 1 /\ r = ii
  <2> DEFINE d == j + k - 1
  <2>1. d \in 0 .. M - 1 /\ to[k] = d * N + ii
    BY <1>18, Zenon
  <2> HIDE DEF d, from, to
  <2>2. c * N + r = d * N + ii <=> c = d /\ r = ii
    BY <2>1, SameCell
  <2> QED
    BY <2>1, <2>2, Zenon DEF d
<1>7. \A r \in 0 .. N - 1, c \in 0 .. M - 1 : c * N + r \in Cells
  <2>1. OnMatrix(M, N)
    BY CellsOf, Zenon
  <2> QED
    BY <2>1, Zenon DEF OnMatrix
<1>8. \A k \in 1 .. 8 : from[k] = ii * M + (j + k - 1) /\ to[k] = (j + k - 1) * N + ii
  BY Zenon
<1> HIDE DEF from, to, ld, reg
<1>20. ASSUME NEW k \in 1 .. 8, NEW l \in 1 .. 8, to[k] = to[l] PROVE k = l
  <2>1. j + k - 1 = j + l - 1
    <3> DEFINE d == j + k - 1
    <3>1. d \in 0 .. M - 1 /\ to[l] = d * N + ii
      BY <1>8, <1>18, <1>20, Zenon
    <3> HIDE DEF d
    <3> QED
      BY <1>6, <3>1, Zenon DEF d
  <2> QED
    BY <1>17, <2>1
<1>9. u \in [1 .. 8 -> AccessOf] /\ v \in [1 .. 8 -> AccessOf]
  <2>1. ASSUME NEW k \in 1 .. 8
        PROVE  AnAccess("L", "A", from[k], k) \in AccessOf /\ AnAccess("S", "B", to[k], k) \in AccessOf
    <3>1. from[k] \in Cells /\ to[k] \in Cells
      BY <1>3
    <3> QED
      BY <3>1 DEF AnAccess, AccessOf
  <2> QED
    BY <2>1, Zenon
<1>10. \A k \in 1 .. 8 : u[k] = AnAccess("L", "A", from[k], k) /\ v[k] = AnAccess("S", "B", to[k], k)
  BY Zenon
<1> HIDE DEF u, v
<1>11. /\ xs \in Seq(AccessOf) /\ Len(xs) = 16
       /\ \A k \in 1 .. 8 : xs[k] = u[k] /\ xs[8 + k] = v[k]
  <2>1. /\ u \o v \in Seq(AccessOf) /\ Len(u \o v) = 16
        /\ \A k \in 1 .. 8 : (u \o v)[k] = u[k] /\ (u \o v)[8 + k] = v[k]
    BY <1>9, Eight
  <2> QED
    BY <1>2, <2>1, Zenon
<1>12. Moves(xs, 8, ld, from, to, reg)
  <2>1. ASSUME NEW k \in 1 .. 8
        PROVE  xs[k] = AnAccess("L", ld[k], from[k], k) /\ xs[8 + k] = AnAccess("S", "B", to[k], reg[k])
    <3>1. xs[k] = AnAccess("L", "A", from[k], k) /\ xs[8 + k] = AnAccess("S", "B", to[k], k)
      BY <1>10, <1>11
    <3>2. ld[k] = "A" /\ reg[k] = k
      BY <1>5
    <3> QED
      BY <3>1, <3>2
  <2>2. Len(xs) = 2 * 8
    BY <1>11
  <2> QED
    BY <1>3, <1>4, <1>11, <1>20, <2>1, <2>2, Zenon DEF Moves
<1> DEFINE b == Performed(xs)
           w == [k \in 1 .. 8 |-> Source(ld, from, reg[k])]
<1>13. Moved(b, 8, w, to)
  <2>1. 8 \in 1 .. 8
    OBVIOUS
  <2> QED
    BY <1>12, <2>1, BlockMove, Zenon
<1>14. \A k \in 1 .. 8 : w[k] = from[k]
  BY <1>5, Zenon DEF Source
<1> HIDE DEF b, w
<1>15. ASSUME NEW r \in 0 .. N - 1, NEW c \in 0 .. M - 1
       PROVE  b[c * N + r] = IF r = ii /\ c \in j .. j + 8 - 1 THEN r * M + c ELSE B[c * N + r]
  <2>1. CASE r = ii /\ c \in j .. j + 8 - 1
    <3> DEFINE k == c - j + 1
    <3>1. k \in 1 .. 8 /\ j + k - 1 = c
      BY <1>17, <2>1
    <3> HIDE DEF k
    <3>2. to[k] = c * N + r /\ w[k] = r * M + c
      BY <1>8, <1>14, <2>1, <3>1, Zenon
    <3> QED
      BY <1>13, <2>1, <3>1, <3>2, Zenon DEF Moved
  <2>2. CASE ~ (r = ii /\ c \in j .. j + 8 - 1)
    <3>1. \A k \in 1 .. 8 : c = j + k - 1 => c \in j .. j + 8 - 1
      BY <1>17
    <3>2. \A k \in 1 .. 8 : to[k] # c * N + r
      BY <1>6, <2>2, <3>1, Zenon
    <3> QED
      BY <1>7, <1>13, <2>2, <3>2, Zenon DEF Moved
  <2> QED
    BY <2>1, <2>2, Zenon
<1>16. b \in [Cells -> Int]
  BY <1>13 DEF Moved
<1>19. InRow(b, ii, j, 8)
  BY <1>15, <1>16, Zenon DEF InRow
<1> QED
  BY <1>19 DEF b
(* The element tc[k], tr[k] becomes val[k], and the others stay.           *)
Lands(b, m, val, tr, tc) ==
    /\ b \in [Cells -> Int]
    /\ \A r \in 0 .. N - 1, c \in 0 .. M - 1 :
         /\ \A k \in 1 .. m : tr[k] = r /\ tc[k] = c => b[c * N + r] = val[k]
         /\ (\A k \in 1 .. m : ~ (tr[k] = r /\ tc[k] = c)) => b[c * N + r] = B[c * N + r]

(* Moves, told by row and column instead of by cell.                       *)
LEMMA Placed ==
  ASSUME <<M, N>> \in Handout, NEW b, NEW m \in 1 .. 8, NEW val,
         NEW tr \in [1 .. m -> 0 .. N - 1], NEW tc \in [1 .. m -> 0 .. M - 1],
         NEW to, \A k \in 1 .. m : to[k] = tc[k] * N + tr[k],
         Moved(b, m, val, to)
  PROVE  Lands(b, m, val, tr, tc)
<1>1. ASSUME NEW r \in 0 .. N - 1, NEW c \in 0 .. M - 1, NEW k \in 1 .. m, tr[k] = r, tc[k] = c
      PROVE b[c * N + r] = val[k]
  BY <1>1, Zenon DEF Moved
<1>2. ASSUME NEW r \in 0 .. N - 1, NEW c \in 0 .. M - 1, \A k \in 1 .. m : ~ (tr[k] = r /\ tc[k] = c)
      PROVE b[c * N + r] = B[c * N + r]
  <2>1. ASSUME NEW k \in 1 .. m PROVE to[k] # c * N + r
    <3> DEFINE q == tr[k]
               d == tc[k]
    <3>1. q \in 0 .. N - 1 /\ d \in 0 .. M - 1 /\ to[k] = d * N + q /\ ~ (q = r /\ d = c)
      BY <1>2, Zenon
    <3> HIDE DEF q, d
    <3>2. c * N + r = d * N + q <=> c = d /\ r = q
      BY <3>1, SameCell
    <3> QED
      BY <3>1, <3>2, Zenon
  <2>2. c * N + r \in Cells
    BY CellsOf, Zenon DEF OnMatrix
  <2> QED
    BY <2>1, <2>2, Zenon DEF Moved
<1> QED
  BY <1>1, <1>2, ZenonT(60) DEF Lands, Moved

(* Stores to different places go to different cells.                       *)
Collide(tr, tc, m, k, l) ==
    /\ tr \in [1 .. m -> 0 .. N - 1] /\ tc \in [1 .. m -> 0 .. M - 1]
    /\ k \in 1 .. m /\ l \in 1 .. m
    /\ tc[k] * N + tr[k] = tc[l] * N + tr[l]
LEMMA SameTarget ==
  ASSUME <<M, N>> \in Handout, NEW m, NEW tr, NEW tc, NEW k, NEW l, Collide(tr, tc, m, k, l)
  PROVE  tr[k] = tr[l] /\ tc[k] = tc[l]
<1> DEFINE r == tr[k]
           q == tr[l]
           c == tc[k]
           d == tc[l]
<1>1. r \in 0 .. N - 1 /\ q \in 0 .. N - 1 /\ c \in 0 .. M - 1 /\ d \in 0 .. M - 1 /\ c * N + r = d * N + q
  BY Zenon DEF Collide
<1> HIDE DEF r, q, c, d
<1>2. c = d /\ r = q
  BY <1>1, SameCell
<1> QED
  BY <1>2 DEF r, q, c, d

(* Four accesses appended.                                                 *)
LEMMA Four ==
  ASSUME NEW i \in Nat, NEW u \in Seq(AccessOf), Len(u) = i, NEW v \in [1 .. 4 -> AccessOf]
  PROVE  /\ u \o v \in Seq(AccessOf) /\ Len(u \o v) = i + 4
         /\ \A k \in 1 .. i : (u \o v)[k] = u[k]
         /\ \A k \in 1 .. 4 : (u \o v)[i + k] = v[k]
<1>1. 4 \in Nat
  OBVIOUS
<1> QED
  BY <1>1, Joins, Zenon

(* Loads and stores are accesses.                                          *)
LEMMA AccessType ==
  ASSUME NEW op \in {"L", "S"}, NEW of \in {"A", "B"}, NEW cell \in Cells, NEW a \in 1 .. 8
  PROVE  AnAccess(op, of, cell, a) \in AccessOf
BY DEF AnAccess, AccessOf

(* The lower right quarter: a row of it.                                   *)
InLower(b, i, j, ii) ==
    /\ b \in [Cells -> Int]
    /\ \A r \in 0 .. N - 1, c \in 0 .. M - 1 :
         b[c * N + r] = IF r = ii + 4 /\ c \in j + 4 .. j + 7 THEN r * M + c ELSE B[c * N + r]

(* Lower copies four elements of a row to where they belong.               *)
LEMMA LowerPass ==
  ASSUME <<M, N>> \in Handout, B \in [Cells -> Int],
         NEW i \in 0 .. N - 8, NEW j \in 0 .. M - 8, NEW ii \in i .. i + 3
  PROVE  InLower(Performed(Lower(i, j, ii)), i, j, ii)
<1> DEFINE xs == Lower(i, j, ii)
           tr == [k \in 1 .. 4 |-> ii + 4]
           tc == [k \in 1 .. 4 |-> j + 4 + k - 1]
           ld == [k \in 1 .. 4 |-> "A"]
           from == [k \in 1 .. 4 |-> (ii + 4) * M + (j + 4 + k - 1)]
           to == [k \in 1 .. 4 |-> (j + 4 + k - 1) * N + (ii + 4)]
           reg == [k \in 1 .. 4 |-> k]
           u == [k \in 1 .. 4 |-> LoadA(ii + 4, j + 4 + k - 1, k)]
           v == [k \in 1 .. 4 |-> StoreB(j + 4 + k - 1, ii + 4, k)]
<1>1. M \in Int /\ N \in Int
  BY CellsOf
<1>2. tr \in [1 .. 4 -> 0 .. N - 1] /\ tc \in [1 .. 4 -> 0 .. M - 1] /\ reg \in [1 .. 4 -> 1 .. 4]
  BY <1>1
<1>3. ld \in [1 .. 4 -> {"A", "B"}]
  OBVIOUS
<1>4. \A k \in 1 .. 4 : /\ tr[k] = ii + 4 /\ tc[k] = j + 4 + k - 1 /\ ld[k] = "A" /\ reg[k] = k
                        /\ to[k] = tc[k] * N + tr[k] /\ from[k] = tr[k] * M + tc[k]
  BY Zenon
<1>5. \A k \in 1 .. 4 : u[k] = AnAccess("L", "A", from[k], k) /\ v[k] = AnAccess("S", "B", to[k], k)
  BY DEF LoadA, StoreB, AnAccess
<1>6. xs = u \o v
  BY DEF Lower
<1>7. from = [k \in 1 .. 4 |-> from[k]] /\ to = [k \in 1 .. 4 |-> to[k]] /\ u = [k \in 1 .. 4 |-> u[k]] /\ v = [k \in 1 .. 4 |-> v[k]]
  BY Zenon
<1> HIDE DEF xs, tr, tc, ld, from, to, reg, u, v
<1>8. \A k \in 1 .. 4 : from[k] \in Cells /\ to[k] \in Cells
  <2>1. ASSUME NEW k \in 1 .. 4 PROVE from[k] \in Cells /\ to[k] \in Cells
    <3>1. tr[k] \in 0 .. N - 1 /\ tc[k] \in 0 .. M - 1
      BY <1>2
    <3> QED
      BY <1>4, <3>1, SameCell
  <2> QED
    BY <2>1
<1>9. from \in [1 .. 4 -> Cells] /\ to \in [1 .. 4 -> Cells]
  BY <1>7, <1>8
<1>10. u \in [1 .. 4 -> AccessOf] /\ v \in [1 .. 4 -> AccessOf]
  <2>1. ASSUME NEW k \in 1 .. 4 PROVE u[k] \in AccessOf /\ v[k] \in AccessOf
    <3>1. from[k] \in Cells /\ to[k] \in Cells /\ k \in 1 .. 8
      BY <1>8
    <3> QED
      BY <1>5, <3>1, AccessType
  <2> QED
    BY <1>7, <2>1
<1>11. /\ xs \in Seq(AccessOf) /\ Len(xs) = 8
       /\ \A k \in 1 .. 4 : xs[k] = u[k] /\ xs[4 + k] = v[k]
  <2>1. u \in Seq(AccessOf) /\ Len(u) = 4
    BY <1>10, RunIsSeq
  <2> QED
    <3>1. /\ u \o v \in Seq(AccessOf) /\ Len(u \o v) = 4 + 4
          /\ \A k \in 1 .. 4 : (u \o v)[k] = u[k]
          /\ \A k \in 1 .. 4 : (u \o v)[4 + k] = v[k]
      BY <1>10, <2>1, Four
    <3>2. 4 + 4 = 8
      OBVIOUS
    <3> QED
      BY <1>6, <3>1, <3>2
<1>12. ASSUME NEW k \in 1 .. 4, NEW l \in 1 .. 4, to[k] = to[l] PROVE k = l
  <2>1. tc[k] = tc[l]
    <3>1. to[k] = tc[k] * N + tr[k] /\ to[l] = tc[l] * N + tr[l]
      BY <1>4, Zenon
    <3>3. tc[k] * N + tr[k] = tc[l] * N + tr[l]
      BY <1>12, <3>1, Zenon
    <3>2. Collide(tr, tc, 4, k, l)
      BY <1>2, <3>3, Zenon DEF Collide
    <3> QED
      BY <3>2, SameTarget
  <2> QED
    BY <1>1, <1>4, <2>1
<1>13. Moves(xs, 4, ld, from, to, reg)
  <2>1. ASSUME NEW k \in 1 .. 4
        PROVE  xs[k] = AnAccess("L", ld[k], from[k], k) /\ xs[4 + k] = AnAccess("S", "B", to[k], reg[k])
    BY <1>4, <1>5, <1>11, SMTT(60)
  <2>2. Len(xs) = 2 * 4
    BY <1>11
  <2> QED
    BY <1>2, <1>3, <1>9, <1>11, <1>12, <2>1, <2>2, Zenon DEF Moves
<1> DEFINE b == Performed(xs)
           w == [k \in 1 .. 4 |-> Source(ld, from, reg[k])]
<1>14. Moved(b, 4, w, to) /\ 4 \in 1 .. 8
  <2>1. 4 \in 1 .. 8
    OBVIOUS
  <2> QED
    BY <1>13, <2>1, BlockMove, Zenon
<1>15. \A k \in 1 .. 4 : w[k] = from[k]
  BY <1>4, Zenon DEF Source
<1> HIDE DEF b, w
<1>19. Lands(b, 4, w, tr, tc)
  BY <1>2, <1>4, <1>14, Placed
<1>16. ASSUME NEW r \in 0 .. N - 1, NEW c \in 0 .. M - 1
       PROVE  b[c * N + r] = IF r = ii + 4 /\ c \in j + 4 .. j + 7 THEN r * M + c ELSE B[c * N + r]
  <2>1. /\ \A k \in 1 .. 4 : tr[k] = r /\ tc[k] = c => b[c * N + r] = w[k]
        /\ (\A k \in 1 .. 4 : ~ (tr[k] = r /\ tc[k] = c)) => b[c * N + r] = B[c * N + r]
    BY <1>19, Zenon DEF Lands
  <2>2. CASE r = ii + 4 /\ c \in j + 4 .. j + 7
    <3> DEFINE k == c - j - 3
    <3>1. k \in 1 .. 4 /\ j + 4 + k - 1 = c
      BY <1>1, <2>2
    <3> HIDE DEF k
    <3>2. tr[k] = r /\ tc[k] = c
      BY <1>4, <2>2, <3>1, Zenon
    <3> QED
      BY <1>4, <1>15, <2>1, <2>2, <3>1, <3>2
  <2>3. CASE ~ (r = ii + 4 /\ c \in j + 4 .. j + 7)
    <3>1. \A k \in 1 .. 4 : ~ (ii + 4 = r /\ j + 4 + k - 1 = c)
      BY <1>1, <2>3
    <3>2. ASSUME NEW k \in 1 .. 4, tr[k] = r, tc[k] = c PROVE FALSE
      <4>1. tr[k] = ii + 4 /\ tc[k] = j + 4 + k - 1
        BY <1>4, Zenon
      <4> QED
        BY <3>1, <3>2, <4>1, Zenon
    <3> QED
      BY <2>1, <2>3, <3>2, Zenon
  <2> QED
    BY <2>2, <2>3, Zenon
<1>17. b \in [Cells -> Int]
  BY <1>14 DEF Moved
<1>18. InLower(b, i, j, ii)
  BY <1>16, <1>17, Zenon DEF InLower
<1> QED
  BY <1>18 DEF b, xs
Appended(y, u, i, v) ==
    /\ y \in Seq(AccessOf) /\ Len(y) = i + 4
    /\ \A k \in 1 .. i : y[k] = u[k]
    /\ \A k \in 1 .. 4 : y[i + k] = v[k]

(* The accesses of a sequence with four appended.                          *)
LEMMA Appends ==
  ASSUME NEW i \in Nat, NEW u \in Seq(AccessOf), Len(u) = i, NEW v \in [1 .. 4 -> AccessOf]
  PROVE  Appended(u \o v, u, i, v)
BY Four, Zenon DEF Appended

(* A pass that moves eight elements.                                       *)
Distinct(tr, tc) == \A k, l \in 1 .. 8 : tr[k] = tr[l] /\ tc[k] = tc[l] => k = l
EightMoves(xs, ld, from, tr, tc, reg) ==
    /\ xs \in Seq(AccessOf) /\ Len(xs) = 16
    /\ \A k \in 1 .. 8 : /\ xs[k] = AnAccess("L", ld[k], from[k], k)
                         /\ xs[8 + k] = AnAccess("S", "B", tc[k] * N + tr[k], reg[k])

(* Eight loads and eight stores to different places, told by row and       *)
(* column.                                                                 *)
LEMMA BlockLands ==
  ASSUME <<M, N>> \in Handout, B \in [Cells -> Int],
         NEW tr \in [1 .. 8 -> 0 .. N - 1], NEW tc \in [1 .. 8 -> 0 .. M - 1],
         Distinct(tr, tc),
         NEW ld \in [1 .. 8 -> {"A", "B"}], NEW from \in [1 .. 8 -> Cells], NEW reg \in [1 .. 8 -> 1 .. 8],
         NEW xs, EightMoves(xs, ld, from, tr, tc, reg)
  PROVE  Lands(Performed(xs), 8, [k \in 1 .. 8 |-> Source(ld, from, reg[k])], tr, tc)
<1> DEFINE to == [k \in 1 .. 8 |-> tc[k] * N + tr[k]]
           w == [k \in 1 .. 8 |-> Source(ld, from, reg[k])]
<1>1. \A k \in 1 .. 8 : to[k] = tc[k] * N + tr[k]
  BY Zenon
<1>2. to = [k \in 1 .. 8 |-> to[k]]
  BY Zenon
<1> HIDE DEF to
<1>3. \A k \in 1 .. 8 : to[k] \in Cells
  <2>1. ASSUME NEW k \in 1 .. 8 PROVE to[k] \in Cells
    <3>1. tr[k] \in 0 .. N - 1 /\ tc[k] \in 0 .. M - 1
      BY Zenon
    <3> QED
      BY <1>1, <3>1, SameCell, SMTT(60)
  <2> QED
    BY <2>1
<1>4. to \in [1 .. 8 -> Cells]
  BY <1>2, <1>3
<1>5. 8 \in 1 .. 8 /\ Len(xs) = 2 * 8 /\ xs \in Seq(AccessOf)
  BY DEF EightMoves
<1>6. ASSUME NEW k \in 1 .. 8, NEW l \in 1 .. 8, to[k] = to[l] PROVE k = l
  <2>1. tr[k] = tr[l] /\ tc[k] = tc[l]
    <3>1. tc[k] * N + tr[k] = tc[l] * N + tr[l]
      BY <1>1, <1>6, Zenon
    <3>2. Collide(tr, tc, 8, k, l)
      BY <3>1, Zenon DEF Collide
    <3> QED
      BY <3>2, SameTarget
  <2> QED
    BY <2>1, Zenon DEF Distinct
<1>7. \A k \in 1 .. 8 : /\ xs[k] = AnAccess("L", ld[k], from[k], k)
                        /\ xs[8 + k] = AnAccess("S", "B", to[k], reg[k])
  BY <1>1, Zenon DEF EightMoves
<1>8. Moves(xs, 8, ld, from, to, reg)
  BY <1>4, <1>5, <1>6, <1>7, Zenon DEF Moves
<1> HIDE DEF w
<1>9. Moved(Performed(xs), 8, w, to)
  BY <1>5, <1>8, BlockMove, Zenon DEF w
<1>10. Lands(Performed(xs), 8, w, tr, tc)
  BY <1>1, <1>5, <1>9, Placed
<1> QED
  BY <1>10 DEF w

(* The upper half of a block: a row of it.                                 *)
InUpper(b, i, j, ii) ==
    /\ b \in [Cells -> Int]
    /\ \A r \in 0 .. N - 1, c \in 0 .. M - 1 :
         b[c * N + r] =
             IF c \in j .. j + 3 /\ r = ii THEN r * M + c
             ELSE IF c \in j .. j + 3 /\ r = ii + 4 THEN (r - 4) * M + (c + 4)
             ELSE B[c * N + r]

(* Upper puts half a row in place and parks the other half four columns to *)
(* the right of it.                                                        *)
LEMMA UpperPass ==
  ASSUME <<M, N>> \in Handout, B \in [Cells -> Int],
         NEW i \in 0 .. N - 8, NEW j \in 0 .. M - 8, NEW ii \in i .. i + 3
  PROVE  InUpper(Performed(Upper(i, j, ii)), i, j, ii)
<1> DEFINE xs == Upper(i, j, ii)
           tr == [k \in 1 .. 8 |-> IF k <= 4 THEN ii ELSE ii + 4]
           tc == [k \in 1 .. 8 |-> IF k <= 4 THEN j + k - 1 ELSE j + k - 5]
           ld == [k \in 1 .. 8 |-> "A"]
           from == [k \in 1 .. 8 |-> ii * M + (j + k - 1)]
           reg == [k \in 1 .. 8 |-> k]
           u == [k \in 1 .. 8 |-> LoadA(ii, j + k - 1, k)]
           v == [k \in 1 .. 4 |-> StoreB(j + k - 1, ii, k)]
           w == [k \in 1 .. 4 |-> StoreB(j + k - 1, ii + 4, k + 4)]
<1>1. M \in Int /\ N \in Int
  BY CellsOf
<1>2. tr \in [1 .. 8 -> 0 .. N - 1] /\ tc \in [1 .. 8 -> 0 .. M - 1] /\ reg \in [1 .. 8 -> 1 .. 8]
  BY <1>1
<1>3. ld \in [1 .. 8 -> {"A", "B"}]
  OBVIOUS
<1>4. \A k \in 1 .. 8 : /\ tr[k] = (IF k <= 4 THEN ii ELSE ii + 4)
                        /\ tc[k] = (IF k <= 4 THEN j + k - 1 ELSE j + k - 5)
                        /\ ld[k] = "A" /\ reg[k] = k /\ from[k] = ii * M + (j + k - 1)
  BY Zenon
<1>5. \A k \in 1 .. 8 : u[k] = AnAccess("L", "A", from[k], k)
  BY DEF LoadA, AnAccess
<1>6. /\ \A k \in 1 .. 4 : v[k] = AnAccess("S", "B", (j + k - 1) * N + ii, k)
      /\ \A k \in 1 .. 4 : w[k] = AnAccess("S", "B", (j + k - 1) * N + (ii + 4), k + 4)
  BY DEF StoreB, AnAccess
<1>7. xs = (u \o v) \o w
  BY DEF Upper
<1>8. /\ from = [k \in 1 .. 8 |-> from[k]] /\ u = [k \in 1 .. 8 |-> u[k]]
      /\ v = [k \in 1 .. 4 |-> v[k]] /\ w = [k \in 1 .. 4 |-> w[k]]
  BY Zenon
<1> HIDE DEF xs, tr, tc, ld, from, reg, u, v, w
<1>9. \A k \in 1 .. 8 : from[k] \in Cells
  <2>1. ASSUME NEW k \in 1 .. 8 PROVE from[k] \in Cells
    <3> DEFINE c == j + k - 1
    <3>1. ii \in 0 .. N - 1 /\ c \in 0 .. M - 1 /\ from[k] = ii * M + c
      BY <1>1, <1>4
    <3> HIDE DEF c
    <3> QED
      BY <3>1, SameCell
  <2> QED
    BY <2>1
<1>10. from \in [1 .. 8 -> Cells]
  BY <1>8, <1>9
<1>11. u \in [1 .. 8 -> AccessOf]
  <2>1. ASSUME NEW k \in 1 .. 8 PROVE u[k] \in AccessOf
    <3>1. from[k] \in Cells
      BY <1>9
    <3> QED
      BY <1>5, <3>1, AccessType
  <2> QED
    BY <1>8, <2>1
<1>12. ASSUME NEW k \in 1 .. 4 PROVE v[k] \in AccessOf /\ w[k] \in AccessOf
  <2> DEFINE c == j + k - 1
             a == k + 4
             q == ii + 4
  <2>1. /\ c \in 0 .. M - 1 /\ ii \in 0 .. N - 1 /\ q \in 0 .. N - 1 /\ a \in 1 .. 8 /\ k \in 1 .. 8
        /\ v[k] = AnAccess("S", "B", c * N + ii, k) /\ w[k] = AnAccess("S", "B", c * N + q, a)
    BY <1>1, <1>6
  <2> HIDE DEF c, a, q
  <2>2. c * N + ii \in Cells /\ c * N + q \in Cells
    BY <2>1, SameCell
  <2> QED
    BY <2>1, <2>2, AccessType
<1>13. v \in [1 .. 4 -> AccessOf] /\ w \in [1 .. 4 -> AccessOf]
  BY <1>8, <1>12
<1>14. /\ xs \in Seq(AccessOf) /\ Len(xs) = 16
       /\ \A k \in 1 .. 8 : xs[k] = u[k]
       /\ \A k \in 1 .. 4 : xs[8 + k] = v[k] /\ xs[12 + k] = w[k]
  <2>1. u \in Seq(AccessOf) /\ Len(u) = 8
    BY <1>11, RunIsSeq
  <2> DEFINE y == u \o v
  <2>2. Appended(y, u, 8, v)
    BY <1>13, <2>1, Appends
  <2> HIDE DEF y
  <2>3. y \in Seq(AccessOf) /\ Len(y) = 12
    BY <2>2 DEF Appended
  <2>4. Appended(y \o w, y, 12, w)
    BY <1>13, <2>3, Appends
  <2>5. xs = y \o w
    BY <1>7 DEF y
  <2>6. \A k \in 1 .. 8 : k \in 1 .. 12
    OBVIOUS
  <2>7. Appended(xs, y, 12, w)
    BY <2>4, <2>5
  <2>8. xs \in Seq(AccessOf) /\ Len(xs) = 16 /\ \A k \in 1 .. 12 : xs[k] = y[k]
    BY <2>7 DEF Appended
  <2>9. \A k \in 1 .. 4 : 8 + k \in 1 .. 12 /\ xs[12 + k] = w[k] /\ y[8 + k] = v[k]
    <3>1. \A k \in 1 .. 4 : 8 + k \in 1 .. 12
      OBVIOUS
    <3>2. \A k \in 1 .. 4 : xs[12 + k] = w[k]
      BY <2>7, Zenon DEF Appended
    <3>3. \A k \in 1 .. 4 : y[8 + k] = v[k]
      BY <2>2, Zenon DEF Appended
    <3> QED
      BY <3>1, <3>2, <3>3, Zenon
  <2>10. \A k \in 1 .. 8 : y[k] = u[k]
    BY <2>2 DEF Appended
  <2> QED
    BY <2>6, <2>8, <2>9, <2>10
<1>15. ASSUME NEW k \in 1 .. 8
       PROVE  xs[k] = AnAccess("L", ld[k], from[k], k) /\ xs[8 + k] = AnAccess("S", "B", tc[k] * N + tr[k], reg[k])
  <2>1. xs[k] = AnAccess("L", ld[k], from[k], k)
    BY <1>4, <1>5, <1>14
  <2>2. CASE k <= 4
    <3>1. k \in 1 .. 4
      BY <2>2
    <3>2. xs[8 + k] = AnAccess("S", "B", (j + k - 1) * N + ii, k)
      BY <1>6, <1>14, <3>1
    <3>3. tr[k] = ii /\ tc[k] = j + k - 1 /\ reg[k] = k
      BY <1>4, <2>2
    <3> QED
      BY <2>1, <3>2, <3>3, Zenon
  <2>3. CASE ~ (k <= 4)
    <3> DEFINE l == k - 4
    <3>1. l \in 1 .. 4 /\ 12 + l = 8 + k /\ l + 4 = k /\ j + l - 1 = j + k - 5
      BY <1>1, <2>3
    <3> HIDE DEF l
    <3>2. xs[12 + l] = AnAccess("S", "B", (j + l - 1) * N + (ii + 4), l + 4)
      BY <1>6, <1>14, <3>1
    <3>3. tr[k] = ii + 4 /\ tc[k] = j + k - 5 /\ reg[k] = k
      BY <1>4, <2>3
    <3> QED
      BY <2>1, <3>1, <3>2, <3>3, Zenon
  <2> QED
    BY <2>2, <2>3, Zenon
<1>16. ASSUME NEW k \in 1 .. 8, NEW l \in 1 .. 8, tr[k] = tr[l], tc[k] = tc[l] PROVE k = l
  <2>1. /\ tr[k] = (IF k <= 4 THEN ii ELSE ii + 4) /\ tc[k] = (IF k <= 4 THEN j + k - 1 ELSE j + k - 5)
        /\ tr[l] = (IF l <= 4 THEN ii ELSE ii + 4) /\ tc[l] = (IF l <= 4 THEN j + l - 1 ELSE j + l - 5)
    BY <1>4, Zenon
  <2>2. i \in Int /\ j \in Int /\ ii \in Int
    BY <1>1
  <2>3. /\ (IF k <= 4 THEN ii ELSE ii + 4) = (IF l <= 4 THEN ii ELSE ii + 4)
        /\ (IF k <= 4 THEN j + k - 1 ELSE j + k - 5) = (IF l <= 4 THEN j + l - 1 ELSE j + l - 5)
    BY <1>16, <2>1, Zenon
  <2> QED
    BY <2>2, <2>3
<1>22. EightMoves(xs, ld, from, tr, tc, reg)
  BY <1>14, <1>15, Zenon DEF EightMoves
<1>23. Distinct(tr, tc)
  BY <1>16, Zenon DEF Distinct
<1> DEFINE b == Performed(xs)
           val == [k \in 1 .. 8 |-> Source(ld, from, reg[k])]
<1>17. Lands(b, 8, val, tr, tc)
  BY <1>2, <1>3, <1>10, <1>22, <1>23, BlockLands
<1>18. \A k \in 1 .. 8 : val[k] = ii * M + (j + k - 1)
  BY <1>4, Zenon DEF Source
<1> HIDE DEF b, val
<1>19. ASSUME NEW r \in 0 .. N - 1, NEW c \in 0 .. M - 1
       PROVE  b[c * N + r] = IF c \in j .. j + 3 /\ r = ii THEN r * M + c
                             ELSE IF c \in j .. j + 3 /\ r = ii + 4 THEN (r - 4) * M + (c + 4)
                             ELSE B[c * N + r]
  <2>1. /\ \A k \in 1 .. 8 : tr[k] = r /\ tc[k] = c => b[c * N + r] = val[k]
        /\ (\A k \in 1 .. 8 : ~ (tr[k] = r /\ tc[k] = c)) => b[c * N + r] = B[c * N + r]
    BY <1>17, Zenon DEF Lands
  <2>2. CASE c \in j .. j + 3 /\ r = ii
    <3> DEFINE k == c - j + 1
    <3>1. k \in 1 .. 8 /\ k <= 4 /\ j + k - 1 = c
      BY <1>1, <2>2
    <3> HIDE DEF k
    <3>2. tr[k] = r /\ tc[k] = c
      BY <1>4, <2>2, <3>1, Zenon
    <3> QED
      BY <1>18, <2>1, <2>2, <3>1, <3>2
  <2>3. CASE c \in j .. j + 3 /\ r = ii + 4
    <3> DEFINE k == c - j + 5
    <3>1. k \in 1 .. 8 /\ ~ (k <= 4) /\ j + k - 5 = c /\ j + k - 1 = c + 4 /\ r # ii /\ r - 4 = ii
      BY <1>1, <2>3
    <3> HIDE DEF k
    <3>2. tr[k] = r /\ tc[k] = c
      BY <1>4, <2>3, <3>1, Zenon
    <3>3. b[c * N + r] = (r - 4) * M + (c + 4)
      BY <1>18, <2>1, <3>1, <3>2, Zenon
    <3> QED
      BY <2>3, <3>1, <3>3, Zenon
  <2>4. CASE ~ (c \in j .. j + 3 /\ (r = ii \/ r = ii + 4))
    <3>1. ASSUME NEW k \in 1 .. 8 PROVE ~ (tr[k] = r /\ tc[k] = c)
      <4>1. /\ tr[k] = (IF k <= 4 THEN ii ELSE ii + 4)
            /\ tc[k] = (IF k <= 4 THEN j + k - 1 ELSE j + k - 5)
        BY <1>4, Zenon
      <4> QED
        BY <1>1, <2>4, <4>1
    <3> QED
      BY <2>1, <2>4, <3>1, Zenon
  <2> QED
    BY <2>2, <2>3, <2>4, Zenon
<1>20. b \in [Cells -> Int]
  BY <1>17 DEF Lands
<1>21. InUpper(b, i, j, ii)
  BY <1>19, <1>20, Zenon DEF InUpper
<1> QED
  BY <1>21 DEF b, xs
(* A column of the lower left quarter: the parked elements go down, the    *)
(* ones that belong there take their place.                                *)
InMiddle(b, i, jj) ==
    /\ b \in [Cells -> Int]
    /\ \A r \in 0 .. N - 1, c \in 0 .. M - 1 :
         b[c * N + r] =
             IF c = jj /\ r \in i + 4 .. i + 7 THEN r * M + c
             ELSE IF c = jj + 4 /\ r \in i .. i + 3 THEN B[(c - 4) * N + (r + 4)]
             ELSE B[c * N + r]

(* Middle moves four parked elements down and puts four of A in their      *)
(* place, having read them before.                                         *)
LEMMA MiddlePass ==
  ASSUME <<M, N>> \in Handout, B \in [Cells -> Int],
         NEW i \in 0 .. N - 8, NEW j \in 0 .. M - 8, NEW jj \in j .. j + 3
  PROVE  InMiddle(Performed(Middle(i, j, jj)), i, jj)
<1> DEFINE xs == Middle(i, j, jj)
           tr == [k \in 1 .. 8 |-> IF k <= 4 THEN i + 4 + k - 1 ELSE i + k - 5]
           tc == [k \in 1 .. 8 |-> IF k <= 4 THEN jj ELSE jj + 4]
           ld == [k \in 1 .. 8 |-> IF k <= 4 THEN "B" ELSE "A"]
           from == [k \in 1 .. 8 |-> IF k <= 4 THEN jj * N + (i + 4 + k - 1) ELSE (i + k - 1) * M + jj]
           reg == [k \in 1 .. 8 |-> IF k <= 4 THEN k + 4 ELSE k - 4]
           u1 == [k \in 1 .. 4 |-> LoadB(jj, i + 4 + k - 1, k)]
           u2 == [k \in 1 .. 4 |-> LoadA(i + 4 + k - 1, jj, k + 4)]
           v1 == [k \in 1 .. 4 |-> StoreB(jj, i + 4 + k - 1, k + 4)]
           v2 == [k \in 1 .. 4 |-> StoreB(jj + 4, i + k - 1, k)]
<1>1. M \in Int /\ N \in Int /\ i \in Int /\ j \in Int /\ jj \in Int
  <2>1. M \in Int /\ N \in Int
    BY CellsOf
  <2> QED
    BY <2>1
<1>2. tr \in [1 .. 8 -> 0 .. N - 1] /\ tc \in [1 .. 8 -> 0 .. M - 1] /\ reg \in [1 .. 8 -> 1 .. 8]
  <2>1. ASSUME NEW k \in 1 .. 8 PROVE (IF k <= 4 THEN i + 4 + k - 1 ELSE i + k - 5) \in 0 .. N - 1
    BY <1>1
  <2>2. ASSUME NEW k \in 1 .. 8 PROVE (IF k <= 4 THEN jj ELSE jj + 4) \in 0 .. M - 1
    BY <1>1
  <2>3. ASSUME NEW k \in 1 .. 8 PROVE (IF k <= 4 THEN k + 4 ELSE k - 4) \in 1 .. 8
    OBVIOUS
  <2> QED
    BY <2>1, <2>2, <2>3, Zenon
<1>3. ld \in [1 .. 8 -> {"A", "B"}]
  OBVIOUS
<1>4. \A k \in 1 .. 8 : /\ tr[k] = (IF k <= 4 THEN i + 4 + k - 1 ELSE i + k - 5)
                        /\ tc[k] = (IF k <= 4 THEN jj ELSE jj + 4)
                        /\ ld[k] = (IF k <= 4 THEN "B" ELSE "A")
                        /\ reg[k] = (IF k <= 4 THEN k + 4 ELSE k - 4)
                        /\ from[k] = (IF k <= 4 THEN jj * N + (i + 4 + k - 1) ELSE (i + k - 1) * M + jj)
  BY Zenon
<1>5. \A k \in 1 .. 4 : /\ u1[k] = AnAccess("L", "B", jj * N + (i + 4 + k - 1), k)
                        /\ u2[k] = AnAccess("L", "A", (i + 4 + k - 1) * M + jj, k + 4)
                        /\ v1[k] = AnAccess("S", "B", jj * N + (i + 4 + k - 1), k + 4)
                        /\ v2[k] = AnAccess("S", "B", (jj + 4) * N + (i + k - 1), k)
  BY Zenon DEF LoadA, LoadB, StoreB, AnAccess
<1>7. xs = ((u1 \o u2) \o v1) \o v2
  BY DEF Middle
<1>8. /\ from = [k \in 1 .. 8 |-> from[k]]
      /\ u1 = [k \in 1 .. 4 |-> u1[k]] /\ u2 = [k \in 1 .. 4 |-> u2[k]]
      /\ v1 = [k \in 1 .. 4 |-> v1[k]] /\ v2 = [k \in 1 .. 4 |-> v2[k]]
  BY Zenon
<1> HIDE DEF xs, tr, tc, ld, from, reg, u1, u2, v1, v2
<1>9. ASSUME NEW k \in 1 .. 4
      PROVE  /\ u1[k] \in AccessOf /\ u2[k] \in AccessOf /\ v1[k] \in AccessOf /\ v2[k] \in AccessOf
             /\ jj * N + (i + 4 + k - 1) \in Cells /\ (i + 4 + k - 1) * M + jj \in Cells
  <2> DEFINE r == i + 4 + k - 1
             q == i + k - 1
             c == jj + 4
             a == k + 4
  <2>1. /\ r \in 0 .. N - 1 /\ q \in 0 .. N - 1 /\ c \in 0 .. M - 1 /\ jj \in 0 .. M - 1
        /\ k \in 1 .. 8 /\ a \in 1 .. 8
    BY <1>1
  <2>2. /\ u1[k] = AnAccess("L", "B", jj * N + r, k) /\ u2[k] = AnAccess("L", "A", r * M + jj, a)
        /\ v1[k] = AnAccess("S", "B", jj * N + r, a) /\ v2[k] = AnAccess("S", "B", c * N + q, k)
    BY <1>5, Zenon
  <2>6. jj * N + (i + 4 + k - 1) = jj * N + r /\ (i + 4 + k - 1) * M + jj = r * M + jj
    BY Zenon
  <2> HIDE DEF r, q, c, a
  <2>3. jj * N + r \in Cells /\ r * M + jj \in Cells /\ c * N + q \in Cells
    BY <2>1, SameCell
  <2>4. u1[k] \in AccessOf /\ u2[k] \in AccessOf
    BY <2>1, <2>2, <2>3, AccessType
  <2>5. v1[k] \in AccessOf /\ v2[k] \in AccessOf
    BY <2>1, <2>2, <2>3, AccessType
  <2> QED
    BY <2>3, <2>4, <2>5, <2>6, Zenon
<1>10. from \in [1 .. 8 -> Cells]
  <2>1. ASSUME NEW k \in 1 .. 8 PROVE from[k] \in Cells
    <3>1. CASE k <= 4
      <4>1. k \in 1 .. 4 /\ from[k] = jj * N + (i + 4 + k - 1)
        BY <1>4, <3>1
      <4> QED
        BY <1>9, <4>1, Zenon
    <3>2. CASE ~ (k <= 4)
      <4> DEFINE l == k - 4
      <4>1. l \in 1 .. 4 /\ i + 4 + l - 1 = i + k - 1
        BY <1>1, <3>2
      <4>2. from[k] = (i + k - 1) * M + jj
        BY <1>4, <3>2, Zenon
      <4> HIDE DEF l
      <4>3. (i + 4 + l - 1) * M + jj \in Cells
        BY <1>9, <4>1, Zenon
      <4> QED
        BY <4>1, <4>2, <4>3, Zenon
    <3> QED
      BY <3>1, <3>2, Zenon
  <2> QED
    BY <1>8, <2>1, Zenon
<1>11. /\ u1 \in [1 .. 4 -> AccessOf] /\ u2 \in [1 .. 4 -> AccessOf]
       /\ v1 \in [1 .. 4 -> AccessOf] /\ v2 \in [1 .. 4 -> AccessOf]
  BY <1>8, <1>9, Zenon
<1>14. /\ xs \in Seq(AccessOf) /\ Len(xs) = 16
       /\ \A k \in 1 .. 4 : xs[k] = u1[k] /\ xs[4 + k] = u2[k] /\ xs[8 + k] = v1[k] /\ xs[12 + k] = v2[k]
  <2>1. u1 \in Seq(AccessOf) /\ Len(u1) = 4
    BY <1>11, RunIsSeq
  <2> DEFINE y == u1 \o u2
             z == y \o v1
  <2>2. Appended(y, u1, 4, u2)
    BY <1>11, <2>1, Appends
  <2> HIDE DEF y
  <2>3. y \in Seq(AccessOf) /\ Len(y) = 8
    BY <2>2 DEF Appended
  <2>4. Appended(z, y, 8, v1)
    BY <1>11, <2>3, Appends
  <2> HIDE DEF z
  <2>5. z \in Seq(AccessOf) /\ Len(z) = 12
    BY <2>4 DEF Appended
  <2>6. Appended(z \o v2, z, 12, v2)
    BY <1>11, <2>5, Appends
  <2>7. xs = z \o v2
    BY <1>7 DEF y, z
  <2>8. Appended(xs, z, 12, v2)
    BY <2>6, <2>7
  <2>9. xs \in Seq(AccessOf) /\ Len(xs) = 16 /\ \A k \in 1 .. 12 : xs[k] = z[k]
    BY <2>8 DEF Appended
  <2>10. \A k \in 1 .. 4 : /\ 4 + k \in 1 .. 12 /\ 8 + k \in 1 .. 12 /\ k \in 1 .. 12
                           /\ 4 + k \in 1 .. 8 /\ k \in 1 .. 8
    OBVIOUS
  <2>11. /\ \A k \in 1 .. 4 : y[k] = u1[k] /\ y[4 + k] = u2[k]
         /\ \A k \in 1 .. 8 : z[k] = y[k]
         /\ \A k \in 1 .. 4 : z[8 + k] = v1[k] /\ xs[12 + k] = v2[k]
    BY <2>2, <2>4, <2>8, Zenon DEF Appended
  <2> QED
    BY <2>9, <2>10, <2>11, Zenon
<1>15. ASSUME NEW k \in 1 .. 8
       PROVE  xs[k] = AnAccess("L", ld[k], from[k], k) /\ xs[8 + k] = AnAccess("S", "B", tc[k] * N + tr[k], reg[k])
  <2>2. CASE k <= 4
    <3>1. k \in 1 .. 4
      BY <2>2
    <3>2. /\ xs[k] = AnAccess("L", "B", jj * N + (i + 4 + k - 1), k)
          /\ xs[8 + k] = AnAccess("S", "B", jj * N + (i + 4 + k - 1), k + 4)
      BY <1>5, <1>14, <3>1, Zenon
    <3>3. /\ tr[k] = i + 4 + k - 1 /\ tc[k] = jj /\ reg[k] = k + 4 /\ ld[k] = "B"
          /\ from[k] = jj * N + (i + 4 + k - 1)
      BY <1>4, <2>2, Zenon
    <3> QED
      BY <3>2, <3>3, Zenon
  <2>3. CASE ~ (k <= 4)
    <3> DEFINE l == k - 4
    <3>1. /\ l \in 1 .. 4 /\ 12 + l = 8 + k /\ 4 + l = k /\ l + 4 = k
          /\ i + l - 1 = i + k - 5 /\ i + 4 + l - 1 = i + k - 1
      BY <1>1, <2>3
    <3>3. /\ tr[k] = i + k - 5 /\ tc[k] = jj + 4 /\ reg[k] = l /\ ld[k] = "A"
          /\ from[k] = (i + k - 1) * M + jj
      BY <1>4, <2>3, Zenon
    <3> HIDE DEF l
    <3>2. /\ xs[4 + l] = AnAccess("L", "A", (i + 4 + l - 1) * M + jj, l + 4)
          /\ xs[12 + l] = AnAccess("S", "B", (jj + 4) * N + (i + l - 1), l)
      BY <1>5, <1>14, <3>1, Zenon
    <3> QED
      BY <3>1, <3>2, <3>3, Zenon
  <2> QED
    BY <2>2, <2>3, Zenon
<1>16. ASSUME NEW k \in 1 .. 8, NEW l \in 1 .. 8, tr[k] = tr[l], tc[k] = tc[l] PROVE k = l
  <2>1. /\ tr[k] = (IF k <= 4 THEN i + 4 + k - 1 ELSE i + k - 5) /\ tc[k] = (IF k <= 4 THEN jj ELSE jj + 4)
        /\ tr[l] = (IF l <= 4 THEN i + 4 + l - 1 ELSE i + l - 5) /\ tc[l] = (IF l <= 4 THEN jj ELSE jj + 4)
    BY <1>4, Zenon
  <2>3. /\ (IF k <= 4 THEN i + 4 + k - 1 ELSE i + k - 5) = (IF l <= 4 THEN i + 4 + l - 1 ELSE i + l - 5)
        /\ (IF k <= 4 THEN jj ELSE jj + 4) = (IF l <= 4 THEN jj ELSE jj + 4)
    BY <1>16, <2>1, Zenon
  <2> QED
    BY <1>1, <2>3
<1>22. EightMoves(xs, ld, from, tr, tc, reg)
  BY <1>14, <1>15, Zenon DEF EightMoves
<1>23. Distinct(tr, tc)
  BY <1>16, Zenon DEF Distinct
<1> DEFINE b == Performed(xs)
           val == [k \in 1 .. 8 |-> Source(ld, from, reg[k])]
<1>17. Lands(b, 8, val, tr, tc)
  BY <1>2, <1>3, <1>10, <1>22, <1>23, BlockLands
<1>18. ASSUME NEW k \in 1 .. 8
       PROVE  val[k] = IF k <= 4 THEN (i + k + 3) * M + jj ELSE B[jj * N + (i + k - 1)]
  <2>1. val[k] = Source(ld, from, reg[k])
    BY Zenon
  <2> HIDE DEF val
  <2>2. CASE k <= 4
    <3> DEFINE l == k + 4
    <3>1. l \in 1 .. 8 /\ ~ (l <= 4) /\ i + l - 1 = i + k + 3
      BY <1>1, <2>2
    <3>2. reg[k] = l
      BY <1>4, <2>2, Zenon
    <3> HIDE DEF l
    <3>3. ld[l] = "A" /\ from[l] = (i + l - 1) * M + jj
      BY <1>4, <3>1, Zenon
    <3> QED
      BY <2>1, <2>2, <3>1, <3>2, <3>3, Zenon DEF Source
  <2>3. CASE ~ (k <= 4)
    <3> DEFINE l == k - 4
    <3>1. l \in 1 .. 8 /\ l <= 4 /\ i + 4 + l - 1 = i + k - 1
      BY <1>1, <2>3
    <3>2. reg[k] = l
      BY <1>4, <2>3, Zenon
    <3> HIDE DEF l
    <3>3. ld[l] = "B" /\ from[l] = jj * N + (i + 4 + l - 1) /\ "B" # "A"
      BY <1>4, <3>1, Zenon
    <3> QED
      BY <2>1, <2>3, <3>1, <3>2, <3>3, Zenon DEF Source
  <2> QED
    BY <2>2, <2>3, Zenon
<1> HIDE DEF b, val
<1>19. ASSUME NEW r \in 0 .. N - 1, NEW c \in 0 .. M - 1
       PROVE  b[c * N + r] =
                  IF c = jj /\ r \in i + 4 .. i + 7 THEN r * M + c
                  ELSE IF c = jj + 4 /\ r \in i .. i + 3 THEN B[(c - 4) * N + (r + 4)]
                  ELSE B[c * N + r]
  <2>1. /\ \A k \in 1 .. 8 : tr[k] = r /\ tc[k] = c => b[c * N + r] = val[k]
        /\ (\A k \in 1 .. 8 : ~ (tr[k] = r /\ tc[k] = c)) => b[c * N + r] = B[c * N + r]
    BY <1>17, Zenon DEF Lands
  <2>2. CASE c = jj /\ r \in i + 4 .. i + 7
    <3> DEFINE k == r - i - 3
    <3>1. k \in 1 .. 8 /\ k <= 4 /\ i + 4 + k - 1 = r /\ i + k + 3 = r
      BY <1>1, <2>2
    <3> HIDE DEF k
    <3>2. tr[k] = r /\ tc[k] = c
      BY <1>4, <2>2, <3>1, Zenon
    <3>3. b[c * N + r] = r * M + c
      BY <1>18, <2>1, <2>2, <3>1, <3>2, Zenon
    <3> QED
      BY <2>2, <3>3, Zenon
  <2>3. CASE c = jj + 4 /\ r \in i .. i + 3
    <3> DEFINE k == r - i + 5
    <3>1. k \in 1 .. 8 /\ ~ (k <= 4) /\ i + k - 5 = r /\ i + k - 1 = r + 4 /\ c # jj /\ c - 4 = jj
      BY <1>1, <2>3
    <3> HIDE DEF k
    <3>2. tr[k] = r /\ tc[k] = c
      BY <1>4, <2>3, <3>1, Zenon
    <3>3. b[c * N + r] = B[(c - 4) * N + (r + 4)]
      BY <1>18, <2>1, <3>1, <3>2, Zenon
    <3> QED
      BY <2>3, <3>1, <3>3, Zenon
  <2>4. CASE ~ (c = jj /\ r \in i + 4 .. i + 7) /\ ~ (c = jj + 4 /\ r \in i .. i + 3)
    <3>1. ASSUME NEW k \in 1 .. 8, tr[k] = r, tc[k] = c PROVE FALSE
      <4>1. /\ r = (IF k <= 4 THEN i + 4 + k - 1 ELSE i + k - 5)
            /\ c = (IF k <= 4 THEN jj ELSE jj + 4)
        BY <1>4, <3>1, Zenon
      <4> QED
        BY <1>1, <2>4, <4>1
    <3> QED
      BY <2>1, <2>4, <3>1, Zenon
  <2> QED
    BY <2>2, <2>3, <2>4, Zenon
<1>20. b \in [Cells -> Int]
  BY <1>17 DEF Lands
<1>21. InMiddle(b, i, jj)
  BY <1>19, <1>20, Zenon DEF InMiddle
<1> QED
  BY <1>21 DEF b, xs
(* Quotients and remainders by the sizes of the blocks.                    *)
LEMMA Split8 ==
  ASSUME NEW x \in Nat
  PROVE  x \div 8 \in Nat /\ x % 8 \in 0 .. 7 /\ x = 8 * (x \div 8) + (x % 8)
OBVIOUS

LEMMA Split16 ==
  ASSUME NEW x \in Nat
  PROVE  x \div 16 \in Nat /\ x % 16 \in 0 .. 15 /\ x = 16 * (x \div 16) + (x % 16)
OBVIOUS

(* N = 32: the passes, numbered, are the rows of the blocks, each once.    *)
LEMMA Place32 ==
  ASSUME NEW q \in 0 .. 127
  PROVE  LET i == 8 * (q \div 32)  j == 8 * ((q \div 8) % 4)  ii == i + (q % 8)
         IN  /\ ii \in 0 .. 31 /\ j \in 0 .. 24
             /\ \A r, c \in 0 .. 31 : 32 * (r \div 8) + 8 * (c \div 8) + (r % 8) = q <=> r = ii /\ c \in j .. j + 7
<1> DEFINE I == q \div 32
           J == (q \div 8) % 4
           p == q % 8
<1>1. q \div 8 = 4 * I + J /\ I \in 0 .. 3 /\ J \in 0 .. 3 /\ p \in 0 .. 7
  OBVIOUS
<1>2. q = 32 * I + 8 * J + p
  <2>1. q = 8 * (q \div 8) + p
    OBVIOUS
  <2> QED
    BY <1>1, <2>1
<1> HIDE DEF I, J, p
<1>3. ASSUME NEW r \in 0 .. 31, NEW c \in 0 .. 31
      PROVE  32 * (r \div 8) + 8 * (c \div 8) + (r % 8) = q <=> r = 8 * I + p /\ c \in 8 * J .. 8 * J + 7
  <2>1. PICK R \in 0 .. 3, s \in 0 .. 7 : r = 8 * R + s /\ r \div 8 = R /\ r % 8 = s
    <3>1. r \div 8 \in 0 .. 3 /\ r % 8 \in 0 .. 7
      OBVIOUS
    <3> QED
      BY <3>1, Split8
  <2>2. PICK C \in 0 .. 3, d \in 0 .. 7 : c = 8 * C + d /\ c \div 8 = C
    <3>1. c \div 8 \in 0 .. 3 /\ c % 8 \in 0 .. 7
      OBVIOUS
    <3> QED
      BY <3>1, Split8
  <2>3. 32 * R + 8 * C + s = q <=> R = I /\ C = J /\ s = p
    BY <1>1, <1>2
  <2>4. r = 8 * I + p <=> R = I /\ s = p
    BY <1>1, <2>1
  <2>5. c \in 8 * J .. 8 * J + 7 <=> C = J
    BY <1>1, <2>2
  <2> QED
    BY <2>1, <2>2, <2>3, <2>4, <2>5, Zenon
<1>4. 8 * I + p \in 0 .. 31 /\ 8 * J \in 0 .. 24
  BY <1>1
<1> QED
  BY <1>3, <1>4, Zenon DEF I, J, p

(* N = 67: so are they with blocks of 16 x 16 cut off at the last column.  *)
LEMMA Place67 ==
  ASSUME NEW q \in 0 .. 319
  PROVE  LET i == 16 * (q \div 64)  j == 16 * ((q \div 16) % 4)  ii == i + (q % 16)
             m == IF j + 16 < 61 THEN 16 ELSE 61 - j
         IN  /\ ii \in 0 .. 79 /\ j \in 0 .. 60 /\ m \in 1 .. 61 - j
             /\ \A r \in 0 .. 66, c \in 0 .. 60 :
                  64 * (r \div 16) + 16 * (c \div 16) + (r % 16) = q <=> r = ii /\ c \in j .. j + m - 1
<1> DEFINE I == q \div 64
           J == (q \div 16) % 4
           p == q % 16
           m == IF 16 * J + 16 < 61 THEN 16 ELSE 61 - 16 * J
<1>1. q \div 16 = 4 * I + J /\ I \in 0 .. 4 /\ J \in 0 .. 3 /\ p \in 0 .. 15
  OBVIOUS
<1>2. q = 64 * I + 16 * J + p
  <2>1. q = 16 * (q \div 16) + p
    OBVIOUS
  <2> QED
    BY <1>1, <2>1
<1> HIDE DEF I, J, p
<1>3. ASSUME NEW r \in 0 .. 66, NEW c \in 0 .. 60
      PROVE  64 * (r \div 16) + 16 * (c \div 16) + (r % 16) = q <=> r = 16 * I + p /\ c \in 16 * J .. 16 * J + m - 1
  <2>1. PICK R \in 0 .. 4, s \in 0 .. 15 : r = 16 * R + s /\ r \div 16 = R /\ r % 16 = s
    <3>1. r \div 16 \in 0 .. 4 /\ r % 16 \in 0 .. 15
      OBVIOUS
    <3> QED
      BY <3>1, Split16
  <2>2. PICK C \in 0 .. 3, d \in 0 .. 15 : c = 16 * C + d /\ c \div 16 = C
    <3>1. c \div 16 \in 0 .. 3 /\ c % 16 \in 0 .. 15
      OBVIOUS
    <3> QED
      BY <3>1, Split16
  <2>3. 64 * R + 16 * C + s = q <=> R = I /\ C = J /\ s = p
    BY <1>1, <1>2
  <2>4. r = 16 * I + p <=> R = I /\ s = p
    BY <1>1, <2>1
  <2>5. c \in 16 * J .. 16 * J + m - 1 <=> C = J
    BY <1>1, <2>2
  <2> HIDE DEF m
  <2> QED
    BY <2>1, <2>2, <2>3, <2>4, <2>5, Zenon
<1>4. 16 * I + p \in 0 .. 79 /\ 16 * J \in 0 .. 60 /\ m \in 1 .. 61 - 16 * J
  BY <1>1
<1> QED
  BY <1>3, <1>4, Zenon DEF I, J, p

(* N = 64: a pass belongs to one block, and is one of twelve over it.      *)
LEMMA Place64 ==
  ASSUME NEW q \in 0 .. 767
  PROVE  LET I == q \div 96  J == (q \div 12) % 8  p == q % 12
         IN  I \in 0 .. 7 /\ J \in 0 .. 7 /\ p \in 0 .. 11 /\ q = 96 * I + 12 * J + p
<1> DEFINE I == q \div 96
           J == (q \div 12) % 8
           p == q % 12
<1>1. q \div 12 = 8 * I + J /\ I \in 0 .. 7 /\ J \in 0 .. 7 /\ p \in 0 .. 11
  OBVIOUS
<1>2. q = 96 * I + 12 * J + p
  <2>1. q = 12 * (q \div 12) + p
    OBVIOUS
  <2> QED
    BY <1>1, <2>1
<1> QED
  BY <1>1, <1>2
(* Where the element in row s and column d of a block of A stands after t  *)
(* passes over the block, N = 64.                                          *)
Stands(t, s, d) ==
    IF s < 4
    THEN IF t > (IF d < 4 THEN s ELSE d) THEN "right" ELSE "junk"
    ELSE IF d < 4
         THEN IF t > d + 4 THEN "right" ELSE IF t > s - 4 THEN "parked" ELSE "junk"
         ELSE IF t > s + 4 THEN "right" ELSE "junk"
Holds64(st, r, c) ==
    IF st = "right" THEN r * M + c ELSE IF st = "parked" THEN (r - 4) * M + (c + 4) ELSE Junk
Expected64(k, r, c) == Holds64(Stands(k - 12 * (8 * (r \div 8) + c \div 8), r % 8, c % 8), r, c)

(* B[c][r] after k passes.                                                 *)
Expected(k, r, c) ==
    IF func_list[func] = "trans" THEN IF r < k THEN r * M + c ELSE Junk
    ELSE IF N = 32 THEN IF 32 * (r \div 8) + 8 * (c \div 8) + (r % 8) < k THEN r * M + c ELSE Junk
    ELSE IF N = 67 THEN IF 64 * (r \div 16) + 16 * (c \div 16) + (r % 16) < k THEN r * M + c ELSE Junk
    ELSE Expected64(k, r, c)
AsExpected(b, k) ==
    /\ b \in [Cells -> Int]
    /\ \A r \in 0 .. N - 1, c \in 0 .. M - 1 : b[c * N + r] = Expected(k, r, c)

(* What each of the twelve passes over a block changes, and that a pass    *)
(* over another block changes nothing.                                     *)
LEMMA StandsNext ==
  ASSUME NEW t \in Int, NEW s \in 0 .. 7, NEW d \in 0 .. 7
  PROVE  /\ t \notin 0 .. 11 => Stands(t + 1, s, d) = Stands(t, s, d)
         /\ t \in 0 .. 3 => Stands(t + 1, s, d) = IF d < 4 /\ s = t THEN "right"
                                                  ELSE IF d < 4 /\ s = t + 4 THEN "parked"
                                                  ELSE Stands(t, s, d)
         /\ t \in 4 .. 7 => Stands(t + 1, s, d) = IF (d = t - 4 /\ s >= 4) \/ (d = t /\ s < 4) THEN "right"
                                                  ELSE Stands(t, s, d)
         /\ t \in 8 .. 11 => Stands(t + 1, s, d) = IF d >= 4 /\ s = t - 4 THEN "right" ELSE Stands(t, s, d)
         /\ t \in 4 .. 7 /\ s >= 4 /\ d = t - 4 => Stands(t, s, d) = "parked"
         /\ Stands(t, s, d) = "right" => Stands(t + 1, s, d) = "right"
         /\ t <= 0 => Stands(t, s, d) = "junk"
         /\ t >= 12 => Stands(t, s, d) = "right"
<1>1. /\ t \notin 0 .. 11 => Stands(t + 1, s, d) = Stands(t, s, d)
      /\ t \in 4 .. 7 /\ s >= 4 /\ d = t - 4 => Stands(t, s, d) = "parked"
      /\ t <= 0 => Stands(t, s, d) = "junk"
      /\ t >= 12 => Stands(t, s, d) = "right"
  BY DEF Stands
<1>2. ASSUME t \in 0 .. 3
      PROVE  Stands(t + 1, s, d) = IF d < 4 /\ s = t THEN "right"
                                   ELSE IF d < 4 /\ s = t + 4 THEN "parked"
                                   ELSE Stands(t, s, d)
  BY <1>2 DEF Stands
<1>3. ASSUME t \in 4 .. 7
      PROVE  Stands(t + 1, s, d) = IF (d = t - 4 /\ s >= 4) \/ (d = t /\ s < 4) THEN "right"
                                   ELSE Stands(t, s, d)
  <2>1. CASE s < 4 /\ d < 4
    BY <1>3, <2>1 DEF Stands
  <2>2. CASE s < 4 /\ ~ (d < 4)
    BY <1>3, <2>2 DEF Stands
  <2>3. CASE ~ (s < 4) /\ d < 4
    <3>1. /\ Stands(t + 1, s, d) = IF t + 1 > d + 4 THEN "right" ELSE "parked"
          /\ Stands(t, s, d) = IF t > d + 4 THEN "right" ELSE "parked"
      BY <1>3, <2>3 DEF Stands
    <3>2. CASE d = t - 4
      <4>1. t + 1 > d + 4 /\ s >= 4
        BY <1>3, <2>3, <3>2
      <4> QED
        BY <3>1, <3>2, <4>1, Zenon
    <3>3. CASE d # t - 4
      <4>1. t + 1 > d + 4 <=> t > d + 4
        BY <1>3, <3>3
      <4>2. ~ (d = t /\ s < 4) /\ ~ (d = t - 4 /\ s >= 4)
        BY <2>3, <3>3
      <4> QED
        BY <3>1, <4>1, <4>2, Zenon
    <3> QED
      BY <3>2, <3>3, Zenon
  <2>4. CASE ~ (s < 4) /\ ~ (d < 4)
    BY <1>3, <2>4 DEF Stands
  <2> QED
    BY <2>1, <2>2, <2>3, <2>4, Zenon
<1>4. ASSUME t \in 8 .. 11
      PROVE  Stands(t + 1, s, d) = IF d >= 4 /\ s = t - 4 THEN "right" ELSE Stands(t, s, d)
  BY <1>4 DEF Stands
<1>5. ASSUME Stands(t, s, d) = "right" PROVE Stands(t + 1, s, d) = "right"
  BY <1>5 DEF Stands
<1> QED
  BY <1>1, <1>2, <1>3, <1>4, <1>5, Zenon

(* The closed form, with block and place in the block at hand.             *)
InPlace(r, c, R, C, s, d) ==
    /\ R \in 0 .. 7 /\ C \in 0 .. 7 /\ s \in 0 .. 7 /\ d \in 0 .. 7
    /\ r = 8 * R + s /\ c = 8 * C + d
Closed64(r, c, R, C, s, d) ==
    \A k : Expected64(k, r, c) = Holds64(Stands(k - 12 * (8 * R + C), s, d), r, c)
LEMMA Expected64Is ==
  ASSUME NEW r, NEW c, NEW R, NEW C, NEW s, NEW d, InPlace(r, c, R, C, s, d)
  PROVE  Closed64(r, c, R, C, s, d)
<1>1. r \div 8 = R /\ r % 8 = s /\ c \div 8 = C /\ c % 8 = d
  BY DEF InPlace
<1> QED
  BY <1>1, Zenon DEF Expected64, Closed64

(* A row or column lies in one block.                                      *)
LEMMA Coords ==
  ASSUME NEW x \in 0 .. 63
  PROVE  \E R \in 0 .. 7, s \in 0 .. 7 : x = 8 * R + s
<1>1. x \div 8 \in 0 .. 7 /\ x % 8 \in 0 .. 7 /\ x = 8 * (x \div 8) + (x % 8)
  OBVIOUS
<1> QED
  BY <1>1

(* An element before and after pass q, in the block R, C.                  *)
Line64 == 0 .. 63
PassOf(q, I, J, p, kind) == I \in 0 .. 7 /\ J \in 0 .. 7 /\ p \in kind /\ q = 96 * I + 12 * J + p
AtSpot(q, r, c, R, C, s, d, t) ==
    /\ r = 8 * R + s /\ c = 8 * C + d /\ t = q - 12 * (8 * R + C)
    /\ Expected64(q, r, c) = Holds64(Stands(t, s, d), r, c)
    /\ Expected64(q + 1, r, c) = Holds64(Stands(t + 1, s, d), r, c)
LEMMA Spot64 ==
  ASSUME NEW q \in Nat, NEW r \in Line64, NEW c \in Line64
  PROVE  \E R, C, s, d \in 0 .. 7, t \in Int : AtSpot(q, r, c, R, C, s, d, t)
<1>1. PICK R \in 0 .. 7, s \in 0 .. 7 : r = 8 * R + s
  BY Coords DEF Line64
<1>2. PICK C \in 0 .. 7, d \in 0 .. 7 : c = 8 * C + d
  BY Coords DEF Line64
<1>3. \A k : Expected64(k, r, c) = Holds64(Stands(k - 12 * (8 * R + C), s, d), r, c)
  <2>1. InPlace(r, c, R, C, s, d)
    BY <1>1, <1>2, Zenon DEF InPlace
  <2>2. Closed64(r, c, R, C, s, d)
    BY <2>1, Expected64Is
  <2> QED
    BY <2>2, Zenon DEF Closed64
<1> DEFINE t == q - 12 * (8 * R + C)
<1>4. q + 1 - 12 * (8 * R + C) = t + 1 /\ t \in Int
  OBVIOUS
<1>5. Expected64(q, r, c) = Holds64(Stands(t, s, d), r, c)
  BY <1>3, Zenon
<1> HIDE DEF t
<1>6. Expected64(q + 1, r, c) = Holds64(Stands(t + 1, s, d), r, c)
  <2>1. Expected64(q + 1, r, c) = Holds64(Stands(q + 1 - 12 * (8 * R + C), s, d), r, c)
    <3> DEFINE k == q + 1
    <3> HIDE DEF k
    <3>1. Expected64(k, r, c) = Holds64(Stands(k - 12 * (8 * R + C), s, d), r, c)
      BY <1>3, Zenon
    <3> QED
      BY <3>1 DEF k
  <2> QED
    BY <1>4, <2>1
<1>7. t = q - 12 * (8 * R + C)
  BY Zenon DEF t
<1>8. AtSpot(q, r, c, R, C, s, d, t)
  BY <1>1, <1>2, <1>5, <1>6, <1>7, Zenon DEF AtSpot
<1>9. t \in Int
  BY <1>4, Zenon
<1> QED
  BY <1>8, <1>9, Zenon

Square == M = 64 /\ N = 64
Written64(b, q) == \A r, c \in Line64 : b[c * N + r] = Expected64(q, r, c)

(* Passes of each kind over the block I, J.                                *)
LEMMA UpperStep ==
  ASSUME NEW q, NEW I, NEW J, NEW p, PassOf(q, I, J, p, 0 .. 3),
         Square, NEW b, InUpper(b, 8 * I, 8 * J, 8 * I + p),
         NEW r \in Line64, NEW c \in Line64, Written64(B, q)
  PROVE  b[c * N + r] = Expected64(q + 1, r, c)
<1>0. I \in 0 .. 7 /\ J \in 0 .. 7 /\ p \in 0 .. 3 /\ q = 96 * I + 12 * J + p
  BY Zenon DEF PassOf
<1> USE <1>0
<1>1. PICK R, C, s, d \in 0 .. 7, t \in Int :
           /\ r = 8 * R + s /\ c = 8 * C + d /\ t = q - 12 * (8 * R + C)
           /\ Expected64(q, r, c) = Holds64(Stands(t, s, d), r, c)
           /\ Expected64(q + 1, r, c) = Holds64(Stands(t + 1, s, d), r, c)
  <2>1. q \in Nat
    OBVIOUS
  <2> QED
    BY <2>1, Spot64, ZenonT(60) DEF AtSpot
<1> DEFINE i == 8 * I
           j == 8 * J
           ii == 8 * I + p
<1>2. /\ (R = I /\ C = J) => t = p
      /\ ~ (R = I /\ C = J) => t \notin 0 .. 11
  BY <1>1
<1>3. /\ c \in j .. j + 3 <=> C = J /\ d < 4
      /\ r = ii <=> R = I /\ s = p
      /\ r = ii + 4 <=> R = I /\ s = p + 4
  BY <1>1
<1>4. r \in 0 .. N - 1 /\ c \in 0 .. M - 1
  BY DEF Square, Line64
<1>5. InUpper(b, i, j, ii)
  OBVIOUS
<1> HIDE DEF i, j, ii
<1>6. /\ t \in Int
      /\ Expected64(q, r, c) = Holds64(Stands(t, s, d), r, c)
      /\ Expected64(q + 1, r, c) = Holds64(Stands(t + 1, s, d), r, c)
  BY <1>1, Zenon
<1>7. b[c * N + r] = IF c \in j .. j + 3 /\ r = ii THEN r * M + c
                     ELSE IF c \in j .. j + 3 /\ r = ii + 4 THEN (r - 4) * M + (c + 4)
                     ELSE B[c * N + r]
  BY <1>4, <1>5, Zenon DEF InUpper
<1>8. Stands(t + 1, s, d) = IF c \in j .. j + 3 /\ r = ii THEN "right"
                            ELSE IF c \in j .. j + 3 /\ r = ii + 4 THEN "parked"
                            ELSE Stands(t, s, d)
  <2>1. CASE R = I /\ C = J
    <3>1. t \in 0 .. 3 /\ t = p
      BY <1>2, <2>1
    <3>2. Stands(t + 1, s, d) = IF d < 4 /\ s = t THEN "right"
                                ELSE IF d < 4 /\ s = t + 4 THEN "parked"
                                ELSE Stands(t, s, d)
      BY <1>6, <3>1, StandsNext, SMTT(60)
    <3> QED
      BY <1>3, <2>1, <3>1, <3>2, Zenon
  <2>2. CASE ~ (R = I /\ C = J)
    <3>1. Stands(t + 1, s, d) = Stands(t, s, d)
      BY <1>2, <1>6, <2>2, StandsNext
    <3> QED
      BY <1>3, <2>2, <3>1, Zenon
  <2> QED
    BY <2>1, <2>2, Zenon
<1> DEFINE now == Stands(t, s, d)
           next == Stands(t + 1, s, d)
           here == c * N + r
           value == r * M + c
           parked == (r - 4) * M + (c + 4)
<1>9. /\ B[here] = Holds64(now, r, c)
      /\ "parked" # "right"
  BY <1>6, Zenon DEF Written64
<1> HIDE DEF now
<1>10. b[here] = Holds64(next, r, c)
  BY <1>7, <1>8, <1>9, Zenon DEF Holds64, now
<1> QED
  BY <1>6, <1>10, Zenon

(* The third kind of pass.                                                 *)
LEMMA LowerStep ==
  ASSUME NEW q, NEW I, NEW J, NEW p, PassOf(q, I, J, p, 8 .. 11),
         Square, NEW b, InLower(b, 8 * I, 8 * J, 8 * I + p - 8),
         NEW r \in Line64, NEW c \in Line64, Written64(B, q)
  PROVE  b[c * N + r] = Expected64(q + 1, r, c)
<1>0. I \in 0 .. 7 /\ J \in 0 .. 7 /\ p \in 8 .. 11 /\ q = 96 * I + 12 * J + p
  BY Zenon DEF PassOf
<1> USE <1>0
<1>1. PICK R, C, s, d \in 0 .. 7, t \in Int :
           /\ r = 8 * R + s /\ c = 8 * C + d /\ t = q - 12 * (8 * R + C)
           /\ Expected64(q, r, c) = Holds64(Stands(t, s, d), r, c)
           /\ Expected64(q + 1, r, c) = Holds64(Stands(t + 1, s, d), r, c)
  <2>1. q \in Nat
    OBVIOUS
  <2> QED
    BY <2>1, Spot64, ZenonT(60) DEF AtSpot
<1> DEFINE i == 8 * I
           j == 8 * J
           ii == 8 * I + p - 8
<1>2. /\ (R = I /\ C = J) => t = p
      /\ ~ (R = I /\ C = J) => t \notin 0 .. 11
  BY <1>1
<1>3. /\ c \in j + 4 .. j + 7 <=> C = J /\ d >= 4
      /\ r = ii + 4 <=> R = I /\ s = p - 4
  BY <1>1
<1>4. r \in 0 .. N - 1 /\ c \in 0 .. M - 1
  BY DEF Square, Line64
<1>5. InLower(b, i, j, ii)
  OBVIOUS
<1> HIDE DEF i, j, ii
<1>6. /\ t \in Int
      /\ Expected64(q, r, c) = Holds64(Stands(t, s, d), r, c)
      /\ Expected64(q + 1, r, c) = Holds64(Stands(t + 1, s, d), r, c)
  BY <1>1, Zenon
<1>7. b[c * N + r] = IF r = ii + 4 /\ c \in j + 4 .. j + 7 THEN r * M + c ELSE B[c * N + r]
  BY <1>4, <1>5, Zenon DEF InLower
<1>8. Stands(t + 1, s, d) = IF r = ii + 4 /\ c \in j + 4 .. j + 7 THEN "right" ELSE Stands(t, s, d)
  <2>1. CASE R = I /\ C = J
    <3>1. t \in 8 .. 11 /\ t = p
      BY <1>2, <2>1
    <3>2. Stands(t + 1, s, d) = IF d >= 4 /\ s = t - 4 THEN "right" ELSE Stands(t, s, d)
      BY <1>6, <3>1, StandsNext, SMTT(60)
    <3> QED
      BY <1>3, <2>1, <3>1, <3>2, Zenon
  <2>2. CASE ~ (R = I /\ C = J)
    <3>1. Stands(t + 1, s, d) = Stands(t, s, d)
      BY <1>2, <1>6, <2>2, StandsNext
    <3> QED
      BY <1>3, <2>2, <3>1, Zenon
  <2> QED
    BY <2>1, <2>2, Zenon
<1>10. b[c * N + r] = Holds64(Stands(t + 1, s, d), r, c)
  <2> DEFINE now == Stands(t, s, d)
             next == Stands(t + 1, s, d)
  <2>1. B[c * N + r] = Holds64(now, r, c)
    BY <1>6, Zenon DEF Written64
  <2>2. next = IF r = ii + 4 /\ c \in j + 4 .. j + 7 THEN "right" ELSE now
    BY <1>8, Zenon
  <2> HIDE DEF now, next
  <2>3. b[c * N + r] = Holds64(next, r, c)
    BY <1>7, <2>1, <2>2, Zenon DEF Holds64
  <2> QED
    BY <2>3, Zenon DEF next
<1> QED
  BY <1>6, <1>10, Zenon

(* The second kind: what it moves is what the first kind has parked.       *)
LEMMA MiddleStep ==
  ASSUME NEW q, NEW I, NEW J, NEW p, PassOf(q, I, J, p, 4 .. 7),
         Square, NEW b, InMiddle(b, 8 * I, 8 * J + p - 4),
         Written64(B, q),
         NEW r \in Line64, NEW c \in Line64
  PROVE  b[c * N + r] = Expected64(q + 1, r, c)
<1>0. I \in 0 .. 7 /\ J \in 0 .. 7 /\ p \in 4 .. 7 /\ q = 96 * I + 12 * J + p
  BY Zenon DEF PassOf
<1> USE <1>0
<1>11. q \in Nat
  OBVIOUS
<1>1. PICK R, C, s, d \in 0 .. 7, t \in Int :
           /\ r = 8 * R + s /\ c = 8 * C + d /\ t = q - 12 * (8 * R + C)
           /\ Expected64(q, r, c) = Holds64(Stands(t, s, d), r, c)
           /\ Expected64(q + 1, r, c) = Holds64(Stands(t + 1, s, d), r, c)
  BY <1>11, Spot64, ZenonT(60) DEF AtSpot
<1> DEFINE i == 8 * I
           jj == 8 * J + p - 4
<1>2. /\ (R = I /\ C = J) => t = p
      /\ ~ (R = I /\ C = J) => t \notin 0 .. 11
  BY <1>1
<1>3. /\ c = jj <=> C = J /\ d = p - 4
      /\ c = jj + 4 <=> C = J /\ d = p
      /\ r \in i + 4 .. i + 7 <=> R = I /\ s >= 4
      /\ r \in i .. i + 3 <=> R = I /\ s < 4
  BY <1>1
<1>4. r \in 0 .. N - 1 /\ c \in 0 .. M - 1
  BY DEF Square, Line64
<1>5. InMiddle(b, i, jj)
  OBVIOUS
<1> HIDE DEF i, jj
<1>6. /\ t \in Int
      /\ Expected64(q, r, c) = Holds64(Stands(t, s, d), r, c)
      /\ Expected64(q + 1, r, c) = Holds64(Stands(t + 1, s, d), r, c)
  BY <1>1, Zenon
<1>7. b[c * N + r] = IF c = jj /\ r \in i + 4 .. i + 7 THEN r * M + c
                     ELSE IF c = jj + 4 /\ r \in i .. i + 3 THEN B[(c - 4) * N + (r + 4)]
                     ELSE B[c * N + r]
  BY <1>4, <1>5, Zenon DEF InMiddle
<1>8. Stands(t + 1, s, d) = IF (c = jj /\ r \in i + 4 .. i + 7) \/ (c = jj + 4 /\ r \in i .. i + 3) THEN "right"
                            ELSE Stands(t, s, d)
  <2>1. CASE R = I /\ C = J
    <3>1. t \in 4 .. 7 /\ t = p
      BY <1>2, <2>1
    <3>2. Stands(t + 1, s, d) = IF (d = t - 4 /\ s >= 4) \/ (d = t /\ s < 4) THEN "right" ELSE Stands(t, s, d)
      BY <1>6, <3>1, StandsNext, SMTT(60)
    <3> QED
      BY <1>3, <2>1, <3>1, <3>2, Zenon
  <2>2. CASE ~ (R = I /\ C = J)
    <3>1. Stands(t + 1, s, d) = Stands(t, s, d)
      BY <1>2, <1>6, <2>2, StandsNext
    <3> QED
      BY <1>3, <2>2, <3>1, Zenon
  <2> QED
    BY <2>1, <2>2, Zenon
<1>9. ASSUME c = jj + 4, r \in i .. i + 3 PROVE B[(c - 4) * N + (r + 4)] = r * M + c
  <2> DEFINE r4 == r + 4
             c4 == c - 4
             s4 == s + 4
             d4 == d - 4
  <2>1. R = I /\ C = J /\ d = p /\ s < 4
    BY <1>3, <1>9, Zenon
  <2>2. /\ r4 \in Line64 /\ c4 \in Line64 /\ s4 \in 0 .. 7 /\ d4 \in 0 .. 7
        /\ r4 = 8 * R + s4 /\ c4 = 8 * C + d4 /\ s4 >= 4 /\ d4 = p - 4
        /\ r4 - 4 = r /\ c4 + 4 = c
    BY <1>1, <2>1 DEF Line64
  <2>3. t = p /\ t \in 4 .. 7
    BY <1>2, <2>1
  <2> HIDE DEF r4, c4, s4, d4
  <2>4. B[c4 * N + r4] = Expected64(q, r4, c4)
    BY <2>2, ZenonT(60) DEF Written64
  <2>5. Expected64(q, r4, c4) = Holds64(Stands(t, s4, d4), r4, c4)
    <3>2. \A k : Expected64(k, r4, c4) = Holds64(Stands(k - 12 * (8 * R + C), s4, d4), r4, c4)
      <4>1. InPlace(r4, c4, R, C, s4, d4)
        BY <1>1, <2>2, Zenon DEF InPlace
      <4>2. Closed64(r4, c4, R, C, s4, d4)
        BY <4>1, Expected64Is
      <4> QED
        BY <4>2, Zenon DEF Closed64
    <3>1. Expected64(q, r4, c4) = Holds64(Stands(q - 12 * (8 * R + C), s4, d4), r4, c4)
      BY <3>2, Zenon
    <3> QED
      BY <1>1, <3>1, Zenon
  <2>6. Stands(t, s4, d4) = "parked"
    BY <1>6, <2>2, <2>3, StandsNext
  <2>7. "parked" # "right"
    OBVIOUS
  <2>8. B[c4 * N + r4] = r * M + c
    BY <2>2, <2>4, <2>5, <2>6, <2>7, Zenon DEF Holds64
  <2> QED
    BY <2>8, Zenon DEF c4, r4
<1>10. b[c * N + r] = Holds64(Stands(t + 1, s, d), r, c)
  <2> DEFINE now == Stands(t, s, d)
             next == Stands(t + 1, s, d)
  <2>1. B[c * N + r] = Holds64(now, r, c)
    BY <1>6, Zenon DEF Written64
  <2>2. next = IF (c = jj /\ r \in i + 4 .. i + 7) \/ (c = jj + 4 /\ r \in i .. i + 3) THEN "right" ELSE now
    BY <1>8, Zenon
  <2> HIDE DEF now, next
  <2>3. b[c * N + r] = Holds64(next, r, c)
    <3>1. CASE c = jj /\ r \in i + 4 .. i + 7
      <4>1. b[c * N + r] = r * M + c /\ next = "right"
        BY <1>7, <2>2, <3>1, Zenon
      <4> QED
        BY <4>1, Zenon DEF Holds64
    <3>2. CASE ~ (c = jj /\ r \in i + 4 .. i + 7) /\ c = jj + 4 /\ r \in i .. i + 3
      <4>1. b[c * N + r] = B[(c - 4) * N + (r + 4)] /\ next = "right"
        BY <1>7, <2>2, <3>2, Zenon
      <4> QED
        BY <1>9, <3>2, <4>1, Zenon DEF Holds64
    <3>3. CASE ~ (c = jj /\ r \in i + 4 .. i + 7) /\ ~ (c = jj + 4 /\ r \in i .. i + 3)
      <4>1. b[c * N + r] = B[c * N + r] /\ next = now
        BY <1>7, <2>2, <3>3, Zenon
      <4> QED
        BY <2>1, <4>1, Zenon
    <3> QED
      BY <3>1, <3>2, <3>3, Zenon
  <2> QED
    BY <2>3, Zenon DEF next
<1> QED
  BY <1>6, <1>10, Zenon

(* Every pass for N = 64 takes the matrix from one closed form to the      *)
(* next.                                                                   *)
LEMMA Step64 ==
  ASSUME Square, B \in [Cells -> Int], NEW q \in 0 .. 767,
         Written64(B, q)
  PROVE  /\ Performed(Pass64(q)) \in [Cells -> Int]
         /\ Written64(Performed(Pass64(q)), q + 1)
<1> DEFINE I == q \div 96
           J == (q \div 12) % 8
           p == q % 12
           i == 8 * I
           j == 8 * J
           b == Performed(Pass64(q))
<1>1. I \in 0 .. 7 /\ J \in 0 .. 7 /\ p \in 0 .. 11 /\ q = 96 * I + 12 * J + p
  BY Place64
<1>2. <<M, N>> \in Handout
  BY Zenon DEF Handout, Square
<1>3. Pass64(q) = CASE p < 4 -> Upper(i, j, i + p)
          [] p \in 4 .. 7 -> Middle(i, j, j + p - 4)
          [] p > 7 -> Lower(i, j, i + p - 8)
  BY Zenon DEF Pass64
<1> HIDE DEF I, J, p
<1>4. i \in 0 .. N - 8 /\ j \in 0 .. M - 8
  BY <1>1 DEF Square
<1> HIDE DEF b
<1>6. CASE p < 4
  <2> DEFINE ii == i + p
  <2>1. ii \in i .. i + 3 /\ p \in 0 .. 3
    BY <1>1, <1>6
  <2>2. Pass64(q) = Upper(i, j, ii)
    BY <1>1, <1>3, <1>6
  <2> HIDE DEF ii
  <2>3. InUpper(b, i, j, ii)
    BY <1>2, <1>4, <2>1, <2>2, UpperPass DEF b
  <2>4. InUpper(b, 8 * I, 8 * J, 8 * I + p)
    BY <2>3, Zenon DEF ii
  <2>5. PassOf(q, I, J, p, 0 .. 3)
    BY <1>1, <2>1, Zenon DEF PassOf
  <2>6. ASSUME NEW r \in Line64, NEW c \in Line64
        PROVE  b[c * N + r] = Expected64(q + 1, r, c)
    BY <2>4, <2>5, UpperStep
  <2> QED
    BY <2>3, <2>6, Zenon DEF b, InUpper, Written64
<1>7. CASE p \in 4 .. 7
  <2> DEFINE jj == j + p - 4
  <2>1. jj \in j .. j + 3
    BY <1>1, <1>7
  <2>2. Pass64(q) = Middle(i, j, jj)
    BY <1>1, <1>3, <1>7
  <2> HIDE DEF jj
  <2>3. InMiddle(b, i, jj)
    BY <1>2, <1>4, <2>1, <2>2, MiddlePass DEF b
  <2>4. InMiddle(b, 8 * I, 8 * J + p - 4)
    BY <2>3, Zenon DEF jj
  <2>5. PassOf(q, I, J, p, 4 .. 7)
    BY <1>1, <1>7, Zenon DEF PassOf
  <2>6. ASSUME NEW r \in Line64, NEW c \in Line64
        PROVE  b[c * N + r] = Expected64(q + 1, r, c)
    BY <2>4, <2>5, MiddleStep
  <2> QED
    BY <2>3, <2>6, Zenon DEF b, InMiddle, Written64
<1>8. CASE p > 7
  <2> DEFINE ii == i + p - 8
  <2>1. ii \in i .. i + 3 /\ p \in 8 .. 11
    BY <1>1, <1>8
  <2>2. Pass64(q) = Lower(i, j, ii)
    BY <1>1, <1>3, <1>8
  <2> HIDE DEF ii
  <2>3. InLower(b, i, j, ii)
    BY <1>2, <1>4, <2>1, <2>2, LowerPass DEF b
  <2>4. InLower(b, 8 * I, 8 * J, 8 * I + p - 8)
    BY <2>3, Zenon DEF ii
  <2>5. PassOf(q, I, J, p, 8 .. 11)
    BY <1>1, <2>1, Zenon DEF PassOf
  <2>6. ASSUME NEW r \in Line64, NEW c \in Line64
        PROVE  b[c * N + r] = Expected64(q + 1, r, c)
    BY <2>4, <2>5, LowerStep
  <2> QED
    BY <2>3, <2>6, Zenon DEF b, InLower, Written64
<1> QED
  BY <1>1, <1>6, <1>7, <1>8

submits == func_list[func] # "trans"

(* So does a pass of trans, row by row.                                    *)
LEMMA PassTrans ==
  ASSUME <<M, N>> \in Handout, ~ submits, NEW k \in 0 .. N - 1, AsExpected(B, k)
  PROVE  AsExpected(Performed(Pass(k)), k + 1)
<1> DEFINE ps == [c \in 1 .. M |-> Copy(k, c - 1)]
           b == Performed(FlattenSeq(ps))
<1>1. M \in Nat \ {0} /\ N \in Nat \ {0} /\ k \in Nat /\ 0 \in 0 .. M - 1 /\ M \in 1 .. M - 0
  <2>1. M \in Nat \ {0} /\ N \in Nat \ {0}
    BY CellsOf
  <2> QED
    BY <2>1
<1>2. ps = [c \in 1 .. M |-> Copy(k, 0 + c - 1)]
  <2>1. \A c \in 1 .. M : c - 1 = 0 + c - 1
    OBVIOUS
  <2> QED
    BY <2>1, Zenon
<1>3. Performed(Pass(k)) = b
  BY Zenon DEF Pass, submits
<1> HIDE DEF ps
<1>4. InRow(b, k, 0, M)
  <2>1. B \in [Cells -> Int]
    BY Zenon DEF AsExpected
  <2> QED
    BY <1>1, <1>2, <2>1, RowPass, Zenon
<1> HIDE DEF b
<1>5. ASSUME NEW r \in 0 .. N - 1, NEW c \in 0 .. M - 1
      PROVE  b[c * N + r] = Expected(k + 1, r, c)
  <2>1. B[c * N + r] = IF r < k THEN r * M + c ELSE Junk
    BY Zenon DEF AsExpected, Expected, submits
  <2>2. Expected(k + 1, r, c) = IF r < k + 1 THEN r * M + c ELSE Junk
    BY Zenon DEF Expected, submits
  <2>3. c \in 0 .. 0 + M - 1
    BY <1>1
  <2>4. b[c * N + r] = IF r = k THEN r * M + c ELSE B[c * N + r]
    BY <1>4, <2>3, Zenon DEF InRow
  <2>5. r < k + 1 <=> (r < k \/ r = k)
    BY <1>1
  <2>6. CASE r < k + 1 /\ r = k
    <3>1. b[c * N + r] = r * M + c
      BY <2>4, <2>6, Zenon
    <3> QED
      BY <2>2, <2>6, <3>1, Zenon
  <2>7. CASE r < k + 1 /\ r # k
    <3>1. r < k
      BY <2>5, <2>7, Zenon
    <3>2. b[c * N + r] = r * M + c
      BY <2>1, <2>4, <2>7, <3>1, Zenon
    <3> QED
      BY <2>2, <2>7, <3>2, Zenon
  <2>8. CASE ~ (r < k + 1)
    <3>1. ~ (r < k) /\ r # k
      BY <2>5, <2>8, Zenon
    <3>2. b[c * N + r] = Junk
      BY <2>1, <2>4, <3>1, Zenon
    <3> QED
      BY <2>2, <2>8, <3>2, Zenon
  <2> QED
    BY <2>6, <2>7, <2>8, Zenon
<1>6. b \in [Cells -> Int]
  BY <1>4, Zenon DEF InRow
<1> QED
  BY <1>3, <1>5, <1>6, Zenon DEF AsExpected

(* So does a pass for N = 32.                                              *)
LEMMA Pass32Step ==
  ASSUME <<M, N>> \in Handout, submits, N = 32, NEW k \in 0 .. 127, AsExpected(B, k)
  PROVE  AsExpected(Performed(Pass(k)), k + 1)
<1> DEFINE i == 8 * (k \div 32)
           j == 8 * ((k \div 8) % 4)
           ii == i + (k % 8)
           spot(r, c) == 32 * (r \div 8) + 8 * (c \div 8) + (r % 8)
           b == Performed(Pass(k))
<1>1. M = 32
  BY CellsOf
<1>2. /\ ii \in 0 .. 31 /\ j \in 0 .. 24
      /\ \A r, c \in 0 .. 31 : spot(r, c) = k <=> r = ii /\ c \in j .. j + 7
  BY Place32
<1>3. RowOfBlock(Pass(k), ii, j)
  <2>1. Pass(k) = Pass32(k)
    BY DEF Pass, submits
  <2> QED
    BY <2>1, Zenon DEF Pass32, RowOfBlock
<1> HIDE DEF ii, j
<1>4. ii \in 0 .. N - 1 /\ j \in 0 .. M - 8 /\ 0 .. N - 1 = 0 .. 31 /\ 0 .. M - 1 = 0 .. 31
  BY <1>1, <1>2
<1>5. InRow(b, ii, j, 8)
  <2>1. B \in [Cells -> Int]
    BY Zenon DEF AsExpected
  <2> QED
    BY <1>3, <1>4, <2>1, RowBlock, Zenon
<1> HIDE DEF b
<1>6. ASSUME NEW r \in 0 .. N - 1, NEW c \in 0 .. M - 1
      PROVE  b[c * N + r] = Expected(k + 1, r, c)
  <2>1. spot(r, c) \in Int
    BY <1>4
  <2>2. spot(r, c) = k <=> r = ii /\ c \in j .. j + 7
    BY <1>2, <1>4, Zenon
  <2>3. j + 7 = j + 8 - 1
    BY <1>2
  <2>4. B[c * N + r] = IF spot(r, c) < k THEN r * M + c ELSE Junk
    BY Zenon DEF AsExpected, Expected, submits
  <2>5. Expected(k + 1, r, c) = IF spot(r, c) < k + 1 THEN r * M + c ELSE Junk
    BY Zenon DEF Expected, submits
  <2> HIDE DEF spot
  <2>6. b[c * N + r] = IF spot(r, c) = k THEN r * M + c ELSE B[c * N + r]
    BY <1>5, <2>2, <2>3, Zenon DEF InRow
  <2>7. spot(r, c) < k + 1 <=> spot(r, c) < k \/ spot(r, c) = k
    BY <2>1
  <2> QED
    BY <2>4, <2>5, <2>6, <2>7, Zenon
<1>7. b \in [Cells -> Int]
  BY <1>5, Zenon DEF InRow
<1> QED
  BY <1>6, <1>7, Zenon DEF AsExpected, b

(* No accesses, no change.                                                 *)
LEMMA NothingDone ==
  ASSUME B \in [Cells -> Int]
  PROVE  Performed(<<>>) = B
<1> DEFINE xs == <<>>
<1>1. xs \in Seq(AccessOf) /\ Len(xs) = 0
  OBVIOUS
<1> HIDE DEF xs
<1>2. PICK z : Performs(xs, Len(xs), z) /\ Performed(xs) = z[Len(xs)].B
  BY <1>1, PerformedIs
<1>3. z[0] = Entered
  BY <1>2, Zenon DEF Performs
<1>4. Performed(xs) = B
  BY <1>1, <1>2, <1>3 DEF Entered
<1> QED
  BY <1>4 DEF xs

(* So does a pass for N = 67, the empty ones beyond the last row included. *)
LEMMA Pass67Step ==
  ASSUME <<M, N>> \in Handout, submits, N = 67, NEW k \in 0 .. 319, AsExpected(B, k)
  PROVE  AsExpected(Performed(Pass(k)), k + 1)
<1> DEFINE i == 16 * (k \div 64)
           j == 16 * ((k \div 16) % 4)
           ii == i + (k % 16)
           m == IF j + 16 < 61 THEN 16 ELSE 61 - j
           ps == [c \in 1 .. m |-> Copy(ii, j + c - 1)]
           spot(r, c) == 64 * (r \div 16) + 16 * (c \div 16) + (r % 16)
           b == Performed(Pass(k))
<1>1. M = 61
  BY CellsOf
<1>2. /\ ii \in 0 .. 79 /\ j \in 0 .. 60 /\ m \in 1 .. 61 - j
      /\ \A r \in 0 .. 66, c \in 0 .. 60 : spot(r, c) = k <=> r = ii /\ c \in j .. j + m - 1
  BY Place67
<1>3. Pass(k) = IF ii >= 67 THEN <<>> ELSE FlattenSeq(ps)
  <2>1. Pass(k) = Pass67(k)
    BY DEF Pass, submits
  <2> QED
    BY <2>1 DEF Pass67
<1> HIDE DEF ii, j, m
<1>4. 0 .. N - 1 = 0 .. 66 /\ 0 .. M - 1 = 0 .. 60 /\ j \in 0 .. M - 1 /\ m \in 1 .. M - j
  <2>1. N - 1 = 66 /\ M - 1 = 60
    BY <1>1
  <2>2. j \in 0 .. 60 /\ m \in 1 .. M - j
    BY <1>1, <1>2, Zenon
  <2> QED
    BY <2>1, <2>2, Zenon
<1>9. B \in [Cells -> Int]
  BY Zenon DEF AsExpected
<1>5. /\ b \in [Cells -> Int]
      /\ \A r \in 0 .. N - 1, c \in 0 .. M - 1 : b[c * N + r] = IF spot(r, c) = k THEN r * M + c ELSE B[c * N + r]
  <2> HIDE DEF spot
  <2>1. CASE ii >= 67
    <3>1. b = B
      BY <1>3, <1>9, <2>1, NothingDone
    <3>2. ASSUME NEW r \in 0 .. 66 PROVE r # ii
      <4>1. ii \in 0 .. 79
        BY <1>2, Zenon
      <4> QED
        BY <2>1, <4>1
    <3>3. ASSUME NEW r \in 0 .. N - 1, NEW c \in 0 .. M - 1 PROVE spot(r, c) # k
      <4>1. r \in 0 .. 66 /\ c \in 0 .. 60
        BY <1>4, Zenon
      <4>2. spot(r, c) = k <=> r = ii /\ c \in j .. j + m - 1
        BY <1>2, <4>1, Zenon
      <4> QED
        BY <3>2, <4>1, <4>2, Zenon
    <3> QED
      BY <1>9, <3>1, <3>3, Zenon
  <2>2. CASE ~ (ii >= 67)
    <3>1. ii \in 0 .. N - 1
      <4>1. ii \in 0 .. 79
        BY <1>2, Zenon
      <4>2. ii \in 0 .. 66
        BY <2>2, <4>1
      <4> QED
        BY <1>4, <4>2, Zenon
    <3>2. b = Performed(FlattenSeq(ps))
      BY <1>3, <2>2, Zenon
    <3> HIDE DEF b
    <3>3. InRow(b, ii, j, m)
      BY <1>4, <1>9, <3>1, <3>2, RowPass, Zenon
    <3>4. ASSUME NEW r \in 0 .. N - 1, NEW c \in 0 .. M - 1
          PROVE  spot(r, c) = k <=> r = ii /\ c \in j .. j + m - 1
      <4>1. r \in 0 .. 66 /\ c \in 0 .. 60
        BY <1>4, Zenon
      <4> QED
        BY <1>2, <4>1, Zenon
    <3>5. ASSUME NEW r \in 0 .. N - 1, NEW c \in 0 .. M - 1
          PROVE  b[c * N + r] = IF spot(r, c) = k THEN r * M + c ELSE B[c * N + r]
      <4> DEFINE this == spot(r, c) = k
                 at == r = ii /\ c \in j .. j + m - 1
      <4>1. this <=> at
        BY <3>4, Zenon
      <4>2. b[c * N + r] = IF at THEN r * M + c ELSE B[c * N + r]
        BY <3>3, ZenonT(60) DEF InRow
      <4> HIDE DEF at
      <4>3. b[c * N + r] = IF this THEN r * M + c ELSE B[c * N + r]
        BY <4>1, <4>2, Zenon
      <4> QED
        BY <4>3, Zenon
    <3> QED
      BY <3>3, <3>5, Zenon DEF InRow
  <2> QED
    BY <2>1, <2>2, Zenon
<1> HIDE DEF b
<1>6. ASSUME NEW r \in 0 .. N - 1, NEW c \in 0 .. M - 1
      PROVE  b[c * N + r] = Expected(k + 1, r, c)
  <2>1. spot(r, c) \in Int
    BY <1>4
  <2>3. N # 32
    OBVIOUS
  <2>4. B[c * N + r] = IF spot(r, c) < k THEN r * M + c ELSE Junk
    BY <2>3, ZenonT(60) DEF AsExpected, Expected, submits
  <2>5. Expected(k + 1, r, c) = IF spot(r, c) < k + 1 THEN r * M + c ELSE Junk
    BY <2>3, Zenon DEF Expected, submits
  <2> HIDE DEF spot
  <2>6. b[c * N + r] = IF spot(r, c) = k THEN r * M + c ELSE B[c * N + r]
    BY <1>5, Zenon
  <2>7. spot(r, c) < k + 1 <=> spot(r, c) < k \/ spot(r, c) = k
    BY <2>1
  <2> QED
    BY <2>4, <2>5, <2>6, <2>7, Zenon
<1> QED
  BY <1>5, <1>6, Zenon DEF AsExpected, b

(* So does a pass for N = 64.                                              *)
LEMMA Pass64Step ==
  ASSUME <<M, N>> \in Handout, submits, N = 64, NEW k \in 0 .. 767, AsExpected(B, k)
  PROVE  AsExpected(Performed(Pass(k)), k + 1)
<1>1. Square
  BY CellsOf DEF Square
<1>2. Pass(k) = Pass64(k)
  BY DEF Pass, submits
<1>3. N # 32 /\ N # 67 /\ Line64 = 0 .. N - 1 /\ Line64 = 0 .. M - 1
  BY <1>1 DEF Line64, Square
<1>4. \A q, r, c : Expected(q, r, c) = Expected64(q, r, c)
  BY <1>3, Zenon DEF Expected, submits
<1>5. Written64(B, k) /\ B \in [Cells -> Int]
  BY <1>3, <1>4, Zenon DEF AsExpected, Written64
<1> DEFINE b == Performed(Pass64(k))
<1>6. b \in [Cells -> Int] /\ Written64(b, k + 1)
  BY <1>1, <1>5, Step64
<1> DEFINE q == k + 1
<1> HIDE DEF b, q
<1>7. AsExpected(b, q)
  <2>1. ASSUME NEW r \in 0 .. N - 1, NEW c \in 0 .. M - 1 PROVE b[c * N + r] = Expected(q, r, c)
    <3>1. r \in Line64 /\ c \in Line64
      BY <1>3, Zenon
    <3>2. b[c * N + r] = Expected64(q, r, c)
      BY <1>6, <3>1, Zenon DEF Written64, q
    <3> QED
      BY <1>4, <3>2, Zenon
  <2> QED
    BY <1>6, <2>1, Zenon DEF AsExpected
<1> QED
  BY <1>2, <1>7, Zenon DEF b, q

(* Every pass of either function keeps B as the closed form says.          *)
LEMMA PassStep ==
  ASSUME <<M, N>> \in Handout, func \in 1 .. 2, NEW k \in Nat, k < Passes, AsExpected(B, k)
  PROVE  AsExpected(Performed(Pass(k)), k + 1)
<1>1. (M = 32 /\ N = 32) \/ (M = 64 /\ N = 64) \/ (M = 61 /\ N = 67)
  BY CellsOf
<1>2. CASE ~ submits
  <2>1. Passes = N
    BY <1>2 DEF Passes, submits
  <2>2. k \in 0 .. N - 1
    BY <1>1, <2>1
  <2> QED
    BY <1>2, <2>2, PassTrans, Zenon
<1>3. CASE submits /\ N = 32
  <2>1. Passes = 128
    BY <1>3 DEF Passes, submits
  <2>2. k \in 0 .. 127
    BY <2>1
  <2> QED
    BY <1>3, <2>2, Pass32Step
<1>4. CASE submits /\ N = 64
  <2>1. Passes = 768
    BY <1>4 DEF Passes, submits
  <2>2. k \in 0 .. 767
    BY <2>1
  <2> QED
    BY <1>4, <2>2, Pass64Step
<1>5. CASE submits /\ N = 67
  <2>1. Passes = 320
    BY <1>5 DEF Passes, submits
  <2>2. k \in 0 .. 319
    BY <2>1
  <2> QED
    BY <1>5, <2>2, Pass67Step
<1> QED
  BY <1>1, <1>2, <1>3, <1>4, <1>5, Zenon

----------------------------------------------------------------------------
(* The closed form at its two ends, and from one pass to the next.         *)
LEMMA ExpectedStart ==
  ASSUME <<M, N>> \in Handout, NEW b, b = [x \in Cells |-> Junk]
  PROVE  AsExpected(b, 0)
<1>1. b \in [Cells -> Int]
  BY DEF Junk
<1>2. (M = 32 /\ N = 32) \/ (M = 64 /\ N = 64) \/ (M = 61 /\ N = 67)
  BY CellsOf
<1>3. ASSUME NEW r \in 0 .. N - 1, NEW c \in 0 .. M - 1
      PROVE  Expected(0, r, c) = Junk
  <2>1. CASE ~ submits
    <3>1. ~ (r < 0)
      BY <1>2
    <3> QED
      BY <2>1, <3>1, Zenon DEF Expected, submits
  <2>2. CASE submits /\ N = 32
    <3>1. ~ (32 * (r \div 8) + 8 * (c \div 8) + (r % 8) < 0)
      BY <1>2, <2>2
    <3> QED
      BY <2>2, <3>1, Zenon DEF Expected, submits
  <2>3. CASE submits /\ N = 67
    <3>1. ~ (64 * (r \div 16) + 16 * (c \div 16) + (r % 16) < 0)
      BY <1>2, <2>3
    <3>2. N # 32
      BY <2>3
    <3> QED
      BY <2>3, <3>1, <3>2, Zenon DEF Expected, submits
  <2>4. CASE submits /\ N = 64
    <3>1. r \in Line64 /\ c \in Line64
      BY <1>2, <2>4 DEF Line64
    <3>2. N # 32 /\ N # 67
      BY <2>4
    <3>3. Expected(0, r, c) = Expected64(0, r, c)
      BY <2>4, <3>2, Zenon DEF Expected, submits
    <3> DEFINE q == 0
    <3>4. q \in Nat /\ q = 0
      OBVIOUS
    <3> HIDE DEF q
    <3>5. PICK R, C, s, d \in 0 .. 7, t \in Int :
             /\ r = 8 * R + s /\ c = 8 * C + d /\ t = q - 12 * (8 * R + C)
             /\ Expected64(q, r, c) = Holds64(Stands(t, s, d), r, c)
             /\ Expected64(q + 1, r, c) = Holds64(Stands(t + 1, s, d), r, c)
      BY <3>1, <3>4, Spot64, Zenon DEF AtSpot
    <3>6. t <= 0
      BY <3>4, <3>5
    <3>7. Stands(t, s, d) = "junk"
      BY <3>6, StandsNext
    <3>8. "junk" # "right" /\ "junk" # "parked"
      OBVIOUS
    <3>9. Expected64(0, r, c) = Holds64("junk", r, c)
      BY <3>4, <3>5, <3>7, Zenon
    <3> QED
      BY <3>3, <3>8, <3>9, Zenon DEF Holds64
  <2> QED
    BY <1>2, <2>1, <2>2, <2>3, <2>4, Zenon
<1>4. ASSUME NEW r \in 0 .. N - 1, NEW c \in 0 .. M - 1
      PROVE  c * N + r \in Cells
  BY CellsOf, ZenonT(60) DEF OnMatrix
<1> QED
  BY <1>1, <1>3, <1>4, Zenon DEF AsExpected

(* After the last pass every element is in place.                          *)
LEMMA ExpectedEnd ==
  ASSUME <<M, N>> \in Handout, NEW r \in 0 .. N - 1, NEW c \in 0 .. M - 1
  PROVE  Expected(Passes, r, c) = r * M + c
<1>2. (M = 32 /\ N = 32) \/ (M = 64 /\ N = 64) \/ (M = 61 /\ N = 67)
  BY CellsOf
<1>3. CASE ~ submits
  <2>1. Passes = N
    BY <1>3 DEF Passes, submits
  <2>2. r < N
    BY <1>2
  <2> QED
    BY <1>3, <2>1, <2>2, Zenon DEF Expected, submits
<1>4. CASE submits /\ N = 32
  <2>1. Passes = 128
    BY <1>4 DEF Passes, submits
  <2>2. 32 * (r \div 8) + 8 * (c \div 8) + (r % 8) < Passes
    BY <1>2, <1>4, <2>1
  <2> QED
    BY <1>4, <2>2, Zenon DEF Expected, submits
<1>5. CASE submits /\ N = 67
  <2>1. Passes = 320
    BY <1>5 DEF Passes, submits
  <2>2. 64 * (r \div 16) + 16 * (c \div 16) + (r % 16) < Passes
    BY <1>2, <1>5, <2>1
  <2>3. N # 32
    BY <1>5
  <2> QED
    BY <1>5, <2>2, <2>3, Zenon DEF Expected, submits
<1>6. CASE submits /\ N = 64
  <2> DEFINE q == Passes
  <2>1. q = 768
    BY <1>6 DEF Passes, submits
  <2> HIDE DEF q
  <2>2. r \in Line64 /\ c \in Line64 /\ N # 32 /\ N # 67 /\ q \in Nat
    BY <1>2, <1>6, <2>1 DEF Line64
  <2>3. Expected(q, r, c) = Expected64(q, r, c)
    BY <1>6, <2>2, Zenon DEF Expected, submits
  <2>4. PICK R, C, s, d \in 0 .. 7, t \in Int :
             /\ r = 8 * R + s /\ c = 8 * C + d /\ t = q - 12 * (8 * R + C)
             /\ Expected64(q, r, c) = Holds64(Stands(t, s, d), r, c)
             /\ Expected64(q + 1, r, c) = Holds64(Stands(t + 1, s, d), r, c)
    BY <2>2, Spot64, Zenon DEF AtSpot
  <2>5. t >= 12
    BY <2>1, <2>4
  <2>6. Stands(t, s, d) = "right"
    BY <2>5, StandsNext
  <2>7. Expected64(q, r, c) = Holds64("right", r, c)
    BY <2>4, <2>6, Zenon
  <2> QED
    BY <2>3, <2>7, Zenon DEF Holds64, q
<1> QED
  BY <1>2, <1>3, <1>4, <1>5, <1>6, Zenon

(* An element in place is in place after the next pass too.                *)
LEMMA ExpectedStays ==
  ASSUME <<M, N>> \in Handout, NEW k \in Nat, NEW r \in 0 .. N - 1, NEW c \in 0 .. M - 1,
         Expected(k, r, c) = r * M + c
  PROVE  Expected(k + 1, r, c) = r * M + c
<1>2. (M = 32 /\ N = 32) \/ (M = 64 /\ N = 64) \/ (M = 61 /\ N = 67)
  BY CellsOf
<1>3. r \in Nat /\ c \in Nat
  BY <1>2
<1>4. r * M + c # Junk
  BY <1>2, <1>3 DEF Junk
<1>5. CASE ~ submits
  <2>1. r < k
    BY <1>4, <1>5, Zenon DEF Expected, submits
  <2>2. r < k + 1
    BY <1>3, <2>1
  <2> QED
    BY <1>5, <2>2, Zenon DEF Expected, submits
<1>6. CASE submits /\ N = 32
  <2> DEFINE at == 32 * (r \div 8) + 8 * (c \div 8) + (r % 8)
  <2>1. at < k
    BY <1>4, <1>6, Zenon DEF Expected, submits
  <2>2. at \in Int
    BY <1>3
  <2>3. at < k + 1
    <3> HIDE DEF at
    <3> QED
      BY <2>1, <2>2
  <2> QED
    BY <1>6, <2>3, Zenon DEF Expected, submits
<1>7. CASE submits /\ N = 67
  <2> DEFINE at == 64 * (r \div 16) + 16 * (c \div 16) + (r % 16)
  <2>4. N # 32
    BY <1>7
  <2>1. at < k
    BY <1>4, <1>7, <2>4, Zenon DEF Expected, submits
  <2>2. at \in Int
    BY <1>3
  <2>3. at < k + 1
    <3> HIDE DEF at
    <3> QED
      BY <2>1, <2>2
  <2> QED
    BY <1>7, <2>3, <2>4, Zenon DEF Expected, submits
<1>8. CASE submits /\ N = 64
  <2>2. r \in Line64 /\ c \in Line64 /\ N # 32 /\ N # 67
    BY <1>2, <1>8 DEF Line64
  <2>3. \A q : Expected(q, r, c) = Expected64(q, r, c)
    BY <1>8, <2>2, Zenon DEF Expected, submits
  <2>4. PICK R, C, s, d \in 0 .. 7, t \in Int :
             /\ r = 8 * R + s /\ c = 8 * C + d /\ t = k - 12 * (8 * R + C)
             /\ Expected64(k, r, c) = Holds64(Stands(t, s, d), r, c)
             /\ Expected64(k + 1, r, c) = Holds64(Stands(t + 1, s, d), r, c)
    BY <2>2, Spot64, Zenon DEF AtSpot
  <2>5. (r - 4) * M + (c + 4) # r * M + c
    BY <1>2, <1>3, <1>8
  <2>6. Holds64(Stands(t, s, d), r, c) = r * M + c
    BY <2>3, <2>4, Zenon
  <2>7. Stands(t, s, d) = "right"
    BY <1>4, <2>5, <2>6, Zenon DEF Holds64
  <2>8. Stands(t + 1, s, d) = "right"
    BY <2>7, StandsNext
  <2>9. Holds64(Stands(t + 1, s, d), r, c) = r * M + c
    BY <2>8, Zenon DEF Holds64
  <2> QED
    BY <2>3, <2>4, <2>9, Zenon
<1> QED
  BY <1>2, <1>5, <1>6, <1>7, <1>8, Zenon

(* validate accepts what the last pass leaves.                             *)
LEMMA ExpectedIsTransposed ==
  ASSUME <<M, N>> \in Handout, AsExpected(B, Passes)
  PROVE  validate
<1>1. ASSUME NEW r \in 0 .. N - 1, NEW c \in 0 .. M - 1 PROVE Transposed(r, c)
  BY ExpectedEnd, Zenon DEF AsExpected, Transposed, A
<1> QED
  BY <1>1, Zenon DEF validate

----------------------------------------------------------------------------
(* What a state of the driver keeps: a matrix on its way is as the closed  *)
(* form says, and a size the submission has no branch for stays untouched. *)
Idle == stage = "start" => (func = 1 /\ results = Unknown)
Stage == stage \in {"start", "called", "running", "evaluated", "done"} /\ func \in 1 .. 2
Sized == stage # "start" => <<M, N>> \in Sizes
OnItsWay ==
    stage = "running" /\ <<M, N>> \in Handout => n \in Nat /\ n <= Passes /\ AsExpected(B, n)
Returned == stage = "evaluated" /\ <<M, N>> \in Handout => validate
NoBranch ==
    stage # "start" /\ N \notin {32, 64, 67} =>
        /\ results = Unknown
        /\ stage \in {"running", "evaluated"} /\ submits => n = 0 /\ B[0] = Junk
TransInv == Idle /\ Stage /\ Sized /\ OnItsWay /\ Returned /\ NoBranch

(* The two functions of func_list.                                         *)
LEMMA Branches ==
  ASSUME func \in 1 .. 2
  PROVE  /\ submits <=> func = 1
         /\ func_list[func] # "transpose_submit" <=> ~ submits
         /\ Len(func_list) = 2
  BY DEF submits, func_list

(* The invariant holds at the start, and every step keeps it.              *)
LEMMA TransInvInit == TransInit => TransInv
<1> SUFFICES ASSUME TransInit PROVE TransInv
  OBVIOUS
<1> QED
  BY DEF TransInit, TransInv, Idle, Stage, Sized, OnItsWay, Returned, NoBranch

(* The sizes of the handout have a branch each.                            *)
LEMMA HandoutPasses ==
  ASSUME <<M, N>> \in Handout
  PROVE  Passes \in Nat /\ N \in {32, 64, 67}
<1>1. (M = 32 /\ N = 32) \/ (M = 64 /\ N = 64) \/ (M = 61 /\ N = 67)
  BY CellsOf
<1> QED
  BY <1>1 DEF Passes

(* Choosing the size.                                                      *)
LEMMA StartStep ==
  ASSUME TransInv, Start
  PROVE  TransInv'
<1>1. stage' = "called" /\ func' = 1 /\ results' = Unknown
  BY Zenon DEF TransInv, Idle, Start
<1>2. <<M', N'>> \in Sizes
  <2>1. PICK s \in Sizes : M' = s[1] /\ N' = s[2]
    BY Zenon DEF Start
  <2>2. s = <<s[1], s[2]>>
    BY SizesAssumption
  <2> QED
    BY <2>1, <2>2, Zenon
<1>3. "called" \notin {"start", "running", "evaluated"} /\ 1 \in 1 .. 2
  OBVIOUS
<1>4. Unknown' = Unknown
  BY DEF Unknown, INT_MAX
<1> QED
  BY <1>1, <1>2, <1>3, <1>4, Zenon DEF TransInv, Idle, Stage, Sized, OnItsWay, Returned, NoBranch

(* The closed form depends on the sizes and the function alone.            *)
LEMMA Unmoved ==
  ASSUME M' = M, N' = N, func' = func
  PROVE  /\ Passes' = Passes /\ (submits' <=> submits)
         /\ \A b, k : AsExpected(b, k) => AsExpected(b, k)'
<1>1. Passes' = Passes /\ (submits' <=> submits)
  BY DEF Passes, submits, func_list
<1>2. ASSUME NEW k, NEW r, NEW c PROVE Expected(k, r, c)' = Expected(k, r, c)
  <2>1. Expected64(k, r, c)' = Expected64(k, r, c)
    BY Zenon DEF Expected64, Holds64, Stands, Junk
  <2> QED
    BY <2>1, Zenon DEF Expected, Junk, func_list
<1>3. ASSUME NEW b, NEW k, AsExpected(b, k) PROVE AsExpected(b, k)'
  BY <1>2, <1>3, Zenon DEF AsExpected
<1> QED
  BY <1>1, <1>3, Zenon

(* A call begins with a B that holds nothing of A.                         *)
LEMMA CallStep ==
  ASSUME TransInv, Call
  PROVE  TransInv'
<1>1. /\ stage = "called" /\ stage' = "running" /\ n' = 0 /\ B' = [x \in Cells |-> Junk]
      /\ M' = M /\ N' = N /\ func' = func /\ results' = results
  BY Zenon DEF Call
<1>2. Idle' /\ Stage' /\ Sized' /\ Returned'
  BY <1>1 DEF TransInv, Idle, Stage, Sized, Returned
<1>3. OnItsWay'
  <2> SUFFICES ASSUME <<M, N>> \in Handout PROVE n' \in Nat /\ n' <= Passes' /\ AsExpected(B, n)'
    BY <1>1 DEF OnItsWay, Handout
  <2>1. n' \in Nat /\ n' <= Passes'
    BY <1>1, HandoutPasses, Unmoved
  <2>2. AsExpected(B', n')
    BY <1>1, ExpectedStart, Zenon
  <2> QED
    BY <1>1, <2>1, <2>2, Unmoved, Zenon
<1>4. NoBranch'
  <2>1. 0 \in Cells
    BY DEF Cells
  <2>2. B'[0] = Junk
    BY <1>1, <2>1, Zenon DEF Junk
  <2> QED
    BY <1>1, <2>2 DEF TransInv, NoBranch, Unknown, Junk
<1> QED
  BY <1>2, <1>3, <1>4 DEF TransInv

(* A pass follows the closed form; without a branch there is none.         *)
LEMMA RunPassStep ==
  ASSUME TransInv, RunPass
  PROVE  TransInv'
<1>1. /\ stage = "running" /\ stage' = "running" /\ n' = n + 1 /\ B' = Performed(Pass(n)) /\ n < Passes
      /\ M' = M /\ N' = N /\ func' = func /\ results' = results
  BY Zenon DEF RunPass
<1>2. Idle' /\ Stage' /\ Sized' /\ Returned'
  BY <1>1 DEF TransInv, Idle, Stage, Sized, Returned
<1>3. OnItsWay'
  <2> SUFFICES ASSUME <<M, N>> \in Handout PROVE n' \in Nat /\ n' <= Passes' /\ AsExpected(B, n)'
    BY <1>1 DEF OnItsWay, Handout
  <2>1. n \in Nat /\ AsExpected(B, n) /\ func \in 1 .. 2
    BY <1>1, Zenon DEF TransInv, OnItsWay, Stage
  <2>2. n' \in Nat /\ n' <= Passes'
    BY <1>1, <2>1, HandoutPasses, Unmoved
  <2>3. AsExpected(B', n')
    BY <1>1, <2>1, PassStep, Zenon
  <2> QED
    BY <1>1, <2>2, <2>3, Unmoved, Zenon
<1>4. NoBranch'
  <2> SUFFICES ASSUME N \notin {32, 64, 67} PROVE results' = Unknown /\ ~ submits'
    BY <1>1 DEF NoBranch, Unknown
  <2>1. results = Unknown /\ (submits => n = 0)
    BY <1>1 DEF TransInv, NoBranch
  <2>2. submits => Passes = 0
    BY DEF Passes, submits
  <2> QED
    BY <1>1, <2>1, <2>2, Unmoved
<1> QED
  BY <1>2, <1>3, <1>4 DEF TransInv

(* A function returns after its last pass.                                 *)
LEMMA ReturnStep ==
  ASSUME TransInv, Return
  PROVE  TransInv'
<1>1. /\ stage = "running" /\ stage' = "evaluated" /\ n' = n /\ B' = B /\ n = Passes
      /\ M' = M /\ N' = N /\ func' = func /\ results' = results
  BY Zenon DEF Return
<1>2. Idle' /\ Stage' /\ Sized' /\ OnItsWay'
  BY <1>1 DEF TransInv, Idle, Stage, Sized, OnItsWay
<1>3. Returned'
  <2> SUFFICES ASSUME <<M, N>> \in Handout PROVE validate'
    BY <1>1 DEF Returned, Handout
  <2>1. AsExpected(B, Passes)
    BY <1>1, Zenon DEF TransInv, OnItsWay
  <2>2. validate
    BY <2>1, ExpectedIsTransposed, Zenon
  <2> QED
    BY <1>1, <2>2, Zenon DEF validate, Transposed, A
<1>4. NoBranch'
  <2>1. submits' <=> submits
    BY <1>1, Unmoved
  <2> QED
    BY <1>1, <2>1 DEF TransInv, NoBranch, Unknown, Junk
<1> QED
  BY <1>2, <1>3, <1>4 DEF TransInv

(* An untouched B is not taken for a transposed one.                       *)
LEMMA EvaluateStep ==
  ASSUME TransInv, Evaluate
  PROVE  TransInv'
<1>1. /\ stage = "evaluated" /\ stage' \in {"called", "done"} /\ M' = M /\ N' = N
      /\ func' \in 1 .. 2
      /\ results' = IF ~ submits THEN results
                    ELSE IF validate THEN [correct |-> 1, misses |-> misses] ELSE Unknown
  <2>1. func \in 1 .. 2
    BY Zenon DEF TransInv, Stage
  <2>2. results' = IF func_list[func] # "transpose_submit" THEN results
                   ELSE IF validate THEN [correct |-> 1, misses |-> misses] ELSE Unknown
    BY Zenon DEF Evaluate
  <2>3. results' = IF ~ submits THEN results
                   ELSE IF validate THEN [correct |-> 1, misses |-> misses] ELSE Unknown
    BY <2>1, <2>2, Branches, Zenon
  <2>4. /\ stage = "evaluated" /\ M' = M /\ N' = N
        /\ IF func < Len(func_list) THEN func' = func + 1 /\ stage' = "called"
           ELSE stage' = "done" /\ UNCHANGED func
    BY Zenon DEF Evaluate
  <2>5. Len(func_list) = 2
    BY <2>1, Branches
  <2>6. stage' \in {"called", "done"} /\ func' \in 1 .. 2
    BY <2>1, <2>4, <2>5
  <2> QED
    BY <2>3, <2>4, <2>6, Zenon
<1>2. Idle' /\ Stage' /\ Sized' /\ OnItsWay' /\ Returned'
  BY <1>1 DEF TransInv, Idle, Stage, Sized, OnItsWay, Returned
<1>3. NoBranch'
  <2> SUFFICES ASSUME N \notin {32, 64, 67} PROVE results' = Unknown
    BY <1>1 DEF NoBranch, Unknown
  <2>1. results = Unknown /\ (submits => B[0] = Junk)
    BY <1>1 DEF TransInv, NoBranch
  <2>2. M \in Nat \ {0} /\ N \in Nat \ {0}
    BY <1>1, SizesAssumption DEF TransInv, Sized
  <2>3. submits => ~ validate
    <3> SUFFICES ASSUME submits, validate PROVE FALSE
      OBVIOUS
    <3>1. 0 \in 0 .. N - 1 /\ 0 \in 0 .. M - 1 /\ 0 * N + 0 = 0 /\ 0 * M + 0 = 0
      BY <2>2
    <3>2. Transposed(0, 0)
      BY <3>1, Zenon DEF validate
    <3>3. B[0] = 0
      BY <3>1, <3>2, Zenon DEF Transposed, A
    <3> QED
      BY <2>1, <3>3 DEF Junk
  <2> QED
    BY <1>1, <2>1, <2>3, Zenon
<1> QED
  BY <1>2, <1>3 DEF TransInv

(* Every step keeps the invariant.                                         *)
LEMMA TransInvNext == TransInv /\ [TransNext]_transVars => TransInv'
<1> SUFFICES ASSUME TransInv, [TransNext]_transVars PROVE TransInv'
  OBVIOUS
<1>1. CASE UNCHANGED transVars
  <2>1. M' = M /\ N' = N /\ func' = func /\ B' = B /\ n' = n /\ stage' = stage /\ results' = results
    BY <1>1 DEF transVars
  <2>2. AsExpected(B, n) => AsExpected(B, n)'
    BY <2>1, Unmoved, Zenon
  <2>3. validate' = validate
    BY <2>1, Zenon DEF validate, Transposed, A
  <2>4. (submits' <=> submits) /\ Passes' = Passes
    BY <2>1, Unmoved, Zenon
  <2>5. OnItsWay' /\ Returned'
    BY <2>1, <2>2, <2>3, <2>4, Zenon DEF TransInv, OnItsWay, Returned, Handout
  <2>6. NoBranch'
    BY <2>1, <2>4, Zenon DEF TransInv, NoBranch, Unknown, Junk
  <2> QED
    BY <2>1, <2>5, <2>6, Zenon DEF TransInv, Idle, Stage, Sized, Unknown
<1>2. CASE Start
  BY <1>2, StartStep, Zenon
<1>3. CASE Call
  BY <1>3, CallStep, Zenon
<1>4. CASE RunPass
  BY <1>4, RunPassStep, Zenon
<1>5. CASE Return
  BY <1>5, ReturnStep, Zenon
<1>6. CASE Evaluate
  BY <1>6, EvaluateStep, Zenon
<1> QED
  BY <1>1, <1>2, <1>3, <1>4, <1>5, <1>6, Zenon DEF TransNext

(* The inductive invariant of the transpositions, for any set of sizes: B  *)
(* is after each pass what the closed form Expected says.                  *)
THEOREM TransSound == TransSpec => []TransInv
<1> QED
  BY TransInvInit, TransInvNext, PTL DEF TransSpec

(* Transposes: when a function has returned, the matrix is transposed for  *)
(* each size the driver asks for; the score of another size stays unknown. *)
LEMMA InvTransposes == TransInv => Transposes
<1> SUFFICES ASSUME TransInv PROVE Transposes
  OBVIOUS
<1>1. stage = "evaluated" /\ <<M, N>> \in Handout => validate
  BY Zenon DEF TransInv, Returned
<1>2. stage = "done" /\ N \notin {32, 64, 67} => results = Unknown
  <2>1. "done" # "start"
    OBVIOUS
  <2> QED
    BY <2>1, Zenon DEF TransInv, NoBranch
<1> QED
  BY <1>1, <1>2, Zenon DEF Transposes

THEOREM TransTransposes == TransSpec => []Transposes
<1> QED
  BY TransSound, InvTransposes, PTL

(* One step, for RightStaysRight.                                          *)
LEMMA StaysRight ==
  ASSUME TransInv, [TransNext]_transVars, stage = "running", <<M, N>> \in Handout,
         NEW x \in 0 .. M * N - 1, B[x] # B'[x]
  PROVE  ~ Transposed(x % N, x \div N)
<1> SUFFICES ASSUME Transposed(x % N, x \div N) PROVE FALSE
  OBVIOUS
<1> DEFINE r == x % N
           c == x \div N
<1>1. r \in 0 .. N - 1 /\ c \in 0 .. M - 1 /\ c * N + r = x
  <2>1. (M = 32 /\ N = 32) \/ (M = 64 /\ N = 64) \/ (M = 61 /\ N = 67)
    BY CellsOf
  <2> QED
    BY <2>1
<1>2. Transposed(r, c)
  OBVIOUS
<1> HIDE DEF r, c
<1>3. B[x] = r * M + c
  BY <1>1, <1>2, Zenon DEF Transposed, A
<1>4. CASE RunPass
  <2>1. n \in Nat /\ AsExpected(B, n) /\ func \in 1 .. 2
    BY Zenon DEF TransInv, OnItsWay, Stage
  <2>2. n < Passes /\ B' = Performed(Pass(n))
    BY <1>4, Zenon DEF RunPass
  <2>3. AsExpected(B', n + 1)
    BY <2>1, <2>2, PassStep, Zenon
  <2>4. Expected(n, r, c) = r * M + c
    BY <1>1, <1>3, <2>1, Zenon DEF AsExpected
  <2>5. Expected(n + 1, r, c) = r * M + c
    BY <1>1, <2>1, <2>4, ExpectedStays, Zenon
  <2>6. B'[x] = Expected(n + 1, r, c)
    BY <1>1, <2>3, Zenon DEF AsExpected
  <2> QED
    BY <1>3, <2>5, <2>6, Zenon
<1>5. CASE ~ RunPass
  <2>1. B' = B
    BY <1>5 DEF TransNext, transVars, Start, Call, Return, Evaluate
  <2> QED
    BY <2>1, Zenon
<1> QED
  BY <1>4, <1>5, Zenon

(* RightStaysRight: no pass undoes an element that is in place.            *)
THEOREM TransRightStaysRight == TransSpec => RightStaysRight
<1>1. TransInv /\ [TransNext]_transVars =>
        [stage = "running" /\ <<M, N>> \in Handout =>
           \A x \in 0 .. M * N - 1 : B[x] # B'[x] => ~ Transposed(x % N, x \div N)]_transVars
  BY StaysRight, Zenon
<1> QED
  BY <1>1, TransSound, PTL DEF TransSpec, RightStaysRight
=============================================================================
