--------------------------- MODULE JobListProofs ---------------------------
(***************************************************************************)
(* Facts about the job list's helper routines, for every number of slots   *)
(* and every set of processes.                                             *)
(***************************************************************************)
EXTENDS JobList, FiniteSetsExt, FiniteSetTheorems, WellFoundedInduction, TLAPS

----------------------------------------------------------------------------
(* A nonempty set of naturals has a least element, and Min is it.          *)
LEMMA MinNat ==
  ASSUME NEW S, S \subseteq Nat, S # {}
  PROVE  Min(S) \in S /\ \A y \in S : Min(S) <= y
<1> DEFINE R == {ss \in Nat \X Nat : ss[1] < ss[2]}
<1>1. IsWellFoundedOn(R, Nat)
  BY NatLessThanWellFounded, Zenon DEF OpToRel
<1>2. PICK x \in S : \A y \in S : ~ (<<y, x>> \in R)
  <2> HIDE DEF R
  <2> QED  BY <1>1, WFMin, Zenon
<1>3. ASSUME NEW y \in S  PROVE x <= y
  <2>1. x \in Nat /\ y \in Nat
    OBVIOUS
  <2>2. ~ (<<y, x>> \in R)
    BY <1>2
  <2>3. ~ (y < x)
    BY <2>1, <2>2
  <2> QED  BY <2>1, <2>3
<1>4. QED  BY <1>3, Zenon DEF Min

----------------------------------------------------------------------------
(* A table of naturals that is indexed by 1 .. n has an upper bound.       *)
LEMMA Bounded ==
  ASSUME NEW n \in Nat, NEW f, \A i \in 1 .. n : f[i] \in Nat
  PROVE  \E b \in Nat : \A i \in 1 .. n : f[i] <= b
<1> DEFINE Bnd(k) == \E b \in Nat : \A i \in 1 .. k : f[i] <= b
<1> DEFINE Bad == {k \in 0 .. n : ~Bnd(k)}
<1>1. SUFFICES ASSUME Bad # {}  PROVE FALSE
  <2>1. n \in 0 .. n
    OBVIOUS
  <2> QED  BY <1>1, <2>1
<1>2. Min(Bad) \in Bad /\ \A y \in Bad : Min(Bad) <= y
  <2> HIDE DEF Bnd
  <2>1. Bad \subseteq Nat
    OBVIOUS
  <2> HIDE DEF Bad
  <2> QED  BY <1>1, <2>1, MinNat
<1> DEFINE m == Min(Bad)
<1>3. m \in 0 .. n /\ ~Bnd(m)
  BY <1>2
<1>4. m # 0
  <2>1. Bnd(0)
    BY 0 \in Nat
  <2> QED  BY <1>3, <2>1
<1>5. m - 1 \in 0 .. n /\ m - 1 < m
  <2> HIDE DEF m
  <2> QED  BY <1>3, <1>4
<1>6. Bnd(m - 1)
  <2>1. m - 1 \notin Bad
    <3>1. m - 1 \in Bad => m <= m - 1
      BY <1>2
    <3> HIDE DEF m
    <3> QED  BY <1>3, <1>5, <3>1
  <2> QED  BY <1>5, <2>1
<1>7. PICK b \in Nat : \A i \in 1 .. (m - 1) : f[i] <= b
  BY <1>6
<1>8. f[m] \in Nat
  <2> HIDE DEF m
  <2> QED  BY <1>3, <1>4
<1>9. Bnd(m)
  <2> HIDE DEF m
  <2>1. \A i \in 1 .. m : i = m \/ i \in 1 .. (m - 1)
    BY <1>3
  <2>2. \A i \in 1 .. m : f[i] <= IF b < f[m] THEN f[m] ELSE b
    <3> TAKE i \in 1 .. m
    <3>1. CASE i = m
      BY <3>1, <1>8
    <3>2. CASE i \in 1 .. (m - 1)
      <4>1. f[i] <= b /\ f[i] \in Nat
        BY <3>2, <1>7, <1>3
      <4> QED  BY <4>1, <1>8
    <3> QED  BY <2>1, <3>1, <3>2
  <2>3. (IF b < f[m] THEN f[m] ELSE b) \in Nat
    BY <1>8
  <2> QED  BY <2>2, <2>3
<1>10. QED  BY <1>3, <1>9

----------------------------------------------------------------------------
(* The search loops.                                                       *)

(* FirstSlot returns a slot that matches, and NULL only when none does.    *)
LEMMA FirstSlotFacts ==
  ASSUME NEW S, S \subseteq Slots
  PROVE  /\ FirstSlot(S) \in Slots \cup {NoSlot}
         /\ FirstSlot(S) = NoSlot <=> S = {}
         /\ FirstSlot(S) # NoSlot => FirstSlot(S) \in S
<1>1. CASE S = {}
  BY <1>1 DEF FirstSlot
<1>2. CASE S # {}
  <2>1. S \subseteq Nat
    BY MaxJobsAssumption DEF Slots
  <2>2. Min(S) \in S
    BY <1>2, <2>1, MinNat
  <2>3. NoSlot \notin Slots
    BY MaxJobsAssumption DEF Slots, NoSlot
  <2> QED  BY <1>2, <2>2, <2>3 DEF FirstSlot
<1>3. QED  BY <1>1, <1>2

(* getjobpid finds the slot of a listed process and returns NULL for every *)
(* other argument.                                                         *)
LEMMA GetjobpidFacts ==
  ASSUME NEW tbl, NEW p \in PIDs \cup {NoPid}
  PROVE  /\ getjobpid(tbl, p) \in Slots \cup {NoSlot}
         /\ getjobpid(tbl, p) # NoSlot
              => getjobpid(tbl, p) \in Slots /\ tbl[getjobpid(tbl, p)].pid = p /\ p # NoPid
         /\ p # NoPid /\ getjobpid(tbl, p) = NoSlot
              => \A i \in Slots : tbl[i].pid # p
<1> DEFINE S == {i \in Slots : tbl[i].pid = p}
<1>1. CASE p = NoPid
  BY <1>1 DEF getjobpid
<1>2. CASE p # NoPid
  <2>1. S \subseteq Slots
    OBVIOUS
  <2>2. getjobpid(tbl, p) = FirstSlot(S)
    BY <1>2 DEF getjobpid
  <2>3. /\ FirstSlot(S) \in Slots \cup {NoSlot}
        /\ FirstSlot(S) = NoSlot <=> S = {}
        /\ FirstSlot(S) # NoSlot => FirstSlot(S) \in S
    <3> HIDE DEF S
    <3> QED  BY <2>1, FirstSlotFacts
  <2> QED  BY <1>2, <2>2, <2>3
<1>3. QED  BY <1>1, <1>2

(* A table of jobs has a largest JID that is a natural number.             *)
LEMMA MaxjidNat ==
  ASSUME NEW tbl \in [Slots -> Job]
  PROVE  maxjid(tbl) \in Nat
<1> DEFINE f == [i \in Slots |-> tbl[i].jid]
<1> DEFINE J == {tbl[i].jid : i \in Slots} \cup {0}
<1>1. J \subseteq Nat
  BY DEF Job
<1>2. \A i \in 1 .. MAXJOBS : f[i] \in Nat /\ f[i] = tbl[i].jid
  BY DEF Slots, Job
<1>3. PICK b \in Nat : \A i \in 1 .. MAXJOBS : f[i] <= b
  <2> HIDE DEF f
  <2> QED  BY <1>2, Bounded, MaxJobsAssumption
<1> DEFINE B == {c \in Nat : \A y \in J : y <= c}
<1>4. b \in B
  <2>1. \A i \in Slots : tbl[i].jid <= b
    BY <1>2, <1>3 DEF Slots
  <2> QED  BY <2>1
<1> DEFINE m == Min(B)
<1>5. m \in B /\ \A c \in B : m <= c
  <2>1. B \subseteq Nat /\ B # {}
    BY <1>4
  <2> HIDE DEF B
  <2> QED  BY <2>1, MinNat
<1>6. m \in Nat /\ \A y \in J : y <= m
  BY <1>5
<1>7. m \in J
  <2> SUFFICES ASSUME m \notin J PROVE FALSE
    OBVIOUS
  <2> HIDE DEF m, J
  <2>1. m # 0
    BY DEF J
  <2>2. m - 1 \in Nat
    BY <1>6, <2>1
  <2>3. \A y \in J : y <= m - 1
    BY <1>1, <1>6
  <2>4. m <= m - 1
    BY <2>2, <2>3, <1>5
  <2> QED  BY <1>6, <2>4
<1>8. \E x \in J : \A y \in J : x >= y
  <2>1. \A y \in J : m >= y
    <3> HIDE DEF m, J
    <3> QED  BY <1>1, <1>6
  <2> QED  BY <1>7, <2>1
<1>9. Max(J) \in J
  <2> HIDE DEF J
  <2> QED  BY <1>8 DEF Max
<1>10. QED  BY <1>1, <1>9 DEF maxjid

----------------------------------------------------------------------------
(* addjob and deletejob.                                                   *)

(* addjob fills at most one slot, which was free.                          *)
LEMMA AddjobFacts ==
  ASSUME NEW tbl \in [Slots -> Job], NEW nj \in Nat \ {0},
         NEW p \in PIDs, NEW st \in JobState
  PROVE  /\ addjob(tbl, nj, p, st).jobs \in [Slots -> Job]
         /\ addjob(tbl, nj, p, st).nextjid \in Nat \ {0}
         /\ \/ addjob(tbl, nj, p, st).jobs = tbl
            \/ \E i \in Slots :
                  /\ tbl[i].pid = NoPid
                  /\ addjob(tbl, nj, p, st).jobs
                       = [tbl EXCEPT ![i] = [pid |-> p, jid |-> nj, state |-> st]]
<1> DEFINE S == {i \in Slots : tbl[i].pid = NoPid}
<1> DEFINE i == FreeSlot(tbl)
<1> DEFINE new == [pid |-> p, jid |-> nj, state |-> st]
<1>1. i = NoSlot \/ (i \in Slots /\ tbl[i].pid = NoPid)
  <2>1. FirstSlot(S) \in Slots \cup {NoSlot} /\ (FirstSlot(S) # NoSlot => FirstSlot(S) \in S)
    <3>1. S \subseteq Slots
      OBVIOUS
    <3> HIDE DEF S
    <3> QED  BY <3>1, FirstSlotFacts
  <2>2. i = FirstSlot(S)
    BY DEF FreeSlot
  <2> HIDE DEF i
  <2> QED  BY <2>1, <2>2
<1>2. p # NoPid
  BY NoPidAssumption
<1>3. CASE i = NoSlot
  BY <1>3 DEF addjob
<1>4. CASE i # NoSlot
  <2>1. i \in Slots /\ tbl[i].pid = NoPid
    BY <1>1, <1>4
  <2>2. addjob(tbl, nj, p, st) =
          [jobs |-> [tbl EXCEPT ![i] = new],
           nextjid |-> IF nj + 1 > MAXJOBS THEN 1 ELSE nj + 1]
    BY <1>2, <1>4 DEF addjob
  <2>3. new \in Job
    BY DEF Job
  <2>4. (IF nj + 1 > MAXJOBS THEN 1 ELSE nj + 1) \in Nat \ {0}
    BY MaxJobsAssumption
  <2>5. /\ addjob(tbl, nj, p, st).jobs = [tbl EXCEPT ![i] = new]
        /\ addjob(tbl, nj, p, st).nextjid \in Nat \ {0}
    BY <2>2, <2>4
  <2>6. [tbl EXCEPT ![i] = new] \in [Slots -> Job]
    <3> HIDE DEF i, new
    <3> QED  BY <2>1, <2>3
  <2> HIDE DEF i
  <2> QED  BY <2>1, <2>5, <2>6
<1>5. QED  BY <1>3, <1>4

(* A job added for a process that is not listed takes a slot of its own.   *)
LEMMA AddjobUnique ==
  ASSUME NEW tbl \in [Slots -> Job], NEW nj \in Nat \ {0},
         NEW p \in PIDs, NEW st \in JobState,
         UniquePids(tbl), p \notin Listed(tbl)
  PROVE  /\ UniquePids(addjob(tbl, nj, p, st).jobs)
         /\ \A i \in Used(addjob(tbl, nj, p, st).jobs) :
               \/ addjob(tbl, nj, p, st).jobs[i].pid = p
               \/ i \in Used(tbl) /\ addjob(tbl, nj, p, st).jobs[i].pid = tbl[i].pid
<1>1. CASE addjob(tbl, nj, p, st).jobs = tbl
  BY <1>1
<1>2. ASSUME NEW i \in Slots, tbl[i].pid = NoPid,
             addjob(tbl, nj, p, st).jobs
               = [tbl EXCEPT ![i] = [pid |-> p, jid |-> nj, state |-> st]]
      PROVE  UniquePids(addjob(tbl, nj, p, st).jobs)
             /\ \A k \in Used(addjob(tbl, nj, p, st).jobs) :
               \/ addjob(tbl, nj, p, st).jobs[k].pid = p
               \/ k \in Used(tbl) /\ addjob(tbl, nj, p, st).jobs[k].pid = tbl[k].pid
  <2> DEFINE t2 == addjob(tbl, nj, p, st).jobs
  <2>1. \A k \in Slots : t2[k].pid = IF k = i THEN p ELSE tbl[k].pid
    BY <1>2
  <2>2. \A k \in Used(tbl) : tbl[k].pid # p /\ k # i
    BY <1>2 DEF Listed, Used
  <2> HIDE DEF t2
  <2>3. UniquePids(t2)
    BY <2>1, <2>2 DEF UniquePids, Used
  <2>4. \A k \in Used(t2) : t2[k].pid = p \/ (k \in Used(tbl) /\ t2[k].pid = tbl[k].pid)
    BY <2>1 DEF Used
  <2> QED  BY <2>3, <2>4 DEF t2
<1>3. \/ addjob(tbl, nj, p, st).jobs = tbl
      \/ \E i \in Slots :
            /\ tbl[i].pid = NoPid
            /\ addjob(tbl, nj, p, st).jobs
                 = [tbl EXCEPT ![i] = [pid |-> p, jid |-> nj, state |-> st]]
  BY AddjobFacts
<1>4. QED  BY <1>1, <1>2, <1>3, Zenon

(* deletejob clears at most one slot; afterwards the process is not listed *)
(* if it took one slot at most.                                            *)
LEMMA DeletejobFacts ==
  ASSUME NEW tbl \in [Slots -> Job], NEW nj \in Nat \ {0}, NEW p \in PIDs \cup {NoPid}
  PROVE  /\ deletejob(tbl, nj, p).jobs \in [Slots -> Job]
         /\ deletejob(tbl, nj, p).nextjid \in Nat \ {0}
         /\ \A i \in Used(deletejob(tbl, nj, p).jobs) :
               i \in Used(tbl) /\ deletejob(tbl, nj, p).jobs[i] = tbl[i]
         /\ UniquePids(tbl) =>
               /\ UniquePids(deletejob(tbl, nj, p).jobs)
               /\ \A i \in Used(deletejob(tbl, nj, p).jobs) :
                     deletejob(tbl, nj, p).jobs[i].pid # p
<1> DEFINE i == getjobpid(tbl, p)
<1> DEFINE new == [tbl EXCEPT ![i] = clearjob]
<1>1. /\ i \in Slots \cup {NoSlot}
      /\ i # NoSlot => i \in Slots /\ tbl[i].pid = p /\ p # NoPid
      /\ p # NoPid /\ i = NoSlot => \A k \in Slots : tbl[k].pid # p
  BY GetjobpidFacts
<1>2. clearjob \in Job
  BY DEF clearjob, Job, JobState
<1>3. CASE i = NoSlot
  <2>1. deletejob(tbl, nj, p).jobs = tbl /\ deletejob(tbl, nj, p).nextjid = nj
    BY <1>3 DEF deletejob
  <2> HIDE DEF i
  <2> QED  BY <1>1, <1>3, <2>1 DEF Used
<1>4. CASE i # NoSlot
  <2>1. i \in Slots /\ tbl[i].pid = p /\ p # NoPid
    BY <1>1, <1>4
  <2>2. deletejob(tbl, nj, p).jobs = new /\ deletejob(tbl, nj, p).nextjid = maxjid(new) + 1
    BY <1>4 DEF deletejob
  <2>3. new \in [Slots -> Job]
    <3> HIDE DEF i
    <3> QED  BY <1>2, <2>1
  <2>4. maxjid(new) + 1 \in Nat \ {0}
    <3>1. maxjid(new) \in Nat
      <4> HIDE DEF new
      <4> QED  BY <2>3, MaxjidNat
    <3> QED  BY <3>1
  <2>5. \A k \in Slots : new[k] = IF k = i THEN clearjob ELSE tbl[k]
    <3> HIDE DEF i
    <3> QED  OBVIOUS
  <2>6. \A k \in Used(new) : k # i /\ k \in Used(tbl) /\ new[k] = tbl[k]
    <3> HIDE DEF new, i
    <3> QED  BY <2>5 DEF Used, clearjob
  <2>7. UniquePids(tbl) => UniquePids(new) /\ \A k \in Used(new) : new[k].pid # p
    <3> HIDE DEF new, i
    <3> QED  BY <2>1, <2>6 DEF UniquePids, Used
  <2> HIDE DEF new, i
  <2> QED  BY <2>2, <2>3, <2>4, <2>6, <2>7
<1>5. QED  BY <1>3, <1>4

(* A state update leaves the processes of the table alone.                 *)
LEMMA SetStateFacts ==
  ASSUME NEW tbl \in [Slots -> Job], NEW i \in Slots, NEW st \in JobState
  PROVE  /\ [tbl EXCEPT ![i].state = st] \in [Slots -> Job]
         /\ \A k \in Slots : [tbl EXCEPT ![i].state = st][k].pid = tbl[k].pid
  BY DEF Job

----------------------------------------------------------------------------
(* The list as a map from processes to their jobs.                         *)

(* getjobpid finds the one slot of a listed process.                       *)
LEMMA SlotOfListed ==
  ASSUME NEW tbl \in [Slots -> Job], UniquePids(tbl), NEW i \in Used(tbl)
  PROVE  getjobpid(tbl, tbl[i].pid) = i
<1>1. i \in Slots /\ tbl[i].pid # NoPid /\ tbl[i].pid \in PIDs \cup {NoPid}
  BY DEF Used, Job
<1>2. getjobpid(tbl, tbl[i].pid) # NoSlot
  BY <1>1, GetjobpidFacts
<1>3. /\ getjobpid(tbl, tbl[i].pid) \in Slots
      /\ tbl[getjobpid(tbl, tbl[i].pid)].pid = tbl[i].pid
  BY <1>1, <1>2, GetjobpidFacts
<1> QED
  BY <1>1, <1>3 DEF UniquePids, Used

(* What is written into one slot concerns the processes that the slot held *)
(* and holds, and leaves every other process its job.                      *)
LEMMA OtherEntries ==
  ASSUME NEW t1 \in [Slots -> Job], NEW t2 \in [Slots -> Job],
         UniquePids(t1), UniquePids(t2),
         NEW k \in Slots, \A i \in Slots : i # k => t2[i] = t1[i],
         NEW q \in PIDs, t1[k].pid # q, t2[k].pid # q
  PROVE  /\ q \in Listed(t2) <=> q \in Listed(t1)
         /\ q \in Listed(t1) => t2[getjobpid(t2, q)] = t1[getjobpid(t1, q)]
<1>1. \A i \in Slots : t2[i].pid = q \/ t1[i].pid = q => t2[i] = t1[i]
  OBVIOUS
<1>2. q # NoPid
  BY NoPidAssumption
<1>3. q \in Listed(t2) <=> q \in Listed(t1)
  BY <1>1, <1>2 DEF Listed, Used
<1>4. ASSUME q \in Listed(t1) PROVE t2[getjobpid(t2, q)] = t1[getjobpid(t1, q)]
  <2>1. PICK i \in Used(t1) : t1[i].pid = q
    BY <1>4 DEF Listed
  <2>2. i \in Used(t2) /\ t2[i] = t1[i]
    BY <1>1, <2>1 DEF Used
  <2>3. getjobpid(t1, q) = i /\ getjobpid(t2, q) = i
    BY <2>1, <2>2, SlotOfListed
  <2> QED
    BY <2>2, <2>3
<1> QED
  BY <1>3, <1>4

(* addjob takes a free slot if there is one, and is a no-op otherwise.     *)
LEMMA AddjobFills ==
  ASSUME NEW tbl \in [Slots -> Job], NEW nj \in Nat \ {0}, NEW p \in PIDs, NEW st
  PROVE  \/ /\ Used(tbl) = Slots
            /\ addjob(tbl, nj, p, st).jobs = tbl
         \/ \E k \in Slots \ Used(tbl) :
               addjob(tbl, nj, p, st).jobs
                 = [tbl EXCEPT ![k] = [pid |-> p, jid |-> nj, state |-> st]]
<1> DEFINE S == {i \in Slots : tbl[i].pid = NoPid}
           k == FreeSlot(tbl)
<1>1. k = FirstSlot(S) /\ S \subseteq Slots /\ S = Slots \ Used(tbl) /\ Used(tbl) \subseteq Slots
  BY DEF FreeSlot, Used
<1>2. p # NoPid
  BY NoPidAssumption
<1> HIDE DEF S
<1>3. (k = NoSlot <=> S = {}) /\ (k # NoSlot => k \in S)
  BY <1>1, FirstSlotFacts
<1>4. CASE k = NoSlot
  BY <1>1, <1>3, <1>4 DEF addjob
<1>5. CASE k # NoSlot
  BY <1>1, <1>2, <1>3, <1>5 DEF addjob
<1> QED
  BY <1>4, <1>5

(* deletejob clears the slot of a listed process and is a no-op for any    *)
(* other.                                                                  *)
LEMMA DeletejobClears ==
  ASSUME NEW tbl \in [Slots -> Job], NEW nj, NEW p \in PIDs
  PROVE  \/ /\ p \notin Listed(tbl)
            /\ deletejob(tbl, nj, p).jobs = tbl
         \/ \E k \in Used(tbl) :
               /\ tbl[k].pid = p
               /\ deletejob(tbl, nj, p).jobs = [tbl EXCEPT ![k] = clearjob]
<1> DEFINE k == getjobpid(tbl, p)
<1>1. p # NoPid
  BY NoPidAssumption
<1>2. /\ k \in Slots \cup {NoSlot}
      /\ k # NoSlot => k \in Slots /\ tbl[k].pid = p
      /\ k = NoSlot => \A i \in Slots : tbl[i].pid # p
  BY <1>1, GetjobpidFacts
<1>3. CASE k = NoSlot
  BY <1>2, <1>3 DEF deletejob, Listed, Used
<1>4. CASE k # NoSlot
  <2>1. deletejob(tbl, nj, p).jobs = [tbl EXCEPT ![k] = clearjob]
    BY <1>4 DEF deletejob
  <2>2. k \in Used(tbl) /\ tbl[k].pid = p
    BY <1>1, <1>2, <1>4 DEF Used
  <2> QED
    BY <2>1, <2>2
<1> QED
  BY <1>3, <1>4
=============================================================================
