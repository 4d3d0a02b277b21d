--------------------------- MODULE ProgramsProofs ---------------------------
(***************************************************************************)
(* Theorems about the programs that MCPrograms instantiates, for every     *)
(* value of their constants: the job list under any client, the malloc     *)
(* driver over any package and any traces, its timing package, the         *)
(* assembler with the loader of what it writes, and the bit puzzles with   *)
(* their driver.                                                           *)
(***************************************************************************)
EXTENDS JobListClient, JobListProofs, Mdriver, Timing, Yas, Btest, NaturalsInduction, SequenceTheorems

(* The job list: any number of slots, any set of processes.                *)

(* Type correctness: every slot holds a job, and nextjid stays positive.   *)
THEOREM TypeCorrect == Spec => []TypeOK
<1>1. Init => TypeOK
  BY DEF Init, TypeOK, initjobs, clearjob, Job, JobState
<1>2. TypeOK /\ [Next]_vars => TypeOK'
  <2> SUFFICES ASSUME TypeOK, [Next]_vars PROVE TypeOK'
    OBVIOUS
  <2> USE DEF TypeOK
  <2>1. ASSUME NEW p \in PIDs, NEW st \in {"FG", "BG"}, Add(p, st) PROVE TypeOK'
    BY <2>1, AddjobFacts DEF Add, JobState
  <2>2. ASSUME NEW p \in PIDs, Delete(p) PROVE TypeOK'
    BY <2>2, DeletejobFacts DEF Delete
  <2>3. ASSUME NEW p \in PIDs, NEW st \in {"FG", "BG", "ST"}, SetState(p, st) PROVE TypeOK'
    <3>1. getjobpid(jobs, p) \in Slots
      <4>1. p # NoPid
        BY NoPidAssumption
      <4>2. \E h \in Slots : jobs[h].pid = p
        BY <2>3 DEF SetState, Listed, Used
      <4> QED  BY <4>1, <4>2, GetjobpidFacts
    <3> QED  BY <2>3, <3>1, SetStateFacts DEF SetState, JobState
  <2>4. CASE UNCHANGED vars
    BY <2>4 DEF vars
  <2> QED  BY <2>1, <2>2, <2>3, <2>4 DEF Next
<1>3. QED  BY <1>1, <1>2, PTL DEF Spec

(* The array is a map: no sequence of calls puts a process in two slots.   *)
THEOREM PidsStayUnique == Spec => []PidsUnique
<1>1. Init => PidsUnique
  BY DEF Init, PidsUnique, UniquePids, Used, initjobs, clearjob
<1>2. TypeOK /\ PidsUnique /\ [Next]_vars => PidsUnique'
  <2> SUFFICES ASSUME TypeOK, PidsUnique, [Next]_vars PROVE PidsUnique'
    OBVIOUS
  <2> USE DEF TypeOK, PidsUnique
  <2>1. ASSUME NEW p \in PIDs, NEW st \in {"FG", "BG"}, Add(p, st) PROVE PidsUnique'
    BY <2>1, AddjobUnique DEF Add, JobState
  <2>2. ASSUME NEW p \in PIDs, Delete(p) PROVE PidsUnique'
    BY <2>2, DeletejobFacts DEF Delete
  <2>3. ASSUME NEW p \in PIDs, NEW st \in {"FG", "BG", "ST"}, SetState(p, st) PROVE PidsUnique'
    <3>1. \A k \in Slots : jobs'[k].pid = jobs[k].pid
      BY <2>3 DEF SetState, Job
    <3> QED  BY <3>1 DEF UniquePids, Used
  <2>4. CASE UNCHANGED vars
    BY <2>4 DEF vars
  <2> QED  BY <2>1, <2>2, <2>3, <2>4 DEF Next
<1>3. QED  BY <1>1, <1>2, TypeCorrect, PTL DEF Spec

----------------------------------------------------------------------------
(* A call changes the state of one process at most, and refuses none while *)
(* a slot is free.                                                         *)

(* A step that writes slot k, for process p alone.                         *)
LEMMA OnlyOne ==
  ASSUME TypeOK, TypeOK', PidsUnique, PidsUnique', NEW p \in PIDs, NEW k \in Slots,
         \A h \in Slots : h # k => jobs'[h] = jobs[h],
         jobs[k].pid \in {p, NoPid}, jobs'[k].pid \in {p, NoPid},
         NEW q \in PIDs, q # p
  PROVE  StateOf(q)' = StateOf(q)
<1>1. /\ q \in Listed(jobs') <=> q \in Listed(jobs)
      /\ q \in Listed(jobs) => jobs'[getjobpid(jobs', q)] = jobs[getjobpid(jobs, q)]
  BY OtherEntries, NoPidAssumption DEF TypeOK, PidsUnique
<1> QED
  BY <1>1 DEF StateOf

LEMMA AddUndisturbing ==
  ASSUME TypeOK, TypeOK', PidsUnique, PidsUnique',
         NEW p \in PIDs, NEW st \in {"FG", "BG"}, Add(p, st)
  PROVE  /\ \A q \in PIDs : q # p => StateOf(q)' = StateOf(q)
         /\ StateOf(p)' = st \/ Used(jobs) = Slots
<1>1. jobs' = addjob(jobs, nextjid, p, st).jobs /\ jobs \in [Slots -> Job] /\ p # NoPid
      /\ nextjid \in Nat \ {0} /\ jobs' \in [Slots -> Job]
  BY NoPidAssumption DEF Add, TypeOK
<1>2. CASE Used(jobs) = Slots /\ jobs' = jobs
  BY <1>2 DEF StateOf
<1>3. ASSUME NEW k \in Slots \ Used(jobs),
             jobs' = [jobs EXCEPT ![k] = [pid |-> p, jid |-> nextjid, state |-> st]]
      PROVE  /\ \A q \in PIDs : q # p => StateOf(q)' = StateOf(q)
             /\ StateOf(p)' = st
  <2>1. /\ jobs'[k].pid = p /\ jobs'[k].state = st /\ jobs[k].pid = NoPid
        /\ \A h \in Slots : h # k => jobs'[h] = jobs[h]
    BY <1>1, <1>3 DEF Used
  <2>2. \A q \in PIDs : q # p => StateOf(q)' = StateOf(q)
    BY <2>1, OnlyOne
  <2>3. k \in Used(jobs')
    BY <1>1, <2>1 DEF Used
  <2>4. p \in Listed(jobs') /\ getjobpid(jobs', p) = k
    BY <1>1, <2>1, <2>3, SlotOfListed DEF Listed, PidsUnique
  <2> QED
    BY <2>1, <2>2, <2>4 DEF StateOf
<1> QED
  BY <1>1, <1>2, <1>3, AddjobFills

LEMMA DeleteUndisturbing ==
  ASSUME TypeOK, TypeOK', PidsUnique, PidsUnique', NEW p \in PIDs, Delete(p)
  PROVE  \A q \in PIDs : q # p => StateOf(q)' = StateOf(q)
<1>1. jobs' = deletejob(jobs, nextjid, p).jobs /\ jobs \in [Slots -> Job]
  BY DEF Delete, TypeOK
<1>2. CASE jobs' = jobs
  BY <1>2 DEF StateOf
<1>3. ASSUME NEW k \in Used(jobs), jobs[k].pid = p, jobs' = [jobs EXCEPT ![k] = clearjob]
      PROVE  \A q \in PIDs : q # p => StateOf(q)' = StateOf(q)
  <2>1. k \in Slots /\ jobs'[k].pid = NoPid /\ \A h \in Slots : h # k => jobs'[h] = jobs[h]
    BY <1>1, <1>3 DEF Used, clearjob
  <2> QED
    BY <1>3, <2>1, OnlyOne
<1>4. \/ jobs' = jobs
      \/ \E k \in Used(jobs) : jobs[k].pid = p /\ jobs' = [jobs EXCEPT ![k] = clearjob]
  BY <1>1, DeletejobClears
<1> QED
  BY <1>2, <1>3, <1>4

LEMMA SetStateUndisturbing ==
  ASSUME TypeOK, TypeOK', PidsUnique, PidsUnique', NEW p \in PIDs, NEW st, SetState(p, st)
  PROVE  \A q \in PIDs : q # p => StateOf(q)' = StateOf(q)
<1> DEFINE k == getjobpid(jobs, p)
<1>1. PICK h \in Used(jobs) : jobs[h].pid = p
  BY DEF SetState, Listed
<1>2. k = h /\ h \in Slots
  BY <1>1, SlotOfListed DEF TypeOK, PidsUnique, Used
<1>3. jobs' = [jobs EXCEPT ![h].state = st]
  BY <1>2 DEF SetState
<1>4. jobs'[h].pid = p /\ \A m \in Slots : m # h => jobs'[m] = jobs[m]
  BY <1>1, <1>2, <1>3 DEF TypeOK, Job
<1> QED
  BY <1>1, <1>2, <1>4, OnlyOne

(* addjob and deletejob, through first matches and holes, lose or disturb  *)
(* nobody else's job, and a child is refused only by a full list.          *)
THEOREM OthersStayUndisturbed == Spec => OthersUndisturbed
<1> DEFINE Undisturbed ==
        /\ \A p, q \in PIDs : StateOf(p)' # StateOf(p) /\ StateOf(q)' # StateOf(q) => p = q
        /\ \A p \in PIDs, s \in {"FG", "BG"} :
              Add(p, s) /\ StateOf(p)' # s => Used(jobs) = Slots
<1>1. TypeOK /\ TypeOK' /\ PidsUnique /\ PidsUnique' /\ [Next]_vars => [Undisturbed]_vars
  <2> SUFFICES ASSUME TypeOK, TypeOK', PidsUnique, PidsUnique', Next PROVE Undisturbed
    OBVIOUS
  <2>1. PICK r \in PIDs : \A q \in PIDs : q # r => StateOf(q)' = StateOf(q)
    BY AddUndisturbing, DeleteUndisturbing, SetStateUndisturbing DEF Next
  <2>2. \A p, q \in PIDs : StateOf(p)' # StateOf(p) /\ StateOf(q)' # StateOf(q) => p = q
    BY <2>1
  <2> QED
    BY <2>2, AddUndisturbing
<1> QED
  BY <1>1, TypeCorrect, PidsStayUnique, PTL DEF Spec, OthersUndisturbed

----------------------------------------------------------------------------
(* The malloc driver.                                                      *)

(* A range of the list: where a payload starts and where it ends.          *)
Payload == [lo : Heap, hi : Heap]

(* The range list as eval_mm_valid keeps it: one range for each block in   *)
(* use, no two of them at one address.                                     *)
Spans(r, lo, size) == r.lo = lo /\ r.hi = lo + size - 1

Tracks(list, used, addr, size) ==
    /\ list \in Seq(Payload)
    /\ \A k \in 1 .. Len(list) : \E h \in used : Spans(list[k], addr[h], size[h])
    /\ \A h \in used : \E k \in 1 .. Len(list) : Spans(list[k], addr[h], size[h])
    /\ \A h \in used : addr[h] \in Heap /\ size[h] \in Nat \ {0}
    /\ \A k, l \in 1 .. Len(list) : list[k].lo = list[l].lo => k = l
    /\ \A h, j \in used : addr[h] = addr[j] => h = j

(* remove_range finds the one range at lo.                                 *)
LEMMA RemovedFacts ==
  ASSUME NEW S, NEW list \in Seq(S), NEW h \in 1 .. Len(list),
         \A k \in 1 .. Len(list) : list[k].lo = list[h].lo => k = h
  PROVE  LET rest == Removed(list, list[h].lo)
         IN  /\ rest \in Seq(S) /\ Len(rest) = Len(list) - 1
             /\ \A k \in 1 .. Len(rest) : rest[k] = IF k < h THEN list[k] ELSE list[k + 1]
<1> DEFINE hits == {k \in DOMAIN list : list[k].lo = list[h].lo}
<1>1. DOMAIN list = 1 .. Len(list) /\ Len(list) \in Nat
  OBVIOUS
<1>2. hits = {h}
  BY <1>1
<1>3. Min(hits) = h
  BY <1>2 DEF Min
<1>4. Removed(list, list[h].lo) = SubSeq(list, 1, h - 1) \o SubSeq(list, h + 1, Len(list))
  BY <1>2, <1>3 DEF Removed, RemoveAt
<1> HIDE DEF hits
<1> DEFINE a == SubSeq(list, 1, h - 1)
           b == SubSeq(list, h + 1, Len(list))
<1>5. a \in Seq(S) /\ Len(a) = h - 1 /\ \A k \in 1 .. h - 1 : a[k] = list[k]
  BY <1>1
<1>6. /\ b \in Seq(S) /\ Len(b) = Len(list) - h
      /\ \A k \in 1 .. Len(list) - h : b[k] = list[h + k]
  <2>1. b \in Seq(S) /\ Len(b) = Len(list) - h
    <3>1. h + 1 \in Int /\ Len(list) \in Int
      BY <1>1
    <3>2. \A k \in h + 1 .. Len(list) : list[k] \in S
      BY <1>1
    <3>3. /\ b \in Seq(S)
          /\ Len(b) = IF h + 1 <= Len(list) THEN Len(list) - (h + 1) + 1 ELSE 0
      BY <3>1, <3>2, SubSeqProperties
    <3> HIDE DEF b
    <3>4. h \in Int /\ h <= Len(list)
      BY <1>1
    <3>5. CASE h + 1 <= Len(list)
      BY <3>1, <3>3, <3>4, <3>5
    <3>6. CASE ~(h + 1 <= Len(list))
      <4>1. h = Len(list)
        BY <3>1, <3>4, <3>6
      <4> QED
        BY <3>1, <3>3, <3>6, <4>1
    <3> QED
      BY <3>5, <3>6
  <2>2. \A k \in 1 .. Len(list) - h : b[k] = list[(h + 1) + k - 1] /\ (h + 1) + k - 1 = h + k
    BY <1>1
  <2> QED
    BY <2>1, <2>2
<1> HIDE DEF a, b
<1> DEFINE rest == a \o b
<1>7. rest \in Seq(S) /\ Len(rest) = Len(a) + Len(b)
  <2>1. a \in Seq(S) /\ b \in Seq(S)
    BY <1>5, <1>6
  <2> QED
    BY <2>1
<1>8. \A k \in 1 .. Len(rest) : rest[k] = IF k <= Len(a) THEN a[k] ELSE b[k - Len(a)]
  BY <1>5, <1>6
<1>9. ASSUME NEW k \in 1 .. Len(rest) PROVE rest[k] = IF k < h THEN list[k] ELSE list[k + 1]
  <2>1. CASE k < h
    BY <1>1, <1>5, <1>8, <2>1
  <2>2. CASE ~(k < h)
    <3>1. k - Len(a) \in 1 .. Len(list) - h /\ h + (k - Len(a)) = k + 1 /\ ~(k <= Len(a))
      BY <1>1, <1>5, <1>6, <1>7, <2>2
    <3>2. rest[k] = b[k - Len(a)] /\ b[k - Len(a)] = list[h + (k - Len(a))]
      BY <1>6, <1>8, <3>1
    <3> QED
      BY <2>2, <3>1, <3>2
  <2> QED
    BY <2>1, <2>2
<1>10. Len(rest) = Len(list) - 1
  BY <1>1, <1>5, <1>6, <1>7
<1> HIDE DEF rest
<1> QED
  BY <1>4, <1>7, <1>9, <1>10 DEF rest, a, b

(* So the list goes on holding one range for each of the other blocks.     *)
LEMMA TracksRemoved ==
  ASSUME NEW list, NEW used, NEW addr, NEW size, Tracks(list, used, addr, size), NEW j \in used
  PROVE  Tracks(Removed(list, addr[j]), used \ {j}, addr, size)
<1>0. /\ list \in Seq(Payload) /\ Len(list) \in Nat
      /\ \A k \in 1 .. Len(list) : \E h \in used : Spans(list[k], addr[h], size[h])
      /\ \A h \in used : \E k \in 1 .. Len(list) : Spans(list[k], addr[h], size[h])
      /\ \A h \in used : addr[h] \in Heap /\ size[h] \in Nat \ {0}
      /\ \A k, l \in 1 .. Len(list) : list[k].lo = list[l].lo => k = l
      /\ \A m, n \in used : addr[m] = addr[n] => m = n
  BY DEF Tracks
<1>1. PICK h \in 1 .. Len(list) : list[h].lo = addr[j]
  BY <1>0 DEF Spans
<1> DEFINE rest == Removed(list, list[h].lo)
<1>2. /\ rest \in Seq(Payload) /\ Len(rest) = Len(list) - 1
      /\ \A k \in 1 .. Len(rest) : rest[k] = IF k < h THEN list[k] ELSE list[k + 1]
  <2>1. list \in Seq(Payload) /\ \A k \in 1 .. Len(list) : list[k].lo = list[h].lo => k = h
    BY <1>0
  <2> QED
    BY <2>1, RemovedFacts
<1>3. rest = Removed(list, addr[j])
  BY <1>1
<1> HIDE DEF rest
<1>4. ASSUME NEW k \in 1 .. Len(rest)
      PROVE  \E l \in 1 .. Len(list) : l # h /\ rest[k] = list[l] /\ (l = k \/ l = k + 1)
                                       /\ (l = k <=> k < h)
  <2>1. CASE k < h
    <3>1. k \in 1 .. Len(list) /\ k # h
      BY <1>0, <2>1
    <3> QED
      BY <1>2, <2>1, <3>1
  <2>2. CASE ~(k < h)
    <3>1. k + 1 \in 1 .. Len(list) /\ k + 1 # h /\ k + 1 # k
      BY <1>0, <1>2, <2>2
    <3> QED
      BY <1>2, <2>2, <3>1
  <2> QED
    BY <2>1, <2>2
<1>5. \A l \in 1 .. Len(list) : l # h => \E k \in 1 .. Len(rest) : rest[k] = list[l]
  <2> TAKE l \in 1 .. Len(list)
  <2> HAVE l # h
  <2>1. CASE l < h
    <3>1. l \in 1 .. Len(rest)
      BY <1>0, <1>2, <2>1
    <3> QED
      BY <1>2, <2>1, <3>1
  <2>2. CASE ~(l < h)
    <3>1. l - 1 \in 1 .. Len(rest) /\ ~(l - 1 < h) /\ (l - 1) + 1 = l
      BY <1>0, <1>2, <2>2
    <3> QED
      BY <1>2, <3>1
  <2> QED
    BY <2>1, <2>2
<1>6. \A k \in 1 .. Len(rest) : \E m \in used \ {j} : Spans(rest[k], addr[m], size[m])
  <2> TAKE k \in 1 .. Len(rest)
  <2>1. PICK l \in 1 .. Len(list) : l # h /\ rest[k] = list[l]
    BY <1>4
  <2>2. PICK m \in used : Spans(list[l], addr[m], size[m])
    BY <1>0
  <2>3. m # j
    BY <1>0, <1>1, <2>1, <2>2 DEF Spans
  <2> QED
    BY <2>1, <2>2, <2>3
<1>7. \A m \in used \ {j} : \E k \in 1 .. Len(rest) : Spans(rest[k], addr[m], size[m])
  <2> TAKE m \in used \ {j}
  <2>1. PICK l \in 1 .. Len(list) : Spans(list[l], addr[m], size[m])
    BY <1>0
  <2>2. l # h
    BY <1>0, <1>1, <2>1 DEF Spans
  <2> QED
    BY <1>5, <2>1, <2>2
<1>8. \A k, l \in 1 .. Len(rest) : rest[k].lo = rest[l].lo => k = l
  <2> TAKE k, l \in 1 .. Len(rest)
  <2> HAVE rest[k].lo = rest[l].lo
  <2>1. PICK m \in 1 .. Len(list) : rest[k] = list[m] /\ (m = k \/ m = k + 1) /\ (m = k <=> k < h)
    BY <1>4
  <2>2. PICK n \in 1 .. Len(list) : rest[l] = list[n] /\ (n = l \/ n = l + 1) /\ (n = l <=> l < h)
    BY <1>4
  <2>3. m = n
    BY <1>0, <2>1, <2>2
  <2> QED
    BY <2>1, <2>2, <2>3
<1>9. Tracks(rest, used \ {j}, addr, size)
  <2>1. /\ \A m \in used \ {j} : addr[m] \in Heap /\ size[m] \in Nat \ {0}
        /\ \A m, n \in used \ {j} : addr[m] = addr[n] => m = n
    BY <1>0
  <2> QED
    BY <1>2, <1>6, <1>7, <1>8, <2>1 DEF Tracks
<1> QED
  BY <1>3, <1>9

(* add_range puts the range of one more block in front.                    *)
LEMMA TracksAdded ==
  ASSUME NEW list, NEW used, NEW addr, NEW size, Tracks(list, used, addr, size),
         NEW j, j \notin used, NEW p \in Heap, NEW n \in Nat \ {0}, p + n - 1 \in Heap,
         \A h \in used : addr[h] # p,
         NEW addr2, addr2[j] = p, \A h \in used : addr2[h] = addr[h],
         NEW size2, size2[j] = n, \A h \in used : size2[h] = size[h]
  PROVE  Tracks(<<Extent(p, n)>> \o list, used \cup {j}, addr2, size2)
<1>0. /\ list \in Seq(Payload) /\ Len(list) \in Nat
      /\ \A k \in 1 .. Len(list) : \E h \in used : Spans(list[k], addr2[h], size2[h])
      /\ \A h \in used : \E k \in 1 .. Len(list) : Spans(list[k], addr2[h], size2[h])
      /\ \A h \in used : addr2[h] \in Heap /\ size2[h] \in Nat \ {0}
      /\ \A k, l \in 1 .. Len(list) : list[k].lo = list[l].lo => k = l
      /\ \A m, l \in used : addr2[m] = addr2[l] => m = l
      /\ \A h \in used : addr2[h] # p
  <2>1. /\ list \in Seq(Payload) /\ Len(list) \in Nat
        /\ \A k \in 1 .. Len(list) : \E h \in used : Spans(list[k], addr[h], size[h])
        /\ \A h \in used : \E k \in 1 .. Len(list) : Spans(list[k], addr[h], size[h])
        /\ \A h \in used : addr[h] \in Heap /\ size[h] \in Nat \ {0}
        /\ \A k, l \in 1 .. Len(list) : list[k].lo = list[l].lo => k = l
        /\ \A m, l \in used : addr[m] = addr[l] => m = l
    BY DEF Tracks
  <2> QED
    BY <2>1
<1> DEFINE r == Extent(p, n)
           new == <<r>> \o list
           wider == used \cup {j}
<1>1. r \in Payload /\ Spans(r, addr2[j], size2[j]) /\ r.lo = p
  BY DEF Extent, Payload, Spans
<1> HIDE DEF r
<1>2. /\ new \in Seq(Payload) /\ Len(new) = Len(list) + 1 /\ new[1] = r
      /\ \A k \in 2 .. Len(new) : new[k] = list[k - 1]
  BY <1>0, <1>1
<1> HIDE DEF new
<1>3. \A k \in 1 .. Len(new) : k = 1 \/ (k \in 2 .. Len(new) /\ k - 1 \in 1 .. Len(list))
  BY <1>0, <1>2
<1>4. ASSUME NEW k \in 1 .. Len(new)
      PROVE  \E h \in wider : Spans(new[k], addr2[h], size2[h])
  <2>1. CASE k = 1
    BY <1>1, <1>2, <2>1
  <2>2. CASE k # 1
    <3>1. k - 1 \in 1 .. Len(list) /\ new[k] = list[k - 1]
      BY <1>2, <1>3, <2>2
    <3>2. PICK h \in used : Spans(list[k - 1], addr2[h], size2[h])
      BY <1>0, <3>1
    <3> QED
      BY <3>1, <3>2
  <2> QED
    BY <2>1, <2>2
<1>5. ASSUME NEW h \in wider
      PROVE  \E k \in 1 .. Len(new) : Spans(new[k], addr2[h], size2[h])
  <2>1. CASE h = j
    BY <1>0, <1>1, <1>2, <2>1
  <2>2. CASE h \in used
    <3>1. PICK l \in 1 .. Len(list) : Spans(list[l], addr2[h], size2[h])
      BY <1>0, <2>2
    <3>2. l + 1 \in 2 .. Len(new) /\ (l + 1) - 1 = l
      BY <1>0, <1>2
    <3>3. l + 1 \in 1 .. Len(new) /\ new[l + 1] = list[l]
      BY <1>2, <3>2
    <3> QED
      BY <3>1, <3>3
  <2> QED
    BY <2>1, <2>2
<1>6. \A h \in wider : addr2[h] \in Heap /\ size2[h] \in Nat \ {0}
  BY <1>0
<1>7. ASSUME NEW k \in 2 .. Len(new) PROVE new[k].lo # p
  <2>1. k - 1 \in 1 .. Len(list) /\ new[k] = list[k - 1]
    BY <1>0, <1>2
  <2>2. PICK h \in used : Spans(list[k - 1], addr2[h], size2[h])
    BY <1>0, <2>1
  <2> QED
    BY <1>0, <2>1, <2>2 DEF Spans
<1>8. \A k, l \in 1 .. Len(new) : new[k].lo = new[l].lo => k = l
  <2>1. \A k, l \in 2 .. Len(new) : new[k].lo = new[l].lo => k = l
    <3> TAKE k, l \in 2 .. Len(new)
    <3>1. k - 1 \in 1 .. Len(list) /\ l - 1 \in 1 .. Len(list)
      BY <1>0, <1>2
    <3>2. new[k] = list[k - 1] /\ new[l] = list[l - 1]
      BY <1>2
    <3>3. list[k - 1].lo = list[l - 1].lo => k - 1 = l - 1
      BY <1>0, <3>1
    <3>4. k - 1 = l - 1 => k = l
      BY <3>1
    <3> QED
      BY <3>2, <3>3, <3>4
  <2> QED
    BY <1>1, <1>2, <1>3, <1>7, <2>1
<1>9. \A m, l \in wider : addr2[m] = addr2[l] => m = l
  BY <1>0
<1> HIDE DEF wider
<1>10. Tracks(new, wider, addr2, size2)
  BY <1>2, <1>4, <1>5, <1>6, <1>8, <1>9 DEF Tracks
<1> QED
  BY <1>10 DEF wider, new, r

(* What a trace holds changes with each request by the block it names.     *)
LEMMA HeldAfterNone == \A t : HeldAfter(t, 0) = {}
  BY DEF HeldAfter

LEMMA HeldAfterStep ==
  ASSUME NEW t, NEW k \in Nat \ {0}
  PROVE  HeldAfter(t, k) = IF t[k].type = "f" THEN HeldAfter(t, k - 1) \ {t[k].index}
                           ELSE HeldAfter(t, k - 1) \cup {t[k].index}
<1> DEFINE Stays(j, n) == \A l \in j .. n : t[l].index = t[j].index => t[l].type # "f"
<1>0. \A n : HeldAfter(t, n) = {t[h].index : h \in {j \in 1 .. n : Stays(j, n)}}
  BY DEF HeldAfter
<1>1. \A j \in 1 .. k - 1 : Stays(j, k) <=>
         Stays(j, k - 1) /\ (t[k].index = t[j].index => t[k].type # "f")
  <2> TAKE j \in 1 .. k - 1
  <2>1. j .. k = (j .. k - 1) \cup {k}
    OBVIOUS
  <2> QED
    BY <2>1
<1>2. Stays(k, k) <=> t[k].type # "f"
  <2>1. k .. k = {k}
    OBVIOUS
  <2> QED
    BY <2>1
<1>3. 1 .. k = (1 .. k - 1) \cup {k}
  OBVIOUS
<1> HIDE DEF Stays
<1> DEFINE before == {j \in 1 .. k - 1 : Stays(j, k - 1)}
<1>4. CASE t[k].type = "f"
  <2>1. {j \in 1 .. k : Stays(j, k)} = {j \in before : t[j].index # t[k].index}
    BY <1>1, <1>2, <1>3, <1>4
  <2>2. {t[h].index : h \in {j \in before : t[j].index # t[k].index}}
          = {t[h].index : h \in before} \ {t[k].index}
    OBVIOUS
  <2> QED
    BY <1>0, <1>4, <2>1, <2>2
<1>5. CASE t[k].type # "f"
  <2>1. {j \in 1 .. k : Stays(j, k)} = before \cup {k}
    BY <1>1, <1>2, <1>3, <1>5
  <2>2. {t[h].index : h \in before \cup {k}} = {t[h].index : h \in before} \cup {t[k].index}
    OBVIOUS
  <2> QED
    BY <1>0, <1>5, <2>1, <2>2
<1> QED
  BY <1>4, <1>5

(* What the driver may rely on in the request it has come to.              *)
LEMMA OpFacts ==
  ASSUME TraceAssumption, trace \in TraceFiles, opnum \in Nat \ {0}, opnum <= Len(trace)
  PROVE  /\ Op.index \in Nat /\ Op.size \in Nat
         /\ Op.type # "f" => Op.size \in Nat \ {0}
         /\ Op.type = "a" <=> Op.index \notin HeldAfter(trace, opnum - 1)
         /\ HeldAfter(trace, opnum) =
               IF Op.type = "f" THEN HeldAfter(trace, opnum - 1) \ {Op.index}
               ELSE HeldAfter(trace, opnum - 1) \cup {Op.index}
<1> DEFINE Request == [type : {"a", "r", "f"}, index : Nat, size : Nat]
<1>1. trace \in Seq(Request)
  BY DEF TraceAssumption
<1> HIDE DEF Request
<1>2. opnum \in 1 .. Len(trace)
  BY <1>1
<1>3. Op.index \in Nat /\ Op.size \in Nat
  <2>1. Op \in Request
    BY <1>1, <1>2 DEF Op
  <2> QED
    BY <2>1 DEF Request
<1>4. /\ Op.type = "a" <=> Op.index \notin HeldAfter(trace, opnum - 1)
      /\ Op.type # "f" => Op.size > 0
  BY <1>2 DEF TraceAssumption, Op
<1>5. HeldAfter(trace, opnum) =
         IF Op.type = "f" THEN HeldAfter(trace, opnum - 1) \ {Op.index}
         ELSE HeldAfter(trace, opnum - 1) \cup {Op.index}
  BY HeldAfterStep DEF Op
<1>6. Op.index \in Nat /\ Op.size \in Nat /\ (Op.type # "f" => Op.size \in Nat \ {0})
  BY <1>3, <1>4
<1> QED
  BY <1>4, <1>5, <1>6

(* add_range asks whether an end of the new range lies in an old one; that *)
(* tells all overlaps but those around an old one.                         *)
LEMMA OverlapTells ==
  ASSUME NEW r \in Payload, NEW o \in Payload, r.lo <= r.hi, o.lo <= o.hi,
         ~ (r.lo < o.lo /\ o.hi < r.hi), HeapHi \in Nat
  PROVE  Overlap(r, o) <=> Within(r) \cap Within(o) # {}
<1> DEFINE a == r.lo
           b == r.hi
           c == o.lo
           d == o.hi
<1>1. /\ a \in Int /\ b \in Int /\ c \in Int /\ d \in Int
      /\ a \in Heap /\ b \in Heap /\ c \in Heap /\ d \in Heap
      /\ a <= b /\ c <= d /\ ~(a < c /\ d < b)
  BY DEF Payload, Heap
<1>2. Overlap(r, o) <=> (a >= c /\ a <= d) \/ (b >= c /\ b <= d)
  BY DEF Overlap, LowEndIn
<1>3. \A x : x \in Within(r) \cap Within(o) <=> x \in Heap /\ a <= x /\ x <= b /\ c <= x /\ x <= d
  BY DEF Within
<1>4. Heap \subseteq Int
  BY DEF Heap
<1> HIDE DEF a, b, c, d
<1>5. (a >= c /\ a <= d) \/ (b >= c /\ b <= d) => \E x : x \in Within(r) \cap Within(o)
  <2>1. CASE a >= c /\ a <= d
    <3>1. a \in Within(r) \cap Within(o)
      BY <1>1, <1>3, <2>1
    <3> QED
      BY <3>1
  <2>2. CASE b >= c /\ b <= d
    <3>1. b \in Within(r) \cap Within(o)
      BY <1>1, <1>3, <2>2
    <3> QED
      BY <3>1
  <2> QED
    BY <2>1, <2>2
<1>6. ASSUME NEW x \in Within(r) \cap Within(o)
      PROVE  (a >= c /\ a <= d) \/ (b >= c /\ b <= d)
  <2>1. x \in Int /\ a <= x /\ x <= b /\ c <= x /\ x <= d
    BY <1>3, <1>4
  <2> QED
    BY <1>1, <2>1
<1> QED
  BY <1>2, <1>5, <1>6

(* So the checks of an answer say whether it honours the contract.         *)
LEMMA ChecksExact ==
  ASSUME HeapHi \in Nat, NEW index, NEW list,
         Tracks(list, DOMAIN mm_blocks \ {index}, mm_blocks, mm_sizes),
         NEW p \in Int, NEW n \in Nat \ {0}, ~Encloses(Extent(p, n), list)
  PROVE  RangeError(Extent(p, n), list) <=> ~HonoursContract(Extent(p, n), index)
<1> DEFINE r == Extent(p, n)
           used == DOMAIN mm_blocks \ {index}
<1>1. /\ list \in Seq(Payload) /\ Len(list) \in Nat /\ DOMAIN list = 1 .. Len(list)
      /\ \A k \in 1 .. Len(list) : \E h \in used : Spans(list[k], mm_blocks[h], mm_sizes[h])
      /\ \A h \in used : \E k \in 1 .. Len(list) : Spans(list[k], mm_blocks[h], mm_sizes[h])
      /\ \A h \in used : mm_blocks[h] \in Heap /\ mm_sizes[h] \in Nat \ {0}
  BY DEF Tracks
<1>2. r.lo = p /\ r.hi = p + n - 1 /\ r.lo <= r.hi /\ r = [lo |-> p, hi |-> p + n - 1]
  BY DEF Extent
<1>3. ASSUME NEW k \in 1 .. Len(list)
      PROVE  list[k] \in Payload /\ list[k].lo <= list[k].hi
  <2>1. PICK h \in used : Spans(list[k], mm_blocks[h], mm_sizes[h])
    BY <1>1
  <2>2. mm_blocks[h] \in Int /\ mm_sizes[h] \in Nat \ {0}
    BY <1>1 DEF Heap
  <2>3. list[k].lo <= list[k].hi
    BY <2>1, <2>2 DEF Spans
  <2> QED
    BY <1>1, <2>3
<1>4. Others(index) = {list[k] : k \in 1 .. Len(list)}
  <2>1. \A k \in 1 .. Len(list) : \A h \in used :
           Spans(list[k], mm_blocks[h], mm_sizes[h]) => list[k] = Extent(mm_blocks[h], mm_sizes[h])
    BY <1>3 DEF Spans, Extent, Payload
  <2> HIDE DEF used
  <2>2. {Extent(mm_blocks[h], mm_sizes[h]) : h \in used} = {list[k] : k \in 1 .. Len(list)}
    BY <1>1, <2>1
  <2> QED
    BY <2>2 DEF Others, used
<1>5. \A k \in 1 .. Len(list) : ~(r.lo < list[k].lo /\ list[k].hi < r.hi)
  BY <1>1 DEF Encloses
<1> HIDE DEF used, r
<1>6. CASE r.lo \in Heap /\ r.hi \in Heap
  <2>1. r \in Payload
    BY <1>2, <1>6 DEF Payload
  <2>2. \A k \in 1 .. Len(list) : Overlap(r, list[k]) <=> Within(r) \cap Within(list[k]) # {}
    BY <1>2, <1>3, <1>5, <2>1, OverlapTells
  <2>3. (\E k \in 1 .. Len(list) : Overlap(r, list[k]))
          <=> ~(\A o \in Others(index) : Within(r) \cap Within(o) = {})
    BY <1>4, <2>2
  <2>4. RangeError(r, list) <=> ~HonoursContract(r, index)
    BY <1>1, <1>6, <2>3 DEF RangeError, HonoursContract
  <2> QED
    BY <2>4 DEF r
<1>7. CASE ~(r.lo \in Heap /\ r.hi \in Heap)
  <2>1. RangeError(r, list) /\ ~HonoursContract(r, index)
    BY <1>7 DEF RangeError, HonoursContract
  <2> QED
    BY <2>1 DEF r
<1> QED
  BY <1>6, <1>7

(* What passes them lies in the heap, where no other payload starts.       *)
LEMMA PassedApart ==
  ASSUME HeapHi \in Nat, NEW used, NEW list, Tracks(list, used, mm_blocks, mm_sizes),
         NEW p \in Int, NEW n \in Nat \ {0}, ~RangeError(Extent(p, n), list)
  PROVE  p \in Heap /\ p + n - 1 \in Heap /\ \A h \in used : mm_blocks[h] # p
<1>1. p \in Heap /\ p + n - 1 \in Heap
  BY DEF RangeError, Extent
<1>2. ASSUME NEW h \in used, mm_blocks[h] = p PROVE FALSE
  <2>1. mm_sizes[h] \in Nat \ {0} /\ list \in Seq(Payload)
    BY DEF Tracks
  <2>2. PICK k \in 1 .. Len(list) : Spans(list[k], mm_blocks[h], mm_sizes[h])
    BY DEF Tracks
  <2>3. list[k].lo = p /\ list[k].hi >= p
    BY <1>2, <2>1, <2>2 DEF Spans
  <2>4. Overlap(Extent(p, n), list[k]) /\ k \in DOMAIN list
    BY <2>1, <2>3 DEF Overlap, LowEndIn, Extent
  <2> QED
    BY <2>4 DEF RangeError
<1> QED
  BY <1>1, <1>2

(* Every trace is either correct or an error, once.                        *)
Replaying == {"util", "speed"}
Counted ==
    /\ tracenum \in 1 .. NumTraces /\ mm_errors \in Nat /\ numcorrect \in Nat
    /\ evaluation \in {"libc_valid", "libc_speed"} =>
          tracenum = 1 /\ mm_errors = 0 /\ numcorrect = 0
    /\ evaluation = "valid" => mm_errors + numcorrect = tracenum - 1
    /\ evaluation \in Replaying => mm_errors + numcorrect = tracenum
    /\ evaluation = "finished" => /\ mm_errors + numcorrect = NumTraces
                                  /\ perfindex = "scored" <=> mm_errors = 0

(* As long as a trace is valid, the driver's tables are of what it holds.  *)
Tabled ==
    /\ trace \in TraceFiles /\ opnum \in Nat \ {0}
    /\ evaluation = "valid" =>
          /\ DOMAIN mm_blocks = HeldAfter(trace, opnum - 1)
          /\ DOMAIN mm_sizes = HeldAfter(trace, opnum - 1)
          /\ Tracks(payloads, DOMAIN mm_blocks, mm_blocks, mm_sizes)

Told == ~enclosed => (mm_errors > 0 <=> broken)

(* read_trace and the end of a trace keep the count and the tables.        *)
LEMMA EmptyTables == \A addr, size : Tracks(<<>>, {}, addr, size) /\ DOMAIN <<>> = {}
<1>1. <<>> \in Seq(Payload) /\ Len(<<>>) = 0 /\ DOMAIN <<>> = {}
  OBVIOUS
<1> QED
  BY <1>1 DEF Tracks

LEMMA NextTraceFacts ==
  ASSUME DriverAssumption, Counted, Tabled,
         mm_errors' \in Nat, numcorrect' \in Nat, mm_errors' + numcorrect' = tracenum,
         NextTrace(mm_errors')
  PROVE  Counted' /\ Tabled'
<1>0. /\ NumTraces \in Nat /\ tracenum \in Nat /\ 1 <= tracenum /\ tracenum <= NumTraces
  BY DEF DriverAssumption, Counted
<1>1. CASE tracenum < NumTraces
  <2>1. /\ tracenum' = tracenum + 1 /\ evaluation' = "valid" /\ opnum' = 1
        /\ trace' \in TraceFiles /\ mm_blocks' = <<>> /\ mm_sizes' = <<>> /\ payloads' = <<>>
    BY <1>1 DEF NextTrace, read_trace
  <2>2. Counted'
    <3>1. tracenum' \in 1 .. NumTraces
      BY <1>0, <1>1, <2>1
    <3>2. tracenum' - 1 = tracenum
      BY <1>0, <2>1
    <3>3. mm_errors' + numcorrect' = tracenum' - 1
      BY <3>2
    <3> QED
      BY <2>1, <3>1, <3>3 DEF Counted, Replaying
  <2>3. Tabled'
    BY <2>1, EmptyTables, HeldAfterNone DEF Tabled
  <2> QED
    BY <2>2, <2>3
<1>2. CASE ~(tracenum < NumTraces)
  <2>1. /\ tracenum' = tracenum /\ evaluation' = "finished" /\ trace' = trace /\ opnum' = opnum
        /\ perfindex' = IF mm_errors' = 0 THEN "scored" ELSE "zero"
    BY <1>2 DEF NextTrace
  <2>2. Counted'
    <3>1. tracenum' \in 1 .. NumTraces /\ tracenum = NumTraces
      BY <1>0, <1>2, <2>1
    <3>2. mm_errors' + numcorrect' = NumTraces
      BY <3>1
    <3>3. perfindex' = "scored" <=> mm_errors' = 0
      BY <2>1
    <3> QED
      BY <2>1, <3>1, <3>2, <3>3 DEF Counted, Replaying
  <2>3. Tabled'
    BY <2>1 DEF Tabled
  <2> QED
    BY <2>2, <2>3
<1> QED
  BY <1>1, <1>2

(* The driver believes an answer exactly when the package keeps its word.  *)
LEMMA JudgeFacts ==
  ASSUME DriverAssumption, Counted, Tabled, Told, evaluation = "valid",
         NEW p \in Addresses \cup {NIL}, NEW index, NEW size \in Nat \ {0},
         NEW list, NEW heap, NEW keep, Judge(p, index, size, list, heap, keep),
         Tracks(list, DOMAIN mm_blocks \ {index}, mm_blocks, mm_sizes),
         HeldAfter(trace, opnum) = HeldAfter(trace, opnum - 1) \cup {index}
  PROVE  Counted' /\ Tabled' /\ Told'
<1> DEFINE r == Extent(p, size)
           kept == Preserved(heap, p, keep, index)
           good == HonoursContract(r, index)
           bad == RangeError(r, list)
           around == Encloses(r, list)
<1>1. p \in Int /\ HeapHi \in Nat
  BY DEF DriverAssumption, NIL
<1>2. ~around => (bad <=> ~good)
  BY <1>1, ChecksExact
<1>3. /\ broken' = (broken \/ p = NIL \/ ~good \/ ~kept)
      /\ enclosed' = (enclosed \/ (p # NIL /\ around))
      /\ numcorrect' = numcorrect
  BY DEF Judge
<1>4. /\ mm_errors \in Nat /\ numcorrect \in Nat /\ tracenum \in Int
      /\ mm_errors + numcorrect = tracenum - 1
  BY DEF Counted
<1>5. CASE p = NIL \/ bad \/ ~kept
  <2>1. mm_errors' = mm_errors + 1 /\ NextTrace(mm_errors')
    BY <1>5 DEF Judge, malloc_error
  <2>2. mm_errors' \in Nat /\ mm_errors' > 0 /\ mm_errors' + numcorrect' = tracenum
    BY <1>3, <1>4, <2>1
  <2>3. Counted' /\ Tabled'
    BY <1>3, <1>4, <2>1, <2>2, NextTraceFacts
  <2> HIDE DEF good, bad, kept, around
  <2>4. Told'
    BY <1>2, <1>3, <1>5, <2>2 DEF Told
  <2> QED
    BY <2>3, <2>4
<1>6. CASE ~(p = NIL \/ bad \/ ~kept)
  <2>1. /\ payloads' = <<r>> \o list
        /\ mm_blocks' = Put(mm_blocks, index, p) /\ mm_sizes' = Put(mm_sizes, index, size)
        /\ opnum' = opnum + 1 /\ evaluation' = evaluation /\ tracenum' = tracenum
        /\ trace' = trace /\ mm_errors' = mm_errors /\ perfindex' = perfindex
    BY <1>6 DEF Judge
  <2>2. Counted'
    BY <1>3, <2>1 DEF Counted
  <2>3. Told'
    <3> HIDE DEF good, bad, kept, around
    <3> QED
      BY <1>2, <1>3, <1>6, <2>1 DEF Told
  <2>4. Tabled'
    <3> DEFINE others == DOMAIN mm_blocks \ {index}
    <3>1. /\ p \in Heap /\ p + size - 1 \in Heap /\ \A h \in others : mm_blocks[h] # p
      BY <1>1, <1>6, PassedApart
    <3>2. /\ DOMAIN mm_blocks' = DOMAIN mm_blocks \cup {index} /\ mm_blocks'[index] = p
          /\ DOMAIN mm_sizes' = DOMAIN mm_sizes \cup {index} /\ mm_sizes'[index] = size
          /\ \A h \in others : mm_blocks'[h] = mm_blocks[h]
      BY <2>1 DEF Put
    <3>3. /\ DOMAIN mm_blocks = HeldAfter(trace, opnum - 1)
          /\ DOMAIN mm_sizes = HeldAfter(trace, opnum - 1)
      BY DEF Tabled
    <3>4. \A h \in others : mm_sizes'[h] = mm_sizes[h]
      BY <2>1, <3>3 DEF Put
    <3>5. index \notin others /\ Tracks(list, others, mm_blocks, mm_sizes)
      OBVIOUS
    <3>6. DOMAIN mm_blocks' = others \cup {index}
      BY <3>2
    <3> HIDE DEF others, r
    <3>7. Tracks(<<Extent(p, size)>> \o list, others \cup {index}, mm_blocks', mm_sizes')
      BY <3>1, <3>2, <3>4, <3>5, TracksAdded
    <3>8. Tracks(payloads', DOMAIN mm_blocks', mm_blocks', mm_sizes')
      BY <2>1, <3>6, <3>7 DEF r
    <3>9. trace \in TraceFiles /\ opnum \in Nat \ {0} /\ opnum' - 1 = opnum
      BY <2>1 DEF Tabled
    <3>10. trace' \in TraceFiles /\ opnum' \in Nat \ {0}
      BY <2>1, <3>9
    <3>11. HeldAfter(trace, opnum)' = HeldAfter(trace', opnum')
      OBVIOUS
    <3>12. /\ DOMAIN mm_blocks' = HeldAfter(trace', opnum' - 1)
           /\ DOMAIN mm_sizes' = HeldAfter(trace', opnum' - 1)
      BY <2>1, <3>2, <3>3, <3>9
    <3> QED
      BY <3>8, <3>10, <3>12 DEF Tabled
  <2> QED
    BY <2>2, <2>3, <2>4
<1> QED
  BY <1>5, <1>6

(* The requests of a trace that is being checked.                          *)
LEMMA AllocFacts ==
  ASSUME TraceAssumption, DriverAssumption, Counted, Tabled, Told, ValidAlloc
  PROVE  Counted' /\ Tabled' /\ Told'
<1>1. PICK p \in Addresses \cup {NIL} :
         Requested({"valid"}, "a") /\ Judge(p, Op.index, Op.size, payloads, bytes, 0)
  BY DEF ValidAlloc
<1>2. evaluation = "valid" /\ opnum <= Len(trace) /\ Op.type = "a"
  BY <1>1 DEF Requested
<1>3. /\ trace \in TraceFiles /\ opnum \in Nat \ {0}
      /\ DOMAIN mm_blocks = HeldAfter(trace, opnum - 1)
      /\ Tracks(payloads, DOMAIN mm_blocks, mm_blocks, mm_sizes)
  BY <1>2 DEF Tabled
<1>4. /\ Op.size \in Nat \ {0} /\ Op.index \notin HeldAfter(trace, opnum - 1)
      /\ HeldAfter(trace, opnum) = HeldAfter(trace, opnum - 1) \cup {Op.index}
  BY <1>2, <1>3, OpFacts
<1>5. DOMAIN mm_blocks \ {Op.index} = DOMAIN mm_blocks
  BY <1>3, <1>4
<1> QED
  BY <1>1, <1>2, <1>3, <1>4, <1>5, JudgeFacts

LEMMA ReallocFacts ==
  ASSUME TraceAssumption, DriverAssumption, Counted, Tabled, Told, ValidRealloc
  PROVE  Counted' /\ Tabled' /\ Told'
<1> DEFINE old == mm_blocks[Op.index]
           keep == Min({Op.size, mm_sizes[Op.index]})
<1>1. PICK p \in Addresses \cup {NIL}, copies \in BOOLEAN :
         /\ Requested({"valid"}, "r")
         /\ Judge(p, Op.index, Op.size, Removed(payloads, old), Copied(old, p, keep, copies), keep)
  BY DEF ValidRealloc
<1>2. evaluation = "valid" /\ opnum <= Len(trace) /\ Op.type = "r"
  BY <1>1 DEF Requested
<1>3. /\ trace \in TraceFiles /\ opnum \in Nat \ {0}
      /\ DOMAIN mm_blocks = HeldAfter(trace, opnum - 1)
      /\ Tracks(payloads, DOMAIN mm_blocks, mm_blocks, mm_sizes)
  BY <1>2 DEF Tabled
<1>4. /\ Op.size \in Nat \ {0} /\ Op.index \in HeldAfter(trace, opnum - 1)
      /\ HeldAfter(trace, opnum) = HeldAfter(trace, opnum - 1) \cup {Op.index}
  BY <1>2, <1>3, OpFacts
<1>5. Tracks(Removed(payloads, old), DOMAIN mm_blocks \ {Op.index}, mm_blocks, mm_sizes)
  BY <1>3, <1>4, TracksRemoved
<1> HIDE DEF old, keep
<1> QED
  BY <1>1, <1>2, <1>4, <1>5, JudgeFacts

LEMMA FreeFacts ==
  ASSUME TraceAssumption, Counted, Tabled, Told, ValidFree
  PROVE  Counted' /\ Tabled' /\ Told'
<1>1. evaluation = "valid" /\ opnum <= Len(trace) /\ Op.type = "f"
  BY DEF ValidFree, Requested
<1>2. /\ trace \in TraceFiles /\ opnum \in Nat \ {0}
      /\ DOMAIN mm_blocks = HeldAfter(trace, opnum - 1)
      /\ DOMAIN mm_sizes = HeldAfter(trace, opnum - 1)
      /\ Tracks(payloads, DOMAIN mm_blocks, mm_blocks, mm_sizes)
  BY <1>1 DEF Tabled
<1>3. /\ Op.index \in HeldAfter(trace, opnum - 1)
      /\ HeldAfter(trace, opnum) = HeldAfter(trace, opnum - 1) \ {Op.index}
  BY <1>1, <1>2, OpFacts
<1> DEFINE used == DOMAIN mm_blocks \ {Op.index}
<1>4. Tracks(Removed(payloads, mm_blocks[Op.index]), used, mm_blocks, mm_sizes)
  BY <1>2, <1>3, TracksRemoved
<1>5. /\ payloads' = Removed(payloads, mm_blocks[Op.index])
      /\ DOMAIN mm_blocks' = used /\ DOMAIN mm_sizes' = used
      /\ \A h \in used : mm_blocks'[h] = mm_blocks[h] /\ mm_sizes'[h] = mm_sizes[h]
      /\ opnum' = opnum + 1 /\ trace' = trace
  BY <1>2 DEF ValidFree, Without
<1> HIDE DEF used
<1>6. Tracks(payloads', DOMAIN mm_blocks', mm_blocks', mm_sizes')
  BY <1>4, <1>5 DEF Tracks
<1>7. used = HeldAfter(trace', opnum' - 1) /\ opnum' \in Nat \ {0}
  BY <1>2, <1>3, <1>5 DEF used
<1>8. Tabled'
  BY <1>2, <1>5, <1>6, <1>7 DEF Tabled
<1>9. Counted' /\ Told'
  BY DEF ValidFree, Counted, Told
<1> QED
  BY <1>8, <1>9

(* The three together are inductive.                                       *)
MInv == Counted /\ Tabled /\ Told

LEMMA VerdictInductive ==
  ASSUME TraceAssumption, DriverAssumption, MInv, [MdriverNext]_mdriverVars
  PROVE  MInv'
<1> USE DEF MInv
<1>1. CASE ValidAlloc
  BY <1>1, AllocFacts
<1>2. CASE ValidRealloc
  BY <1>2, ReallocFacts
<1>3. CASE ValidFree
  BY <1>3, FreeFacts
<1>4. CASE InitFails
  <2>1. /\ evaluation = "valid" /\ mm_errors' = mm_errors + 1 /\ NextTrace(mm_errors')
        /\ broken' = TRUE /\ numcorrect' = numcorrect
    BY <1>4 DEF InitFails, malloc_error
  <2>2. /\ mm_errors' \in Nat /\ mm_errors' > 0 /\ numcorrect' \in Nat
        /\ mm_errors' + numcorrect' = tracenum
    BY <2>1 DEF Counted
  <2> QED
    BY <2>1, <2>2, NextTraceFacts DEF Told
<1>5. CASE EvaluatedSpeed
  <2>1. /\ evaluation = "speed" /\ NextTrace(mm_errors)
        /\ UNCHANGED <<mm_errors, numcorrect, broken, enclosed>>
    BY <1>5 DEF EvaluatedSpeed, EndOf
  <2>2. mm_errors' \in Nat /\ numcorrect' \in Nat /\ mm_errors' + numcorrect' = tracenum
    BY <2>1 DEF Counted, Replaying
  <2> QED
    BY <2>1, <2>2, NextTraceFacts DEF Told
<1>6. CASE Valid
  <2>1. /\ evaluation = "valid" /\ evaluation' = "util" /\ opnum' = 1
        /\ numcorrect' = numcorrect + 1
        /\ UNCHANGED <<tracenum, trace, mm_errors, perfindex, broken, enclosed>>
    BY <1>6 DEF Valid, EndOf, Restart
  <2>2. numcorrect' \in Nat /\ mm_errors' + numcorrect' = tracenum'
    BY <2>1 DEF Counted
  <2> QED
    BY <2>1, <2>2 DEF Counted, Tabled, Told, Replaying
<1>7. CASE EvaluatedUtil \/ LibcValid
  <2>1. /\ \/ evaluation = "util" /\ evaluation' = "speed"
           \/ evaluation = "libc_valid" /\ evaluation' = "libc_speed"
        /\ opnum' = 1
        /\ UNCHANGED <<tracenum, trace, mm_errors, numcorrect, perfindex, broken, enclosed>>
    BY <1>7 DEF EvaluatedUtil, LibcValid, EndOf, Restart
  <2> QED
    BY <2>1 DEF Counted, Tabled, Told, Replaying
<1>8. CASE LibcSpeed
  <2>1. /\ evaluation' = "valid" /\ opnum' = 1 /\ trace' \in TraceFiles
        /\ mm_blocks' = <<>> /\ mm_sizes' = <<>> /\ payloads' = <<>>
    BY <1>8 DEF LibcSpeed, read_trace
  <2>2. Tabled'
    BY <2>1, EmptyTables, HeldAfterNone DEF Tabled
  <2>3. Counted' /\ Told'
    BY <1>8 DEF LibcSpeed, EndOf, Counted, Told, Replaying
  <2> QED
    BY <2>2, <2>3
<1>9. CASE UtilRequest \/ UtilFree \/ ReplayRequest
  <2>1. /\ evaluation # "valid" /\ opnum' = opnum + 1
        /\ UNCHANGED <<evaluation, tracenum, trace, mm_errors, numcorrect, perfindex, broken, enclosed>>
    BY <1>9 DEF UtilRequest, UtilFree, ReplayRequest, Requested, Replay
  <2> QED
    BY <2>1 DEF Counted, Tabled, Told
<1>10. CASE RequestFails
  BY <1>10 DEF RequestFails, app_error, Counted, Tabled, Told, Replaying
<1>11. CASE UNCHANGED mdriverVars
  BY <1>11 DEF mdriverVars, Counted, Tabled, Told
<1> QED
  BY <1>1, <1>2, <1>3, <1>4, <1>5, <1>6, <1>7, <1>8, <1>9, <1>10, <1>11 DEF MdriverNext

(* Whatever package, whatever traces: the driver reports an error exactly  *)
(* when the package broke its contract, unless a payload was put around    *)
(* another one, and scores it exactly when every trace was correct.        *)
THEOREM VerdictStaysExact == MdriverSpec => []VerdictExact
<1>1. MdriverInit => MInv
  <2> SUFFICES ASSUME MdriverInit PROVE MInv
    OBVIOUS
  <2>1. Counted /\ Told
    BY DriverAssumption DEF MdriverInit, Counted, Told, DriverAssumption, Replaying
  <2>2. Tabled
    BY DEF MdriverInit, Tabled
  <2> QED
    BY <2>1, <2>2 DEF MInv
<1>2. MInv /\ [MdriverNext]_mdriverVars => MInv'
  BY VerdictInductive, TraceAssumption, DriverAssumption
<1>3. MInv => VerdictExact
  BY DEF MInv, Counted, Told, VerdictExact
<1> QED
  BY <1>1, <1>2, <1>3, PTL DEF MdriverSpec

----------------------------------------------------------------------------
(* The utilization of the driver: sums of the sizes of requests.           *)

(* The sizes of the requests S of a trace, as MapThenSumSet adds them up.  *)
Pick(s) == CHOOSE x \in s : TRUE
SizeSum(t, S) ==
    LET iter[s \in SUBSET S] ==
          IF s = {} THEN 0 ELSE LET x == Pick(s) IN t[x].size + iter[s \ {x}]
    IN  iter[S]
(* f has the sum of every part of S.                                       *)
Weighs(t, S, f) ==
    /\ f \in [SUBSET S -> Nat]
    /\ \A s \in SUBSET S : f[s] = IF s = {} THEN 0 ELSE t[Pick(s)].size + f[s \ {Pick(s)}]

(* The requests among the first k that hold a block now.                   *)
Live(t, k) == {h \in 1 .. k : h = Max({j \in 1 .. k : t[j].index = t[h].index}) /\ t[h].type # "f"}

(* What the utilization is to count is such a sum.                         *)
LEMMA AllocatedIs == \A k : AllocatedAfter(k) = SizeSum(trace, Live(trace, k))
BY DEF AllocatedAfter, SizeSum, Live, MapThenSumSet, MapThenFoldSet, Pick

(* The first of some subsets of S in the order of their sizes.             *)
LEMMA LeastSubset ==
  ASSUME NEW S, IsFiniteSet(S), NEW C, C \subseteq SUBSET S, C # {}
  PROVE  \E c \in C : \A d \in C : Cardinality(c) <= Cardinality(d)
<1> DEFINE N == {Cardinality(c) : c \in C}
<1>1. \A c \in C : Cardinality(c) \in Nat
  BY FS_Subset, FS_CardinalityType
<1>2. N \subseteq Nat /\ N # {}
  BY <1>1
<1>3. Min(N) \in N /\ \A n \in N : Min(N) <= n
  <2> HIDE DEF N
  <2> QED
    BY <1>2, MinNat
<1> QED
  BY <1>3

(* A set without one of its elements is smaller by one.                    *)
LEMMA PickedOut ==
  ASSUME NEW S, IsFiniteSet(S)
  PROVE  \A s \in SUBSET S : \A x \in s :
            /\ Cardinality(s) \in Nat \ {0} /\ IsFiniteSet(s)
            /\ s \ {x} \in SUBSET S /\ Cardinality(s \ {x}) = Cardinality(s) - 1
            /\ Cardinality(s \ {x}) \in Nat /\ Cardinality(s \ {x}) < Cardinality(s)
<1> TAKE s \in SUBSET S
<1> TAKE x \in s
<1>1. IsFiniteSet(s)
  BY FS_Subset
<1>2. Cardinality(s) \in Nat
  BY <1>1, FS_CardinalityType
<1>3. IsFiniteSet(s \ {x}) /\ Cardinality(s \ {x}) = Cardinality(s) - 1
  BY <1>1, FS_RemoveElement
<1>4. Cardinality(s \ {x}) \in Nat
  BY <1>3, FS_CardinalityType
<1> QED
  BY <1>1, <1>2, <1>3, <1>4

(* There are sums f of all the parts of a set.                             *)
LEMMA WeighsExist ==
  ASSUME NEW t, NEW S, IsFiniteSet(S), \A x \in S : t[x].size \in Nat
  PROVE  \E f : Weighs(t, S, f)
<1> DEFINE Adds(f, s) == f[s] = IF s = {} THEN 0 ELSE t[Pick(s)].size + f[s \ {Pick(s)}]
           Upto(f, n) == /\ f \in [SUBSET S -> Nat]
                         /\ \A s \in SUBSET S : Cardinality(s) <= n => Adds(f, s)
           Bad == {n \in Nat : ~ \E f : Upto(f, n)}
<1>1. Cardinality(S) \in Nat /\ \A s \in SUBSET S : Cardinality(s) \in Nat /\ Cardinality(s) <= Cardinality(S)
  BY FS_Subset, FS_CardinalityType
<1>2. \A s \in SUBSET S : s # {} => /\ Pick(s) \in s /\ s \ {Pick(s)} \in SUBSET S
                                    /\ Cardinality(s \ {Pick(s)}) = Cardinality(s) - 1
                                    /\ t[Pick(s)].size \in Nat
  <2> TAKE s \in SUBSET S
  <2> HAVE s # {}
  <2>1. Pick(s) \in s
    BY DEF Pick
  <2> QED
    BY <2>1, PickedOut
<1>3. Bad = {}
  <2> SUFFICES ASSUME Bad # {} PROVE FALSE
    OBVIOUS
  <2>1. PICK n : n \in Bad /\ \A j \in Bad : n <= j
    <3>1. Bad \subseteq Nat
      OBVIOUS
    <3> HIDE DEF Bad
    <3> QED
      BY <3>1, MinNat
  <2>2. n # 0
    <3> DEFINE z == [s \in SUBSET S |-> 0]
    <3>1. \A s \in SUBSET S : Cardinality(s) <= 0 => s = {}
      <4> TAKE s \in SUBSET S
      <4>1. \A x \in s : Cardinality(s) \in Nat \ {0}
        BY PickedOut
      <4>2. s # {} => ~(Cardinality(s) <= 0)
        BY <4>1
      <4> QED
        BY <4>2
    <3>2. z \in [SUBSET S -> Nat] /\ z[{}] = 0
      OBVIOUS
    <3> HIDE DEF z
    <3>3. Upto(z, 0)
      BY <3>1, <3>2
    <3>4. 0 \notin Bad
      BY <3>3
    <3> HIDE DEF Bad
    <3> QED
      BY <2>1, <3>4
  <2>3. n - 1 \in Nat /\ n \in Nat /\ n - 1 \notin Bad
    <3>1. n \in Nat
      BY <2>1
    <3>2. n - 1 \in Nat /\ ~(n <= n - 1)
      BY <2>2, <3>1
    <3> HIDE DEF Bad
    <3> QED
      BY <2>1, <3>1, <3>2
  <2>4. PICK f : Upto(f, n - 1)
    BY <2>3
  <2> DEFINE g == [s \in SUBSET S |-> IF Cardinality(s) = n THEN t[Pick(s)].size + f[s \ {Pick(s)}] ELSE f[s]]
  <2>5. \A s \in SUBSET S : Cardinality(s) = n => s # {}
    BY <2>2, FS_EmptySet
  <2>6. g \in [SUBSET S -> Nat]
    <3>1. \A s \in SUBSET S : f[s] \in Nat
      BY <2>4
    <3>2. \A s \in SUBSET S : Cardinality(s) = n => t[Pick(s)].size + f[s \ {Pick(s)}] \in Nat
      <4> TAKE s \in SUBSET S
      <4> HAVE Cardinality(s) = n
      <4>1. t[Pick(s)].size \in Nat /\ s \ {Pick(s)} \in SUBSET S
        BY <1>2, <2>5
      <4>2. f[s \ {Pick(s)}] \in Nat
        BY <3>1, <4>1
      <4> QED
        BY <4>1, <4>2
    <3> QED
      BY <3>1, <3>2
  <2>7. ASSUME NEW s \in SUBSET S, Cardinality(s) <= n PROVE Adds(g, s)
    <3>1. g[s] = IF Cardinality(s) = n THEN t[Pick(s)].size + f[s \ {Pick(s)}] ELSE f[s]
      OBVIOUS
    <3>2. s # {} => g[s \ {Pick(s)}] = f[s \ {Pick(s)}]
      <4> HAVE s # {}
      <4>1. PICK r : r = s \ {Pick(s)}
        OBVIOUS
      <4>2. r \in SUBSET S /\ Cardinality(r) # n
        BY <1>1, <1>2, <2>3, <2>7, <4>1
      <4> QED
        BY <4>1, <4>2
    <3> HIDE DEF g
    <3>3. CASE Cardinality(s) = n
      BY <2>5, <3>1, <3>2, <3>3
    <3>4. CASE Cardinality(s) # n
      <4>1. Cardinality(s) <= n - 1
        BY <1>1, <2>3, <2>7, <3>4
      <4>2. Adds(f, s)
        BY <2>4, <4>1
      <4> QED
        BY <3>1, <3>2, <3>4, <4>2
    <3> QED
      BY <3>3, <3>4
  <2> HIDE DEF g, Adds
  <2>8. Upto(g, n)
    BY <2>6, <2>7
  <2> QED
    BY <2>1, <2>8
<1>4. PICK f : Upto(f, Cardinality(S))
  BY <1>1, <1>3
<1> QED
  BY <1>1, <1>4 DEF Weighs

(* Which element is picked first does not matter.                          *)
LEMMA WeighsAny ==
  ASSUME NEW t, NEW S, IsFiniteSet(S), \A x \in S : t[x].size \in Nat, NEW f, Weighs(t, S, f)
  PROVE  \A s \in SUBSET S : \A x \in s : f[s] = t[x].size + f[s \ {x}]
<1> DEFINE Bad == {s \in SUBSET S : \E x \in s : f[s] # t[x].size + f[s \ {x}]}
<1> SUFFICES ASSUME Bad # {} PROVE FALSE
  OBVIOUS
<1>1. PICK s : s \in Bad /\ \A d \in Bad : Cardinality(s) <= Cardinality(d)
  <2>1. Bad \subseteq SUBSET S
    OBVIOUS
  <2> HIDE DEF Bad
  <2> QED
    BY <2>1, LeastSubset
<1>2. s \in SUBSET S
  BY <1>1
<1>3. PICK x \in s : f[s] # t[x].size + f[s \ {x}]
  BY <1>1
<1>4. PICK y \in s : y = Pick(s) /\ f[s] = t[y].size + f[s \ {y}]
  <2>1. Pick(s) \in s
    BY <1>3 DEF Pick
  <2> QED
    BY <1>2, <2>1 DEF Weighs
<1>5. x # y
  BY <1>3, <1>4
<1>6. /\ s \ {x} \in SUBSET S /\ s \ {y} \in SUBSET S /\ y \in s \ {x} /\ x \in s \ {y}
      /\ Cardinality(s \ {x}) < Cardinality(s) /\ Cardinality(s \ {y}) < Cardinality(s)
      /\ Cardinality(s) \in Nat /\ Cardinality(s \ {x}) \in Nat /\ Cardinality(s \ {y}) \in Nat
  BY <1>2, <1>5, PickedOut
<1>7. s \ {x} \notin Bad /\ s \ {y} \notin Bad
  <2> HIDE DEF Bad
  <2> QED
    BY <1>1, <1>6
<1>8. /\ f[s \ {x}] = t[y].size + f[(s \ {x}) \ {y}]
      /\ f[s \ {y}] = t[x].size + f[(s \ {y}) \ {x}]
  BY <1>6, <1>7
<1>9. PICK r : r = (s \ {x}) \ {y} /\ r = (s \ {y}) \ {x}
  OBVIOUS
<1>10. t[x].size \in Nat /\ t[y].size \in Nat /\ f[r] \in Nat
  BY <1>2, <1>6, <1>9 DEF Weighs
<1> HIDE DEF Bad
<1>11. f[s] = t[y].size + (t[x].size + f[r])
  BY <1>4, <1>8, <1>9
<1>12. f[s \ {x}] = t[y].size + f[r]
  BY <1>8, <1>9
<1>13. t[y].size + (t[x].size + f[r]) = t[x].size + (t[y].size + f[r])
  BY <1>10
<1> QED
  BY <1>3, <1>11, <1>12, <1>13

(* The sums of two sets agree on the parts they share.                     *)
LEMMA WeighsOnce ==
  ASSUME NEW t, NEW S, IsFiniteSet(S), NEW R, NEW f, NEW g, Weighs(t, S, f), Weighs(t, R, g)
  PROVE  \A s \in SUBSET S : s \in SUBSET R => f[s] = g[s]
<1> DEFINE Bad == {s \in SUBSET S : s \in SUBSET R /\ f[s] # g[s]}
<1> SUFFICES ASSUME Bad # {} PROVE FALSE
  OBVIOUS
<1>1. PICK s : s \in Bad /\ \A d \in Bad : Cardinality(s) <= Cardinality(d)
  <2>1. Bad \subseteq SUBSET S
    OBVIOUS
  <2> HIDE DEF Bad
  <2> QED
    BY <2>1, LeastSubset
<1>2. s \in SUBSET S /\ s \in SUBSET R
  BY <1>1
<1>3. s # {}
  BY <1>1 DEF Weighs
<1>4. PICK x \in s : x = Pick(s)
  BY <1>3 DEF Pick
<1>5. /\ s \ {x} \in SUBSET S /\ s \ {x} \in SUBSET R /\ Cardinality(s \ {x}) < Cardinality(s)
      /\ Cardinality(s) \in Nat /\ Cardinality(s \ {x}) \in Nat
  BY <1>2, PickedOut
<1>6. s \ {x} \notin Bad
  <2> HIDE DEF Bad
  <2> QED
    BY <1>1, <1>5
<1>7. f[s \ {x}] = g[s \ {x}]
  BY <1>5, <1>6
<1>8. f[s] = t[x].size + f[s \ {x}] /\ g[s] = t[x].size + g[s \ {x}]
  BY <1>2, <1>3, <1>4 DEF Weighs
<1> QED
  BY <1>1, <1>7, <1>8

(* SizeSum takes one of them.                                              *)
LEMMA SizeSumIs ==
  ASSUME NEW t, NEW S, IsFiniteSet(S), \A x \in S : t[x].size \in Nat
  PROVE  \E f : Weighs(t, S, f) /\ SizeSum(t, S) = f[S]
<1> DEFINE E(f) == [s \in SUBSET S |-> IF s = {} THEN 0 ELSE t[Pick(s)].size + f[s \ {Pick(s)}]]
           iter == CHOOSE f : f = E(f)
<1>1. SizeSum(t, S) = iter[S]
  BY DEF SizeSum
<1>2. PICK h : Weighs(t, S, h)
  BY WeighsExist
<1>3. h = E(h)
  BY <1>2 DEF Weighs
<1>4. iter = E(iter)
  BY <1>3
<1> HIDE DEF iter
<1>5. DOMAIN iter = SUBSET S /\ \A s \in SUBSET S : iter[s] = IF s = {} THEN 0 ELSE t[Pick(s)].size + iter[s \ {Pick(s)}]
  <2> DEFINE b(s) == IF s = {} THEN 0 ELSE t[Pick(s)].size + iter[s \ {Pick(s)}]
  <2>1. iter = [s \in SUBSET S |-> b(s)]
    BY <1>4
  <2> HIDE DEF b, E
  <2>2. DOMAIN iter = SUBSET S /\ \A s \in SUBSET S : iter[s] = b(s)
    BY <2>1
  <2> QED
    BY <2>2 DEF b
<1>6. \A s \in SUBSET S : iter[s] = h[s]
  <2> DEFINE Bad == {s \in SUBSET S : iter[s] # h[s]}
  <2> SUFFICES ASSUME Bad # {} PROVE FALSE
    OBVIOUS
  <2>1. PICK s : s \in Bad /\ \A d \in Bad : Cardinality(s) <= Cardinality(d)
    <3>1. Bad \subseteq SUBSET S
      OBVIOUS
    <3> HIDE DEF Bad
    <3> QED
      BY <3>1, LeastSubset
  <2>2. s \in SUBSET S /\ iter[s] # h[s]
    BY <2>1
  <2>3. s # {}
    BY <1>2, <1>5, <2>2 DEF Weighs
  <2>4. PICK x \in s : x = Pick(s)
    BY <2>3 DEF Pick
  <2>5. /\ s \ {x} \in SUBSET S /\ Cardinality(s \ {x}) < Cardinality(s)
        /\ Cardinality(s) \in Nat /\ Cardinality(s \ {x}) \in Nat
    BY <2>2, PickedOut
  <2>6. s \ {x} \notin Bad
    <3> HIDE DEF Bad
    <3> QED
      BY <2>1, <2>5
  <2>7. iter[s \ {x}] = h[s \ {x}]
    BY <2>5, <2>6
  <2>8. iter[s] = t[x].size + iter[s \ {x}]
    BY <1>5, <2>2, <2>3, <2>4
  <2>9. h[s] = t[x].size + h[s \ {x}]
    BY <1>2, <2>2, <2>3, <2>4 DEF Weighs
  <2> QED
    BY <2>2, <2>7, <2>8, <2>9
<1> HIDE DEF E
<1> QED
  BY <1>1, <1>2, <1>6

(* The sum is a natural, and each request adds its size to it.             *)
LEMMA SizeSumFacts ==
  ASSUME NEW t, NEW S, IsFiniteSet(S), \A x \in S : t[x].size \in Nat
  PROVE  /\ SizeSum(t, S) \in Nat
         /\ S = {} => SizeSum(t, S) = 0
         /\ \A x \in S : SizeSum(t, S) = t[x].size + SizeSum(t, S \ {x})
<1>1. PICK f : Weighs(t, S, f) /\ SizeSum(t, S) = f[S]
  BY SizeSumIs
<1>2. S \in SUBSET S
  OBVIOUS
<1>3. SizeSum(t, S) \in Nat /\ (S = {} => SizeSum(t, S) = 0)
  BY <1>1, <1>2 DEF Weighs
<1>4. ASSUME NEW x \in S PROVE SizeSum(t, S) = t[x].size + SizeSum(t, S \ {x})
  <2>1. PICK R : R = S \ {x}
    OBVIOUS
  <2>2. IsFiniteSet(R) /\ R \subseteq S /\ \A y \in R : t[y].size \in Nat
    BY <2>1, FS_Subset
  <2>3. PICK g : Weighs(t, R, g) /\ SizeSum(t, R) = g[R]
    BY <2>2, SizeSumIs
  <2>4. g[R] = f[R]
    BY <1>1, <2>2, <2>3, WeighsOnce
  <2>5. f[S] = t[x].size + f[S \ {x}]
    BY <1>1, <1>2, WeighsAny
  <2> QED
    BY <1>1, <2>1, <2>3, <2>4, <2>5
<1> QED
  BY <1>3, <1>4

(* A request more adds its size.                                           *)
LEMMA SizeSumAdd ==
  ASSUME NEW t, NEW R, IsFiniteSet(R), \A y \in R : t[y].size \in Nat,
         NEW x, x \notin R, t[x].size \in Nat
  PROVE  SizeSum(t, R \cup {x}) = SizeSum(t, R) + t[x].size /\ SizeSum(t, R) \in Nat
<1>1. PICK T : T = R \cup {x}
  OBVIOUS
<1>2. IsFiniteSet(T) /\ (\A h \in T : t[h].size \in Nat) /\ x \in T /\ T \ {x} = R
  BY <1>1, FS_AddElement
<1>3. \A z \in T : SizeSum(t, T) = t[z].size + SizeSum(t, T \ {z})
  BY <1>2, SizeSumFacts
<1>4. SizeSum(t, T) = t[x].size + SizeSum(t, R)
  BY <1>2, <1>3
<1>5. SizeSum(t, R) \in Nat
  BY SizeSumFacts
<1> QED
  BY <1>1, <1>4, <1>5

(* The greatest of some numbers, which Max is.                             *)
Greatest(S, m) == m \in S /\ \A x \in S : x <= m

(* Max of a set that has a greatest number is that number.                 *)
LEMMA MaxIs ==
  ASSUME NEW S, S \subseteq Nat, NEW m, Greatest(S, m)
  PROVE  Max(S) = m
<1>1. m \in S /\ \A y \in S : m >= y
  BY DEF Greatest
<1>2. \A x \in S : (\A y \in S : x >= y) => x = m
  BY <1>1
<1> QED
  BY <1>1, <1>2 DEF Max

(* Numbers that do not exceed n have a greatest.                           *)
LEMMA GreatestExists ==
  ASSUME NEW n \in Nat, NEW S, S \subseteq 0 .. n, S # {}
  PROVE  \E m : Greatest(S, m)
<1> DEFINE D == {n - x : x \in S}
<1>1. D \subseteq Nat /\ D # {}
  <2>1. \A x \in S : n - x \in Nat
    OBVIOUS
  <2>2. D \subseteq Nat
    BY <2>1
  <2> QED
    BY <2>2
<1>2. PICK d : d \in D /\ \A y \in D : d <= y
  <2> HIDE DEF D
  <2> QED
    BY <1>1, MinNat
<1>3. PICK m \in S : d = n - m
  BY <1>2
<1>4. ASSUME NEW x \in S PROVE x <= m
  <2>1. n - x \in D /\ x \in Int /\ m \in Int
    BY <1>3
  <2>2. n - m <= n - x
    BY <1>2, <1>3, <2>1
  <2> QED
    BY <2>1, <2>2
<1> QED
  BY <1>3, <1>4 DEF Greatest

(* A request is live if it gives its block the last word, and no end.      *)
LEMMA LiveIs ==
  ASSUME NEW t, NEW k \in Nat
  PROVE  \A h : h \in Live(t, k) <=> /\ h \in 1 .. k /\ t[h].type # "f"
                                     /\ \A j \in 1 .. k : t[j].index = t[h].index => j <= h
<1> SUFFICES ASSUME NEW h \in 1 .. k
             PROVE  h = Max({j \in 1 .. k : t[j].index = t[h].index})
                      <=> \A j \in 1 .. k : t[j].index = t[h].index => j <= h
  BY DEF Live
<1> DEFINE S == {j \in 1 .. k : t[j].index = t[h].index}
<1>1. S \subseteq Nat /\ S \subseteq 0 .. k /\ h \in S
  OBVIOUS
<1>2. PICK m : Greatest(S, m)
  <2> HIDE DEF S
  <2> QED
    BY <1>1, GreatestExists
<1>3. Max(S) = m
  <2> HIDE DEF S
  <2> QED
    BY <1>1, <1>2, MaxIs
<1>4. m \in S /\ \A x \in S : x <= m
  BY <1>2 DEF Greatest
<1>5. h = m <=> \A x \in S : x <= h
  <2>1. h \in Int /\ m \in Int
    BY <1>1, <1>4
  <2> HIDE DEF S
  <2> QED
    BY <1>1, <1>4, <2>1
<1>6. (\A x \in S : x <= h) <=> \A j \in 1 .. k : t[j].index = t[h].index => j <= h
  OBVIOUS
<1> QED
  BY <1>3, <1>5, <1>6

(* Each block held has one live request, its last.                         *)
LEMMA LiveHolds ==
  ASSUME NEW t, NEW k \in Nat
  PROVE  /\ \A h \in Live(t, k) : h \in 1 .. k /\ t[h].type # "f"
         /\ \A x \in HeldAfter(t, k) : \E h \in Live(t, k) : t[h].index = x
         /\ \A h \in Live(t, k) : t[h].index \in HeldAfter(t, k)
         /\ \A h, j \in Live(t, k) : t[h].index = t[j].index => h = j
         /\ IsFiniteSet(Live(t, k))
<1>1. \A h \in Live(t, k) : h \in 1 .. k /\ t[h].type # "f"
  BY LiveIs
<1>2. ASSUME NEW x \in HeldAfter(t, k) PROVE \E h \in Live(t, k) : t[h].index = x
  <2>1. PICK j \in 1 .. k : t[j].index = x /\ \A l \in j .. k : t[l].index = t[j].index => t[l].type # "f"
    BY <1>2 DEF HeldAfter
  <2> DEFINE S == {l \in 1 .. k : t[l].index = x}
  <2>2. S \subseteq 0 .. k /\ j \in S
    BY <2>1
  <2>3. PICK m : Greatest(S, m)
    <3> HIDE DEF S
    <3> QED
      BY <2>2, GreatestExists
  <2>4. m \in S /\ \A l \in S : l <= m
    BY <2>3 DEF Greatest
  <2>5. m \in 1 .. k /\ t[m].index = x /\ j <= m /\ \A l \in 1 .. k : t[l].index = x => l <= m
    BY <2>2, <2>4
  <2>6. t[m].type # "f"
    <3>1. m \in j .. k
      BY <2>1, <2>5
    <3> QED
      BY <2>1, <2>5, <3>1
  <2>7. m \in Live(t, k)
    BY <2>5, <2>6, LiveIs
  <2> QED
    BY <2>5, <2>7
<1>3. ASSUME NEW h \in Live(t, k) PROVE t[h].index \in HeldAfter(t, k)
  <2>1. h \in 1 .. k /\ t[h].type # "f" /\ \A j \in 1 .. k : t[j].index = t[h].index => j <= h
    BY LiveIs
  <2>2. \A l \in h .. k : t[l].index = t[h].index => t[l].type # "f"
    <3> TAKE l \in h .. k
    <3> HAVE t[l].index = t[h].index
    <3>1. l \in 1 .. k /\ l >= h
      BY <2>1
    <3>2. l = h
      BY <2>1, <3>1
    <3> QED
      BY <2>1, <3>2
  <2> QED
    BY <2>1, <2>2 DEF HeldAfter
<1>4. ASSUME NEW h \in Live(t, k), NEW j \in Live(t, k), t[h].index = t[j].index PROVE h = j
  <2>1. h \in 1 .. k /\ j \in 1 .. k /\ h <= j /\ j <= h
    BY <1>4, LiveIs
  <2> QED
    BY <2>1
<1>5. IsFiniteSet(Live(t, k))
  <2>1. Live(t, k) \subseteq 1 .. k
    BY <1>1
  <2> QED
    BY <2>1, FS_Interval, FS_Subset
<1> QED
  BY <1>1, <1>2, <1>3, <1>4, <1>5

(* The next request takes the place of the block's last one, or ends it.   *)
LEMMA LiveNext ==
  ASSUME NEW t, NEW k \in Nat
  PROVE  Live(t, k + 1) = {h \in Live(t, k) : t[h].index # t[k + 1].index}
                             \cup (IF t[k + 1].type # "f" THEN {k + 1} ELSE {})
<1> DEFINE N == {h \in Live(t, k) : t[h].index # t[k + 1].index}
                   \cup (IF t[k + 1].type # "f" THEN {k + 1} ELSE {})
<1>1. 1 .. k + 1 = (1 .. k) \cup {k + 1} /\ k + 1 \notin 1 .. k
  OBVIOUS
<1>2. ASSUME NEW h, h \in Live(t, k + 1) PROVE h \in N
  <2>1. h \in 1 .. k + 1 /\ t[h].type # "f" /\ \A j \in 1 .. k + 1 : t[j].index = t[h].index => j <= h
    BY <1>2, LiveIs
  <2>2. CASE h = k + 1
    BY <2>1, <2>2
  <2>3. CASE h # k + 1
    <3>1. h \in 1 .. k
      BY <1>1, <2>1, <2>3
    <3>2. h \in Live(t, k)
      BY <1>1, <2>1, <3>1, LiveIs
    <3>3. t[h].index # t[k + 1].index
      <4>1. k + 1 \in 1 .. k + 1 /\ ~(k + 1 <= h)
        BY <3>1
      <4> QED
        BY <2>1, <4>1
    <3> QED
      BY <3>2, <3>3
  <2> QED
    BY <2>2, <2>3
<1>3. ASSUME NEW h, h \in N PROVE h \in Live(t, k + 1)
  <2>1. CASE h \in Live(t, k) /\ t[h].index # t[k + 1].index
    <3>1. h \in 1 .. k /\ t[h].type # "f" /\ \A j \in 1 .. k : t[j].index = t[h].index => j <= h
      BY <2>1, LiveIs
    <3>2. h \in 1 .. k + 1 /\ \A j \in 1 .. k + 1 : t[j].index = t[h].index => j <= h
      BY <1>1, <2>1, <3>1
    <3> QED
      BY <3>1, <3>2, LiveIs
  <2>2. CASE h = k + 1 /\ t[k + 1].type # "f"
    <3>1. h \in 1 .. k + 1 /\ \A j \in 1 .. k + 1 : j <= h
      BY <2>2
    <3> QED
      BY <2>2, <3>1, LiveIs
  <2> QED
    BY <1>3, <2>1, <2>2
<1> HIDE DEF N
<1>4. Live(t, k + 1) = N
  BY <1>2, <1>3
<1> QED
  BY <1>4 DEF N

(* What a request of a trace adds to the bytes allocated.                  *)
LEMMA SizeSumNext ==
  ASSUME TraceAssumption, NEW t \in TraceFiles, NEW k \in Nat, k < Len(t)
  PROVE  LET e == t[k + 1]
             before == SizeSum(t, Live(t, k))
             after == SizeSum(t, Live(t, k + 1))
         IN  /\ before \in Nat /\ after \in Nat /\ e.size \in Nat
             /\ e.type = "a" => after = before + e.size
             /\ e.type # "a" =>
                   \E h \in Live(t, k) : /\ t[h].index = e.index /\ t[h].size \in Nat
                                         /\ after + t[h].size = before + IF e.type = "f" THEN 0 ELSE e.size
<1>1. /\ Len(t) \in Nat /\ \A h \in 1 .. Len(t) : t[h].size \in Nat
      /\ k + 1 \in 1 .. Len(t) /\ k + 1 \notin 1 .. k
      /\ t[k + 1].type = "a" <=> t[k + 1].index \notin HeldAfter(t, (k + 1) - 1)
  <2> DEFINE Request == [type : {"a", "r", "f"}, index : Nat, size : Nat]
  <2>1. t \in Seq(Request)
    BY DEF TraceAssumption
  <2>2. \A r \in Request : r.size \in Nat
    OBVIOUS
  <2> HIDE DEF Request
  <2>3. Len(t) \in Nat /\ \A h \in 1 .. Len(t) : t[h] \in Request
    BY <2>1
  <2>4. k + 1 \in 1 .. Len(t) /\ k + 1 \notin 1 .. k
    BY <2>3
  <2>5. t[k + 1].type = "a" <=> t[k + 1].index \notin HeldAfter(t, (k + 1) - 1)
    BY <2>4 DEF TraceAssumption
  <2> QED
    BY <2>2, <2>3, <2>4, <2>5
<1>2. (k + 1) - 1 = k /\ \A h \in 1 .. k : h \in 1 .. Len(t)
  BY <1>1
<1> DEFINE A == Live(t, k)
           R == {h \in A : t[h].index # t[k + 1].index}
           e == t[k + 1]
<1>3. /\ IsFiniteSet(A) /\ A \subseteq 1 .. k /\ \A h \in A : t[h].size \in Nat
      /\ \A h, j \in A : t[h].index = t[j].index => h = j
      /\ (e.index \in HeldAfter(t, k) <=> \E h \in A : t[h].index = e.index)
  <2>1. /\ \A h \in A : h \in 1 .. k
        /\ \A x \in HeldAfter(t, k) : \E h \in A : t[h].index = x
        /\ \A h \in A : t[h].index \in HeldAfter(t, k)
        /\ \A h, j \in A : t[h].index = t[j].index => h = j
        /\ IsFiniteSet(A)
    BY LiveHolds
  <2> HIDE DEF A
  <2>2. \A h \in A : t[h].size \in Nat
    BY <1>1, <1>2, <2>1
  <2> QED
    BY <2>1, <2>2
<1>4. IsFiniteSet(R) /\ k + 1 \notin R /\ \A h \in R : t[h].size \in Nat
  <2>1. R \subseteq A
    OBVIOUS
  <2> QED
    BY <1>1, <1>3, <2>1, FS_Subset
<1>5. Live(t, k + 1) = R \cup (IF e.type # "f" THEN {k + 1} ELSE {})
  BY LiveNext
<1>6. SizeSum(t, A) \in Nat /\ SizeSum(t, R) \in Nat
  <2> HIDE DEF A, R
  <2> QED
    BY <1>3, <1>4, SizeSumFacts
<1>7. SizeSum(t, R \cup {k + 1}) = SizeSum(t, R) + e.size /\ e.size \in Nat
  <2> HIDE DEF A, R
  <2>1. t[k + 1].size \in Nat
    BY <1>1
  <2> QED
    BY <1>4, <2>1, SizeSumAdd
<1>8. SizeSum(t, Live(t, k + 1)) = SizeSum(t, R) + IF e.type # "f" THEN e.size ELSE 0
  <2> HIDE DEF A, R, e
  <2>1. CASE e.type # "f"
    <3>1. Live(t, k + 1) = R \cup {k + 1}
      BY <1>5, <2>1
    <3> QED
      BY <1>7, <2>1, <3>1
  <2>2. CASE e.type = "f"
    <3>1. Live(t, k + 1) = R
      BY <1>5, <2>2
    <3> QED
      BY <1>6, <2>2, <3>1
  <2> QED
    BY <2>1, <2>2
<1>9. CASE e.type = "a"
  <2>1. R = A
    BY <1>1, <1>2, <1>3, <1>9
  <2> HIDE DEF A, R
  <2>2. SizeSum(t, Live(t, k + 1)) = SizeSum(t, A) + e.size
    BY <1>8, <1>9, <2>1
  <2>3. SizeSum(t, Live(t, k)) \in Nat /\ SizeSum(t, Live(t, k + 1)) = SizeSum(t, Live(t, k)) + e.size
    BY <1>6, <2>2 DEF A
  <2>4. SizeSum(t, Live(t, k + 1)) \in Nat
    BY <1>7, <2>3
  <2> QED
    BY <1>7, <1>9, <2>3, <2>4
<1>10. CASE e.type # "a"
  <2>1. PICK h \in A : t[h].index = e.index
    BY <1>1, <1>2, <1>3, <1>10
  <2>2. R = A \ {h}
    BY <1>3, <2>1
  <2> HIDE DEF A, R
  <2>3. SizeSum(t, A) = t[h].size + SizeSum(t, R) /\ t[h].size \in Nat
    <3>0. IsFiniteSet(A) /\ \A z \in A : t[z].size \in Nat
      BY <1>3
    <3>1. \A z \in A : SizeSum(t, A) = t[z].size + SizeSum(t, A \ {z})
      BY <3>0, SizeSumFacts
    <3> QED
      BY <1>3, <2>2, <3>1
  <2>4. SizeSum(t, Live(t, k + 1)) + t[h].size = SizeSum(t, A) + IF e.type = "f" THEN 0 ELSE e.size
    <3> HIDE DEF e
    <3>1. CASE e.type = "f"
      <4>1. SizeSum(t, Live(t, k + 1)) = SizeSum(t, R)
        BY <1>6, <1>8, <3>1
      <4>2. PICK r, x \in Nat : r = SizeSum(t, R) /\ x = t[h].size
        BY <1>6, <2>3
      <4>3. r + x = (x + r) + 0
        OBVIOUS
      <4> QED
        BY <2>3, <3>1, <4>1, <4>2, <4>3
    <3>2. CASE e.type # "f"
      <4>1. SizeSum(t, Live(t, k + 1)) = SizeSum(t, R) + e.size
        BY <1>8, <3>2
      <4>2. PICK r, x, z \in Nat : r = SizeSum(t, R) /\ x = t[h].size /\ z = e.size
        BY <1>6, <1>7, <2>3
      <4>3. (r + z) + x = (x + r) + z
        OBVIOUS
      <4> QED
        BY <2>3, <3>2, <4>1, <4>2, <4>3
    <3> QED
      BY <3>1, <3>2
  <2>5. SizeSum(t, Live(t, k + 1)) \in Nat
    BY <1>6, <1>7, <1>8
  <2> QED
    BY <1>6, <1>7, <1>10, <2>1, <2>3, <2>4, <2>5 DEF A
<1> QED
  BY <1>9, <1>10

(* What eval_mm_util knows of the requests so far: the bytes they leave    *)
(* allocated, the most that were, and the size of each block that is held. *)
Utilized ==
    /\ evaluation \in {"libc_valid", "libc_speed", "valid"} => total_size = 0 /\ max_total_size = 0
    /\ evaluation = "util" =>
          /\ opnum - 1 <= Len(trace)
          /\ total_size = SizeSum(trace, Live(trace, opnum - 1))
          /\ Greatest({SizeSum(trace, Live(trace, k)) : k \in 0 .. opnum - 1}, max_total_size)
          /\ \A h \in Live(trace, opnum - 1) :
                /\ trace[h].index \in DOMAIN mm_sizes
                /\ mm_sizes[trace[h].index] = trace[h].size

(* The sums over the requests of a trace are numbers, the first is 0.      *)
LEMMA SumsOfTrace ==
  ASSUME TraceAssumption, NEW t \in TraceFiles
  PROVE  /\ SizeSum(t, Live(t, 0)) = 0 /\ Live(t, 0) = {} /\ Len(t) \in Nat
         /\ \A k \in 0 .. Len(t) : SizeSum(t, Live(t, k)) \in Nat
<1>1. Len(t) \in Nat
  BY DEF TraceAssumption
<1>2. Live(t, 0) = {}
  BY DEF Live
<1>3. SizeSum(t, {}) = 0
  <2>1. IsFiniteSet({}) /\ \A x \in {} : t[x].size \in Nat
    BY FS_EmptySet
  <2> QED
    BY <2>1, SizeSumFacts
<1>4. ASSUME NEW k \in 0 .. Len(t) PROVE SizeSum(t, Live(t, k)) \in Nat
  <2>1. CASE k = 0
    <3>1. Live(t, k) = {}
      BY <1>2, <2>1
    <3>2. SizeSum(t, Live(t, k)) = 0
      BY <1>3, <3>1
    <3> QED
      BY <3>2
  <2>2. CASE k # 0
    <3>1. PICK l \in Nat : l < Len(t) /\ k = l + 1
      <4>1. k - 1 \in Nat /\ k - 1 < Len(t) /\ k = (k - 1) + 1
        BY <1>1, <2>2
      <4> QED
        BY <4>1
    <3> QED
      BY <3>1, SizeSumNext
  <2> QED
    BY <2>1, <2>2
<1> QED
  BY <1>1, <1>2, <1>3, <1>4

(* One more number with the greatest so far.                               *)
LEMMA GreatestNext ==
  ASSUME NEW S, S \subseteq Nat, NEW m, Greatest(S, m), NEW x \in Nat
  PROVE  Greatest(S \cup {x}, Max({x, m}))
<1>1. m \in S /\ m \in Nat /\ \A y \in S : y \in Nat /\ y <= m
  BY DEF Greatest
<1>2. CASE x <= m
  <2>1. Greatest({x, m}, m)
    BY <1>1, <1>2 DEF Greatest
  <2>2. Max({x, m}) = m
    BY <1>1, <2>1, MaxIs
  <2> QED
    BY <1>1, <1>2, <2>2 DEF Greatest
<1>3. CASE ~(x <= m)
  <2>1. Greatest({x, m}, x)
    BY <1>1, <1>3 DEF Greatest
  <2>2. Max({x, m}) = x
    BY <1>1, <2>1, MaxIs
  <2>3. \A y \in S : y <= x
    BY <1>1, <1>3
  <2> QED
    BY <1>1, <2>2, <2>3 DEF Greatest
<1> QED
  BY <1>2, <1>3

(* A request of eval_mm_util.                                              *)
LEMMA UtilKeeps ==
  ASSUME TraceAssumption, Tabled, Utilized, UtilRequest \/ UtilFree
  PROVE  Utilized'
<1>1. /\ evaluation = "util" /\ opnum <= Len(trace) /\ opnum' = opnum + 1
      /\ evaluation' = evaluation /\ trace' = trace
      /\ Op.type = "f" <=> UtilFree
  <2>1. CASE UtilRequest
    BY <2>1 DEF UtilRequest, UtilFree, Requested
  <2>2. CASE UtilFree
    BY <2>2 DEF UtilFree, Requested
  <2> QED
    BY <2>1, <2>2
<1>2. PICK k \in Nat : k = opnum - 1 /\ opnum = k + 1 /\ opnum' - 1 = k + 1
  <2>1. PICK n \in Nat : n = opnum - 1 /\ opnum = n + 1
    <3>1. opnum \in Nat \ {0}
      BY DEF Tabled
    <3> QED
      BY <3>1
  <2> QED
    BY <1>1, <2>1
<1>3. PICK t \in TraceFiles : t = trace
  BY DEF Tabled
<1> DEFINE Sm(j) == SizeSum(t, Live(t, j))
           S(n) == {Sm(j) : j \in 0 .. n}
<1>4. /\ k < Len(t) /\ Len(t) \in Nat
  BY <1>1, <1>2, <1>3, SumsOfTrace
<1>5. Op = t[k + 1]
  BY <1>2, <1>3 DEF Op
<1> DEFINE e == t[k + 1]
<1>6. /\ total_size = Sm(k) /\ Greatest(S(k), max_total_size)
      /\ \A h \in Live(t, k) : t[h].index \in DOMAIN mm_sizes /\ mm_sizes[t[h].index] = t[h].size
  BY <1>1, <1>2, <1>3 DEF Utilized
<1>7. /\ Sm(k) \in Nat /\ Sm(k + 1) \in Nat /\ e.size \in Nat
      /\ e.type = "a" => Sm(k + 1) = Sm(k) + e.size
      /\ e.type # "a" =>
            \E h \in Live(t, k) : /\ t[h].index = e.index /\ t[h].size \in Nat
                                  /\ Sm(k + 1) + t[h].size = Sm(k) + IF e.type = "f" THEN 0 ELSE e.size
  BY <1>4, SizeSumNext
<1>8. S(k) \subseteq Nat /\ S(k + 1) = S(k) \cup {Sm(k + 1)}
  <2> HIDE DEF Sm
  <2>1. 0 .. k + 1 = (0 .. k) \cup {k + 1}
    OBVIOUS
  <2>2. \A j \in 0 .. k : Sm(j) \in Nat
    <3>1. \A j \in 0 .. k : j \in 0 .. Len(t)
      BY <1>4
    <3> QED
      BY <3>1, SumsOfTrace DEF Sm
  <2> QED
    BY <2>1, <2>2
<1>9. /\ Live(t, k + 1) = {h \in Live(t, k) : t[h].index # e.index}
                             \cup (IF e.type # "f" THEN {k + 1} ELSE {})
  BY LiveNext
<1> HIDE DEF Sm, S
<1>10. total_size' = Sm(k + 1)
  <2>1. CASE e.type = "a"
    <3>1. total_size' = total_size + e.size - 0
      BY <1>1, <1>5, <2>1 DEF UtilRequest, Grown
    <3> QED
      BY <1>6, <1>7, <2>1, <3>1
  <2>2. CASE e.type = "f"
    <3>1. PICK h \in Live(t, k) : /\ t[h].index = e.index /\ t[h].size \in Nat
                                  /\ Sm(k + 1) + t[h].size = Sm(k) + 0
      BY <1>7, <2>2
    <3>2. total_size' = Sm(k) - t[h].size
      BY <1>1, <1>5, <1>6, <2>2, <3>1 DEF UtilFree
    <3>3. PICK a, b, x \in Nat : a = Sm(k + 1) /\ b = Sm(k) /\ x = t[h].size
      BY <1>7, <3>1
    <3>4. a = b - x
      <4>1. a + x = b + 0
        BY <3>1, <3>3
      <4>2. a = (a + x) - x /\ b + 0 = b
        OBVIOUS
      <4> QED
        BY <4>1, <4>2
    <3> QED
      BY <3>2, <3>3, <3>4
  <2>3. CASE e.type = "r"
    <3>1. PICK h \in Live(t, k) : /\ t[h].index = e.index /\ t[h].size \in Nat
                                  /\ Sm(k + 1) + t[h].size = Sm(k) + e.size
      BY <1>7, <2>3
    <3>2. mm_sizes[e.index] = t[h].size
      BY <1>6, <3>1
    <3>3. total_size' = Sm(k) + e.size - t[h].size
      <4>1. UtilRequest
        BY <1>1, <1>5, <2>3
      <4>2. total_size' = Grown(e.size)
        BY <1>5, <4>1 DEF UtilRequest
      <4>3. Grown(e.size) = total_size + e.size - mm_sizes[e.index]
        BY <1>5, <2>3 DEF Grown
      <4> QED
        BY <1>6, <3>2, <4>2, <4>3
    <3>4. PICK a, b, x, y \in Nat : a = Sm(k + 1) /\ b = Sm(k) /\ x = t[h].size /\ y = e.size
      BY <1>7, <3>1
    <3>5. a = b + y - x
      <4>1. a + x = b + y
        BY <3>1, <3>4
      <4>2. a = (a + x) - x
        OBVIOUS
      <4> QED
        BY <4>1, <4>2
    <3> QED
      BY <3>3, <3>4, <3>5
  <2> QED
    BY <1>1, <1>5, <2>1, <2>2, <2>3 DEF UtilRequest, UtilFree, Requested
<1>11. Greatest(S(k + 1), max_total_size')
  <2>1. CASE UtilRequest
    <3>1. max_total_size' = Max({Sm(k + 1), max_total_size})
      BY <1>10, <2>1 DEF UtilRequest
    <3>2. PICK G, x : G = S(k) /\ x = Sm(k + 1)
      OBVIOUS
    <3>3. G \subseteq Nat /\ x \in Nat /\ Greatest(G, max_total_size)
      BY <1>6, <1>7, <1>8, <3>2
    <3>4. Greatest(G \cup {x}, Max({x, max_total_size}))
      BY <3>3, GreatestNext
    <3> QED
      BY <1>8, <3>1, <3>2, <3>4
  <2>2. CASE UtilFree
    <3>1. e.type = "f"
      BY <1>1, <1>5, <2>2
    <3>2. Sm(k + 1) <= Sm(k)
      <4>1. PICK x \in Nat : Sm(k + 1) + x = Sm(k) + 0
        BY <1>7, <3>1
      <4>2. PICK a, b \in Nat : a = Sm(k + 1) /\ b = Sm(k)
        BY <1>7
      <4>3. a + x = b + 0 => a <= b
        OBVIOUS
      <4> QED
        BY <4>1, <4>2, <4>3
    <3>3. Sm(k) <= max_total_size /\ max_total_size \in Nat
      BY <1>6, <1>8 DEF Greatest, S
    <3>4. Sm(k + 1) <= max_total_size
      BY <1>7, <3>2, <3>3
    <3>5. max_total_size' = max_total_size
      BY <2>2 DEF UtilFree
    <3> QED
      BY <1>6, <1>8, <3>4, <3>5 DEF Greatest
  <2> QED
    BY <2>1, <2>2
<1>12. ASSUME NEW h \in Live(t, k + 1)
       PROVE  t[h].index \in DOMAIN mm_sizes' /\ mm_sizes'[t[h].index] = t[h].size
  <2>1. CASE UtilRequest
    <3>1. mm_sizes' = Put(mm_sizes, e.index, e.size)
      BY <1>5, <2>1 DEF UtilRequest
    <3>2. CASE h \in Live(t, k) /\ t[h].index # e.index
      BY <1>6, <3>1, <3>2 DEF Put
    <3>3. CASE h = k + 1
      BY <3>1, <3>3 DEF Put
    <3> QED
      BY <1>9, <3>2, <3>3
  <2>2. CASE UtilFree
    <3>1. h \in Live(t, k) /\ mm_sizes' = mm_sizes
      BY <1>1, <1>5, <1>9, <2>2 DEF UtilFree
    <3> QED
      BY <1>6, <3>1
  <2> QED
    BY <2>1, <2>2
<1>13. opnum' - 1 <= Len(trace')
  BY <1>1, <1>2, <1>3, <1>4
<1> QED
  BY <1>1, <1>2, <1>3, <1>10, <1>11, <1>12, <1>13 DEF Utilized, Sm, S

(* Whatever the driver does, eval_mm_util finds nothing counted and keeps  *)
(* the count.                                                              *)
LEMMA UtilizedInductive ==
  ASSUME TraceAssumption, Tabled, Utilized, [MdriverNext]_mdriverVars
  PROVE  Utilized'
<1>1. CASE UtilRequest \/ UtilFree
  BY <1>1, UtilKeeps
<1>2. CASE Valid
  <2>1. /\ evaluation' = "util" /\ opnum' = 1 /\ trace' = trace /\ total_size' = 0 /\ max_total_size' = 0
    BY <1>2 DEF Valid, EndOf, Restart, Utilized
  <2>2. PICK t \in TraceFiles : t = trace
    BY DEF Tabled
  <2>3. SizeSum(t, Live(t, 0)) = 0 /\ Live(t, 0) = {} /\ Len(t) \in Nat
    BY SumsOfTrace
  <2>4. opnum' - 1 = 0 /\ {SizeSum(t, Live(t, k)) : k \in 0 .. 0} = {0}
    BY <2>1, <2>3
  <2>5. Greatest({SizeSum(t, Live(t, k)) : k \in 0 .. 0}, 0)
    BY <2>4 DEF Greatest
  <2> QED
    BY <2>1, <2>2, <2>3, <2>4, <2>5 DEF Utilized
<1>3. CASE InitFails \/ ValidAlloc \/ ValidRealloc \/ ValidFree \/ LibcSpeed \/ LibcValid
  <2>1. \/ evaluation' \in {"libc_valid", "libc_speed", "valid"} /\ total_size' = 0 /\ max_total_size' = 0
        \/ evaluation' = "finished"
    BY <1>3 DEF InitFails, ValidAlloc, ValidRealloc, ValidFree, LibcSpeed, LibcValid, Judge, NextTrace,
                read_trace, EndOf, Restart, Requested, Utilized
  <2> QED
    BY <2>1 DEF Utilized
<1>4. CASE EvaluatedSpeed \/ EvaluatedUtil \/ RequestFails
  <2>1. \/ evaluation' = "valid" /\ total_size' = 0 /\ max_total_size' = 0
        \/ evaluation' \in {"speed", "finished", "exited"}
    BY <1>4 DEF EvaluatedSpeed, EvaluatedUtil, RequestFails, app_error, NextTrace, read_trace, EndOf, Restart
  <2> QED
    BY <2>1 DEF Utilized
<1>5. CASE ReplayRequest
  <2>1. evaluation \in Replay /\ UNCHANGED <<evaluation, total_size, max_total_size>>
    BY <1>5 DEF ReplayRequest
  <2> QED
    BY <2>1 DEF Utilized, Replay
<1>6. CASE UNCHANGED mdriverVars
  BY <1>6 DEF mdriverVars, Utilized
<1> QED
  BY <1>1, <1>2, <1>3, <1>4, <1>5, <1>6 DEF MdriverNext

(* Whatever is resized and freed, in any order: eval_mm_util counts the    *)
(* bytes the requests so far leave allocated, and the most that ever were. *)
THEOREM HighWaterMarkStaysExact == MdriverSpec => []HighWaterMark
<1>1. MdriverInit => MInv /\ Utilized
  <2> SUFFICES ASSUME MdriverInit PROVE MInv /\ Utilized
    OBVIOUS
  <2>1. Counted /\ Told
    BY DriverAssumption DEF MdriverInit, Counted, Told, DriverAssumption, Replaying
  <2>2. Tabled /\ Utilized
    BY DEF MdriverInit, Tabled, Utilized
  <2> QED
    BY <2>1, <2>2 DEF MInv
<1>2. MInv /\ Utilized /\ [MdriverNext]_mdriverVars => (MInv /\ Utilized)'
  BY VerdictInductive, UtilizedInductive, TraceAssumption, DriverAssumption DEF MInv
<1>3. MInv /\ Utilized => HighWaterMark
  <2> SUFFICES ASSUME MInv, Utilized, evaluation = "util"
               PROVE  /\ total_size = AllocatedAfter(opnum - 1)
                      /\ max_total_size = Max({AllocatedAfter(k) : k \in 0 .. opnum - 1})
    BY DEF HighWaterMark
  <2> DEFINE T == {SizeSum(trace, Live(trace, k)) : k \in 0 .. opnum - 1}
  <2>1. /\ opnum \in Nat \ {0} /\ opnum - 1 <= Len(trace) /\ trace \in TraceFiles
        /\ total_size = SizeSum(trace, Live(trace, opnum - 1)) /\ Greatest(T, max_total_size)
    BY DEF Utilized, MInv, Tabled
  <2>2. T = {AllocatedAfter(k) : k \in 0 .. opnum - 1}
    BY AllocatedIs
  <2>3. T \subseteq Nat
    <3>1. PICK t \in TraceFiles : t = trace
      BY <2>1
    <3>2. \A k \in 0 .. Len(t) : SizeSum(t, Live(t, k)) \in Nat
      BY TraceAssumption, SumsOfTrace
    <3>3. Len(t) \in Nat
      BY TraceAssumption, SumsOfTrace
    <3>4. \A k \in 0 .. opnum - 1 : k \in 0 .. Len(trace)
      BY <2>1, <3>1, <3>3
    <3> QED
      BY <3>1, <3>2, <3>4
  <2> HIDE DEF T
  <2>4. Max(T) = max_total_size
    BY <2>1, <2>3, MaxIs
  <2> QED
    BY <2>1, <2>2, <2>4, AllocatedIs
<1> QED
  BY <1>1, <1>2, <1>3, PTL DEF MdriverSpec

----------------------------------------------------------------------------
(* The timing package: samples and their ranks.                            *)

(* The order in which the samples m are ranked: equal ones as they came.   *)
Smaller(m, j, h) == m[j] < m[h] \/ (m[j] = m[h] /\ j < h)
Below(m, n, h) == {j \in 1 .. n : Smaller(m, j, h)}
Rank(m, n, h) == Cardinality(Below(m, n, h)) + 1

(* Fewer than n of n samples are below one of them.                        *)
LEMMA BelowFacts ==
  ASSUME NEW n \in Nat, NEW m, \A h \in 1 .. n : m[h] \in Int
  PROVE  \A h \in 1 .. n : /\ IsFiniteSet(Below(m, n, h)) /\ Cardinality(Below(m, n, h)) \in 0 .. n - 1
                           /\ Rank(m, n, h) \in 1 .. n
<1> TAKE h \in 1 .. n
<1>1. IsFiniteSet(1 .. n) /\ Cardinality(1 .. n) = n
  BY FS_Interval
<1>2. IsFiniteSet((1 .. n) \ {h}) /\ Cardinality((1 .. n) \ {h}) = n - 1
  BY <1>1, FS_RemoveElement
<1>3. Below(m, n, h) \subseteq (1 .. n) \ {h}
  BY DEF Below, Smaller
<1>4. IsFiniteSet(Below(m, n, h)) /\ Cardinality(Below(m, n, h)) <= n - 1
  BY <1>2, <1>3, FS_Subset
<1>5. Cardinality(Below(m, n, h)) \in Nat
  BY <1>4, FS_CardinalityType
<1> QED
  BY <1>4, <1>5 DEF Rank

(* A smaller sample has a lower rank.                                      *)
LEMMA RankGrows ==
  ASSUME NEW n \in Nat, NEW m, \A h \in 1 .. n : m[h] \in Int,
         NEW h \in 1 .. n, NEW j \in 1 .. n, Smaller(m, j, h)
  PROVE  Rank(m, n, j) < Rank(m, n, h)
<1>1. j \notin Below(m, n, j)
  BY DEF Below, Smaller
<1>2. Below(m, n, j) \cup {j} \subseteq Below(m, n, h)
  BY DEF Below, Smaller
<1>3. /\ IsFiniteSet(Below(m, n, j)) /\ Cardinality(Below(m, n, j)) \in Nat
      /\ IsFiniteSet(Below(m, n, h)) /\ Cardinality(Below(m, n, h)) \in Nat
  BY BelowFacts
<1>4. Cardinality(Below(m, n, j) \cup {j}) = Cardinality(Below(m, n, j)) + 1
  BY <1>1, <1>3, FS_AddElement
<1>5. Cardinality(Below(m, n, j) \cup {j}) <= Cardinality(Below(m, n, h))
  BY <1>2, <1>3, FS_Subset
<1> QED
  BY <1>3, <1>4, <1>5 DEF Rank

(* The ranks of n samples are 1 to n, one each, in the order of the        *)
(* samples.                                                                *)
LEMMA RankOrders ==
  ASSUME NEW n \in Nat, NEW m, \A h \in 1 .. n : m[h] \in Int
  PROVE  /\ \A h, j \in 1 .. n : Rank(m, n, h) = Rank(m, n, j) => h = j
         /\ \A h, j \in 1 .. n : Rank(m, n, h) <= Rank(m, n, j) => m[h] <= m[j]
         /\ \A p \in 1 .. n : \E h \in 1 .. n : Rank(m, n, h) = p
<1>1. \A h, j \in 1 .. n : Smaller(m, h, j) => Rank(m, n, h) < Rank(m, n, j)
  BY RankGrows
<1>2. \A h, j \in 1 .. n : h = j \/ Smaller(m, h, j) \/ Smaller(m, j, h)
  BY DEF Smaller
<1>3. \A h \in 1 .. n : Rank(m, n, h) \in 1 .. n
  BY BelowFacts
<1>4. \A h, j \in 1 .. n : Rank(m, n, h) = Rank(m, n, j) => h = j
  BY <1>1, <1>2, <1>3
<1>5. \A h, j \in 1 .. n : Rank(m, n, h) <= Rank(m, n, j) => h = j \/ Smaller(m, h, j)
  BY <1>1, <1>2, <1>3
<1>6. \A h, j \in 1 .. n : Rank(m, n, h) <= Rank(m, n, j) => m[h] <= m[j]
  BY <1>5 DEF Smaller
<1> DEFINE f == [h \in 1 .. n |-> Rank(m, n, h)]
<1>7. f \in [1 .. n -> 1 .. n] /\ \A h \in 1 .. n : f[h] = Rank(m, n, h)
  BY <1>3
<1>8. ASSUME NEW p \in 1 .. n, \A h \in 1 .. n : Rank(m, n, h) # p PROVE FALSE
  <2>1. f \in [1 .. n -> (1 .. n) \ {p}]
    BY <1>7, <1>8
  <2>2. IsFiniteSet(1 .. n) /\ Cardinality(1 .. n) = n
    BY FS_Interval
  <2>3. IsFiniteSet((1 .. n) \ {p}) /\ Cardinality((1 .. n) \ {p}) = n - 1
    BY <2>2, FS_RemoveElement
  <2>4. \E h, j \in 1 .. n : h # j /\ f[h] = f[j]
    <3> HIDE DEF f
    <3>1. Cardinality((1 .. n) \ {p}) < Cardinality(1 .. n)
      BY <2>2, <2>3
    <3> QED
      BY <2>1, <2>2, <2>3, <3>1, FS_PigeonHole
  <2> QED
    BY <1>4, <1>7, <2>4
<1> QED
  BY <1>4, <1>6, <1>8


(* One more sample moves those it is smaller than up by one.               *)
LEMMA RankMore ==
  ASSUME NEW n \in Nat, NEW m, \A h \in 1 .. n + 1 : m[h] \in Int
  PROVE  \A h \in 1 .. n : Rank(m, n + 1, h) = IF m[n + 1] < m[h] THEN Rank(m, n, h) + 1
                                               ELSE Rank(m, n, h)
<1> TAKE h \in 1 .. n
<1>1. 1 .. n + 1 = (1 .. n) \cup {n + 1} /\ n + 1 \notin 1 .. n
  OBVIOUS
<1>2. Smaller(m, n + 1, h) <=> m[n + 1] < m[h]
  BY DEF Smaller
<1>3. IsFiniteSet(Below(m, n, h)) /\ Cardinality(Below(m, n, h)) \in Nat
  BY <1>1, BelowFacts
<1>4. CASE m[n + 1] < m[h]
  <2>1. Below(m, n + 1, h) = Below(m, n, h) \cup {n + 1} /\ n + 1 \notin Below(m, n, h)
    BY <1>1, <1>2, <1>4 DEF Below
  <2>2. Cardinality(Below(m, n + 1, h)) = Cardinality(Below(m, n, h)) + 1
    BY <1>3, <2>1, FS_AddElement
  <2> QED
    BY <1>4, <2>2 DEF Rank
<1>5. CASE ~(m[n + 1] < m[h])
  <2>1. Below(m, n + 1, h) = Below(m, n, h)
    BY <1>1, <1>2, <1>5 DEF Below
  <2> QED
    BY <1>5, <2>1 DEF Rank
<1> QED
  BY <1>4, <1>5

(* The values v are the best of the samples m, n of them.                  *)
Best(v, m, n) ==
    /\ n \in Nat /\ \A h \in 1 .. n : m[h] \in Int
    /\ v \in Seq(Int) /\ Len(v) = IF n < KBEST THEN n ELSE KBEST
    /\ \A h \in 1 .. n : Rank(m, n, h) <= KBEST => v[Rank(m, n, h)] = m[h]

(* The best samples lie in values by their ranks, so in order.             *)
LEMMA BestSorted ==
  ASSUME NEW v, NEW m, NEW n, Best(v, m, n)
  PROVE  /\ Len(v) \in 0 .. n
         /\ \A p \in 1 .. Len(v) : \E h \in 1 .. n : Rank(m, n, h) = p /\ v[p] = m[h]
         /\ \A p, q \in 1 .. Len(v) : p <= q => v[p] <= v[q]
<1>0. KBEST \in Nat \ {0} /\ n \in Nat /\ \A h \in 1 .. n : m[h] \in Int
  BY TimingAssumption DEF Best
<1>1. Len(v) \in 0 .. n /\ Len(v) <= KBEST
  BY <1>0 DEF Best
<1>2. ASSUME NEW p \in 1 .. Len(v)
      PROVE  \E h \in 1 .. n : Rank(m, n, h) = p /\ v[p] = m[h]
  <2>1. p \in 1 .. n /\ p <= KBEST
    BY <1>0, <1>1
  <2>2. PICK h \in 1 .. n : Rank(m, n, h) = p
    BY <1>0, <2>1, RankOrders
  <2> QED
    BY <2>1, <2>2 DEF Best
<1>3. ASSUME NEW p \in 1 .. Len(v), NEW q \in 1 .. Len(v), p <= q
      PROVE  v[p] <= v[q]
  <2>1. PICK h \in 1 .. n : Rank(m, n, h) = p /\ v[p] = m[h]
    BY <1>2
  <2>2. PICK j \in 1 .. n : Rank(m, n, j) = q /\ v[q] = m[j]
    BY <1>2
  <2>3. Rank(m, n, h) <= Rank(m, n, j)
    BY <1>3, <2>1, <2>2
  <2>4. \A a, b \in 1 .. n : Rank(m, n, a) <= Rank(m, n, b) => m[a] <= m[b]
    BY <1>0, RankOrders
  <2> QED
    BY <2>1, <2>2, <2>3, <2>4
<1> QED
  BY <1>1, <1>2, <1>3

(* In a sorted sequence the elements up to val are as many as come first.  *)
LEMMA PlaceFacts ==
  ASSUME NEW s, s \in Seq(Int), \A p, q \in 1 .. Len(s) : p <= q => s[p] <= s[q], NEW val \in Int
  PROVE  LET place == Cardinality({h \in DOMAIN s : s[h] <= val})
         IN  /\ place \in 0 .. Len(s)
             /\ \A p \in 1 .. Len(s) : s[p] <= val <=> p <= place
<1> DEFINE L == Len(s)
           C == {q \in 1 .. L + 1 : q = L + 1 \/ s[q] > val}
           T == {h \in DOMAIN s : s[h] <= val}
<1>1. L \in Nat /\ DOMAIN s = 1 .. L /\ \A p \in 1 .. L : s[p] \in Int
  OBVIOUS
<1>2. C \subseteq Nat /\ L + 1 \in C
  BY <1>1
<1>3. PICK c : c \in C /\ \A q \in C : c <= q
  <2> HIDE DEF C
  <2> QED
    BY <1>2, MinNat
<1>4. c \in 1 .. L + 1
  BY <1>3
<1>5. \A p \in 1 .. L : s[p] <= val <=> p <= c - 1
  <2> TAKE p \in 1 .. L
  <2>1. ASSUME p <= c - 1 PROVE s[p] <= val
    <3>1. p \notin C
      BY <1>3, <1>4, <2>1
    <3> QED
      BY <1>1, <3>1
  <2>2. ASSUME ~(p <= c - 1) PROVE ~(s[p] <= val)
    <3>1. c <= p /\ c \in 1 .. L
      BY <1>1, <1>4, <2>2
    <3>2. s[c] > val
      BY <1>1, <1>3, <3>1
    <3>3. s[c] <= s[p]
      BY <3>1
    <3> QED
      BY <1>1, <3>1, <3>2, <3>3
  <2> QED
    BY <2>1, <2>2
<1>6. T = 1 .. c - 1
  BY <1>1, <1>4, <1>5
<1> HIDE DEF T, C, L
<1>7. Cardinality(T) = c - 1
  <2>1. PICK d : d = c - 1 /\ d \in Nat
    BY <1>1, <1>4
  <2>2. Cardinality(1 .. d) = d
    BY <2>1, FS_Interval
  <2> QED
    BY <1>6, <2>1, <2>2
<1>8. Cardinality(T) \in 0 .. Len(s) /\ \A p \in 1 .. Len(s) : s[p] <= val <=> p <= Cardinality(T)
  BY <1>1, <1>4, <1>5, <1>7 DEF L
<1> QED
  BY <1>8 DEF T

(* The sequence t is s with e put in at k.                                 *)
IsInsert(t, s, k, e) ==
    /\ t \in Seq(Int) /\ Len(t) = Len(s) + 1
    /\ \A x \in 1 .. Len(s) + 1 :
          t[x] = IF x < k THEN s[x] ELSE IF x = k THEN e ELSE s[x - 1]

(* InsertAt puts in one element and moves those behind it.                 *)
LEMMA Inserted ==
  ASSUME NEW s, s \in Seq(Int), NEW k, k \in 1 .. Len(s) + 1, NEW e, e \in Int
  PROVE  IsInsert(InsertAt(s, k, e), s, k, e)
<1> DEFINE a == SubSeq(s, 1, k - 1)
           b == SubSeq(s, k, Len(s))
<1>1. a \in Seq(Int) /\ Len(a) = k - 1 /\ \A x \in 1 .. k - 1 : a[x] = s[x]
  <2>1. PICK l \in Nat : l = k - 1 /\ l <= Len(s)
    OBVIOUS
  <2>2. /\ SubSeq(s, 1, l) \in Seq(Int) /\ Len(SubSeq(s, 1, l)) = l
        /\ \A x \in 1 .. l : SubSeq(s, 1, l)[x] = s[x]
    BY <2>1
  <2> QED
    BY <2>1, <2>2
<1>2. b \in Seq(Int) /\ Len(b) = Len(s) - k + 1 /\ \A x \in 1 .. Len(s) - k + 1 : b[x] = s[k + x - 1]
  OBVIOUS
<1> HIDE DEF a, b
<1>3. /\ a \o <<e>> \in Seq(Int) /\ Len(a \o <<e>>) = k
      /\ \A x \in 1 .. k : (a \o <<e>>)[x] = IF x < k THEN s[x] ELSE e
  BY <1>1
<1> DEFINE c == a \o <<e>>
<1> HIDE DEF c
<1>4. /\ c \o b \in Seq(Int) /\ Len(c \o b) = Len(s) + 1
      /\ \A x \in 1 .. k : (c \o b)[x] = c[x]
      /\ \A x \in k + 1 .. Len(s) + 1 : (c \o b)[x] = b[x - k]
  <2>1. c \in Seq(Int) /\ Len(c) = k
    BY <1>3 DEF c
  <2>2. /\ c \o b \in Seq(Int) /\ Len(c \o b) = k + Len(b)
        /\ \A h \in 1 .. k + Len(b) : (c \o b)[h] = IF h <= k THEN c[h] ELSE b[h - k]
    <3>1. b \in Seq(Int)
      BY <1>2
    <3> QED
      BY <2>1, <3>1, ConcatProperties
  <2>3. k + Len(b) = Len(s) + 1 /\ Len(s) \in Nat /\ k \in Nat /\ k <= Len(s) + 1
    BY <1>2
  <2>4. \A h \in 1 .. k : h \in 1 .. Len(s) + 1 /\ h <= k
    BY <2>3
  <2>5. \A h \in k + 1 .. Len(s) + 1 : h \in 1 .. Len(s) + 1 /\ ~(h <= k)
    BY <2>3
  <2> QED
    BY <2>2, <2>3, <2>4, <2>5
<1>5. ASSUME NEW x \in 1 .. Len(s) + 1
      PROVE  (c \o b)[x] = IF x < k THEN s[x] ELSE IF x = k THEN e ELSE s[x - 1]
  <2>1. CASE x <= k
    <3>1. x \in 1 .. k
      BY <2>1
    <3> QED
      BY <1>3, <1>4, <3>1 DEF c
  <2>2. CASE x > k
    <3>1. x - k \in 1 .. Len(s) - k + 1 /\ k + (x - k) - 1 = x - 1 /\ x \in k + 1 .. Len(s) + 1
      BY <2>2
    <3>2. (c \o b)[x] = b[x - k]
      BY <1>4, <3>1
    <3>3. b[x - k] = s[x - 1]
      BY <1>2, <3>1
    <3> QED
      BY <2>2, <3>2, <3>3
  <2>3. x <= k \/ x > k
    OBVIOUS
  <2> QED
    BY <2>1, <2>2, <2>3
<1>6. InsertAt(s, k, e) = c \o b
  BY DEF InsertAt, a, b, c
<1>7. IsInsert(c \o b, s, k, e)
  BY <1>4, <1>5 DEF IsInsert
<1> QED
  BY <1>6, <1>7


(* add_sample keeps the best samples when one more comes.                  *)
LEMMA Added ==
  ASSUME NEW m, NEW n, Best(values, m, n), samplecount = n, m[n + 1] \in Int
  PROVE  Best(add_sample(m[n + 1]), m, n + 1)
<1> DEFINE val == m[n + 1]
           L == Len(values)
           kept == IF samplecount < KBEST THEN values
                   ELSE IF val < values[KBEST] THEN Front(values) ELSE <<>>
           place == Cardinality({h \in DOMAIN kept : kept[h] <= val})
           R(h) == Rank(m, n, h)
           R1(h) == Rank(m, n + 1, h)
<1>0. /\ KBEST \in Nat \ {0} /\ n \in Nat /\ \A h \in 1 .. n + 1 : m[h] \in Int
      /\ values \in Seq(Int) /\ L = IF n < KBEST THEN n ELSE KBEST
  BY TimingAssumption DEF Best
<1>1. val \in Int /\ L \in Nat /\ L <= n /\ L <= KBEST /\ n + 1 \in Nat
      /\ \A h \in 1 .. n : m[h] \in Int
  BY <1>0
<1>2. /\ \A p \in 1 .. L : \E h \in 1 .. n : R(h) = p /\ values[p] = m[h]
      /\ \A p, q \in 1 .. L : p <= q => values[p] <= values[q]
  BY BestSorted
<1>3. \A h \in 1 .. n : R(h) \in 1 .. n /\ (R(h) <= KBEST => R(h) \in 1 .. L /\ values[R(h)] = m[h])
  <2>1. \A h \in 1 .. n : R(h) \in 1 .. n
    <3>1. n \in Nat /\ \A h \in 1 .. n : m[h] \in Int
      BY <1>1, <1>0
    <3> HIDE DEF R, kept, place, val, L
    <3>2. \A h \in 1 .. n : Rank(m, n, h) \in 1 .. n
      BY <3>1, BelowFacts
    <3> QED
      BY <3>2 DEF R
  <2>2. \A h \in 1 .. n : R(h) <= KBEST => values[R(h)] = m[h]
    BY DEF Best
  <2> HIDE DEF R, kept, place, val
  <2>3. \A p \in 1 .. n : p <= KBEST => p \in 1 .. L
    BY <1>0
  <2> HIDE DEF L
  <2> QED
    BY <2>1, <2>2, <2>3
<1>4. /\ \A h, j \in 1 .. n + 1 : R1(h) = R1(j) => h = j
      /\ \A p \in 1 .. n + 1 : \E h \in 1 .. n + 1 : R1(h) = p
      /\ \A h \in 1 .. n + 1 : R1(h) \in 1 .. n + 1
  BY <1>0, <1>1, RankOrders, BelowFacts
<1>5. \A h \in 1 .. n : R1(h) = IF val < m[h] THEN R(h) + 1 ELSE R(h)
  BY <1>0, RankMore
<1> HIDE DEF R, R1
<1>6. CASE samplecount >= KBEST /\ val >= values[KBEST]
  <2>1. add_sample(val) = values /\ L = KBEST /\ n >= KBEST
    BY <1>0, <1>6 DEF add_sample
  <2>2. \A p \in 1 .. L : values[p] <= val
    BY <1>0, <1>1, <1>2, <1>6, <2>1
  <2>3. ASSUME NEW h \in 1 .. n, R1(h) <= KBEST PROVE values[R1(h)] = m[h]
    <3>1. R(h) \in 1 .. n /\ R1(h) = IF val < m[h] THEN R(h) + 1 ELSE R(h)
      BY <1>3, <1>5
    <3>2. R(h) <= KBEST
      BY <1>0, <2>3, <3>1
    <3>3. values[R(h)] = m[h] /\ R(h) \in 1 .. L
      BY <1>3, <3>2
    <3>4. ~(val < m[h])
      BY <1>1, <2>2, <3>3
    <3> QED
      BY <3>1, <3>3, <3>4
  <2>4. ASSUME R1(n + 1) <= KBEST PROVE FALSE
    <3>1. R1(n + 1) \in 1 .. L
      BY <1>0, <1>1, <1>4, <2>1, <2>4
    <3>2. PICK h \in 1 .. n : R(h) = R1(n + 1) /\ values[R1(n + 1)] = m[h]
      BY <1>2, <3>1
    <3>3. ~(val < m[h])
      BY <1>1, <2>2, <3>1, <3>2
    <3>4. R1(h) = R1(n + 1)
      BY <1>5, <3>2, <3>3
    <3>5. h \in 1 .. n + 1 /\ n + 1 \in 1 .. n + 1 /\ h # n + 1
      BY <1>0
    <3> QED
      BY <1>4, <3>4, <3>5
  <2>5. \A h \in 1 .. n + 1 : R1(h) <= KBEST => values[R1(h)] = m[h]
    BY <1>0, <2>3, <2>4
  <2> QED
    BY <1>0, <1>1, <2>1, <2>5 DEF Best, R1
<1>7. CASE ~(samplecount >= KBEST /\ val >= values[KBEST])
  <2>1. add_sample(val) = InsertAt(kept, place + 1, val)
    BY <1>7 DEF add_sample
  <2>2. n >= KBEST => val < values[KBEST]
    BY <1>0, <1>1, <1>7
  <2>3. /\ kept \in Seq(Int) /\ Len(kept) = (IF n < KBEST THEN n ELSE KBEST - 1)
        /\ \A p \in 1 .. Len(kept) : kept[p] = values[p]
    <3>1. CASE n < KBEST
      BY <1>0, <3>1
    <3>2. CASE ~(n < KBEST)
      <4>1. kept = SubSeq(values, 1, KBEST - 1) /\ KBEST - 1 \in Nat /\ L = KBEST
        BY <1>0, <2>2, <3>2 DEF Front
      <4> HIDE DEF kept
      <4>2. Len(kept) = KBEST - 1 /\ kept \in Seq(Int)
        BY <1>0, <4>1
      <4>3. \A p \in 1 .. KBEST - 1 : kept[p] = values[p]
        BY <1>0, <4>1
      <4> QED
        BY <3>2, <4>2, <4>3
    <3> QED
      BY <3>1, <3>2
  <2> HIDE DEF kept
  <2>4. Len(kept) \in Nat /\ Len(kept) <= L /\ Len(kept) <= n /\ Len(kept) + 1 <= KBEST
        /\ Len(kept) + 1 = IF n + 1 < KBEST THEN n + 1 ELSE KBEST
    BY <1>0, <1>1, <2>3
  <2>5. \A p, q \in 1 .. Len(kept) : p <= q => kept[p] <= kept[q]
    <3> TAKE p, q \in 1 .. Len(kept)
    <3>1. p \in 1 .. L /\ q \in 1 .. L
      BY <1>1, <2>4
    <3> QED
      BY <1>2, <2>3, <3>1
  <2>6. /\ place \in 0 .. Len(kept)
        /\ \A p \in 1 .. Len(kept) : kept[p] <= val <=> p <= place
    BY <1>1, <2>3, <2>5, PlaceFacts
  <2> HIDE DEF place
  <2>7. PICK s : s = InsertAt(kept, place + 1, val)
    OBVIOUS
  <2>8. /\ s \in Seq(Int) /\ Len(s) = Len(kept) + 1
        /\ \A x \in 1 .. Len(kept) + 1 :
             s[x] = IF x < place + 1 THEN kept[x] ELSE IF x = place + 1 THEN val ELSE kept[x - 1]
    <3>1. place + 1 \in 1 .. Len(kept) + 1
      BY <2>4, <2>6
    <3>2. kept \in Seq(Int) /\ val \in Int
      BY <1>1, <2>3
    <3> HIDE DEF val, L
    <3>3. PICK k : k = place + 1 /\ k \in 1 .. Len(kept) + 1
      BY <3>1
    <3>4. IsInsert(InsertAt(kept, k, val), kept, k, val)
      BY <3>2, <3>3, Inserted
    <3>5. IsInsert(s, kept, k, val)
      BY <2>7, <3>3, <3>4
    <3> QED
      BY <3>3, <3>5 DEF IsInsert
  <2>9. ASSUME NEW h \in 1 .. n, R1(h) <= KBEST
        PROVE  s[R1(h)] = m[h] /\ R1(h) # place + 1
    <3>1. R(h) \in 1 .. n /\ R1(h) = (IF val < m[h] THEN R(h) + 1 ELSE R(h)) /\ R(h) <= KBEST /\ m[h] \in Int
      <4>1. R(h) \in 1 .. n /\ R1(h) = (IF val < m[h] THEN R(h) + 1 ELSE R(h)) /\ m[h] \in Int
        BY <1>1, <1>3, <1>5
      <4> QED
        BY <1>0, <2>9, <4>1
    <3>2. values[R(h)] = m[h] /\ R(h) \in 1 .. L
      BY <1>3, <3>1
    <3>3. R(h) \in 1 .. Len(kept)
      <4>1. CASE n < KBEST
        BY <1>0, <2>3, <3>2, <4>1
      <4>2. CASE n >= KBEST /\ val < m[h]
        BY <1>0, <2>3, <2>9, <3>1, <4>2
      <4>3. CASE n >= KBEST /\ ~(val < m[h])
        <5>1. R(h) # KBEST
          BY <1>1, <2>2, <3>1, <3>2, <4>3
        <5> QED
          BY <1>0, <2>3, <3>1, <4>3, <5>1
      <4> QED
        BY <1>0, <4>1, <4>2, <4>3
    <3>4. kept[R(h)] = m[h]
      BY <2>3, <3>2, <3>3
    <3>5. m[h] <= val <=> R(h) <= place
      BY <2>6, <3>3, <3>4
    <3>6. CASE val < m[h]
      <4>1. R1(h) = R(h) + 1 /\ ~(R(h) <= place)
        BY <1>1, <3>1, <3>5, <3>6
      <4>2. R1(h) \in 1 .. Len(kept) + 1 /\ ~(R1(h) < place + 1) /\ R1(h) # place + 1 /\ R1(h) - 1 = R(h)
        BY <2>4, <2>6, <3>3, <4>1
      <4> QED
        BY <2>8, <3>4, <4>2
    <3>7. CASE ~(val < m[h])
      <4>1. R1(h) = R(h) /\ R(h) <= place
        BY <1>1, <3>1, <3>5, <3>7
      <4>2. R1(h) \in 1 .. Len(kept) + 1 /\ R1(h) < place + 1 /\ R1(h) # place + 1
        BY <2>4, <2>6, <3>3, <4>1
      <4> QED
        BY <2>8, <3>4, <4>1, <4>2
    <3> QED
      BY <3>6, <3>7
  <2>10. R1(n + 1) = place + 1
    <3>1. place + 1 \in 1 .. n + 1 /\ place + 1 <= KBEST
      <4>1. place \in Nat /\ place <= Len(kept)
        BY <2>4, <2>6
      <4> QED
        BY <1>0, <2>4, <4>1
    <3>2. PICK h \in 1 .. n + 1 : R1(h) = place + 1
      BY <1>4, <3>1
    <3>3. h \notin 1 .. n
      BY <2>9, <3>1, <3>2
    <3>4. h = n + 1
      BY <1>0, <3>3
    <3> QED
      BY <3>2, <3>4
  <2>11. s[R1(n + 1)] = val
    BY <2>4, <2>6, <2>8, <2>10
  <2>12. \A h \in 1 .. n + 1 : R1(h) <= KBEST => s[R1(h)] = m[h]
    BY <1>0, <2>9, <2>11
  <2>13. add_sample(val) = s
    BY <2>1, <2>7
  <2> QED
    BY <1>0, <1>1, <2>4, <2>8, <2>12, <2>13 DEF Best, R1
<1> QED
  BY <1>6, <1>7

----------------------------------------------------------------------------
(* Clocks: what the difference of two readings is.                         *)

(* Remainders of any integer, and the quotient of a natural.               *)
LEMMA ModIs ==
  ASSUME NEW k \in Nat \ {0}, NEW q \in Int, NEW r \in 0 .. k - 1, NEW x, x = k * q + r
  PROVE  x % k = r
OBVIOUS

(* The quotient, given the remainder.                                      *)
LEMMA DivIs ==
  ASSUME NEW k \in Nat \ {0}, NEW q \in Nat, NEW r \in 0 .. k - 1, NEW x, x = k * q + r
  PROVE  x \div k = q
OBVIOUS

(* Dividend, quotient and remainder.                                       *)
LEMMA DivModExist ==
  ASSUME NEW x \in Nat, NEW k \in Nat \ {0}
  PROVE  x \div k \in Nat /\ x % k \in 0 .. k - 1 /\ x = k * (x \div k) + (x % k)
OBVIOUS

(* What the halves of the counter show at time t.                          *)
At(t) == [hi |-> (t \div WORD) % WORD, lo |-> t % WORD]

(* The high halves of two readings, less the borrow, give the laps of the  *)
(* low half.                                                               *)
LEMMA HighPart ==
  ASSUME NEW p \in Nat, NEW q \in 0 .. WORD - 1, NEW b \in {0, 1}
  PROVE  (((p + q + b) % WORD) - (p % WORD) - b) % WORD = q
<1>1. WORD \in Nat \ {0}
  BY TimingAssumption
<1> DEFINE x == p + q + b
<1>2. x \in Nat /\ p \in Nat
  BY <1>1
<1>3. PICK a \in Nat, e \in 0 .. WORD - 1 : x = WORD * a + e /\ x % WORD = e
  <2> HIDE DEF x
  <2> QED
    BY <1>1, <1>2, DivModExist
<1>4. PICK u \in Nat, v \in 0 .. WORD - 1 : p = WORD * u + v /\ p % WORD = v
  BY <1>1, <1>2, DivModExist
<1>5. e - v - b = WORD * (u - a) + q
  <2>1. WORD * (u - a) = WORD * u - WORD * a
    BY <1>1
  <2>2. WORD * u \in Nat /\ WORD * a \in Nat /\ e \in Int /\ v \in Int /\ b \in Int /\ q \in Int
    BY <1>1
  <2> QED
    BY <1>3, <1>4, <2>1, <2>2
<1>6. (e - v - b) % WORD = q
  <2>1. PICK w \in Int : w = u - a
    OBVIOUS
  <2>2. PICK y : y = e - v - b
    OBVIOUS
  <2>3. y = WORD * w + q
    BY <1>5, <2>1, <2>2
  <2>4. y % WORD = q
    BY <1>1, <2>3, ModIs
  <2> QED
    BY <2>2, <2>4
<1> QED
  BY <1>3, <1>4, <1>6

(* get_counter is the time since the reading, if that is less than a lap.  *)
LEMMA CounterDifference ==
  ASSUME NEW t \in Nat, NEW d \in Nat, d < WORD * WORD, reading = At(t)
  PROVE  get_counter(At(t + d)) = d
<1>1. WORD \in Nat \ {0}
  BY TimingAssumption
<1>2. PICK p \in Nat, s \in 0 .. WORD - 1 : t = WORD * p + s /\ t \div WORD = p /\ t % WORD = s
  <2>1. t \div WORD \in Nat /\ t % WORD \in 0 .. WORD - 1 /\ t = WORD * (t \div WORD) + (t % WORD)
    BY <1>1, DivModExist
  <2> QED
    BY <2>1, Zenon
<1>3. PICK q \in Nat, r \in 0 .. WORD - 1 : d = WORD * q + r
  <2>1. d \div WORD \in Nat /\ d % WORD \in 0 .. WORD - 1 /\ d = WORD * (d \div WORD) + (d % WORD)
    BY <1>1, DivModExist
  <2> QED
    BY <2>1, Zenon
<1>4. q \in 0 .. WORD - 1
  <2>1. ASSUME q >= WORD PROVE FALSE
    <3>1. WORD * q >= WORD * WORD
      BY <1>1, <2>1
    <3>2. WORD * q \in Nat /\ WORD * WORD \in Nat
      BY <1>1
    <3> QED
      BY <1>3, <3>1, <3>2
  <2> QED
    BY <1>1, <2>1
<1>5. reading.hi = p % WORD /\ reading.lo = s
  BY <1>2 DEF At
<1> DEFINE b == IF r + s < WORD THEN 0 ELSE 1
           c == r + s - b * WORD
<1>6. b \in {0, 1} /\ c \in 0 .. WORD - 1
  BY <1>1
<1>7. t + d = WORD * (p + q + b) + c
  <2>1. WORD * (p + q + b) = WORD * p + WORD * q + WORD * b
    BY <1>1
  <2>2. WORD * p \in Nat /\ WORD * q \in Nat /\ WORD * b = b * WORD /\ WORD * b \in Nat
    BY <1>1, <1>6
  <2> HIDE DEF b
  <2> QED
    BY <1>2, <1>3, <2>1, <2>2
<1>8. At(t + d).hi = (p + q + b) % WORD /\ At(t + d).lo = c
  <2>1. PICK y, z \in Nat : y = t + d /\ z = p + q + b
    BY <1>4, <1>6
  <2> HIDE DEF b, c
  <2>2. y = WORD * z + c
    BY <1>7, <2>1
  <2>3. y \div WORD = z
    BY <1>1, <1>6, <2>2, DivIs
  <2>4. y % WORD = c
    BY <1>1, <1>6, <2>2, ModIs
  <2> QED
    BY <2>1, <2>3, <2>4 DEF At
<1>9. (c - s) % WORD = r
  <2>1. PICK y : y = c - s
    OBVIOUS
  <2>2. PICK w \in Int : w = 0 - b
    BY <1>6
  <2>3. y = WORD * w + r
    <3>0. c = r + s - b * WORD
      OBVIOUS
    <3>1. b = 0 \/ b = 1
      BY <1>6
    <3> HIDE DEF b, c
    <3>2. CASE b = 0
      <4>1. c = r + s /\ w = 0
        BY <1>1, <2>2, <3>0, <3>2
      <4> QED
        BY <1>1, <2>1, <4>1
    <3>3. CASE b = 1
      <4>1. c = r + s - WORD /\ w = -1
        BY <1>1, <2>2, <3>0, <3>3
      <4> QED
        BY <1>1, <2>1, <4>1
    <3> QED
      BY <3>1, <3>2, <3>3
  <2>4. y % WORD = r
    BY <1>1, <2>3, ModIs
  <2> QED
    BY <2>1, <2>4
<1>10. b = IF r > c THEN 1 ELSE 0
  <2>1. CASE r + s < WORD
    <3>1. b = 0 /\ c = r + s
      BY <1>1, <2>1
    <3> HIDE DEF b, c
    <3> QED
      BY <1>1, <3>1
  <2>2. CASE ~(r + s < WORD)
    <3>1. b = 1 /\ c = r + s - WORD
      BY <1>1, <2>2
    <3> HIDE DEF b, c
    <3> QED
      BY <1>1, <3>1
  <2> QED
    BY <2>1, <2>2
<1> HIDE DEF b, c
<1>11. (((p + q + b) % WORD) - (p % WORD) - b) % WORD = q
  <2>1. p \in Nat /\ q \in 0 .. WORD - 1 /\ b \in {0, 1}
    BY <1>4, <1>6
  <2> QED
    BY <2>1, HighPart, Zenon
<1>12. get_counter(At(t + d)) = q * WORD + r
  <2> DEFINE n == At(t + d)
             lo == Modulo(n.lo - reading.lo)
             borrow == IF lo > n.lo THEN 1 ELSE 0
  <2>1. n.hi = (p + q + b) % WORD /\ n.lo = c
    BY <1>8
  <2> HIDE DEF n
  <2>2. lo = r
    BY <1>5, <1>9, <2>1 DEF Modulo
  <2> HIDE DEF lo
  <2>3. borrow = b
    BY <1>10, <2>1, <2>2
  <2> HIDE DEF borrow
  <2>4. Modulo(n.hi - reading.hi - borrow) = q
    BY <1>5, <1>11, <2>1, <2>3 DEF Modulo
  <2>5. get_counter(n) = Modulo(n.hi - reading.hi - borrow) * WORD + lo
    BY DEF get_counter, borrow, lo
  <2> QED
    BY <2>2, <2>4, <2>5 DEF n
<1> QED
  BY <1>1, <1>3, <1>12

(* Two readings of the time of day.                                        *)
LEMMA DayDifference ==
  ASSUME NEW t \in Nat, NEW u \in Nat
  PROVE  Between([sec |-> t \div SECOND, usec |-> t % SECOND],
                 [sec |-> u \div SECOND, usec |-> u % SECOND]) = u - t
<1>1. SECOND \in Nat \ {0}
  BY TimingAssumption
<1>2. PICK p \in Nat, s \in 0 .. SECOND - 1 : t = SECOND * p + s /\ t \div SECOND = p /\ t % SECOND = s
  BY <1>1, DivModExist
<1>3. PICK q \in Nat, r \in 0 .. SECOND - 1 : u = SECOND * q + r /\ u \div SECOND = q /\ u % SECOND = r
  BY <1>1, DivModExist
<1>4. SECOND * (q - p) = SECOND * q - SECOND * p /\ SECOND * q \in Nat /\ SECOND * p \in Nat
  BY <1>1
<1> QED
  BY <1>1, <1>2, <1>3, <1>4 DEF Between


(* The sum that TimeRun makes, and the partial sums f of the runs s.       *)
Total(s) ==
    LET total[h \in 0 .. Len(s)] == IF h = 0 THEN 0 ELSE total[h - 1] + s[h][1]
    IN  total[Len(s)]
Sums(s, n, f) == /\ f \in [0 .. n -> Nat] /\ f[0] = 0
                 /\ \A h \in 1 .. n : f[h] = f[h - 1] + s[h][1]
Run == Nat \X Nat

(* There are partial sums of every sequence of runs.                       *)
LEMMA SumsExist ==
  ASSUME NEW s \in Seq(Run), NEW n \in 0 .. Len(s)
  PROVE  \E f : Sums(s, n, f)
<1> DEFINE Bad == {k \in 0 .. n : ~ \E f : Sums(s, k, f)}
<1>1. SUFFICES ASSUME Bad # {} PROVE FALSE
  <2>1. n \in 0 .. n
    OBVIOUS
  <2>2. Bad = {} => \E f : Sums(s, n, f)
    BY <2>1
  <2> QED
    BY <2>2
<1>2. PICK k : k \in Bad /\ \A j \in Bad : k <= j
  <2>1. Bad \subseteq Nat
    OBVIOUS
  <2> HIDE DEF Bad
  <2> QED
    BY <1>1, <2>1, MinNat
<1>3. k # 0
  <2>1. Sums(s, 0, [h \in 0 .. 0 |-> 0])
    BY DEF Sums
  <2> QED
    BY <1>2, <2>1
<1>4. k \in 1 .. n /\ k - 1 \in 0 .. n /\ k \in 1 .. Len(s)
  BY <1>2, <1>3
<1>5. k - 1 \notin Bad
  BY <1>2, <1>4
<1>6. PICK f : Sums(s, k - 1, f)
  BY <1>4, <1>5
<1>7. s[k][1] \in Nat
  <2>1. s[k] \in Run
    BY <1>4
  <2> QED
    BY <2>1 DEF Run
<1> DEFINE g == [h \in 0 .. k |-> IF h = k THEN f[k - 1] + s[k][1] ELSE f[h]]
<1>8. Sums(s, k, g)
  <2>1. \A h \in 0 .. k - 1 : f[h] \in Nat
    BY <1>6 DEF Sums
  <2>2. \A h \in 0 .. k : h = k \/ h \in 0 .. k - 1
    BY <1>4
  <2>3. g \in [0 .. k -> Nat]
    BY <1>4, <1>7, <2>1, <2>2
  <2>4. g[0] = 0
    BY <1>4, <1>6 DEF Sums
  <2>5. ASSUME NEW h \in 1 .. k PROVE g[h] = g[h - 1] + s[h][1]
    <3>1. CASE h = k
      BY <1>4, <3>1
    <3>2. CASE h # k
      <4>1. h \in 1 .. k - 1 /\ h - 1 \in 0 .. k /\ h - 1 # k /\ h \in 0 .. k
        BY <1>4, <3>2
      <4>2. g[h] = f[h] /\ g[h - 1] = f[h - 1]
        BY <3>2, <4>1
      <4> HIDE DEF g
      <4>3. f[h] = f[h - 1] + s[h][1]
        BY <1>6, <4>1 DEF Sums
      <4> QED
        BY <4>2, <4>3
    <3> QED
      BY <3>1, <3>2
  <2> HIDE DEF g
  <2> QED
    BY <2>3, <2>4, <2>5 DEF Sums
<1> QED
  BY <1>2, <1>8

(* Partial sums of sequences that agree on the first n runs agree.         *)
LEMMA SumsAgree ==
  ASSUME NEW s, NEW t, NEW n \in Nat, NEW f, NEW g, NEW k, NEW l,
         Sums(s, k, f), Sums(t, l, g), k \in Nat, l \in Nat, n <= k, n <= l,
         \A h \in 1 .. n : s[h] = t[h]
  PROVE  f[n] = g[n]
<1> DEFINE Bad == {h \in 0 .. n : f[h] # g[h]}
<1>1. SUFFICES ASSUME Bad # {} PROVE FALSE
  OBVIOUS
<1>2. PICK h : h \in Bad /\ \A j \in Bad : h <= j
  <2>1. Bad \subseteq Nat
    OBVIOUS
  <2> HIDE DEF Bad
  <2> QED
    BY <1>1, <2>1, MinNat
<1>3. h # 0
  BY <1>2 DEF Sums
<1>4. h \in 1 .. n /\ h - 1 \in 0 .. n /\ h \in 1 .. k /\ h \in 1 .. l
  BY <1>2, <1>3
<1>5. f[h - 1] = g[h - 1]
  BY <1>2, <1>4
<1>6. f[h] = g[h]
  BY <1>4, <1>5 DEF Sums
<1> QED
  BY <1>2, <1>6

(* The recursive sum is the last of the partial sums.                      *)
LEMMA TotalIs ==
  ASSUME NEW s \in Seq(Run)
  PROVE  \E f : Sums(s, Len(s), f) /\ Total(s) = f[Len(s)]
<1> DEFINE n == Len(s)
           E(f) == [h \in 0 .. n |-> IF h = 0 THEN 0 ELSE f[h - 1] + s[h][1]]
           total == CHOOSE f : f = E(f)
<1>1. n \in Nat
  OBVIOUS
<1>2. PICK f0 : Sums(s, n, f0)
  <2>1. n \in 0 .. Len(s)
    BY <1>1
  <2> HIDE DEF n
  <2> QED
    BY <2>1, SumsExist
<1>3. Total(s) = total[n]
  BY DEF Total, total, E, n
<1> HIDE DEF n
<1>4. f0 = E(f0)
  <2>1. \A h \in 0 .. n : f0[h] = IF h = 0 THEN 0 ELSE f0[h - 1] + s[h][1]
    BY <1>1, <1>2 DEF Sums
  <2>2. f0 \in [0 .. n -> Nat]
    BY <1>2 DEF Sums
  <2> QED
    BY <2>1, <2>2
<1>5. total = E(total)
  BY <1>4
<1> HIDE DEF total
<1>6. /\ DOMAIN total = 0 .. n
      /\ \A h \in 0 .. n : total[h] = IF h = 0 THEN 0 ELSE total[h - 1] + s[h][1]
  <2> DEFINE b(h) == IF h = 0 THEN 0 ELSE total[h - 1] + s[h][1]
  <2>1. total = [h \in 0 .. n |-> b(h)]
    BY <1>5
  <2> HIDE DEF b, E
  <2>2. DOMAIN total = 0 .. n /\ \A h \in 0 .. n : total[h] = b(h)
    BY <2>1
  <2> QED
    BY <2>2 DEF b
<1>7. total[n] = f0[n]
  <2> DEFINE Bad == {h \in 0 .. n : total[h] # f0[h]}
  <2>1. SUFFICES ASSUME Bad # {} PROVE FALSE
    BY <1>1
  <2>2. PICK h : h \in Bad /\ \A j \in Bad : h <= j
    <3>1. Bad \subseteq Nat
      OBVIOUS
    <3> HIDE DEF Bad
    <3> QED
      BY <2>1, <3>1, MinNat
  <2>3. h # 0
    BY <1>2, <1>6, <2>2 DEF Sums
  <2>4. h \in 1 .. n /\ h - 1 \in 0 .. n
    BY <1>1, <2>2, <2>3
  <2>5. total[h - 1] = f0[h - 1]
    BY <2>2, <2>4
  <2>6. total[h] = f0[h]
    BY <1>2, <1>6, <2>3, <2>4, <2>5 DEF Sums
  <2> QED
    BY <2>2, <2>6
<1> QED
  BY <1>2, <1>3, <1>7 DEF n

(* The sum is a natural, of no run is 0, and grows by each run.            *)
LEMMA TotalFacts ==
  /\ Total(<<>>) = 0
  /\ \A s \in Seq(Run) : Total(s) \in Nat
  /\ \A s \in Seq(Run), e \in Run : Total(Append(s, e)) = Total(s) + e[1]
<1>1. Total(<<>>) = 0
  <2>1. <<>> \in Seq(Run) /\ Len(<<>>) = 0
    OBVIOUS
  <2>2. PICK f : Sums(<<>>, 0, f) /\ Total(<<>>) = f[0]
    BY <2>1, TotalIs
  <2> QED
    BY <2>2 DEF Sums
<1>2. ASSUME NEW s \in Seq(Run) PROVE Total(s) \in Nat
  <2>1. PICK f : Sums(s, Len(s), f) /\ Total(s) = f[Len(s)]
    BY TotalIs
  <2>2. Len(s) \in 0 .. Len(s)
    OBVIOUS
  <2> QED
    BY <2>1, <2>2 DEF Sums
<1>3. ASSUME NEW s \in Seq(Run), NEW e \in Run PROVE Total(Append(s, e)) = Total(s) + e[1]
  <2>1. PICK n \in Nat : n = Len(s)
    OBVIOUS
  <2>2. PICK t : t = Append(s, e)
    OBVIOUS
  <2>3. t \in Seq(Run) /\ Len(t) = n + 1 /\ t[n + 1] = e /\ \A h \in 1 .. n : t[h] = s[h]
    BY <2>1, <2>2
  <2>4. PICK f : Sums(s, n, f) /\ Total(s) = f[n]
    BY <2>1, TotalIs
  <2>5. PICK g : Sums(t, n + 1, g) /\ Total(t) = g[n + 1]
    BY <2>3, TotalIs
  <2>6. g[n + 1] = g[n] + e[1]
    BY <2>1, <2>3, <2>5 DEF Sums
  <2>7. g[n] = f[n]
    <3>1. n <= n + 1 /\ n <= n /\ n + 1 \in Nat
      OBVIOUS
    <3> QED
      BY <2>3, <2>4, <2>5, <3>1, SumsAgree
  <2> QED
    BY <2>2, <2>4, <2>5, <2>6, <2>7
<1> QED
  BY <1>1, <1>2, <1>3

----------------------------------------------------------------------------
(* The timing package's states, and its theorems.                          *)

(* A measurement with what it measured, and the measurements alone.        *)
Sample == [measured : Int, run : Run, cost : Nat]
Measured == [h \in DOMAIN history |-> history[h].measured]

(* What the timing package's variables hold.                               *)
TimingTypes ==
    /\ timer \in {"fcyc", "itimer", "gettod"} /\ compensate \in BOOLEAN
    /\ tphase \in {"start", "run", "stop", "done", "killed"}
    /\ clock \in Nat /\ utime \in Nat /\ start_tick \in Nat /\ cyc_per_tick \in Nat
    /\ runs \in Seq(Run) /\ history \in Seq(Sample) /\ samplecount = Len(history)

(* From the reading on the clock, and the ticks, count what the runs took. *)
ReadingKept ==
    /\ timer = "fcyc" => (tphase = "run" => runs = <<>>) /\ (tphase = "stop" => Len(runs) = 1)
    /\ \A h \in DOMAIN runs : runs[h][1] \in Durations /\ (~compensate => runs[h][2] = 0)
    /\ tphase \in {"run", "stop"} =>
          /\ Total(runs) <= clock
          /\ timer = "fcyc" => /\ reading = At(clock - Total(runs))
                               /\ utime = start_tick + IF runs = <<>> THEN 0 ELSE runs[1][2]
          /\ timer = "itimer" => reading = init_etime
          /\ timer = "gettod" => reading = [sec |-> (clock - Total(runs)) \div SECOND,
                                            usec |-> (clock - Total(runs)) % SECOND]

(* values holds the best of the samples, and fcyc stops with reason.       *)
SamplesKept ==
    /\ Best(values, Measured, samplecount)
    /\ samplecount <= MAXSAMPLES
    /\ tphase \in {"start", "run", "stop"} => samplecount < MAXSAMPLES
    /\ tphase = "done" /\ timer = "fcyc" =>
          /\ samplecount >= 1 /\ result = values[1]
          /\ samplecount = MAXSAMPLES \/ has_converged(values, samplecount)

TimingIInv == TimingTypes /\ ReadingKept /\ SamplesKept


(* Best looks at the first n samples alone.                                *)
LEMMA BestAgrees ==
  ASSUME NEW v, NEW m, NEW l, NEW n, Best(v, m, n), \A h \in 1 .. n : l[h] = m[h]
  PROVE  Best(v, l, n)
<1>1. \A h \in 1 .. n : Below(l, n, h) = Below(m, n, h)
  BY DEF Below, Smaller
<1>2. \A h \in 1 .. n : Rank(l, n, h) = Rank(m, n, h)
  BY <1>1 DEF Rank
<1> QED
  BY <1>2 DEF Best

(* The first states satisfy the invariant.                                 *)
LEMMA TimingStarts == TimingInit => TimingIInv
<1> SUFFICES ASSUME TimingInit PROVE TimingIInv
  OBVIOUS
<1>1. TimingTypes
  <2>1. compensate \in BOOLEAN
    BY DEF TimingInit
  <2>2. clock \in Nat
    BY TimingAssumption DEF TimingInit
  <2>3. <<>> \in Seq(Run) /\ <<>> \in Seq(Sample) /\ Len(<<>>) = 0
    OBVIOUS
  <2> QED
    BY <2>1, <2>2, <2>3 DEF TimingInit, TimingTypes
<1>2. ReadingKept
  BY DEF TimingInit, ReadingKept
<1>3. SamplesKept
  BY TimingAssumption DEF TimingInit, SamplesKept, Best, Measured
<1> QED
  BY <1>1, <1>2, <1>3 DEF TimingIInv

(* A call of the function.                                                 *)
LEMMA FunctionKeeps ==
  ASSUME TimingIInv, Function
  PROVE  TimingIInv'
<1>0. TimingTypes /\ ReadingKept /\ SamplesKept
  BY DEF TimingIInv
<1>1. PICK d \in Durations, ticks \in (IF compensate THEN {0, 1} ELSE {0}) :
    /\ tphase = "run"
    /\ clock' = clock + d /\ utime' = utime + ticks
    /\ runs' = Append(runs, <<d, ticks>>)
    /\ tphase' = IF Len(runs') = Calls THEN "stop" ELSE "run"
    /\ UNCHANGED <<timer, compensate, reading, start_tick, cyc_per_tick, values,
                   samplecount, history, result>>
  BY DEF Function
<1>2. d \in Nat /\ ticks \in Nat /\ <<d, ticks>> \in Run
  BY TimingAssumption DEF Run
<1>3. TimingTypes'
  BY <1>0, <1>1, <1>2 DEF TimingTypes
<1>4. Total(runs') = Total(runs) + d /\ Total(runs) \in Nat
  <2>1. PICK e \in Run : e = <<d, ticks>>
    BY <1>2
  <2>2. Total(Append(runs, e)) = Total(runs) + e[1] /\ Total(runs) \in Nat
    BY <1>0, TotalFacts DEF TimingTypes
  <2> QED
    BY <1>1, <2>1, <2>2
<1>5. clock' - Total(runs') = clock - Total(runs) /\ (Total(runs) <= clock => Total(runs') <= clock')
  BY <1>0, <1>1, <1>2, <1>4 DEF TimingTypes
<1>6. ReadingKept'
  <2>1. timer' = "fcyc" => (tphase' = "run" => runs' = <<>>) /\ (tphase' = "stop" => Len(runs') = 1)
    BY <1>0, <1>1 DEF TimingTypes, ReadingKept, Calls
  <2>2. \A h \in DOMAIN runs' : runs'[h][1] \in Durations /\ (~compensate' => runs'[h][2] = 0)
    BY <1>0, <1>1 DEF TimingTypes, ReadingKept
  <2>3. timer = "fcyc" => utime' = start_tick' + IF runs' = <<>> THEN 0 ELSE runs'[1][2]
    BY <1>0, <1>1, <1>2 DEF TimingTypes, ReadingKept
  <2>4. timer = "fcyc" => reading' = At(clock' - Total(runs'))
    BY <1>0, <1>1, <1>5 DEF ReadingKept
  <2>5. timer = "itimer" => reading' = init_etime
    BY <1>0, <1>1 DEF ReadingKept
  <2>6. timer = "gettod" => reading' = [sec |-> (clock' - Total(runs')) \div SECOND,
                                        usec |-> (clock' - Total(runs')) % SECOND]
    BY <1>0, <1>1, <1>5 DEF ReadingKept
  <2>7. Total(runs') <= clock'
    BY <1>0, <1>1, <1>5 DEF ReadingKept
  <2> QED
    BY <1>1, <2>1, <2>2, <2>3, <2>4, <2>5, <2>6, <2>7 DEF ReadingKept, At, init_etime
<1>7. SamplesKept'
  <2>1. Measured' = Measured /\ values' = values /\ samplecount' = samplecount
    BY <1>1 DEF Measured
  <2>2. Best(values, Measured, samplecount)'
    BY <1>0, <2>1 DEF SamplesKept
  <2> QED
    BY <1>0, <1>1, <2>1, <2>2 DEF SamplesKept
<1> QED
  BY <1>3, <1>6, <1>7 DEF TimingIInv

(* Reading the clock keeps the invariant.                                  *)
LEMMA StartKeeps ==
  ASSUME TimingIInv, StartTimer
  PROVE  TimingIInv'
<1>0. TimingTypes /\ ReadingKept /\ SamplesKept
  BY DEF TimingIInv
<1>1. TimingTypes'
  <2>1. start_tick' \in Nat /\ cyc_per_tick' \in Nat
    BY <1>0, TimingAssumption DEF StartTimer, start_comp_counter, TimingTypes
  <2> QED
    BY <1>0, <2>1 DEF StartTimer, TimingTypes
<1>2. Total(runs') = 0 /\ clock' = clock /\ clock \in Nat /\ clock - Total(runs') = clock
  BY <1>0, TotalFacts DEF StartTimer, TimingTypes
<1>3. ReadingKept'
  <2>1. runs' = <<>> /\ tphase' = "run" /\ timer' = timer /\ utime' = utime /\ utime \in Nat
    BY <1>0 DEF StartTimer, TimingTypes
  <2>2. timer = "fcyc" => reading' = At(clock) /\ start_tick' = utime
    BY DEF StartTimer, Counter, At, start_comp_counter
  <2>3. timer = "itimer" => reading' = init_etime
    BY DEF StartTimer
  <2>4. timer = "gettod" => reading' = [sec |-> clock \div SECOND, usec |-> clock % SECOND]
    BY DEF StartTimer, TimeOfDay
  <2> QED
    BY <1>2, <2>1, <2>2, <2>3, <2>4 DEF ReadingKept, At, init_etime
<1>4. SamplesKept'
  <2>1. Measured' = Measured /\ values' = values /\ samplecount' = samplecount
    BY DEF Measured, StartTimer
  <2>2. Best(values, Measured, samplecount)'
    BY <1>0, <2>1 DEF SamplesKept
  <2> QED
    BY <1>0, <2>1, <2>2 DEF SamplesKept, StartTimer
<1> QED
  BY <1>1, <1>3, <1>4 DEF TimingIInv

(* So do the two ends of ftimer.                                           *)
LEMMA FtimerKeeps ==
  ASSUME TimingIInv, ftimer_gettod \/ ftimer_itimer
  PROVE  TimingIInv'
<1>0. TimingTypes /\ ReadingKept /\ SamplesKept
  BY DEF TimingIInv
<1>1. /\ timer # "fcyc" /\ tphase' \in {"done", "killed"}
      /\ UNCHANGED <<timer, compensate, clock, utime, reading, start_tick, cyc_per_tick,
                     values, samplecount, runs, history>>
  BY DEF ftimer_gettod, ftimer_itimer
<1>2. TimingTypes'
  BY <1>0, <1>1 DEF TimingTypes
<1>3. ReadingKept'
  BY <1>0, <1>1 DEF ReadingKept
<1>4. SamplesKept'
  <2>1. Measured' = Measured /\ values' = values /\ samplecount' = samplecount
    BY <1>1 DEF Measured
  <2>2. Best(values, Measured, samplecount)'
    BY <1>0, <2>1 DEF SamplesKept
  <2> QED
    BY <1>0, <1>1, <2>1, <2>2 DEF SamplesKept
<1> QED
  BY <1>2, <1>3, <1>4 DEF TimingIInv

(* And so does a sample taken by fcyc, which ends or goes on.              *)
LEMMA FcycKeeps ==
  ASSUME TimingIInv, fcyc
  PROVE  TimingIInv'
<1>0. TimingTypes /\ ReadingKept /\ SamplesKept
  BY DEF TimingIInv
<1> DEFINE cyc == get_comp_counter(Counter)
           r == [measured |-> cyc, run |-> runs[1], cost |-> cyc_per_tick]
<1>1. /\ tphase = "stop" /\ timer = "fcyc"
      /\ values' = add_sample(cyc) /\ samplecount' = samplecount + 1 /\ history' = Append(history, r)
      /\ UNCHANGED <<timer, compensate, clock, utime, reading, start_tick, cyc_per_tick, runs>>
      /\ \/ ~has_converged(values', samplecount') /\ samplecount' < MAXSAMPLES /\ tphase' = "start"
         \/ /\ has_converged(values', samplecount') \/ ~(samplecount' < MAXSAMPLES)
            /\ tphase' = "done" /\ result' = values'[1]
  BY DEF fcyc
<1>2. cyc \in Int
  <2>1. Counter = At(clock) /\ At(clock).lo \in Nat /\ At(clock).hi \in Nat /\ reading.lo \in Nat /\ reading.hi \in Nat
    <3>1. \A t \in Nat : At(t).lo \in Nat /\ At(t).hi \in Nat
      <4>1. \A x \in Nat : x \div WORD \in Nat /\ x % WORD \in Nat
        <5>1. WORD \in Nat \ {0}
          BY TimingAssumption
        <5>2. \A x \in Nat : x \div WORD \in Nat /\ x % WORD \in 0 .. WORD - 1
          BY <5>1, DivModExist
        <5> QED
          BY <5>1, <5>2
      <4> QED
        BY <4>1 DEF At
    <3>2. reading = At(clock - Total(runs)) /\ clock \in Nat /\ clock - Total(runs) \in Nat
      <4>1. Total(runs) \in Nat
        BY <1>0, TotalFacts DEF TimingTypes
      <4> QED
        BY <1>0, <1>1, <4>1 DEF ReadingKept, TimingTypes
    <3>3. Counter = At(clock)
      BY DEF Counter, At
    <3> QED
      BY <3>1, <3>2, <3>3
  <2>2. \A x \in Int : x % WORD \in Int
    BY TimingAssumption
  <2>3. get_counter(Counter) \in Int
    BY <2>1, <2>2, TimingAssumption DEF get_counter, Modulo
  <2> QED
    BY <1>0, <2>3 DEF get_comp_counter, TimingTypes
<1>3. r \in Sample
  <2>1. runs[1] \in Run /\ cyc_per_tick \in Nat
    <3>1. runs \in Seq(Run) /\ Len(runs) = 1 /\ cyc_per_tick \in Nat
      BY <1>0, <1>1 DEF TimingTypes, ReadingKept
    <3> QED
      BY <3>1
  <2> HIDE DEF cyc
  <2> QED
    BY <1>2, <2>1 DEF Sample
<1> HIDE DEF cyc
<1>4. TimingTypes'
  <2>1. history' \in Seq(Sample) /\ samplecount' = Len(history')
    BY <1>0, <1>1, <1>3 DEF TimingTypes
  <2>2. tphase' \in {"start", "run", "stop", "done", "killed"}
    BY <1>1
  <2> HIDE DEF r
  <2> QED
    BY <1>0, <1>1, <2>1, <2>2 DEF TimingTypes
<1>5. ReadingKept'
  BY <1>0, <1>1 DEF ReadingKept
<1>6. SamplesKept'
  <2>1. PICK n \in Nat : n = samplecount /\ n = Len(history)
    BY <1>0 DEF TimingTypes
  <2>2. PICK m : m = Measured'
    OBVIOUS
  <2>3. m[n + 1] = cyc /\ \A h \in 1 .. n : m[h] = Measured[h]
    BY <1>0, <1>1, <1>3, <2>1, <2>2 DEF TimingTypes, Measured, Sample
  <2>4. Best(values, m, n)
    BY <1>0, <2>1, <2>3, BestAgrees DEF SamplesKept
  <2>5. Best(add_sample(cyc), m, n + 1)
    <3>1. m[n + 1] \in Int /\ samplecount = n
      BY <1>2, <2>1, <2>3
    <3>2. Best(add_sample(m[n + 1]), m, n + 1)
      BY <2>4, <3>1, Added
    <3> QED
      BY <2>3, <3>2
  <2>6. Best(values, Measured, samplecount)'
    <3>1. PICK v : v = values'
      OBVIOUS
    <3>2. PICK k : k = samplecount'
      OBVIOUS
    <3>3. Best(v, m, k)
      BY <1>1, <2>1, <2>5, <3>1, <3>2
    <3> QED
      BY <2>2, <3>1, <3>2, <3>3
  <2>7. samplecount' <= MAXSAMPLES /\ samplecount' >= 1
    BY <1>0, <1>1, <2>1, TimingAssumption DEF SamplesKept
  <2>8. has_converged(values', samplecount') \/ ~(samplecount' < MAXSAMPLES)
           => samplecount' = MAXSAMPLES \/ has_converged(values', samplecount')
    BY <1>1, <2>1, <2>7, TimingAssumption
  <2> QED
    BY <1>1, <2>6, <2>7, <2>8 DEF SamplesKept, has_converged
<1> QED
  BY <1>4, <1>5, <1>6 DEF TimingIInv

(* Every step keeps the invariant.                                         *)
LEMMA TimingInductive == TimingIInv /\ [TimingNext]_timingVars => TimingIInv'
<1> SUFFICES ASSUME TimingIInv, [TimingNext]_timingVars PROVE TimingIInv'
  OBVIOUS
<1>1. CASE StartTimer
  BY <1>1, StartKeeps
<1>2. CASE Function
  BY <1>2, FunctionKeeps
<1>3. CASE fcyc
  BY <1>3, FcycKeeps
<1>4. CASE ftimer_gettod \/ ftimer_itimer
  BY <1>4, FtimerKeeps
<1>5. CASE UNCHANGED timingVars
  <2>1. Measured' = Measured /\ Best(values, Measured, samplecount)' = Best(values, Measured, samplecount)
    BY <1>5 DEF timingVars, Measured
  <2> QED
    BY <1>5, <2>1 DEF timingVars, TimingIInv, TimingTypes, ReadingKept, SamplesKept, has_converged, At, init_etime
<1> QED
  BY <1>1, <1>2, <1>3, <1>4, <1>5 DEF TimingNext


(* What the run measured is what it took.                                  *)
LEMMA RunMeasured ==
  ASSUME TimingIInv, tphase = "stop", timer = "fcyc", \A d \in Durations : d < WORD * WORD
  PROVE  get_comp_counter(Counter) = runs[1][1] - runs[1][2] * cyc_per_tick
<1>0. TimingTypes /\ ReadingKept
  BY DEF TimingIInv
<1>1. /\ runs \in Seq(Run) /\ Len(runs) = 1 /\ Total(runs) <= clock /\ clock \in Nat
      /\ reading = At(clock - Total(runs)) /\ start_tick \in Nat /\ cyc_per_tick \in Nat
      /\ utime = start_tick + IF runs = <<>> THEN 0 ELSE runs[1][2]
      /\ runs[1][1] \in Durations /\ (~compensate => runs[1][2] = 0)
  BY <1>0 DEF TimingTypes, ReadingKept
<1>2. PICK d, k \in Nat : runs[1] = <<d, k>>
  <2>1. runs \in Seq(Run) /\ Len(runs) = 1
    BY <1>1
  <2>2. runs[1] \in Run
    BY <2>1
  <2> QED
    BY <2>2 DEF Run
<1>3. runs = Append(<<>>, runs[1]) /\ runs[1] \in Run /\ <<>> \in Seq(Run) /\ runs # <<>>
  <2>1. runs \in Seq(Run) /\ Len(runs) = 1
    BY <1>1
  <2>2. runs = Append(<<>>, runs[1])
    <3>1. PICK e : e = runs[1]
      OBVIOUS
    <3>2. <<e>> = Append(<<>>, e)
      OBVIOUS
    <3>3. runs = <<e>>
      BY <2>1, <3>1
    <3> QED
      BY <3>1, <3>2, <3>3
  <2>3. runs[1] \in Run
    BY <2>1
  <2>4. <<>> \in Seq(Run) /\ runs # <<>>
    BY <2>1
  <2> QED
    BY <2>2, <2>3, <2>4
<1>4. Total(runs) = d
  <2>1. Total(Append(<<>>, runs[1])) = 0 + runs[1][1]
    BY <1>3, TotalFacts
  <2>2. Total(runs) = 0 + runs[1][1]
    BY <1>3, <2>1
  <2> QED
    BY <1>2, <2>2
<1>5. PICK t \in Nat : t = clock - d /\ clock = t + d
  BY <1>1, <1>4
<1>6. get_counter(Counter) = d
  <2>1. Counter = At(t + d)
    BY <1>5 DEF Counter, At
  <2>2. d < WORD * WORD /\ reading = At(t)
    BY <1>1, <1>2, <1>4, <1>5
  <2> QED
    BY <2>1, <2>2, CounterDifference
<1>7. utime - start_tick = k
  BY <1>1, <1>2, <1>3
<1>8. compensate \in BOOLEAN
  BY <1>0 DEF TimingTypes
<1>9. k * cyc_per_tick = IF compensate THEN k * cyc_per_tick ELSE 0
  BY <1>1, <1>2, <1>8
<1> QED
  BY <1>2, <1>6, <1>7, <1>9 DEF get_comp_counter

(* What ftimer returns is what its n runs took.                            *)
LEMMA FtimerMeasured ==
  ASSUME TimingIInv, MeasuresElapsedTime, ftimer_gettod \/ ftimer_itimer
  PROVE  MeasuresElapsedTime'
<1>0. TimingTypes /\ ReadingKept
  BY DEF TimingIInv
<1>1. /\ timer' = timer /\ runs' = runs /\ history' = history /\ tphase = "stop"
  BY DEF ftimer_gettod, ftimer_itimer
<1>2. Total(runs) \in Nat /\ Total(runs) <= clock /\ clock \in Nat
  BY <1>0, <1>1, TotalFacts DEF TimingTypes, ReadingKept
<1>3. TimeRun = Total(runs) /\ TimeRun' = TimeRun
  BY <1>1 DEF TimeRun, Total
<1>4. CASE ftimer_gettod
  <2>1. reading = [sec |-> (clock - Total(runs)) \div SECOND, usec |-> (clock - Total(runs)) % SECOND]
    BY <1>0, <1>4 DEF ReadingKept, ftimer_gettod
  <2>2. PICK t \in Nat : t = clock - Total(runs)
    BY <1>2
  <2>3. Between(reading, TimeOfDay) = clock - t
    BY <1>2, <2>1, <2>2, DayDifference DEF TimeOfDay
  <2>4. result' = TimeRun
    BY <1>2, <1>3, <1>4, <2>2, <2>3 DEF ftimer_gettod
  <2> QED
    BY <1>1, <1>3, <2>4 DEF MeasuresElapsedTime
<1>5. CASE ftimer_itimer /\ TimeRun >= MAX_ETIME * SECOND
  BY <1>1, <1>3, <1>5 DEF ftimer_itimer, MeasuresElapsedTime
<1>6. CASE ftimer_itimer /\ ~(TimeRun >= MAX_ETIME * SECOND)
  <2>1. SECOND \in Nat \ {0} /\ MAX_ETIME \in Nat
    BY TimingAssumption
  <2>2. PICK lap : lap = MAX_ETIME * SECOND /\ lap \in Nat
    BY <2>1
  <2>3. PICK e \in Nat : e = lap - TimeRun
    BY <1>2, <1>3, <1>6, <2>2
  <2>4. PICK p \in Nat, s \in 0 .. SECOND - 1 : e = SECOND * p + s /\ e \div SECOND = p /\ e % SECOND = s
    BY <2>1, DivModExist
  <2>5. Remaining = [sec |-> p, usec |-> s]
    BY <2>2, <2>3, <2>4 DEF Remaining
  <2>6. reading = [sec |-> MAX_ETIME, usec |-> 0]
    BY <1>0, <1>6 DEF ReadingKept, ftimer_itimer, init_etime
  <2>7. Between(Remaining, reading) = SECOND * (MAX_ETIME - p) + (0 - s)
    BY <2>5, <2>6 DEF Between
  <2>8. SECOND * (MAX_ETIME - p) = lap - SECOND * p /\ SECOND * p \in Nat
    BY <2>1, <2>2
  <2>9. result' = TimeRun
    BY <1>2, <1>3, <1>6, <2>1, <2>2, <2>3, <2>4, <2>7, <2>8 DEF ftimer_itimer
  <2> QED
    BY <1>1, <1>3, <2>9 DEF MeasuresElapsedTime
<1> QED
  BY <1>4, <1>5, <1>6

(* The timing package's inductive invariant: the reading and the ticks     *)
(* still tell what the runs since took, values holds the best of the       *)
(* samples, and a measurement that has not ended has samples left to       *)
(* take.                                                                   *)
THEOREM TimingInvariant == TimingSpec => []TimingIInv
<1>1. QED
  BY TimingStarts, TimingInductive, PTL DEF TimingSpec

(* Whatever the clock shows at first and wherever its halves wrap, a       *)
(* measurement is what the function took, if one call takes less than the  *)
(* 2^64 cycles that the counter has (fcyc.c, clock.c, ftimer.c).           *)
THEOREM ElapsedTimeStaysMeasured ==
  ASSUME \A d \in Durations : d < WORD * WORD
  PROVE  TimingSpec => []MeasuresElapsedTime
<1>1. TimingInit => MeasuresElapsedTime
  BY DEF TimingInit, MeasuresElapsedTime
<1>2. TimingIInv /\ TimingIInv' /\ MeasuresElapsedTime /\ [TimingNext]_timingVars => MeasuresElapsedTime'
  <2> SUFFICES ASSUME TimingIInv, TimingIInv', MeasuresElapsedTime, [TimingNext]_timingVars
               PROVE  MeasuresElapsedTime'
    OBVIOUS
  <2>1. CASE StartTimer \/ Function
    <3>1. history' = history /\ tphase' \in {"run", "stop"}
      BY <2>1 DEF StartTimer, Function
    <3> QED
      BY <3>1 DEF MeasuresElapsedTime
  <2>2. CASE fcyc
    <3> DEFINE cyc == get_comp_counter(Counter)
               r == [measured |-> cyc, run |-> runs[1], cost |-> cyc_per_tick]
    <3>1. tphase = "stop" /\ timer = "fcyc" /\ timer' = timer /\ history' = Append(history, r)
      BY <2>2 DEF fcyc
    <3>2. cyc = runs[1][1] - runs[1][2] * cyc_per_tick
      BY <3>1, RunMeasured
    <3> HIDE DEF cyc
    <3>3. r.measured = r.run[1] - r.run[2] * r.cost
      BY <3>2
    <3> HIDE DEF r
    <3>4. history \in Seq(Sample) /\ history' \in Seq(Sample)
      BY DEF TimingIInv, TimingTypes
    <3>5. ASSUME NEW h \in DOMAIN history'
          PROVE  history'[h].measured = history'[h].run[1] - history'[h].run[2] * history'[h].cost
      <4>1. (h \in DOMAIN history /\ history'[h] = history[h]) \/ history'[h] = r
        BY <3>1, <3>4
      <4> QED
        BY <3>3, <4>1 DEF MeasuresElapsedTime
    <3> QED
      BY <3>1, <3>5 DEF MeasuresElapsedTime
  <2>3. CASE ftimer_gettod \/ ftimer_itimer
    BY <2>3, FtimerMeasured
  <2>4. CASE UNCHANGED timingVars
    <3>1. TimeRun' = TimeRun
      BY <2>4 DEF timingVars, TimeRun
    <3> QED
      BY <2>4, <3>1 DEF timingVars, MeasuresElapsedTime
  <2> QED
    BY <2>1, <2>2, <2>3, <2>4 DEF TimingNext
<1> QED
  BY <1>1, <1>2, TimingInvariant, PTL DEF TimingSpec

(* In whatever order samples come, however many are equal, add_sample      *)
(* keeps the k smallest in order, and fcyc returns the smallest of all     *)
(* and stops at maxsamples (fcyc.c).                                       *)
THEOREM KBestStayKept == TimingSpec => []KeepsKBest
<1>1. TimingIInv => KeepsKBest
  <2> SUFFICES ASSUME TimingIInv PROVE KeepsKBest
    OBVIOUS
  <2>0. TimingTypes /\ SamplesKept
    BY DEF TimingIInv
  <2> DEFINE smaller(h, j) == \/ history[h].measured < history[j].measured
                              \/ history[h].measured = history[j].measured /\ h < j
             rank(h) == Cardinality({j \in DOMAIN history : smaller(j, h)}) + 1
             n == samplecount
  <2>1. n \in Nat /\ DOMAIN history = 1 .. n /\ \A h \in 1 .. n : Measured[h] = history[h].measured
    BY <2>0 DEF TimingTypes, Measured
  <2>2. PICK m : m = Measured
    OBVIOUS
  <2>3. Best(values, m, n)
    BY <2>0, <2>2 DEF SamplesKept
  <2>4. \A h \in 1 .. n : m[h] = history[h].measured /\ m[h] \in Int
    BY <2>1, <2>2, <2>3 DEF Best
  <2>5. \A h \in 1 .. n : rank(h) = Rank(m, n, h)
    <3> TAKE h \in 1 .. n
    <3>1. {j \in DOMAIN history : smaller(j, h)} = Below(m, n, h)
      BY <2>1, <2>4 DEF Below, Smaller
    <3> QED
      BY <3>1 DEF Rank
  <2>6. \A h \in DOMAIN history : rank(h) <= KBEST => values[rank(h)] = history[h].measured
    <3> HIDE DEF rank
    <3> QED
      BY <2>1, <2>3, <2>4, <2>5 DEF Best
  <2>7. ASSUME tphase = "done", timer = "fcyc", NEW h \in DOMAIN history
        PROVE  result <= history[h].measured
    <3>1. n >= 1 /\ result = values[1] /\ h \in 1 .. n
      BY <2>0, <2>1, <2>7 DEF SamplesKept
    <3>2. Len(values) >= 1 /\ Len(values) \in Nat
      BY <2>3, <3>1, TimingAssumption DEF Best
    <3>3. PICK j \in 1 .. n : Rank(m, n, j) = 1 /\ values[1] = m[j]
      <4>1. \A p \in 1 .. Len(values) : \E j \in 1 .. n : Rank(m, n, j) = p /\ values[p] = m[j]
        BY <2>3, BestSorted
      <4> QED
        BY <3>2, <4>1
    <3>4. m[j] <= m[h]
      <4>1. Rank(m, n, h) \in 1 .. n
        BY <2>1, <2>4, <3>1, BelowFacts
      <4>2. \A a, b \in 1 .. n : Rank(m, n, a) <= Rank(m, n, b) => m[a] <= m[b]
        BY <2>1, <2>4, RankOrders
      <4> QED
        BY <3>1, <3>3, <4>1, <4>2
    <3> QED
      BY <2>4, <3>1, <3>3, <3>4
  <2> QED
    BY <2>0, <2>6, <2>7 DEF KeepsKBest, SamplesKept
<1> QED
  BY <1>1, TimingInvariant, PTL

-----------------------------------------------------------------------------
(* The assembler and the loader.                                           *)

(* The place behind a line that begins at b, and the places of a file,     *)
(* told without the variable.                                              *)
After(b, line) ==
    CASE Name(line) = "pos"   -> Operand(line)[2]
      [] Name(line) = "align" -> LET a == Operand(line)[2]
                                 IN  CHOOSE k \in b .. b + a - 1 : k % a = 0
      [] OTHER -> b + Size(line)
ArePlaces(p, f, m) == p = [k \in 0 .. m |-> IF k = 0 THEN 0 ELSE After(p[k - 1], f[k])]
PlaceOf(f) == CHOOSE p : ArePlaces(p, f, Len(f))

(* There are such places, up to any line.                                  *)
LEMMA PlacesExist ==
  ASSUME NEW f, NEW m \in Nat
  PROVE  \E p : ArePlaces(p, f, m)
<1> DEFINE Bad == {l \in 0 .. m : ~ \E p : ArePlaces(p, f, l)}
<1>1. ASSUME Bad # {} PROVE FALSE
  <2>1. PICK l \in Bad : \A k \in Bad : l <= k
    <3>1. Bad \subseteq Nat
      OBVIOUS
    <3> QED
      BY <1>1, <3>1, MinNat
  <2>2. CASE l = 0
    <3>1. ArePlaces([k \in 0 .. 0 |-> 0], f, 0)
      BY DEF ArePlaces
    <3> QED
      BY <2>1, <2>2, <3>1
  <2>3. CASE l # 0
    <3>1. l - 1 \in 0 .. m /\ l - 1 \notin Bad /\ l \in Nat /\ l >= 1
      BY <2>1, <2>3
    <3>2. PICK p : ArePlaces(p, f, l - 1)
      BY <3>1
    <3> DEFINE e == After(p[l - 1], f[l])
               q == [k \in 0 .. l |-> IF k = l THEN e ELSE p[k]]
    <3>3. ASSUME NEW k \in 0 .. l PROVE q[k] = IF k = 0 THEN 0 ELSE After(q[k - 1], f[k])
      <4>1. CASE k = l
        <5>1. q[l - 1] = p[l - 1]
          BY <3>1
        <5>2. q[l] = After(p[l - 1], f[l])
          BY <3>1
        <5> HIDE DEF q
        <5> QED
          BY <2>3, <4>1, <5>1, <5>2, Zenon
      <4>2. CASE k # l
        <5>1. q[k] = p[k] /\ k \in 0 .. l - 1 /\ (k # 0 => q[k - 1] = p[k - 1])
          BY <3>1, <4>2
        <5>2. p[k] = IF k = 0 THEN 0 ELSE After(p[k - 1], f[k])
          BY <3>2, <5>1 DEF ArePlaces
        <5> HIDE DEF q
        <5> QED
          BY <5>1, <5>2, Zenon
      <4> QED
        BY <4>1, <4>2
    <3>4. q = [k \in 0 .. l |-> q[k]]
      BY Zenon
    <3> HIDE DEF q
    <3>5. ArePlaces(q, f, l)
      BY <3>3, <3>4, Zenon DEF ArePlaces
    <3> QED
      BY <2>1, <3>5
  <2> QED
    BY <2>2, <2>3
<1>2. m \in 0 .. m
  OBVIOUS
<1> QED
  BY <1>1, <1>2

(* PlaceOf makes places: 0 in front, and each line after the one before it.*)
LEMMA PlaceOfIs ==
  ASSUME NEW f, Len(f) \in Nat
  PROVE  /\ DOMAIN PlaceOf(f) = 0 .. Len(f)
         /\ PlaceOf(f)[0] = 0
         /\ \A k \in 1 .. Len(f) : PlaceOf(f)[k] = After(PlaceOf(f)[k - 1], f[k])
<1> DEFINE p == PlaceOf(f)
<1>1. ArePlaces(p, f, Len(f))
  BY PlacesExist, Zenon DEF PlaceOf
<1> HIDE DEF p
<1>2. /\ DOMAIN p = 0 .. Len(f)
      /\ p[0] = 0
      /\ \A k \in 1 .. Len(f) : p[k] = After(p[k - 1], f[k])
  BY <1>1 DEF ArePlaces
<1> QED
  BY <1>2 DEF p

(* Place is one of them.                                                   *)
LEMMA PlaceIs == Place = PlaceOf(file)
BY DEF Place, PlaceOf, ArePlaces, After

(* Lines behind do not move a line.                                        *)
LEMMA PlacePrefix ==
  ASSUME NEW f, NEW g, Len(f) \in Nat, Len(g) \in Nat, Len(f) <= Len(g),
         \A k \in 1 .. Len(f) : f[k] = g[k]
  PROVE  \A k \in 0 .. Len(f) : PlaceOf(g)[k] = PlaceOf(f)[k]
<1> DEFINE p == PlaceOf(f)
           q == PlaceOf(g)
           Bad == {k \in 0 .. Len(f) : q[k] # p[k]}
<1>1. /\ p[0] = 0 /\ q[0] = 0
      /\ \A k \in 1 .. Len(f) : p[k] = After(p[k - 1], f[k])
      /\ \A k \in 1 .. Len(g) : q[k] = After(q[k - 1], g[k])
  BY PlaceOfIs, Zenon
<1> HIDE DEF p, q
<1>2. ASSUME Bad # {} PROVE FALSE
  <2> DEFINE l == Min(Bad)
  <2>1. Bad \subseteq Nat
    OBVIOUS
  <2>2. l \in Bad /\ \A k \in Bad : l <= k
    BY <1>2, <2>1, MinNat, Zenon
  <2> HIDE DEF l
  <2>3. l \in 1 .. Len(f) /\ l - 1 \in 0 .. Len(f) /\ l - 1 \notin Bad /\ l \in 1 .. Len(g)
    BY <1>1, <2>2
  <2>4. q[l - 1] = p[l - 1] /\ f[l] = g[l]
    BY <2>3
  <2>5. q[l] = p[l]
    BY <1>1, <2>3, <2>4, Zenon
  <2> QED
    BY <2>2, <2>5
<1> QED
  BY <1>2 DEF p, q

(* A line is a sequence of tokens as the scanner delivers them.            *)
LEMMA LineFacts ==
  ASSUME NEW line \in SourceLines
  PROVE  /\ Len(line) \in Nat /\ DOMAIN line = 1 .. Len(line)
         /\ \A k \in 1 .. Len(line) : Scanned(line[k])
<1>1. line \in Seq({line[k] : k \in DOMAIN line}) /\ \A k \in DOMAIN line : Scanned(line[k])
  BY LinesAssumption
<1> DEFINE S == {line[k] : k \in DOMAIN line}
<1>2. line \in Seq(S)
  BY <1>1
<1> HIDE DEF S
<1>3. Len(line) \in Nat /\ DOMAIN line = 1 .. Len(line)
  BY <1>2
<1> QED
  BY <1>1, <1>3, Zenon

(* What instruction_set says of each group of mnemonics.                   *)
LEMMA MovesAre ==
  ASSUME NEW name \in DOMAIN rrmovq
  PROVE  instruction_set(name) = Instruction(HPACK(2, rrmovq[name]), 2, RegReg) /\ rrmovq[name] \in 0 .. 6
BY SMTT(30) DEF instruction_set, rrmovq, alu, jump, alone, pushpop, immed, data
LEMMA AlusAre ==
  ASSUME NEW name \in DOMAIN alu
  PROVE  instruction_set(name) = Instruction(HPACK(6, alu[name]), 2, RegReg) /\ alu[name] \in 0 .. 3
BY SMTT(30) DEF instruction_set, rrmovq, alu, jump, alone, pushpop, immed, data
LEMMA JumpsAre ==
  ASSUME NEW name \in DOMAIN jump
  PROVE  instruction_set(name) = Instruction(HPACK(7, jump[name]), 9, << <<"I", 1, 8>> >>) /\ jump[name] \in 0 .. 6
BY SMTT(30) DEF instruction_set, rrmovq, alu, jump, alone, pushpop, immed, data
LEMMA AlonesAre ==
  ASSUME NEW name \in DOMAIN alone
  PROVE  instruction_set(name) = Instruction(HPACK(alone[name], 0), 1, <<>>) /\ alone[name] \in {0, 1, 9}
BY SMTT(30) DEF instruction_set, rrmovq, alu, jump, alone, pushpop, immed, data
LEMMA StacksAre ==
  ASSUME NEW name \in DOMAIN pushpop
  PROVE  instruction_set(name) = Instruction(HPACK(pushpop[name], 0), 2, << <<"R", 1, 1>> >>) /\ pushpop[name] \in {10, 11}
BY SMTT(30) DEF instruction_set, rrmovq, alu, jump, alone, pushpop, immed, data
LEMMA ImmedsAre ==
  ASSUME NEW name \in DOMAIN immed
  PROVE  instruction_set(name) = Instruction(HPACK(immed[name], 0), 10, << <<"I", 2, 8>>, <<"R", 1, 0>> >>) /\ immed[name] \in {3, 12}
BY SMTT(30) DEF instruction_set, rrmovq, alu, jump, alone, pushpop, immed, data
LEMMA DatasAre ==
  ASSUME NEW name \in DOMAIN data
  PROVE  instruction_set(name) = Instruction(0, data[name], << <<"I", 0, data[name]>> >>) /\ data[name] \in {1, 2, 4, 8}
BY SMTT(30) DEF instruction_set, rrmovq, alu, jump, alone, pushpop, immed, data
LEMMA CallIs == instruction_set("call") = Instruction(HPACK(8, 0), 9, << <<"I", 1, 8>> >>)
BY SMTT(30) DEF instruction_set, rrmovq, alu, jump, alone, pushpop, immed, data
LEMMA StoreIs ==
  instruction_set("rmmovq") = Instruction(HPACK(4, 0), 10, << <<"R", 1, 1>>, <<"M", 1, 0>> >>)
BY SMTT(30) DEF instruction_set, rrmovq, alu, jump, alone, pushpop, immed, data
LEMMA LoadIs ==
  instruction_set("mrmovq") = Instruction(HPACK(5, 0), 10, << <<"M", 1, 0>>, <<"R", 1, 1>> >>)
BY SMTT(30) DEF instruction_set, rrmovq, alu, jump, alone, pushpop, immed, data
(* Every mnemonic but those of directives is in one of the groups.         *)
LEMMA Groups ==
  ASSUME NEW name \in Mnemonics \ {"pos", "align"}
  PROVE  \/ name \in DOMAIN rrmovq \/ name \in DOMAIN alu \/ name \in DOMAIN jump
         \/ name \in DOMAIN alone \/ name \in DOMAIN pushpop \/ name \in DOMAIN immed
         \/ name \in DOMAIN data \/ name \in {"call", "rmmovq", "mrmovq"}
BY SMTT(30) DEF Mnemonics, rrmovq, alu, jump, alone, pushpop, immed, data

-----------------------------------------------------------------------------
(* Bytes.                                                                  *)

Codes == [1 .. 10 -> 0 .. 255]

(* ByteOf makes bytes, of any number.                                      *)
LEMMA AByte ==
  ASSUME NEW v \in Int, NEW n \in Nat
  PROVE  ByteOf(v, n) \in 0 .. 255
<1>1. CASE n < 4
  <2>1. n + 1 \in 1 .. 4
    BY <1>1
  <2>2. Weight[n + 1] \in Nat \ {0}
    BY <2>1, SMT DEF Weight
  <2> DEFINE w == Weight[n + 1]
  <2> HIDE DEF w
  <2>3. (v \div w) \in Int
    BY <2>2, SMT DEF w
  <2> DEFINE q == v \div w
  <2> HIDE DEF q
  <2>4. q % 256 \in 0 .. 255
    BY <2>3, SMT DEF q
  <2>5. ByteOf(v, n) = q % 256
    BY <1>1 DEF ByteOf, q, w
  <2> QED
    BY <2>4, <2>5
<1> QED
  BY <1>1 DEF ByteOf

(* HPACK puts two nibbles into a byte, from which HI4 and LO4 take them.   *)
LEMMA APair ==
  ASSUME NEW h \in 0 .. 15, NEW l \in 0 .. 15
  PROVE  HPACK(h, l) \in 0 .. 255 /\ HI4(HPACK(h, l)) = h /\ LO4(HPACK(h, l)) = l
BY DEF HPACK, HI4, LO4

(* The halves of a byte are nibbles.                                       *)
LEMMA Nibbles ==
  ASSUME NEW b \in 0 .. 255
  PROVE  HI4(b) \in 0 .. 15 /\ LO4(b) \in 0 .. 15
BY DEF HI4, LO4

(* PutWord writes n bytes from pos on, as far as they fit, and no others.  *)
LEMMA PutWordIs ==
  ASSUME NEW c \in Codes, NEW pos \in 0 .. 9, NEW n \in Nat, NEW v \in Int
  PROVE  /\ PutWord(c, pos, n, v) \in Codes
         /\ \A k \in 1 .. 10 : k \notin pos + 1 .. pos + n => PutWord(c, pos, n, v)[k] = c[k]
         /\ \A k \in 0 .. n - 1 : pos + 1 + k <= 10 => PutWord(c, pos, n, v)[pos + 1 + k] = ByteOf(v, k)
<1>1. c = [k \in 1 .. 10 |-> c[k]] /\ DOMAIN c = 1 .. 10 /\ \A k \in 1 .. 10 : c[k] \in 0 .. 255
  BY DEF Codes
<1>2. \A k \in 1 .. 10 : k - 1 \in pos .. pos + n - 1 => ByteOf(v, k - 1 - pos) \in 0 .. 255
  <2> TAKE k \in 1 .. 10
  <2> HAVE k - 1 \in pos .. pos + n - 1
  <2>1. k - 1 - pos \in Nat
    OBVIOUS
  <2> QED
    BY <2>1, AByte, Zenon
<1>3. PutWord(c, pos, n, v) = [k \in 1 .. 10 |-> IF k - 1 \in pos .. pos + n - 1 THEN ByteOf(v, k - 1 - pos) ELSE c[k]]
  BY <1>1 DEF PutWord
<1> DEFINE d == PutWord(c, pos, n, v)
<1> HIDE DEF d
<1> DEFINE e(k) == IF k - 1 \in pos .. pos + n - 1 THEN ByteOf(v, k - 1 - pos) ELSE c[k]
<1>4. d \in Codes
  <2>1. \A k \in 1 .. 10 : e(k) \in 0 .. 255
    BY <1>1, <1>2, Zenon
  <2>2. d = [k \in 1 .. 10 |-> e(k)]
    BY <1>3, Zenon DEF d
  <2> HIDE DEF e
  <2> QED
    BY <2>1, <2>2, Zenon DEF Codes
<1>5. \A k \in 1 .. 10 : d[k] = IF k - 1 \in pos .. pos + n - 1 THEN ByteOf(v, k - 1 - pos) ELSE c[k]
  BY <1>3 DEF d
<1>6. ASSUME NEW k \in 1 .. 10, k \notin pos + 1 .. pos + n  PROVE d[k] = c[k]
  BY <1>5, <1>6
<1>7. ASSUME NEW k \in 0 .. n - 1, pos + 1 + k <= 10  PROVE d[pos + 1 + k] = ByteOf(v, k)
  <2>1. pos + 1 + k \in 1 .. 10 /\ (pos + 1 + k) - 1 \in pos .. pos + n - 1 /\ (pos + 1 + k) - 1 - pos = k
    BY <1>7
  <2> QED
    BY <1>5, <2>1
<1> QED
  BY <1>4, <1>6, <1>7 DEF d

(* PutReg writes one half of the byte of registers and leaves the rest.    *)
LEMMA PutRegIs ==
  ASSUME NEW c \in Codes, NEW hi \in {0, 1}, NEW r \in 0 .. 15
  PROVE  /\ PutReg(c, 1, hi, r) \in Codes
         /\ \A k \in 1 .. 10 : k # 2 => PutReg(c, 1, hi, r)[k] = c[k]
         /\ PutReg(c, 1, hi, r)[2] = IF hi = 1 THEN HPACK(r, LO4(c[2])) ELSE HPACK(HI4(c[2]), r)
<1>1. c[2] \in 0 .. 255
  BY DEF Codes
<1>2. HPACK(r, LO4(c[2])) \in 0 .. 255 /\ HPACK(HI4(c[2]), r) \in 0 .. 255
  BY <1>1, Nibbles, APair
<1> DEFINE e == IF hi = 1 THEN HPACK(r, LO4(c[2])) ELSE HPACK(HI4(c[2]), r)
<1>3. e \in 0 .. 255
  BY <1>2
<1>4. PutReg(c, 1, hi, r) = [c EXCEPT ![2] = e]
  BY DEF PutReg
<1> HIDE DEF e
<1>5. /\ [c EXCEPT ![2] = e] \in Codes
      /\ \A k \in 1 .. 10 : k # 2 => [c EXCEPT ![2] = e][k] = c[k]
      /\ [c EXCEPT ![2] = e][2] = e
  BY <1>3 DEF Codes
<1> QED
  BY <1>4, <1>5 DEF e

-----------------------------------------------------------------------------
(* Tokens.                                                                 *)

(* A token of a kind is in the line and has the value of that kind.        *)
LEMMA TokenIs ==
  ASSUME NEW line \in SourceLines, NEW k \in Nat \ {0}
  PROVE  /\ Is(line, k, "REG") => k \in 1 .. Len(line) /\ line[k][2] \in 0 .. 14
         /\ Is(line, k, "NUM") => k \in 1 .. Len(line) /\ line[k][2] \in Int32
         /\ Is(line, k, "INSTR") => k \in 1 .. Len(line) /\ line[k][2] \in Mnemonics
         /\ Is(line, k, "IDENT") => k \in 1 .. Len(line)
<1>1. CASE k <= Len(line)
  <2>1. k \in 1 .. Len(line) /\ Token(line, k) = line[k] /\ Scanned(line[k])
    BY <1>1, LineFacts DEF Token
  <2> QED
    BY <2>1, Zenon DEF Is, Scanned
<1>2. CASE ~ k <= Len(line)
  <2>1. Token(line, k) = NoToken
    BY <1>2 DEF Token
  <2> QED
    BY <2>1 DEF Is, NoToken
<1> QED
  BY <1>1, <1>2

Names  == UNION {{line[k][2] : k \in DOMAIN line} : line \in SourceLines}
Symbol == [name : Names, pos : Int]

(* Numbers of 32 bits are integers.                                        *)
LEMMA WordIsInt == Int32 \subseteq Int
BY DEF Int32

(* What get_num finds is an integer, also for a name that is not defined.  *)
LEMMA NumberIsInt ==
  ASSUME symbol_table \in Seq(Symbol), NEW line \in SourceLines, NEW k \in Nat \ {0}, IsNumber(line, k)
  PROVE  NumberAt(line, k) \in Int
<1>1. CASE Is(line, k, "NUM")
  <2>1. line[k][2] \in Int32
    BY <1>1, TokenIs
  <2> QED
    BY <1>1, <2>1, WordIsInt, Zenon DEF NumberAt
<1>2. CASE ~ Is(line, k, "NUM")
  <2> DEFINE x == line[k][2]
             E == EntriesOf(x)
  <2>1. NumberAt(line, k) = find_symbol(x)
    BY <1>2 DEF NumberAt
  <2> HIDE DEF x
  <2>2. E \subseteq Nat /\ E \subseteq DOMAIN symbol_table
    BY DEF EntriesOf
  <2>3. Defined(x) => E # {}
    BY DEF Defined, EntriesOf, ToSet
  <2> HIDE DEF E
  <2>4. Defined(x) => Min(E) \in DOMAIN symbol_table
    BY <2>2, <2>3, MinNat, Zenon
  <2>5. \A j \in DOMAIN symbol_table : symbol_table[j].pos \in Int
    <3>1. \A j \in DOMAIN symbol_table : symbol_table[j] \in Symbol
      BY ElementOfSeq
    <3> QED
      BY <3>1 DEF Symbol
  <2> QED
    BY <2>1, <2>4, <2>5 DEF find_symbol, E
<1> QED
  BY <1>1, <1>2

-----------------------------------------------------------------------------
(* Operands.                                                               *)

Taken(t, f, c) == [tpos |-> t, failed |-> f, code |-> c]
Set3(s, f, t, c) == [s EXCEPT !.failed = f, !.tpos = t, !.code = c]
SetCode(s, c, t) == [s EXCEPT !.code = c, !.tpos = t]
SetTpos(s, f, t) == [s EXCEPT !.failed = f, !.tpos = t]
Fails(s)   == [s EXCEPT !.failed = TRUE]
Goes(s, t) == [s EXCEPT !.tpos = t]
IsState(s) == s = Taken(s.tpos, s.failed, s.code) /\ s.tpos \in Nat \ {0} /\ s.code \in Codes

(* The updates of the operand functions, written as new states: tpos,      *)
(* failed, code.                                                           *)
LEMMA OneField ==
  ASSUME NEW t0, NEW f0, NEW c0, NEW t, NEW f, NEW c
  PROVE  /\ [Taken(t0, f0, c0) EXCEPT !.tpos = t] = Taken(t, f0, c0)
         /\ [Taken(t0, f0, c0) EXCEPT !.failed = f] = Taken(t0, f, c0)
         /\ [Taken(t0, f0, c0) EXCEPT !.code = c] = Taken(t0, f0, c)
BY DEF Taken

(* A state has the parts it is made of.                                    *)
LEMMA TakenIs ==
  ASSUME NEW t, NEW f, NEW c
  PROVE  /\ Taken(t, f, c).tpos = t /\ Taken(t, f, c).failed = f /\ Taken(t, f, c).code = c
         /\ t \in Nat \ {0} /\ c \in Codes => IsState(Taken(t, f, c))
<1>1. Taken(t, f, c).tpos = t /\ Taken(t, f, c).failed = f /\ Taken(t, f, c).code = c
  BY DEF Taken
<1> QED
  BY <1>1 DEF IsState

(* The same for the updates of several parts.                              *)
LEMMA Moved ==
  ASSUME NEW s, IsState(s), NEW f, NEW t, NEW c
  PROVE  /\ Set3(s, f, t, c) = Taken(t, f, c)
         /\ SetCode(s, c, t) = Taken(t, s.failed, c)
         /\ SetTpos(s, f, t) = Taken(t, f, s.code)
         /\ Goes(s, t) = Taken(t, s.failed, s.code)
<1>1. s = Taken(s.tpos, s.failed, s.code)
  BY DEF IsState
<1>3. [s EXCEPT !.failed = f, !.tpos = t, !.code = c] = Taken(t, f, c)
  <2>1. [s EXCEPT !.failed = f, !.tpos = t, !.code = c] = [[[s EXCEPT !.failed = f] EXCEPT !.tpos = t] EXCEPT !.code = c]
    OBVIOUS
  <2>2. [s EXCEPT !.failed = f] = Taken(s.tpos, f, s.code)
    BY <1>1, OneField
  <2>3. [Taken(s.tpos, f, s.code) EXCEPT !.tpos = t] = Taken(t, f, s.code)
    BY OneField
  <2>4. [Taken(t, f, s.code) EXCEPT !.code = c] = Taken(t, f, c)
    BY OneField
  <2> QED
    BY <2>1, <2>2, <2>3, <2>4
<1>4. [s EXCEPT !.code = c, !.tpos = t] = Taken(t, s.failed, c)
  <2>1. [s EXCEPT !.code = c, !.tpos = t] = [[s EXCEPT !.code = c] EXCEPT !.tpos = t]
    OBVIOUS
  <2>2. [s EXCEPT !.code = c] = Taken(s.tpos, s.failed, c)
    BY <1>1, OneField
  <2>3. [Taken(s.tpos, s.failed, c) EXCEPT !.tpos = t] = Taken(t, s.failed, c)
    BY OneField
  <2> QED
    BY <2>1, <2>2, <2>3
<1>5. [s EXCEPT !.failed = f, !.tpos = t] = Taken(t, f, s.code)
  <2>1. [s EXCEPT !.failed = f, !.tpos = t] = [[s EXCEPT !.failed = f] EXCEPT !.tpos = t]
    OBVIOUS
  <2>2. [s EXCEPT !.failed = f] = Taken(s.tpos, f, s.code)
    BY <1>1, OneField
  <2>3. [Taken(s.tpos, f, s.code) EXCEPT !.tpos = t] = Taken(t, f, s.code)
    BY OneField
  <2> QED
    BY <2>1, <2>2, <2>3
<1>7. [s EXCEPT !.tpos = t] = Taken(t, s.failed, s.code)
  BY <1>1, OneField
<1> QED
  BY <1>3, <1>4, <1>5, <1>7, Zenon DEF Set3, SetCode, SetTpos, Goes

(* A failed state is a state, and failed.                                  *)
LEMMA FailsIs ==
  ASSUME NEW s, IsState(s)
  PROVE  IsState(Fails(s)) /\ Fails(s).failed
<1>1. s = [tpos |-> s.tpos, failed |-> s.failed, code |-> s.code]
  BY DEF IsState, Taken
<1>2. ASSUME NEW f  PROVE [s EXCEPT !.failed = f] = Taken(s.tpos, f, s.code)
  BY <1>1, OneField DEF Taken
<1>3. PICK f : f = TRUE
  OBVIOUS
<1>4. Fails(s) = [s EXCEPT !.failed = f]
  BY <1>3, Zenon DEF Fails
<1>5. [s EXCEPT !.failed = f] = Taken(s.tpos, f, s.code)
  BY <1>2, Zenon
<1>6. Fails(s) = Taken(s.tpos, f, s.code) /\ s.tpos \in Nat \ {0} /\ s.code \in Codes
  BY <1>4, <1>5, Zenon DEF IsState
<1>7. Fails(s).failed = f /\ IsState(Fails(s))
  BY <1>6, TakenIs
<1> QED
  BY <1>3, <1>7, Zenon

(* get_reg: if it does not fail, there was a register, and its half is set.*)
LEMMA RegisterArgument ==
  ASSUME NEW line \in SourceLines, NEW s, IsState(s), NEW hi \in {0, 1}
  PROVE  LET e == Argument(line, s, <<"R", 1, hi>>)
         IN  /\ IsState(e)
             /\ ~ e.failed => /\ ~ s.failed /\ line[s.tpos][2] \in 0 .. 14
                              /\ e.tpos = s.tpos + 1
                              /\ e.code = PutReg(s.code, 1, hi, line[s.tpos][2])
<1> DEFINE e == Argument(line, s, <<"R", 1, hi>>)
           r == line[s.tpos][2]
<1>1. e = get_reg(line, s, 1, hi)
  BY DEF Argument
<1>2. s.tpos \in Nat \ {0} /\ s.code \in Codes
  BY DEF IsState
<1>3. CASE Is(line, s.tpos, "REG")
  <2>1. r \in 0 .. 14
    BY <1>2, <1>3, TokenIs
  <2> DEFINE c == PutReg(s.code, 1, hi, r)
  <2>2. c \in Codes
    BY <1>2, <2>1, PutRegIs
  <2>3. get_reg(line, s, 1, hi) = [s EXCEPT !.code = c, !.tpos = s.tpos + 1]
    BY <1>3 DEF get_reg
  <2> DEFINE t == s.tpos + 1
  <2>4. t \in Nat \ {0}
    BY <1>2
  <2> HIDE DEF c, e, t
  <2>5. get_reg(line, s, 1, hi) = SetCode(s, c, t)
    BY <2>3, Zenon DEF t, SetCode
  <2>6. SetCode(s, c, t) = Taken(t, s.failed, c)
    BY Moved
  <2>7. e = Taken(t, s.failed, c)
    BY <1>1, <2>5, <2>6 DEF e
  <2>8. e.code = c /\ e.tpos = t /\ e.failed = s.failed /\ IsState(e)
    BY <2>2, <2>4, <2>7, TakenIs
  <2> QED
    BY <2>1, <2>8 DEF c, e, t
<1>4. CASE ~ Is(line, s.tpos, "REG")
  <2>1. get_reg(line, s, 1, hi) = Fails(s)
    BY <1>4, Zenon DEF get_reg, Fails
  <2> QED
    BY <1>1, <2>1, FailsIs
<1> QED
  BY <1>3, <1>4

(* get_num: if it does not fail, there was a number or a name that is      *)
(* defined, and its bytes are put.                                         *)
LEMMA NumberArgument ==
  ASSUME symbol_table \in Seq(Symbol),
         NEW line \in SourceLines, NEW s, IsState(s), NEW pos \in 0 .. 9, NEW n \in Nat
  PROVE  LET e == Argument(line, s, <<"I", pos, n>>)
         IN  /\ IsState(e)
             /\ ~ e.failed => /\ ~ s.failed /\ e.tpos = s.tpos + 1
                              /\ IsNumber(line, s.tpos) /\ ~ Unresolved(line, s.tpos)
                              /\ e.code = PutWord(s.code, pos, n, NumberAt(line, s.tpos))
<1> DEFINE e == Argument(line, s, <<"I", pos, n>>)
           v == NumberAt(line, s.tpos)
           u == Unresolved(line, s.tpos)
<1>1. e = get_num(line, s, pos, n)
  BY DEF Argument
<1>2. s.tpos \in Nat \ {0} /\ s.code \in Codes
  BY DEF IsState
<1>3. CASE IsNumber(line, s.tpos)
  <2>1. v \in Int
    BY <1>2, <1>3, NumberIsInt
  <2> DEFINE c == PutWord(s.code, pos, n, v)
             f == s.failed \/ u
  <2>2. c \in Codes
    BY <1>2, <2>1, PutWordIs
  <2> DEFINE t == s.tpos + 1
  <2>7. t \in Nat \ {0}
    BY <1>2
  <2>3. get_num(line, s, pos, n) = Set3(s, f, t, c)
    BY <1>3, Zenon DEF get_num, Set3
  <2>4. ~ f => ~ s.failed /\ ~ u
    OBVIOUS
  <2> HIDE DEF c, e, f, t, u, v
  <2>5. Set3(s, f, t, c) = Taken(t, f, c)
    BY Moved
  <2>8. e = Taken(t, f, c)
    BY <1>1, <2>3, <2>5
  <2>6. e.code = c /\ e.tpos = t /\ e.failed = f /\ IsState(e)
    BY <2>2, <2>7, <2>8, TakenIs
  <2> QED
    BY <1>3, <2>4, <2>6 DEF c, e, t, u, v
<1>4. CASE ~ IsNumber(line, s.tpos)
  <2>1. get_num(line, s, pos, n) = Fails(s)
    BY <1>4, Zenon DEF get_num, Fails
  <2> QED
    BY <1>1, <2>1, FailsIs
<1> QED
  BY <1>3, <1>4

(* get_mem: if it does not fail, base and displacement are those that the  *)
(* line has, and are put.                                                  *)
LEMMA MemoryArgument ==
  ASSUME symbol_table \in Seq(Symbol), NEW line \in SourceLines, NEW s, IsState(s)
  PROVE  LET e == Argument(line, s, <<"M", 1, 0>>)
             k == s.tpos
             v == IF IsNumber(line, k) THEN NumberAt(line, k) ELSE 0
         IN  /\ IsState(e)
             /\ ~ e.failed => /\ ~ s.failed /\ ~ (IsNumber(line, k) /\ Unresolved(line, k))
                              /\ Base(line, k) \in 0 .. 15
                              /\ e.tpos = Behind(line, k) + (IF Based(line, k) THEN 3 ELSE 0)
                              /\ e.code = PutWord(PutReg(s.code, 1, 0, Base(line, k)), 2, 8, v)
<1> DEFINE e == Argument(line, s, <<"M", 1, 0>>)
           k == s.tpos
           v == IF IsNumber(line, k) THEN NumberAt(line, k) ELSE 0
           p == Behind(line, k)
           f == s.failed \/ (IsNumber(line, k) /\ Unresolved(line, k))
           bad == Based(line, k) /\ ~(Is(line, p + 1, "REG") /\ Punct(line, p + 2, ")"))
           q == IF ~Is(line, p + 1, "REG") THEN p + 1
                ELSE IF Is(line, p + 2, "PUNCT") THEN p + 3 ELSE p + 2
           t == IF Based(line, k) THEN p + 3 ELSE p
           c == PutWord(PutReg(s.code, 1, 0, Base(line, k)), 2, 8, v)
           T == TRUE
<1>1. e = get_mem(line, s, 1)
  BY DEF Argument
<1>2. k \in Nat \ {0} /\ s.code \in Codes
  BY DEF IsState
<1>3. p \in Nat \ {0}
  BY <1>2 DEF Behind
<1>4. v \in Int
  BY <1>2, NumberIsInt
<1>5. q \in Nat \ {0} /\ t \in Nat \ {0} /\ t = p + (IF Based(line, k) THEN 3 ELSE 0)
  BY <1>3
<1>6. get_mem(line, s, 1) = IF bad THEN SetTpos(s, T, q) ELSE Taken(t, f, c)
  <2>1. 1 + 1 = 2
    OBVIOUS
  <2>2. get_mem(line, s, 1) = IF bad THEN SetTpos(s, T, q)
                              ELSE Taken(t, f, PutWord(PutReg(s.code, 1, 0, Base(line, k)), 1 + 1, 8, v))
    BY Zenon DEF get_mem, Behind, Based, Base, Taken, SetTpos
  <2> QED
    BY <2>1, <2>2, Zenon
<1>7. CASE bad
  <2>1. PICK g : g = T
    OBVIOUS
  <2> HIDE DEF bad, e, q
  <2>2. e = SetTpos(s, g, q)
    BY <1>1, <1>6, <1>7, <2>1, Zenon
  <2>3. SetTpos(s, g, q) = Taken(q, g, s.code)
    BY Moved, Zenon
  <2> HIDE DEF T
  <2>4. e.failed = g /\ IsState(e)
    BY <1>2, <1>5, <2>2, <2>3, TakenIs
  <2> QED
    BY <2>1, <2>4, Zenon DEF e, T
<1>8. CASE ~ bad
  <2>1. Base(line, k) \in 0 .. 15
    <3>1. CASE Based(line, k)
      <4>1. Is(line, p + 1, "REG")
        BY <1>8, <3>1
      <4>2. line[p + 1][2] \in 0 .. 14
        BY <1>3, <4>1, TokenIs
      <4> QED
        BY <3>1, <4>2 DEF Base
    <3>2. CASE ~ Based(line, k)
      BY <3>2 DEF Base, REG_NONE
    <3> QED
      BY <3>1, <3>2
  <2>2. c \in Codes
    <3> DEFINE d == PutReg(s.code, 1, 0, Base(line, k))
    <3>1. d \in Codes
      BY <1>2, <2>1, PutRegIs
    <3> HIDE DEF d, v
    <3>2. PutWord(d, 2, 8, v) \in Codes
      BY <1>4, <3>1, PutWordIs
    <3> QED
      BY <3>2 DEF d
  <2>3. ~ f => ~ s.failed /\ ~ (IsNumber(line, k) /\ Unresolved(line, k))
    OBVIOUS
  <2> HIDE DEF bad, c, e, f, q, t, T
  <2>4. e = Taken(t, f, c)
    BY <1>1, <1>6, <1>8, Zenon
  <2>5. e.code = c /\ e.tpos = t /\ e.failed = f /\ IsState(e)
    BY <1>5, <2>2, <2>4, TakenIs
  <2>6. ~ e.failed => ~ f
    BY <2>5
  <2> QED
    BY <1>5, <2>1, <2>3, <2>5, <2>6, Zenon DEF c, e, p, v
<1> QED
  BY <1>7, <1>8

-----------------------------------------------------------------------------
(* What the bytes mean.                                                    *)

Nonneg(f)   == \A k \in 0 .. Len(f) : PlaceOf(f)[k] >= 0
Integral(f) == \A k \in 0 .. Len(f) : PlaceOf(f)[k] \in Int
Far == 65545
Near(f, n)  == \A k \in 0 .. n : PlaceOf(f)[k] <= Far

(* The first entry of a name is the place of the first line it labels.     *)
EntriesIn(st, x) == {k \in DOMAIN st : st[k].name = x}
LinesOf(f, x)    == {k \in DOMAIN f : Token(f[k], 1) = <<"IDENT", x>>}
SymbolsRight(f, st) ==
    \A x : /\ EntriesIn(st, x) = {} <=> LinesOf(f, x) = {}
           /\ EntriesIn(st, x) # {} /\ Nonneg(f) =>
                st[Min(EntriesIn(st, x))].pos = PlaceOf(f)[Min(LinesOf(f, x)) - 1]

(* The bytes c of a line that means s.                                     *)
ANumber(f, v) == v \in Int32 \/ \E k \in 0 .. Len(f) : v = PlaceOf(f)[k]
ImmAt(s)  == IF need_regids(s.icode) THEN 3 ELSE 2
Encodes(f, s, c) ==
    /\ s.icode \in 0 .. 15 /\ s.ifun \in 0 .. 15 /\ s.rA \in 0 .. 15 /\ s.rB \in 0 .. 15
    /\ c[1] = HPACK(s.icode, s.ifun)
    /\ IF need_regids(s.icode) THEN c[2] = HPACK(s.rA, s.rB) ELSE s.rA = REG_NONE /\ s.rB = REG_NONE
    /\ IF need_imm(s.icode) THEN ANumber(f, s.valC) /\ \A k \in 0 .. 3 : c[ImmAt(s) + k] = ByteOf(s.valC, k)
       ELSE s.valC = 0
ItsSize(s) == (IF need_regids(s.icode) THEN 2 ELSE 1) + (IF need_imm(s.icode) THEN 8 ELSE 0)

(* What find_symbol finds for a name is the place of the line it labels.   *)
LEMMA LabelIs ==
  ASSUME file \in Seq(SourceLines), SymbolsRight(file, symbol_table), Nonneg(file), symbol_table \in Seq(Symbol),
         NEW x, Defined(x)
  PROVE  find_symbol(x) = LabelOf(x) /\ ANumber(file, LabelOf(x))
<1> DEFINE E == EntriesIn(symbol_table, x)
           L == LinesOf(file, x)
<1>1. EntriesOf(x) = E /\ E # {}
  BY DEF Defined, EntriesOf, EntriesIn, ToSet
<1>2. L # {} /\ symbol_table[Min(E)].pos = PlaceOf(file)[Min(L) - 1]
  BY <1>1, Zenon DEF SymbolsRight
<1>3. L \subseteq Nat /\ L \subseteq 1 .. Len(file) /\ Len(file) \in Nat
  BY DEF LinesOf
<1>4. LabelOf(x) = PlaceOf(file)[Min(L) - 1]
  BY PlaceIs, Zenon DEF LabelOf, LinesOf
<1>5. find_symbol(x) = symbol_table[Min(E)].pos
  BY <1>1, Zenon DEF find_symbol
<1> HIDE DEF L, E
<1>6. Min(L) \in L
  BY <1>2, <1>3, MinNat, Zenon
<1>7. Min(L) - 1 \in 0 .. Len(file)
  <2>1. Min(L) \in 1 .. Len(file)
    BY <1>3, <1>6, Zenon
  <2> QED
    BY <1>3, <2>1
<1> QED
  BY <1>2, <1>4, <1>5, <1>7, Zenon DEF ANumber

(* The number of an operand is the one that the source says.               *)
LEMMA NumberRight ==
  ASSUME file \in Seq(SourceLines), SymbolsRight(file, symbol_table), Nonneg(file), symbol_table \in Seq(Symbol),
         NEW line \in SourceLines, NEW k \in Nat \ {0}, IsNumber(line, k), ~ Unresolved(line, k)
  PROVE  NumberAt(line, k) = NumberOf(line, k) /\ ANumber(file, NumberOf(line, k))
<1>1. CASE Is(line, k, "NUM")
  <2>1. line[k][2] \in Int32
    BY <1>1, TokenIs
  <2> QED
    BY <1>1, <2>1, Zenon DEF NumberAt, NumberOf, ANumber
<1>2. CASE ~ Is(line, k, "NUM")
  <2>1. Is(line, k, "IDENT") /\ Defined(line[k][2])
    BY <1>2, Zenon DEF IsNumber, Unresolved
  <2>2. find_symbol(line[k][2]) = LabelOf(line[k][2]) /\ ANumber(file, LabelOf(line[k][2]))
    BY <2>1, LabelIs, Zenon
  <2> QED
    BY <1>2, <2>1, <2>2, Zenon DEF NumberAt, NumberOf
<1> QED
  BY <1>1, <1>2

(* 0 stands for a number that is left out.                                 *)
LEMMA NoNumber == 0 \in Int32
BY SMT DEF Int32

(* The same of a displacement, which may be left out.                      *)
LEMMA DisplacementRight ==
  ASSUME file \in Seq(SourceLines), SymbolsRight(file, symbol_table), Nonneg(file), symbol_table \in Seq(Symbol),
         NEW line \in SourceLines, NEW k \in Nat \ {0}, ~ (IsNumber(line, k) /\ Unresolved(line, k))
  PROVE  /\ (IF IsNumber(line, k) THEN NumberAt(line, k) ELSE 0) = NumberOf(line, k)
         /\ ANumber(file, NumberOf(line, k))
<1>1. CASE IsNumber(line, k)
  BY <1>1, NumberRight, Zenon
<1>2. CASE ~ IsNumber(line, k)
  <2>1. NumberOf(line, k) = 0
    BY <1>2, Zenon DEF IsNumber, NumberOf
  <2> QED
    BY <1>2, <2>1, NoNumber, Zenon DEF ANumber
<1> QED
  BY <1>1, <1>2

(* Code and state before the operands of an instruction are read.          *)
Byte == 0 .. 255
Start(k, op) == [tpos |-> k, failed |-> FALSE,
                 code |-> [code EXCEPT ![1] = op, ![2] = HPACK(REG_NONE, REG_NONE)]]

Started(s, k, op) ==
    /\ IsState(s) /\ s.tpos = k /\ s.code \in Codes
    /\ s.code[1] = op /\ s.code[2] = HPACK(15, 15)

(* The bytes before the operands: the opcode, and no registers.            *)
LEMMA StartIs ==
  ASSUME code \in Codes, NEW k, k \in Nat \ {0}, NEW op, op \in Byte
  PROVE  Started(Start(k, op), k, op)
<1> DEFINE c == [code EXCEPT ![1] = op, ![2] = HPACK(REG_NONE, REG_NONE)]
<1>1. PICK f : f = FALSE
  OBVIOUS
<1>2. HPACK(15, 15) = 255
  BY DEF HPACK
<1>3. c \in Codes /\ c[1] = op /\ c[2] = HPACK(15, 15)
  BY <1>2 DEF Codes, REG_NONE, Byte
<1>4. Start(k, op) = Taken(k, f, c)
  BY <1>1, Zenon DEF Start, Taken
<1> HIDE DEF c
<1>5. IsState(Start(k, op)) /\ Start(k, op).tpos = k /\ Start(k, op).code = c
  BY <1>3, <1>4, TakenIs
<1> QED
  BY <1>3, <1>5 DEF Started

(* What Encoded makes of an instruction with no, one and two operands.     *)
LEMMA NoOperand ==
  ASSUME NEW line, NEW k, NEW instr, instr.args = <<>>
  PROVE  Encoded(line, k, instr).s = Start(k, instr.code) /\ Encoded(line, k, instr).printed
BY DEF Encoded, Start

LEMMA OneOperand ==
  ASSUME NEW line, NEW k, NEW instr, NEW a, instr.args = <<a>>
  PROVE  /\ Encoded(line, k, instr).s = Argument(line, Start(k, instr.code), a)
         /\ Encoded(line, k, instr).printed
<1>1. Len(instr.args) < 2 /\ instr.args # <<>> /\ instr.args[1] = a
  OBVIOUS
<1>2. Encoded(line, k, instr) = [s |-> Argument(line, Start(k, instr.code), a), printed |-> TRUE]
  BY <1>1, Zenon DEF Encoded, Start
<1> DEFINE x == Argument(line, Start(k, instr.code), a)
<1> HIDE DEF x
<1>3. Encoded(line, k, instr) = [s |-> x, printed |-> TRUE]
  BY <1>2, Zenon DEF x
<1>4. Encoded(line, k, instr).s = x /\ Encoded(line, k, instr).printed
  BY <1>3
<1> QED
  BY <1>4 DEF x

LEMMA TwoOperands ==
  ASSUME NEW line, NEW k, NEW instr, NEW a, NEW b, instr.args = <<a, b>>
  PROVE  LET one == Argument(line, Start(k, instr.code), a)
             e   == Encoded(line, k, instr)
         IN  IF Punct(line, one.tpos, ",")
             THEN e.s = Argument(line, Goes(one, one.tpos + 1), b) /\ e.printed
             ELSE e.s = Fails(one)
<1> DEFINE one == Argument(line, Start(k, instr.code), a)
           x   == Argument(line, Goes(one, one.tpos + 1), b)
           y   == Fails(one)
           e   == Encoded(line, k, instr)
<1>1. ~ (Len(instr.args) < 2) /\ instr.args # <<>> /\ instr.args[1] = a /\ instr.args[2] = b
  OBVIOUS
<1>2. e = IF ~ Punct(line, one.tpos, ",") THEN [s |-> y, printed |-> FALSE] ELSE [s |-> x, printed |-> TRUE]
  BY <1>1, Zenon DEF Encoded, Start, Goes, Fails
<1> HIDE DEF one, x, y, e
<1>3. CASE Punct(line, one.tpos, ",")
  <2>1. e = [s |-> x, printed |-> TRUE]
    BY <1>2, <1>3, Zenon
  <2>2. e.s = x /\ e.printed
    BY <2>1
  <2> QED
    BY <1>3, <2>2, Zenon DEF e, one, x
<1>4. CASE ~ Punct(line, one.tpos, ",")
  <2>1. e = [s |-> y, printed |-> FALSE]
    BY <1>2, <1>4, Zenon
  <2>2. e.s = y
    BY <2>1
  <2> QED
    BY <1>4, <2>2, Zenon DEF e, one, y
<1> QED
  BY <1>3, <1>4, Zenon

(* The parts of what a line means.                                         *)
LEMMA MeaningIs ==
  ASSUME NEW line
  PROVE  LET m == Meaning(line)
             name == Name(line)
             k == BodyAt(line) + 1
         IN  /\ m.icode = HI4(instruction_set(name).code) /\ m.ifun = LO4(instruction_set(name).code)
             /\ m.valC = (CASE name \in NumberFirst -> NumberOf(line, k)
                            [] name = "rmmovq" -> NumberOf(line, k + 2)
                            [] OTHER -> 0)
             /\ m.rA = (CASE name \in RegisterFirst -> line[k][2]
                          [] name = "mrmovq" -> line[Behind(line, k) + (IF Based(line, k) THEN 4 ELSE 1)][2]
                          [] OTHER -> REG_NONE)
             /\ m.rB = (CASE name \in RegisterSecond -> line[k + 2][2]
                          [] name = "rmmovq" -> Base(line, k + 2)
                          [] name = "mrmovq" -> Base(line, k)
                          [] OTHER -> REG_NONE)
BY Zenon DEF Meaning

(* Which operands the groups of mnemonics take, and in which order.        *)
LEMMA Kinds ==
  ASSUME NEW name
  PROVE  /\ name \in DOMAIN rrmovq \cup DOMAIN alu =>
              /\ name \notin NumberFirst /\ name \in RegisterFirst /\ name \in RegisterSecond
              /\ name # "rmmovq" /\ name # "mrmovq" /\ name \notin DOMAIN data
         /\ name \in DOMAIN jump \cup {"call"} =>
              /\ name \in NumberFirst /\ name \notin RegisterFirst /\ name \notin RegisterSecond
              /\ name # "rmmovq" /\ name # "mrmovq" /\ name \notin DOMAIN data
         /\ name \in DOMAIN alone =>
              /\ name \notin NumberFirst /\ name \notin RegisterFirst /\ name \notin RegisterSecond
              /\ name # "rmmovq" /\ name # "mrmovq" /\ name \notin DOMAIN data
         /\ name \in DOMAIN pushpop =>
              /\ name \notin NumberFirst /\ name \in RegisterFirst /\ name \notin RegisterSecond
              /\ name # "rmmovq" /\ name # "mrmovq" /\ name \notin DOMAIN data
         /\ name \in DOMAIN immed =>
              /\ name \in NumberFirst /\ name \notin RegisterFirst /\ name \in RegisterSecond
              /\ name # "rmmovq" /\ name # "mrmovq" /\ name \notin DOMAIN data
         /\ name = "rmmovq" =>
              /\ name \notin NumberFirst /\ name \in RegisterFirst /\ name \notin RegisterSecond
              /\ name # "mrmovq" /\ name \notin DOMAIN data
         /\ name = "mrmovq" =>
              /\ name \in NumberFirst /\ name \notin RegisterFirst /\ name \notin RegisterSecond
              /\ name # "rmmovq" /\ name \notin DOMAIN data
BY SMTT(60) DEF NumberFirst, RegisterFirst, RegisterSecond, rrmovq, alu, jump, alone, pushpop, immed, data

(* A number put behind the opcode, or behind the registers, leaves what is *)
(* in front of it.                                                         *)
LEMMA NumberPut ==
  ASSUME NEW c, c \in Codes, NEW v, v \in Int, NEW d
  PROVE  /\ d = PutWord(c, 1, 8, v) => d[1] = c[1] /\ \A n \in 0 .. 3 : d[2 + n] = ByteOf(v, n)
         /\ d = PutWord(c, 2, 8, v) => d[1] = c[1] /\ d[2] = c[2] /\ \A n \in 0 .. 3 : d[3 + n] = ByteOf(v, n)
<1>1. ASSUME d = PutWord(c, 1, 8, v)
      PROVE  d[1] = c[1] /\ \A n \in 0 .. 3 : d[2 + n] = ByteOf(v, n)
  <2>0. 1 \in 0 .. 9 /\ 8 \in Nat
    OBVIOUS
  <2>1. \A n \in 1 .. 10 : n \notin 1 + 1 .. 1 + 8 => d[n] = c[n]
    BY <1>1, <2>0, PutWordIs, Zenon
  <2>2. \A n \in 0 .. 8 - 1 : 1 + 1 + n <= 10 => d[1 + 1 + n] = ByteOf(v, n)
    BY <1>1, <2>0, PutWordIs, Zenon
  <2> QED
    BY <2>1, <2>2
<1>2. ASSUME d = PutWord(c, 2, 8, v)
      PROVE  d[1] = c[1] /\ d[2] = c[2] /\ \A n \in 0 .. 3 : d[3 + n] = ByteOf(v, n)
  <2>0. 2 \in 0 .. 9 /\ 8 \in Nat
    OBVIOUS
  <2>1. \A n \in 1 .. 10 : n \notin 2 + 1 .. 2 + 8 => d[n] = c[n]
    BY <1>2, <2>0, PutWordIs, Zenon
  <2>2. \A n \in 0 .. 8 - 1 : 2 + 1 + n <= 10 => d[2 + 1 + n] = ByteOf(v, n)
    BY <1>2, <2>0, PutWordIs, Zenon
  <2> QED
    BY <2>1, <2>2
<1> QED
  BY <1>1, <1>2

(* The state behind a comma.                                               *)
LEMMA AfterComma ==
  ASSUME NEW one, IsState(one)
  PROVE  LET s == Goes(one, one.tpos + 1)
         IN  IsState(s) /\ s.tpos = one.tpos + 1 /\ s.failed = one.failed /\ s.code = one.code
<1> DEFINE t == one.tpos + 1
<1>1. one.tpos \in Nat \ {0} /\ one.code \in Codes
  BY DEF IsState
<1>2. t \in Nat \ {0}
  BY <1>1
<1> HIDE DEF t
<1>3. Goes(one, t) = Taken(t, one.failed, one.code)
  BY Moved, Zenon
<1>4. /\ IsState(Goes(one, t)) /\ Goes(one, t).tpos = t
      /\ Goes(one, t).failed = one.failed /\ Goes(one, t).code = one.code
  BY <1>1, <1>2, <1>3, TakenIs
<1> QED
  BY <1>4, Zenon DEF t

(* What the bytes of every group of instructions come to.                  *)
Ready ==
    /\ file \in Seq(SourceLines) /\ symbol_table \in Seq(Symbol) /\ SymbolsRight(file, symbol_table)
    /\ code \in Codes
BytesOf(line) == Encoded(line, BodyAt(line) + 1, instruction_set(Name(line)))
GoodBytes(line) ==
    /\ BytesOf(line).s.code \in Codes
    /\ ~ BytesOf(line).s.failed => BytesOf(line).printed
    /\ ~ BytesOf(line).s.failed /\ Nonneg(file) /\ Name(line) \notin DOMAIN data =>
           Encodes(file, Meaning(line), BytesOf(line).s.code) /\ Size(line) = ItsSize(Meaning(line))

(* A body is behind a label or first.                                      *)
LEMMA BodyIs ==
  ASSUME NEW line
  PROVE  BodyAt(line) + 1 \in Nat \ {0} /\ BodyAt(line) \in {1, 3}
BY DEF BodyAt

(* rrmovq, the conditional moves and the arithmetic.                       *)
LEMMA RegistersGood ==
  ASSUME Ready, NEW line \in SourceLines, NEW h \in {2, 6}, NEW f \in 0 .. 6,
         Name(line) \in DOMAIN rrmovq \cup DOMAIN alu, Size(line) = 2,
         instruction_set(Name(line)) = Instruction(HPACK(h, f), 2, RegReg)
  PROVE  GoodBytes(line)
<1> DEFINE k   == BodyAt(line) + 1
           op  == HPACK(h, f)
           r   == line[k][2]
           rr  == line[k + 2][2]
           s   == Start(k, op)
           one == Argument(line, s, <<"R", 1, 1>>)
           t   == Goes(one, one.tpos + 1)
           two == Argument(line, t, <<"R", 1, 0>>)
           e   == BytesOf(line)
           m   == Meaning(line)
<1>1. k \in Nat \ {0} /\ op \in Byte /\ HI4(op) = h /\ LO4(op) = f /\ code \in Codes
  <2>1. op \in Byte /\ HI4(op) = h /\ LO4(op) = f
    BY DEF HPACK, HI4, LO4, Byte
  <2> QED
    BY <2>1, BodyIs, Zenon DEF Ready
<1>2. IF Punct(line, one.tpos, ",") THEN e.s = two /\ e.printed ELSE e.s = Fails(one)
  <2> DEFINE instr == instruction_set(Name(line))
  <2>1. instr.args = << <<"R", 1, 1>>, <<"R", 1, 0>> >> /\ instr.code = op
    BY DEF Instruction, RegReg
  <2> HIDE DEF instr, k, op
  <2>2. LET one1 == Argument(line, Start(k, instr.code), <<"R", 1, 1>>)
            e1   == Encoded(line, k, instr)
        IN  IF Punct(line, one1.tpos, ",")
            THEN e1.s = Argument(line, Goes(one1, one1.tpos + 1), <<"R", 1, 0>>) /\ e1.printed
            ELSE e1.s = Fails(one1)
    BY <2>1, TwoOperands, Zenon
  <2> QED
    BY <2>1, <2>2, Zenon DEF BytesOf, instr, k
<1> HIDE DEF k, op
<1>3. IsState(s) /\ s.tpos = k /\ s.code[1] = op /\ s.code[2] = HPACK(15, 15) /\ s.code \in Codes
  <2>1. code \in Codes /\ k \in Nat \ {0} /\ op \in Byte
    BY <1>1, Zenon
  <2>2. Started(Start(k, op), k, op)
    BY <2>1, StartIs, Zenon
  <2> QED
    BY <2>2, Zenon DEF Started
<1> HIDE DEF s
<1>4. /\ IsState(one)
      /\ ~ one.failed => /\ r \in 0 .. 14 /\ one.tpos = k + 1 /\ one.code = PutReg(s.code, 1, 1, r)
  BY <1>3, RegisterArgument, Zenon
<1> HIDE DEF one
<1>5. IsState(t) /\ t.tpos = one.tpos + 1 /\ t.failed = one.failed /\ t.code = one.code
  BY <1>4, AfterComma, Zenon
<1> HIDE DEF t
<1>6. /\ IsState(two)
      /\ ~ two.failed => /\ ~ t.failed /\ line[t.tpos][2] \in 0 .. 14 /\ two.code = PutReg(t.code, 1, 0, line[t.tpos][2])
  BY <1>5, RegisterArgument, Zenon
<1> HIDE DEF two, e
<1>7. e.s.code \in Codes
  BY <1>2, <1>4, <1>6, FailsIs DEF IsState
<1>8. ASSUME ~ e.s.failed  PROVE Punct(line, one.tpos, ",") /\ e.s = two /\ e.printed
  BY <1>2, <1>4, <1>8, FailsIs
<1>9. ASSUME ~ two.failed  PROVE Encodes(file, m, two.code) /\ ItsSize(m) = 2
  <2>1. /\ r \in 0 .. 14 /\ one.code = PutReg(s.code, 1, 1, r) /\ t.tpos = k + 2 /\ t.code = one.code
        /\ one.tpos = k + 1
    BY <1>1, <1>4, <1>5, <1>6, <1>9
  <2>2. rr \in 0 .. 14 /\ two.code = PutReg(one.code, 1, 0, rr)
    BY <1>6, <1>9, <2>1
  <2> HIDE DEF r, rr
  <2>3. one.code \in Codes /\ one.code[1] = op /\ one.code[2] = HPACK(r, 15)
    <3>1. LO4(HPACK(15, 15)) = 15
      BY DEF HPACK, LO4
    <3> QED
      BY <1>3, <2>1, <3>1, PutRegIs
  <2>4. two.code[1] = op /\ two.code[2] = HPACK(r, rr)
    <3>1. HI4(HPACK(r, 15)) = r
      BY <2>1 DEF HPACK, HI4
    <3> QED
      BY <2>2, <2>3, <3>1, PutRegIs
  <2>5. m.icode = h /\ m.ifun = f /\ m.valC = 0 /\ m.rA = r /\ m.rB = rr
    <3>1. instruction_set(Name(line)).code = op
      BY DEF Instruction, op
    <3> QED
      BY <1>1, <3>1, MeaningIs, Kinds, Zenon DEF k, r, rr
  <2> HIDE DEF m
  <2>6. need_regids(h) /\ ~ need_imm(h)
    BY DEF need_regids, need_imm
  <2>7. Encodes(file, m, two.code)
    BY <2>1, <2>2, <2>4, <2>5, <2>6 DEF Encodes, op
  <2> QED
    BY <2>5, <2>6, <2>7 DEF ItsSize
<1> QED
  BY <1>7, <1>8, <1>9 DEF GoodBytes, e, m

(* halt, nop and ret.                                                      *)
LEMMA AlonesGood ==
  ASSUME Ready, NEW line \in SourceLines, NEW h \in {0, 1, 9},
         Name(line) \in DOMAIN alone, Size(line) = 1,
         instruction_set(Name(line)) = Instruction(HPACK(h, 0), 1, <<>>)
  PROVE  GoodBytes(line)
<1> DEFINE k   == BodyAt(line) + 1
           op  == HPACK(h, 0)
           s   == Start(k, op)
           e   == BytesOf(line)
           m   == Meaning(line)
<1>1. k \in Nat \ {0} /\ op \in Byte /\ code \in Codes
  <2>1. op \in Byte
    BY DEF HPACK, Byte
  <2> QED
    BY <2>1, BodyIs, Zenon DEF Ready
<1>2. e.s = s /\ e.printed
  <2> DEFINE instr == instruction_set(Name(line))
  <2>1. instr.args = <<>> /\ instr.code = op
    BY DEF Instruction
  <2> HIDE DEF instr, k, op
  <2>2. Encoded(line, k, instr).s = Start(k, instr.code) /\ Encoded(line, k, instr).printed
    BY <2>1, NoOperand, Zenon
  <2> QED
    BY <2>1, <2>2, Zenon DEF BytesOf, instr, k
<1> HIDE DEF k, op
<1>3. IsState(s) /\ s.tpos = k /\ s.code[1] = op /\ s.code[2] = HPACK(15, 15) /\ s.code \in Codes
  <2>1. Started(Start(k, op), k, op)
    BY <1>1, StartIs, Zenon
  <2> QED
    BY <2>1, Zenon DEF Started
<1> HIDE DEF s
<1> HIDE DEF e
<1>4. m.icode = h /\ m.ifun = 0 /\ m.valC = 0 /\ m.rA = 15 /\ m.rB = 15
  <2>1. HI4(op) = h /\ LO4(op) = 0
    BY DEF HPACK, HI4, LO4, op
  <2>2. instruction_set(Name(line)).code = op
    BY DEF Instruction, op
  <2>3. m.valC = 0 /\ m.rA = REG_NONE /\ m.rB = REG_NONE /\ m.icode = HI4(op) /\ m.ifun = LO4(op)
    BY <2>2, MeaningIs, Kinds, Zenon
  <2> QED
    BY <2>1, <2>3, Zenon DEF REG_NONE
<1> HIDE DEF m
<1>5. ~ need_regids(h) /\ ~ need_imm(h)
  BY DEF need_regids, need_imm
<1>6. Encodes(file, m, s.code) /\ ItsSize(m) = 1
  BY <1>3, <1>4, <1>5 DEF Encodes, ItsSize, op, REG_NONE
<1> QED
  BY <1>2, <1>3, <1>6, Zenon DEF GoodBytes, e, m

(* pushq and popq.                                                         *)
LEMMA StacksGood ==
  ASSUME Ready, NEW line \in SourceLines, NEW h \in {10, 11},
         Name(line) \in DOMAIN pushpop, Size(line) = 2,
         instruction_set(Name(line)) = Instruction(HPACK(h, 0), 2, << <<"R", 1, 1>> >>)
  PROVE  GoodBytes(line)
<1> DEFINE k   == BodyAt(line) + 1
           op  == HPACK(h, 0)
           s   == Start(k, op)
           e   == BytesOf(line)
           m   == Meaning(line)
<1> DEFINE one == Argument(line, s, <<"R", 1, 1>>)
           r == line[k][2]
<1>1. k \in Nat \ {0} /\ op \in Byte /\ code \in Codes
  <2>1. op \in Byte
    BY DEF HPACK, Byte
  <2> QED
    BY <2>1, BodyIs, Zenon DEF Ready
<1>2. e.s = one /\ e.printed
  <2> DEFINE instr == instruction_set(Name(line))
  <2>1. instr.args = << <<"R", 1, 1>> >> /\ instr.code = op
    BY DEF Instruction
  <2> HIDE DEF instr, k, op
  <2>2. /\ Encoded(line, k, instr).s = Argument(line, Start(k, instr.code), <<"R", 1, 1>>)
        /\ Encoded(line, k, instr).printed
    BY <2>1, OneOperand, Zenon
  <2> QED
    BY <2>1, <2>2, Zenon DEF BytesOf, instr, k
<1> HIDE DEF k, op
<1>3. IsState(s) /\ s.tpos = k /\ s.code[1] = op /\ s.code[2] = HPACK(15, 15) /\ s.code \in Codes
  <2>1. Started(Start(k, op), k, op)
    BY <1>1, StartIs, Zenon
  <2> QED
    BY <2>1, Zenon DEF Started
<1> HIDE DEF s
<1>4. /\ IsState(one)
      /\ ~ one.failed => r \in 0 .. 14 /\ one.code = PutReg(s.code, 1, 1, r)
  BY <1>3, RegisterArgument, Zenon
<1> HIDE DEF one, e
<1>5. ASSUME ~ one.failed  PROVE Encodes(file, m, one.code) /\ ItsSize(m) = 2
  <2>1. m.icode = h /\ m.ifun = 0 /\ m.valC = 0 /\ m.rA = r /\ m.rB = 15
    <3>1. HI4(op) = h /\ LO4(op) = 0
      BY DEF HPACK, HI4, LO4, op
    <3>2. instruction_set(Name(line)).code = op
      BY DEF Instruction, op
    <3>3. m.valC = 0 /\ m.rA = r /\ m.rB = REG_NONE /\ m.icode = HI4(op) /\ m.ifun = LO4(op)
      BY <3>2, MeaningIs, Kinds, Zenon DEF k
    <3> QED
      BY <3>1, <3>3, Zenon DEF REG_NONE
  <2> HIDE DEF m, r
  <2>2. r \in 0 .. 14 /\ one.code = PutReg(s.code, 1, 1, r)
    BY <1>4, <1>5
  <2>3. one.code[1] = op /\ one.code[2] = HPACK(r, 15)
    <3>1. LO4(HPACK(15, 15)) = 15
      BY DEF HPACK, LO4
    <3> QED
      BY <1>3, <2>2, <3>1, PutRegIs
  <2>4. need_regids(h) /\ ~ need_imm(h)
    BY DEF need_regids, need_imm
  <2> QED
    BY <2>1, <2>2, <2>3, <2>4 DEF Encodes, ItsSize, op, REG_NONE
<1>6. one.code \in Codes
  BY <1>4 DEF IsState
<1> QED
  BY <1>2, <1>5, <1>6, Zenon DEF GoodBytes, e, m

(* The jumps and call.                                                     *)
LEMMA JumpsGood ==
  ASSUME Ready, NEW line \in SourceLines, NEW h \in {7, 8}, NEW f \in 0 .. 6,
         Name(line) \in DOMAIN jump \cup {"call"}, Size(line) = 9,
         instruction_set(Name(line)) = Instruction(HPACK(h, f), 9, << <<"I", 1, 8>> >>)
  PROVE  GoodBytes(line)
<1> DEFINE k   == BodyAt(line) + 1
           op  == HPACK(h, f)
           s   == Start(k, op)
           e   == BytesOf(line)
           m   == Meaning(line)
<1> DEFINE one == Argument(line, s, <<"I", 1, 8>>)
           v == NumberAt(line, k)
<1>1. k \in Nat \ {0} /\ op \in Byte /\ code \in Codes
  <2>1. op \in Byte
    BY DEF HPACK, Byte
  <2> QED
    BY <2>1, BodyIs, Zenon DEF Ready
<1>2. e.s = one /\ e.printed
  <2> DEFINE instr == instruction_set(Name(line))
  <2>1. instr.args = << <<"I", 1, 8>> >> /\ instr.code = op
    BY DEF Instruction
  <2> HIDE DEF instr, k, op
  <2>2. /\ Encoded(line, k, instr).s = Argument(line, Start(k, instr.code), <<"I", 1, 8>>)
        /\ Encoded(line, k, instr).printed
    BY <2>1, OneOperand, Zenon
  <2> QED
    BY <2>1, <2>2, Zenon DEF BytesOf, instr, k
<1> HIDE DEF k, op
<1>3. IsState(s) /\ s.tpos = k /\ s.code[1] = op /\ s.code[2] = HPACK(15, 15) /\ s.code \in Codes
  <2>1. Started(Start(k, op), k, op)
    BY <1>1, StartIs, Zenon
  <2> QED
    BY <2>1, Zenon DEF Started
<1> HIDE DEF s
<1>4. /\ IsState(one)
      /\ ~ one.failed => IsNumber(line, k) /\ ~ Unresolved(line, k) /\ one.code = PutWord(s.code, 1, 8, v)
  <2>1. 1 \in 0 .. 9 /\ 8 \in Nat /\ symbol_table \in Seq(Symbol)
    BY DEF Ready
  <2> QED
    BY <1>3, <2>1, NumberArgument, Zenon
<1> HIDE DEF one, e
<1>5. ASSUME ~ one.failed, Nonneg(file)  PROVE Encodes(file, m, one.code) /\ ItsSize(m) = 9
  <2>1. m.icode = h /\ m.ifun = f /\ m.valC = NumberOf(line, k) /\ m.rA = 15 /\ m.rB = 15
    <3>1. HI4(op) = h /\ LO4(op) = f
      BY DEF HPACK, HI4, LO4, op
    <3>2. instruction_set(Name(line)).code = op
      BY DEF Instruction, op
    <3>3. m.valC = NumberOf(line, k) /\ m.rA = REG_NONE /\ m.rB = REG_NONE /\ m.icode = HI4(op) /\ m.ifun = LO4(op)
      BY <3>2, MeaningIs, Kinds, Zenon DEF k
    <3> QED
      BY <3>1, <3>3, Zenon DEF REG_NONE
  <2>2. v = NumberOf(line, k) /\ ANumber(file, NumberOf(line, k)) /\ v \in Int
    BY <1>1, <1>4, <1>5, NumberRight, NumberIsInt, Zenon DEF Ready
  <2> HIDE DEF m, v
  <2>3. one.code = PutWord(s.code, 1, 8, v)
    BY <1>4, <1>5
  <2>4. one.code[1] = op /\ \A n \in 0 .. 3 : one.code[2 + n] = ByteOf(v, n)
    BY <1>3, <2>2, <2>3, NumberPut
  <2>5. ~ need_regids(h) /\ need_imm(h)
    BY DEF need_regids, need_imm
  <2>6. ANumber(file, m.valC) /\ m.valC = v
    BY <2>1, <2>2, Zenon
  <2> QED
    BY <2>1, <2>4, <2>5, <2>6 DEF Encodes, ItsSize, ImmAt, op, REG_NONE
<1>6. one.code \in Codes
  BY <1>4 DEF IsState
<1> QED
  BY <1>2, <1>5, <1>6, Zenon DEF GoodBytes, e, m

(* irmovq and iaddq.                                                       *)
LEMMA ImmedsGood ==
  ASSUME Ready, NEW line \in SourceLines, NEW h \in {3, 12},
         Name(line) \in DOMAIN immed, Size(line) = 10,
         instruction_set(Name(line)) = Instruction(HPACK(h, 0), 10, << <<"I", 2, 8>>, <<"R", 1, 0>> >>)
  PROVE  GoodBytes(line)
<1> DEFINE k   == BodyAt(line) + 1
           op  == HPACK(h, 0)
           s   == Start(k, op)
           e   == BytesOf(line)
           m   == Meaning(line)
           one == Argument(line, s, <<"I", 2, 8>>)
           t   == Goes(one, one.tpos + 1)
           two == Argument(line, t, <<"R", 1, 0>>)
           v   == NumberAt(line, k)
           r   == line[k + 2][2]
<1>1. k \in Nat \ {0} /\ op \in Byte /\ code \in Codes
  <2>1. op \in Byte
    BY DEF HPACK, Byte
  <2> QED
    BY <2>1, BodyIs, Zenon DEF Ready
<1>2. IF Punct(line, one.tpos, ",") THEN e.s = two /\ e.printed ELSE e.s = Fails(one)
  <2> DEFINE instr == instruction_set(Name(line))
  <2>1. instr.args = << <<"I", 2, 8>>, <<"R", 1, 0>> >> /\ instr.code = op
    BY DEF Instruction
  <2> HIDE DEF instr, k, op
  <2>2. LET one1 == Argument(line, Start(k, instr.code), <<"I", 2, 8>>)
            e1   == Encoded(line, k, instr)
        IN  IF Punct(line, one1.tpos, ",")
            THEN e1.s = Argument(line, Goes(one1, one1.tpos + 1), <<"R", 1, 0>>) /\ e1.printed
            ELSE e1.s = Fails(one1)
    BY <2>1, TwoOperands, Zenon
  <2> QED
    BY <2>1, <2>2, Zenon DEF BytesOf, instr, k
<1> HIDE DEF k, op
<1>3. IsState(s) /\ s.tpos = k /\ s.code[1] = op /\ s.code[2] = HPACK(15, 15) /\ s.code \in Codes
  <2>1. Started(Start(k, op), k, op)
    BY <1>1, StartIs, Zenon
  <2> QED
    BY <2>1, Zenon DEF Started
<1> HIDE DEF s
<1>4. /\ IsState(one)
      /\ ~ one.failed => /\ one.tpos = k + 1 /\ IsNumber(line, k) /\ ~ Unresolved(line, k)
                         /\ one.code = PutWord(s.code, 2, 8, v)
  <2>1. 2 \in 0 .. 9 /\ 8 \in Nat /\ symbol_table \in Seq(Symbol)
    BY DEF Ready
  <2> QED
    BY <1>3, <2>1, NumberArgument, Zenon
<1> HIDE DEF one
<1>5. IsState(t) /\ t.tpos = one.tpos + 1 /\ t.failed = one.failed /\ t.code = one.code
  BY <1>4, AfterComma, Zenon
<1> HIDE DEF t
<1>6. /\ IsState(two)
      /\ ~ two.failed => /\ ~ t.failed /\ line[t.tpos][2] \in 0 .. 14 /\ two.code = PutReg(t.code, 1, 0, line[t.tpos][2])
  BY <1>5, RegisterArgument, Zenon
<1> HIDE DEF two, e
<1>7. e.s.code \in Codes
  BY <1>2, <1>4, <1>6, FailsIs DEF IsState
<1>8. ASSUME ~ e.s.failed  PROVE Punct(line, one.tpos, ",") /\ e.s = two /\ e.printed
  BY <1>2, <1>4, <1>8, FailsIs
<1>9. ASSUME ~ two.failed, Nonneg(file)  PROVE Encodes(file, m, two.code) /\ ItsSize(m) = 10
  <2>1. /\ IsNumber(line, k) /\ ~ Unresolved(line, k) /\ one.code = PutWord(s.code, 2, 8, v)
        /\ t.tpos = k + 2 /\ t.code = one.code /\ one.code \in Codes
    BY <1>1, <1>4, <1>5, <1>6, <1>9 DEF IsState
  <2>2. r \in 0 .. 14 /\ two.code = PutReg(one.code, 1, 0, r)
    BY <1>6, <1>9, <2>1
  <2>3. v = NumberOf(line, k) /\ ANumber(file, NumberOf(line, k)) /\ v \in Int
    BY <1>1, <1>9, <2>1, NumberRight, NumberIsInt, Zenon DEF Ready
  <2>4. m.icode = h /\ m.ifun = 0 /\ m.valC = NumberOf(line, k) /\ m.rA = 15 /\ m.rB = r
    <3>1. HI4(op) = h /\ LO4(op) = 0
      BY DEF HPACK, HI4, LO4, op
    <3>2. instruction_set(Name(line)).code = op
      BY DEF Instruction, op
    <3>3. m.valC = NumberOf(line, k) /\ m.rA = REG_NONE /\ m.rB = r /\ m.icode = HI4(op) /\ m.ifun = LO4(op)
      BY <3>2, MeaningIs, Kinds, Zenon DEF k
    <3> QED
      BY <3>1, <3>3, Zenon DEF REG_NONE
  <2> HIDE DEF m, r, v
  <2>5. /\ one.code[1] = op /\ one.code[2] = HPACK(15, 15)
        /\ \A n \in 0 .. 3 : one.code[3 + n] = ByteOf(v, n)
    BY <1>3, <2>1, <2>3, NumberPut
  <2>6. /\ two.code[1] = op /\ two.code[2] = HPACK(15, r)
        /\ \A n \in 0 .. 3 : two.code[3 + n] = ByteOf(v, n)
    <3>1. HI4(HPACK(15, 15)) = 15
      BY DEF HPACK, HI4
    <3>2. \A n \in 1 .. 10 : n # 2 => two.code[n] = one.code[n]
      BY <2>1, <2>2, PutRegIs
    <3>3. two.code[2] = HPACK(15, r)
      BY <2>1, <2>2, <2>5, <3>1, PutRegIs
    <3> QED
      BY <2>5, <3>2, <3>3
  <2>7. need_regids(h) /\ need_imm(h)
    BY DEF need_regids, need_imm
  <2>8. ANumber(file, m.valC) /\ m.valC = v
    BY <2>3, <2>4, Zenon
  <2> QED
    BY <2>2, <2>4, <2>6, <2>7, <2>8 DEF Encodes, ItsSize, ImmAt, op, REG_NONE
<1> QED
  BY <1>7, <1>8, <1>9 DEF GoodBytes, e, m

(* rmmovq.                                                                 *)
LEMMA StoreGood ==
  ASSUME Ready, NEW line \in SourceLines,
         Name(line) = "rmmovq", Size(line) = 10,
         instruction_set(Name(line)) = Instruction(HPACK(4, 0), 10, << <<"R", 1, 1>>, <<"M", 1, 0>> >>)
  PROVE  GoodBytes(line)
<1> DEFINE k   == BodyAt(line) + 1
           op  == HPACK(4, 0)
           s   == Start(k, op)
           e   == BytesOf(line)
           m   == Meaning(line)
           one == Argument(line, s, <<"R", 1, 1>>)
           t   == Goes(one, one.tpos + 1)
           two == Argument(line, t, <<"M", 1, 0>>)
           n   == k + 2
           v   == IF IsNumber(line, n) THEN NumberAt(line, n) ELSE 0
           r   == line[k][2]
           b   == Base(line, n)
<1>1. k \in Nat \ {0} /\ op \in Byte /\ code \in Codes
  <2>1. op \in Byte
    BY DEF HPACK, Byte
  <2> QED
    BY <2>1, BodyIs, Zenon DEF Ready
<1>2. IF Punct(line, one.tpos, ",") THEN e.s = two /\ e.printed ELSE e.s = Fails(one)
  <2> DEFINE instr == instruction_set(Name(line))
  <2>1. instr.args = << <<"R", 1, 1>>, <<"M", 1, 0>> >> /\ instr.code = op
    BY DEF Instruction
  <2> HIDE DEF instr, k, op
  <2>2. LET one1 == Argument(line, Start(k, instr.code), <<"R", 1, 1>>)
            e1   == Encoded(line, k, instr)
        IN  IF Punct(line, one1.tpos, ",")
            THEN e1.s = Argument(line, Goes(one1, one1.tpos + 1), <<"M", 1, 0>>) /\ e1.printed
            ELSE e1.s = Fails(one1)
    BY <2>1, TwoOperands, Zenon
  <2> QED
    BY <2>1, <2>2, Zenon DEF BytesOf, instr, k
<1> HIDE DEF k, op
<1>3. IsState(s) /\ s.tpos = k /\ s.code[1] = op /\ s.code[2] = HPACK(15, 15) /\ s.code \in Codes
  <2>1. Started(Start(k, op), k, op)
    BY <1>1, StartIs, Zenon
  <2> QED
    BY <2>1, Zenon DEF Started
<1> HIDE DEF s
<1>4. /\ IsState(one)
      /\ ~ one.failed => r \in 0 .. 14 /\ one.tpos = k + 1 /\ one.code = PutReg(s.code, 1, 1, r)
  BY <1>3, RegisterArgument, Zenon
<1> HIDE DEF one
<1>5. IsState(t) /\ t.tpos = one.tpos + 1 /\ t.failed = one.failed /\ t.code = one.code
  BY <1>4, AfterComma, Zenon
<1> HIDE DEF t
<1>6. /\ IsState(two)
      /\ ~ two.failed =>
            LET j == t.tpos
                w == IF IsNumber(line, j) THEN NumberAt(line, j) ELSE 0
            IN  /\ ~ t.failed /\ ~ (IsNumber(line, j) /\ Unresolved(line, j)) /\ Base(line, j) \in 0 .. 15
                /\ two.code = PutWord(PutReg(t.code, 1, 0, Base(line, j)), 2, 8, w)
  BY <1>5, MemoryArgument, Zenon DEF Ready
<1> HIDE DEF two, e
<1>7. e.s.code \in Codes
  BY <1>2, <1>4, <1>6, FailsIs DEF IsState
<1>8. ASSUME ~ e.s.failed  PROVE Punct(line, one.tpos, ",") /\ e.s = two /\ e.printed
  BY <1>2, <1>4, <1>8, FailsIs
<1>9. ASSUME ~ two.failed, Nonneg(file)  PROVE Encodes(file, m, two.code) /\ ItsSize(m) = 10
  <2>1. /\ r \in 0 .. 14 /\ one.code = PutReg(s.code, 1, 1, r) /\ n \in Nat \ {0}
        /\ t.tpos = n /\ t.code = one.code
    BY <1>1, <1>4, <1>5, <1>6, <1>9
  <2>2. /\ ~ (IsNumber(line, n) /\ Unresolved(line, n)) /\ b \in 0 .. 15
        /\ two.code = PutWord(PutReg(one.code, 1, 0, b), 2, 8, v)
    BY <1>6, <1>9, <2>1, Zenon
  <2>3. v = NumberOf(line, n) /\ ANumber(file, NumberOf(line, n)) /\ v \in Int
    BY <1>9, <2>1, <2>2, DisplacementRight, NumberIsInt DEF Ready
  <2>4. m.icode = 4 /\ m.ifun = 0 /\ m.valC = NumberOf(line, n) /\ m.rA = r /\ m.rB = b
    <3>1. HI4(op) = 4 /\ LO4(op) = 0
      BY DEF HPACK, HI4, LO4, op
    <3>2. instruction_set(Name(line)).code = op
      BY DEF Instruction, op
    <3> DEFINE name == Name(line)
    <3>4. /\ name \notin NumberFirst /\ name \in RegisterFirst /\ name \notin RegisterSecond
          /\ name # "mrmovq"
      BY Kinds, Zenon
    <3>5. name = "rmmovq"
      OBVIOUS
    <3> HIDE DEF name
    <3>3. m.valC = NumberOf(line, n) /\ m.rA = r /\ m.rB = b /\ m.icode = HI4(op) /\ m.ifun = LO4(op)
      <4>1. m.valC = (CASE name \in NumberFirst -> NumberOf(line, k)
                            [] name = "rmmovq" -> NumberOf(line, k + 2)
                            [] OTHER -> 0)
        BY MeaningIs, Zenon DEF k, name
      <4>2. m.rA = (CASE name \in RegisterFirst -> line[k][2]
                      [] name = "mrmovq" -> line[Behind(line, k) + (IF Based(line, k) THEN 4 ELSE 1)][2]
                      [] OTHER -> REG_NONE)
        BY MeaningIs, Zenon DEF k, name
      <4>3. m.rB = (CASE name \in RegisterSecond -> line[k + 2][2]
                      [] name = "rmmovq" -> Base(line, k + 2)
                      [] name = "mrmovq" -> Base(line, k)
                      [] OTHER -> REG_NONE)
        BY MeaningIs, Zenon DEF k, name
      <4>4. m.icode = HI4(op) /\ m.ifun = LO4(op)
        BY <3>2, MeaningIs, Zenon
      <4> HIDE DEF m, k
      <4> QED
        BY <3>4, <3>5, <4>1, <4>2, <4>3, <4>4, Zenon
    <3> QED
      BY <3>1, <3>3, Zenon
  <2> DEFINE c == PutReg(one.code, 1, 0, b)
  <2> HIDE DEF m, r, v, b, n
  <2>5. one.code \in Codes /\ one.code[1] = op /\ one.code[2] = HPACK(r, 15)
    <3>1. LO4(HPACK(15, 15)) = 15
      BY DEF HPACK, LO4
    <3> QED
      BY <1>3, <2>1, <3>1, PutRegIs
  <2>6. c \in Codes /\ c[1] = op /\ c[2] = HPACK(r, b)
    <3>1. HI4(HPACK(r, 15)) = r
      BY <2>1 DEF HPACK, HI4
    <3> QED
      BY <2>2, <2>5, <3>1, PutRegIs
  <2> HIDE DEF c
  <2>7. /\ two.code[1] = op /\ two.code[2] = HPACK(r, b)
        /\ \A j \in 0 .. 3 : two.code[3 + j] = ByteOf(v, j)
    <3>1. two.code = PutWord(c, 2, 8, v)
      BY <2>2 DEF c
    <3> QED
      BY <2>3, <2>6, <3>1, NumberPut
  <2>8. need_regids(4) /\ need_imm(4)
    BY DEF need_regids, need_imm
  <2>9. ANumber(file, m.valC) /\ m.valC = v
    BY <2>3, <2>4, Zenon
  <2> QED
    BY <2>1, <2>2, <2>4, <2>7, <2>8, <2>9 DEF Encodes, ItsSize, ImmAt, op, REG_NONE
<1> QED
  BY <1>7, <1>8, <1>9 DEF GoodBytes, e, m

(* mrmovq, whose memory operand comes first.                               *)
LEMMA LoadGood ==
  ASSUME Ready, NEW line \in SourceLines,
         Name(line) = "mrmovq", Size(line) = 10,
         instruction_set(Name(line)) = Instruction(HPACK(5, 0), 10, << <<"M", 1, 0>>, <<"R", 1, 1>> >>)
  PROVE  GoodBytes(line)
<1> DEFINE k   == BodyAt(line) + 1
           op  == HPACK(5, 0)
           s   == Start(k, op)
           e   == BytesOf(line)
           m   == Meaning(line)
           one == Argument(line, s, <<"M", 1, 0>>)
           t   == Goes(one, one.tpos + 1)
           two == Argument(line, t, <<"R", 1, 1>>)
           v   == IF IsNumber(line, k) THEN NumberAt(line, k) ELSE 0
           b   == Base(line, k)
           n   == Behind(line, k) + (IF Based(line, k) THEN 4 ELSE 1)
           r   == line[n][2]
<1>1. k \in Nat \ {0} /\ op \in Byte /\ code \in Codes
  <2>1. op \in Byte
    BY DEF HPACK, Byte
  <2> QED
    BY <2>1, BodyIs, Zenon DEF Ready
<1>2. IF Punct(line, one.tpos, ",") THEN e.s = two /\ e.printed ELSE e.s = Fails(one)
  <2> DEFINE instr == instruction_set(Name(line))
  <2>1. instr.args = << <<"M", 1, 0>>, <<"R", 1, 1>> >> /\ instr.code = op
    BY DEF Instruction
  <2> HIDE DEF instr, k, op
  <2>2. LET one1 == Argument(line, Start(k, instr.code), <<"M", 1, 0>>)
            e1   == Encoded(line, k, instr)
        IN  IF Punct(line, one1.tpos, ",")
            THEN e1.s = Argument(line, Goes(one1, one1.tpos + 1), <<"R", 1, 1>>) /\ e1.printed
            ELSE e1.s = Fails(one1)
    BY <2>1, TwoOperands, Zenon
  <2> QED
    BY <2>1, <2>2, Zenon DEF BytesOf, instr, k
<1> HIDE DEF k, op
<1>3. IsState(s) /\ s.tpos = k /\ s.code[1] = op /\ s.code[2] = HPACK(15, 15) /\ s.code \in Codes
  <2>1. Started(Start(k, op), k, op)
    BY <1>1, StartIs, Zenon
  <2> QED
    BY <2>1, Zenon DEF Started
<1> HIDE DEF s
<1>4. /\ IsState(one)
      /\ ~ one.failed => /\ ~ (IsNumber(line, k) /\ Unresolved(line, k)) /\ b \in 0 .. 15
                         /\ one.tpos = Behind(line, k) + (IF Based(line, k) THEN 3 ELSE 0)
                         /\ one.code = PutWord(PutReg(s.code, 1, 0, b), 2, 8, v)
  BY <1>3, MemoryArgument, Zenon DEF Ready
<1> HIDE DEF one
<1>5. IsState(t) /\ t.tpos = one.tpos + 1 /\ t.failed = one.failed /\ t.code = one.code
  BY <1>4, AfterComma, Zenon
<1> HIDE DEF t
<1>6. /\ IsState(two)
      /\ ~ two.failed => /\ ~ t.failed /\ line[t.tpos][2] \in 0 .. 14 /\ two.code = PutReg(t.code, 1, 1, line[t.tpos][2])
  BY <1>5, RegisterArgument, Zenon
<1> HIDE DEF two, e
<1>7. e.s.code \in Codes
  BY <1>2, <1>4, <1>6, FailsIs DEF IsState
<1>8. ASSUME ~ e.s.failed  PROVE Punct(line, one.tpos, ",") /\ e.s = two /\ e.printed
  BY <1>2, <1>4, <1>8, FailsIs
<1>9. ASSUME ~ two.failed, Nonneg(file)  PROVE Encodes(file, m, two.code) /\ ItsSize(m) = 10
  <2>1. /\ ~ (IsNumber(line, k) /\ Unresolved(line, k)) /\ b \in 0 .. 15
        /\ one.code = PutWord(PutReg(s.code, 1, 0, b), 2, 8, v) /\ one.code \in Codes
        /\ one.tpos = Behind(line, k) + (IF Based(line, k) THEN 3 ELSE 0)
    BY <1>4, <1>5, <1>6, <1>9, Zenon DEF IsState
  <2>2. t.tpos = n /\ t.code = one.code
    <3>1. Behind(line, k) \in Nat
      BY <1>1 DEF Behind
    <3> QED
      BY <1>5, <2>1, <3>1
  <2>3. r \in 0 .. 14 /\ two.code = PutReg(one.code, 1, 1, r)
    BY <1>6, <1>9, <2>2, Zenon
  <2>4. v = NumberOf(line, k) /\ ANumber(file, NumberOf(line, k)) /\ v \in Int
    BY <1>1, <1>9, <2>1, DisplacementRight, NumberIsInt DEF Ready
  <2>5. m.icode = 5 /\ m.ifun = 0 /\ m.valC = NumberOf(line, k) /\ m.rA = r /\ m.rB = b
    <3>1. HI4(op) = 5 /\ LO4(op) = 0
      BY DEF HPACK, HI4, LO4, op
    <3>2. instruction_set(Name(line)).code = op
      BY DEF Instruction, op
    <3> DEFINE name == Name(line)
    <3>4. /\ name \in NumberFirst /\ name \notin RegisterFirst /\ name \notin RegisterSecond
          /\ name # "rmmovq"
      BY Kinds, Zenon
    <3>5. name = "mrmovq"
      OBVIOUS
    <3> HIDE DEF name
    <3>3. m.valC = NumberOf(line, k) /\ m.rA = r /\ m.rB = b /\ m.icode = HI4(op) /\ m.ifun = LO4(op)
      <4>1. m.valC = (CASE name \in NumberFirst -> NumberOf(line, k)
                            [] name = "rmmovq" -> NumberOf(line, k + 2)
                            [] OTHER -> 0)
        BY MeaningIs, Zenon DEF k, name
      <4>2. m.rA = (CASE name \in RegisterFirst -> line[k][2]
                      [] name = "mrmovq" -> line[Behind(line, k) + (IF Based(line, k) THEN 4 ELSE 1)][2]
                      [] OTHER -> REG_NONE)
        BY MeaningIs, Zenon DEF k, name
      <4>3. m.rB = (CASE name \in RegisterSecond -> line[k + 2][2]
                      [] name = "rmmovq" -> Base(line, k + 2)
                      [] name = "mrmovq" -> Base(line, k)
                      [] OTHER -> REG_NONE)
        BY MeaningIs, Zenon DEF k, name
      <4>4. m.icode = HI4(op) /\ m.ifun = LO4(op)
        BY <3>2, MeaningIs, Zenon
      <4> HIDE DEF m, k
      <4> QED
        BY <3>4, <3>5, <4>1, <4>2, <4>3, <4>4, Zenon
    <3> QED
      BY <3>1, <3>3, Zenon
  <2> DEFINE c == PutReg(s.code, 1, 0, b)
  <2> HIDE DEF m, r, v, b, n
  <2>6. c \in Codes /\ c[1] = op /\ c[2] = HPACK(15, b)
    <3>1. HI4(HPACK(15, 15)) = 15
      BY DEF HPACK, HI4
    <3> QED
      BY <1>3, <2>1, <3>1, PutRegIs
  <2> HIDE DEF c
  <2>7. /\ one.code[1] = op /\ one.code[2] = HPACK(15, b)
        /\ \A j \in 0 .. 3 : one.code[3 + j] = ByteOf(v, j)
    <3>1. one.code = PutWord(c, 2, 8, v)
      BY <2>1 DEF c
    <3> QED
      BY <2>4, <2>6, <3>1, NumberPut
  <2>8. /\ two.code[1] = op /\ two.code[2] = HPACK(r, b)
        /\ \A j \in 0 .. 3 : two.code[3 + j] = ByteOf(v, j)
    <3>1. LO4(HPACK(15, b)) = b
      BY <2>1 DEF HPACK, LO4
    <3>2. \A j \in 1 .. 10 : j # 2 => two.code[j] = one.code[j]
      BY <2>1, <2>3, PutRegIs
    <3>3. two.code[2] = HPACK(r, b)
      BY <2>1, <2>3, <2>7, <3>1, PutRegIs
    <3> QED
      BY <2>7, <3>2, <3>3
  <2>9. need_regids(5) /\ need_imm(5)
    BY DEF need_regids, need_imm
  <2>10. ANumber(file, m.valC) /\ m.valC = v
    BY <2>4, <2>5, Zenon
  <2> QED
    BY <2>1, <2>3, <2>5, <2>8, <2>9, <2>10 DEF Encodes, ItsSize, ImmAt, op, REG_NONE
<1> QED
  BY <1>7, <1>8, <1>9 DEF GoodBytes, e, m

(* .byte to .quad mean no instruction.                                     *)
LEMMA DataGood ==
  ASSUME Ready, NEW line \in SourceLines, NEW width \in Nat, Name(line) \in DOMAIN data,
         instruction_set(Name(line)) = Instruction(0, width, << <<"I", 0, width>> >>)
  PROVE  GoodBytes(line)
<1> DEFINE k   == BodyAt(line) + 1
           s   == Start(k, 0)
           e   == BytesOf(line)
           one == Argument(line, s, <<"I", 0, width>>)
<1>1. k \in Nat \ {0} /\ 0 \in Byte /\ code \in Codes
  <2>1. 0 \in Byte
    BY DEF Byte
  <2> QED
    BY <2>1, BodyIs, Zenon DEF Ready
<1>2. e.s = one /\ e.printed
  <2> DEFINE instr == instruction_set(Name(line))
  <2>1. instr.args = << <<"I", 0, width>> >> /\ instr.code = 0
    BY DEF Instruction
  <2> HIDE DEF instr, k
  <2>2. /\ Encoded(line, k, instr).s = Argument(line, Start(k, instr.code), <<"I", 0, width>>)
        /\ Encoded(line, k, instr).printed
    BY <2>1, OneOperand, Zenon
  <2> QED
    BY <2>1, <2>2, Zenon DEF BytesOf, instr, k
<1> HIDE DEF k
<1>3. IsState(s)
  <2>1. Started(Start(k, 0), k, 0)
    BY <1>1, StartIs, Zenon
  <2> QED
    BY <2>1, Zenon DEF Started
<1> HIDE DEF s
<1>4. IsState(one)
  <2>1. 0 \in 0 .. 9 /\ symbol_table \in Seq(Symbol)
    BY DEF Ready
  <2> QED
    BY <1>3, <2>1, NumberArgument, Zenon
<1> HIDE DEF one, e
<1>5. one.code \in Codes
  BY <1>4 DEF IsState
<1> QED
  BY <1>2, <1>5, Zenon DEF GoodBytes, e

(* Whatever code held before: the bytes of a line that does not fail are   *)
(* those of the instruction that it means, and as many as its size says.   *)
LEMMA InstructionGood ==
  ASSUME Ready, NEW line \in SourceLines, Name(line) \in Mnemonics \ {"pos", "align"}
  PROVE  /\ GoodBytes(line)
         /\ Size(line) = instruction_set(Name(line)).bytes /\ Size(line) \in {1, 2, 4, 8, 9, 10}
<1> DEFINE name == Name(line)
<1>0. Size(line) = instruction_set(name).bytes
  <2>1. name \notin {"none", "pos", "align"}
    BY SMT DEF Mnemonics
  <2> QED
    BY <2>1 DEF Size
<1>1. CASE name \in DOMAIN rrmovq
  <2>1. instruction_set(name) = Instruction(HPACK(2, rrmovq[name]), 2, RegReg) /\ rrmovq[name] \in 0 .. 6
    BY <1>1, MovesAre
  <2>2. Size(line) = 2
    BY <1>0, <2>1 DEF Instruction
  <2> QED
    BY <1>0, <1>1, <2>1, <2>2, RegistersGood
<1>2. CASE name \in DOMAIN alu
  <2>1. instruction_set(name) = Instruction(HPACK(6, alu[name]), 2, RegReg) /\ alu[name] \in 0 .. 6
    BY <1>2, AlusAre
  <2>2. Size(line) = 2
    BY <1>0, <2>1 DEF Instruction
  <2> QED
    BY <1>0, <1>2, <2>1, <2>2, RegistersGood
<1>3. CASE name \in DOMAIN jump
  <2>1. instruction_set(name) = Instruction(HPACK(7, jump[name]), 9, << <<"I", 1, 8>> >>) /\ jump[name] \in 0 .. 6
    BY <1>3, JumpsAre
  <2>2. Size(line) = 9
    BY <1>0, <2>1 DEF Instruction
  <2> QED
    BY <1>0, <1>3, <2>1, <2>2, JumpsGood
<1>4. CASE name = "call"
  <2>1. instruction_set(name) = Instruction(HPACK(8, 0), 9, << <<"I", 1, 8>> >>)
    BY <1>4, CallIs
  <2>2. Size(line) = 9
    BY <1>0, <2>1 DEF Instruction
  <2> QED
    BY <1>0, <1>4, <2>1, <2>2, JumpsGood
<1>5. CASE name \in DOMAIN alone
  <2>1. instruction_set(name) = Instruction(HPACK(alone[name], 0), 1, <<>>) /\ alone[name] \in {0, 1, 9}
    BY <1>5, AlonesAre
  <2>2. Size(line) = 1
    BY <1>0, <2>1 DEF Instruction
  <2> QED
    BY <1>0, <1>5, <2>1, <2>2, AlonesGood
<1>6. CASE name \in DOMAIN pushpop
  <2>1. instruction_set(name) = Instruction(HPACK(pushpop[name], 0), 2, << <<"R", 1, 1>> >>) /\ pushpop[name] \in {10, 11}
    BY <1>6, StacksAre
  <2>2. Size(line) = 2
    BY <1>0, <2>1 DEF Instruction
  <2> QED
    BY <1>0, <1>6, <2>1, <2>2, StacksGood
<1>7. CASE name \in DOMAIN immed
  <2>1. /\ instruction_set(name) = Instruction(HPACK(immed[name], 0), 10, << <<"I", 2, 8>>, <<"R", 1, 0>> >>)
        /\ immed[name] \in {3, 12}
    BY <1>7, ImmedsAre
  <2>2. Size(line) = 10
    BY <1>0, <2>1 DEF Instruction
  <2> QED
    BY <1>0, <1>7, <2>1, <2>2, ImmedsGood
<1>8. CASE name = "rmmovq"
  <2>1. instruction_set(name) = Instruction(HPACK(4, 0), 10, << <<"R", 1, 1>>, <<"M", 1, 0>> >>)
    BY <1>8, StoreIs
  <2>2. Size(line) = 10
    BY <1>0, <2>1 DEF Instruction
  <2> QED
    BY <1>0, <1>8, <2>1, <2>2, StoreGood
<1>9. CASE name = "mrmovq"
  <2>1. instruction_set(name) = Instruction(HPACK(5, 0), 10, << <<"M", 1, 0>>, <<"R", 1, 1>> >>)
    BY <1>9, LoadIs
  <2>2. Size(line) = 10
    BY <1>0, <2>1 DEF Instruction
  <2> QED
    BY <1>0, <1>9, <2>1, <2>2, LoadGood
<1>10. CASE name \in DOMAIN data
  <2>1. /\ instruction_set(name) = Instruction(0, data[name], << <<"I", 0, data[name]>> >>)
        /\ data[name] \in {1, 2, 4, 8}
    BY <1>10, DatasAre
  <2>2. Size(line) = data[name]
    BY <1>0, <2>1 DEF Instruction
  <2> QED
    BY <1>0, <1>10, <2>1, <2>2, DataGood
<1> QED
  BY <1>1, <1>2, <1>3, <1>4, <1>5, <1>6, <1>7, <1>8, <1>9, <1>10, Groups

-----------------------------------------------------------------------------
(* Where lines lie.                                                        *)

(* Rounding up finds the one multiple of a in reach.                       *)
LEMMA AlignedIs ==
  ASSUME NEW b, b \in Int, NEW a, a \in Int, a > 0
  PROVE  LET n == ((b + a - 1) \div a) * a
         IN  n \in b .. b + a - 1 /\ n % a = 0
             /\ \A j \in b .. b + a - 1 : j % a = 0 => j = n
<1> DEFINE x == b + a - 1
           q == x \div a
           r == x % a
           n == q * a
<1>1. q \in Int /\ r \in Int /\ x = a * q + r /\ 0 <= r /\ r < a
  OBVIOUS
<1>2. n % a = 0 /\ n \in Int
  BY <1>1
<1> HIDE DEF q, r
<1>3. n \in b .. b + a - 1
  BY <1>1
<1>4. ASSUME NEW j \in b .. b + a - 1, j % a = 0
      PROVE  j = n
  <2>1. j = a * (j \div a) /\ (j \div a) \in Int
    BY <1>4
  <2> DEFINE h == j \div a
  <2> HIDE DEF h
  <2>2. h \in Int /\ j = a * h
    BY <2>1 DEF h
  <2>3. CASE h > q
    <3>1. a * h >= a * q + a
      BY <1>1, <2>2, <2>3
    <3> QED
      BY <1>1, <1>3, <2>2, <3>1
  <2>4. CASE h < q
    <3>1. a * h <= a * q - a
      BY <1>1, <2>2, <2>4
    <3> QED
      BY <1>1, <1>3, <2>2, <3>1
  <2> QED
    BY <1>1, <2>2, <2>3, <2>4
<1> QED
  BY <1>2, <1>3, <1>4 DEF q

(* Name is the mnemonic of a line, if it has one.                          *)
LEMMA NameIs ==
  ASSUME NEW line, line \in SourceLines
  PROVE  /\ Is(line, BodyAt(line), "INSTR") => Name(line) = line[BodyAt(line)][2] /\ Name(line) \in Mnemonics
         /\ ~ Is(line, BodyAt(line), "INSTR") => Name(line) = "none"
         /\ Directive(line, "pos") <=> Name(line) = "pos"
         /\ Directive(line, "align") <=> Name(line) = "align"
<1> DEFINE k == BodyAt(line)
<1>1. k \in Nat \ {0}
  BY DEF BodyAt
<1>2. CASE Is(line, k, "INSTR")
  <2>1. k \in 1 .. Len(line) /\ line[k][2] \in Mnemonics
    BY <1>1, <1>2, TokenIs
  <2>2. k <= Len(line) /\ Len(line) \in Nat /\ Scanned(line[k]) /\ Token(line, k) = line[k]
    BY <2>1, LineFacts DEF Token
  <2>3. Name(line) = line[k][2]
    BY <1>2, <2>2, Zenon DEF Name
  <2>4. Token(line, k) = <<"INSTR", line[k][2]>>
    BY <1>2, <2>2, Zenon DEF Is, Scanned
  <2> HIDE DEF k
  <2>5. \A x : Token(line, k) = <<"INSTR", x>> <=> line[k][2] = x
    BY <2>4
  <2> QED
    BY <1>2, <2>1, <2>3, <2>5, Zenon DEF Directive, k
<1>3. CASE ~ Is(line, k, "INSTR")
  <2>1. Name(line) = "none"
    BY <1>3, Zenon DEF Name
  <2>2. \A x : Token(line, k) # <<"INSTR", x>>
    <3> SUFFICES ASSUME NEW x, Token(line, k) = <<"INSTR", x>>  PROVE FALSE
      OBVIOUS
    <3>1. Token(line, k)[1] = "INSTR"
      OBVIOUS
    <3> QED
      BY <1>3, <3>1, Zenon DEF Is
  <2>3. "none" # "pos" /\ "none" # "align"
    OBVIOUS
  <2> QED
    BY <1>3, <2>1, <2>2, <2>3, Zenon DEF Directive
<1> QED
  BY <1>2, <1>3, Zenon

(* A line that the first pass accepts.                                     *)
Accepted(line) ==
    /\ Is(line, 1, "IDENT") => Labelled(line)
    /\ HasBody(line) => Is(line, BodyAt(line), "INSTR") /\ (IsDirective(line) => Numeric(line))

(* An accepted directive has a number.                                     *)
LEMMA DirectiveIs ==
  ASSUME NEW line, line \in SourceLines, Accepted(line), Name(line) \in {"pos", "align"}
  PROVE  Numeric(line)
<1>1. Is(line, BodyAt(line), "INSTR")
  <2>1. Name(line) # "none"
    OBVIOUS
  <2> QED
    BY <2>1, NameIs, Zenon
<1>2. Len(line) >= BodyAt(line)
  <2>1. BodyAt(line) \in Nat \ {0}
    BY DEF BodyAt
  <2> QED
    BY <1>1, <2>1, TokenIs, LineFacts
<1>3. HasBody(line) /\ IsDirective(line)
  BY <1>2, NameIs, Zenon DEF HasBody, Accepted, IsDirective
<1> QED
  BY <1>3, Zenon DEF Accepted

(* The number of a directive.                                              *)
LEMMA OperandIs ==
  ASSUME NEW line, line \in SourceLines, Numeric(line)
  PROVE  Operand(line)[2] \in Int /\ (Name(line) = "align" => Operand(line)[2] > 0)
<1> DEFINE k == BodyAt(line) + 1
<1>1. k \in Nat \ {0}
  BY DEF BodyAt
<1>2. Is(line, k, "NUM") /\ Operand(line) = Token(line, k)
  BY Zenon DEF Numeric, Operand, Is
<1>3. k \in 1 .. Len(line) /\ line[k][2] \in Int32
  BY <1>1, <1>2, TokenIs
<1>4. Token(line, k) = line[k]
  BY <1>3, LineFacts DEF Token
<1>5. Operand(line)[2] \in Int
  BY <1>2, <1>3, <1>4, WordIsInt, Zenon
<1>6. Name(line) = "align" => Directive(line, "align")
  BY NameIs, Zenon
<1>7. Name(line) = "align" => Operand(line)[2] > 0
  BY <1>6, Zenon DEF Numeric
<1> QED
  BY <1>5, <1>7

(* Where an accepted line ends, by its directive or its size.              *)
LEMMA AfterIs ==
  ASSUME Ready, NEW line, line \in SourceLines, Accepted(line), NEW b, b \in Int
  PROVE  /\ After(b, line) \in Int
         /\ Name(line) = "pos"   => After(b, line) = Operand(line)[2]
         /\ Name(line) = "align" => After(b, line) = ((b + Operand(line)[2] - 1) \div Operand(line)[2]) * Operand(line)[2]
         /\ Name(line) \notin {"pos", "align"} => After(b, line) = b + Size(line)
<1>1. CASE Name(line) = "pos"
  <2>1. After(b, line) = Operand(line)[2]
    BY <1>1, Zenon DEF After
  <2>2. Operand(line)[2] \in Int
    BY <1>1, DirectiveIs, OperandIs
  <2> QED
    BY <1>1, <2>1, <2>2
<1>2. CASE Name(line) = "align"
  <2> DEFINE a == Operand(line)[2]
             P == b .. b + a - 1
             n == ((b + a - 1) \div a) * a
  <2>1. a \in Int /\ a > 0
    BY <1>2, DirectiveIs, OperandIs
  <2>2. After(b, line) = CHOOSE k \in P : k % a = 0
    BY <1>2 DEF After
  <2> HIDE DEF a
  <2>3. n \in P /\ n % a = 0 /\ \A j \in P : j % a = 0 => j = n
    BY <2>1, AlignedIs
  <2>4. P \subseteq Int
    BY <2>1
  <2> HIDE DEF P, n
  <2>5. After(b, line) = n
    BY <2>2, <2>3, Zenon
  <2> QED
    BY <1>2, <2>3, <2>4, <2>5 DEF a, n
<1>3. CASE Name(line) \notin {"pos", "align"}
  <2>1. After(b, line) = b + Size(line)
    BY <1>3 DEF After
  <2>2. Size(line) \in Int
    <3>1. CASE Name(line) = "none"
      BY <3>1 DEF Size
    <3>2. CASE Name(line) # "none"
      BY <1>3, <3>2, NameIs, InstructionGood
    <3> QED
      BY <3>1, <3>2
  <2> QED
    BY <1>3, <2>1, <2>2
<1> QED
  BY <1>1, <1>2, <1>3

(* A line more in the file leaves the places and adds one.                 *)
LEMMA NextPlace ==
  ASSUME Ready, Integral(file), NEW line, line \in SourceLines, Accepted(line)
  PROVE  /\ Append(file, line) \in Seq(SourceLines)
         /\ \A k \in 0 .. Len(file) : PlaceOf(Append(file, line))[k] = PlaceOf(file)[k]
         /\ PlaceOf(Append(file, line))[Len(file) + 1] = After(PlaceOf(file)[Len(file)], line)
         /\ Integral(Append(file, line))
         /\ Nonneg(Append(file, line)) => Nonneg(file)
<1> DEFINE g == Append(file, line)
           n == Len(file)
<1>1. file \in Seq(SourceLines)
  BY DEF Ready
<1>2. /\ g \in Seq(SourceLines) /\ n \in Nat /\ Len(g) = n + 1 /\ g[n + 1] = line
      /\ \A k \in 1 .. n : file[k] = g[k]
  BY <1>1
<1> HIDE DEF g, n
<1>3. \A k \in 0 .. n : PlaceOf(g)[k] = PlaceOf(file)[k]
  <2>1. Len(file) \in Nat /\ Len(g) \in Nat /\ Len(file) <= Len(g) /\ \A k \in 1 .. Len(file) : file[k] = g[k]
    BY <1>2 DEF n
  <2> QED
    BY <2>1, PlacePrefix, Zenon DEF n
<1>4. PlaceOf(g)[n + 1] = After(PlaceOf(file)[n], line)
  <2>1. Len(g) \in Nat /\ n + 1 \in 1 .. Len(g) /\ (n + 1) - 1 = n /\ n \in 0 .. n
    BY <1>2
  <2>2. PlaceOf(g)[n + 1] = After(PlaceOf(g)[(n + 1) - 1], g[n + 1])
    BY <2>1, PlaceOfIs, Zenon
  <2> QED
    BY <1>2, <1>3, <2>1, <2>2, Zenon
<1>5. PlaceOf(file)[n] \in Int
  <2>1. n \in 0 .. n
    BY <1>2
  <2> QED
    BY <2>1, Zenon DEF Integral, n
<1>6. PlaceOf(g)[n + 1] \in Int
  BY <1>4, <1>5, AfterIs, Zenon
<1>7. \A k \in 0 .. n + 1 : k \in 0 .. n \/ k = n + 1
  BY <1>2
<1>8. Integral(g)
  <2>1. \A k \in 0 .. n : PlaceOf(g)[k] \in Int
    BY <1>3, Zenon DEF Integral, n
  <2> QED
    BY <1>2, <1>6, <1>7, <2>1, Zenon DEF Integral
<1>9. Nonneg(g) => Nonneg(file)
  <2>1. \A k \in 0 .. n : k \in 0 .. Len(g)
    BY <1>2
  <2> QED
    BY <1>3, <2>1, Zenon DEF Nonneg, n
<1> QED
  BY <1>2, <1>3, <1>4, <1>8, <1>9, Zenon DEF g, n

(* A greater number does not change what is least.                         *)
LEMMA MinAdded ==
  ASSUME NEW S, S \subseteq Nat, NEW m, m \in Nat, \A y \in S : y < m
  PROVE  /\ S = {} => Min(S \cup {m}) = m
         /\ S # {} => Min(S \cup {m}) = Min(S)
<1> DEFINE T == S \cup {m}
<1>1. T \subseteq Nat /\ T # {}
  OBVIOUS
<1>2. Min(T) \in T /\ \A y \in T : Min(T) <= y
  BY <1>1, MinNat, Zenon
<1>3. S = {} => Min(T) = m
  BY <1>2
<1>4. ASSUME S # {}  PROVE Min(T) = Min(S)
  <2>1. Min(S) \in S /\ \A y \in S : Min(S) <= y
    BY <1>4, MinNat, Zenon
  <2> DEFINE a == Min(T)
             b == Min(S)
  <2>2. a \in T /\ b \in S /\ a <= b /\ (a \in S => b <= a)
    BY <1>2, <2>1
  <2> HIDE DEF a, b
  <2>3. a = b
    BY <2>2
  <2> QED
    BY <2>3 DEF a, b
<1> QED
  BY <1>3, <1>4

(* What a label adds to the table.                                         *)
Entered(st, line, b) == IF Labelled(line) THEN Append(st, [name |-> line[1][2], pos |-> b]) ELSE st

(* The lines of a name are those that it labels.                           *)
LEMMA FirstTokenIs ==
  ASSUME NEW line, line \in SourceLines, Accepted(line), NEW x
  PROVE  Token(line, 1) = <<"IDENT", x>> <=> Labelled(line) /\ line[1][2] = x
<1>1. 1 \in Nat \ {0}
  OBVIOUS
<1>2. ASSUME Is(line, 1, "IDENT")
      PROVE  Token(line, 1) = <<"IDENT", line[1][2]>>
  <2>1. 1 \in 1 .. Len(line)
    BY <1>1, <1>2, TokenIs, Zenon
  <2>2. 1 <= Len(line) /\ Scanned(line[1])
    BY <2>1, LineFacts
  <2>3. Token(line, 1) = line[1]
    BY <2>2, Zenon DEF Token
  <2> QED
    BY <1>2, <2>2, <2>3, Zenon DEF Is, Scanned
<1>3. ASSUME Token(line, 1) = <<"IDENT", x>>
      PROVE  Labelled(line) /\ line[1][2] = x
  <2>1. Token(line, 1)[1] = "IDENT" /\ Token(line, 1)[2] = x
    BY <1>3
  <2>2. Is(line, 1, "IDENT")
    BY <2>1, Zenon DEF Is
  <2>3. <<"IDENT", line[1][2]>>[2] = line[1][2]
    OBVIOUS
  <2>4. line[1][2] = x
    BY <1>2, <2>1, <2>2, <2>3, Zenon
  <2> QED
    BY <2>2, <2>4, Zenon DEF Accepted
<1> QED
  BY <1>2, <1>3, Zenon DEF Labelled

(* add_symbol keeps the table right: the first entry of a name is for the  *)
(* first line it labels, also when it labels several.                      *)
LEMMA AddedSymbol ==
  ASSUME Ready, Integral(file), NEW line, line \in SourceLines, Accepted(line),
         NEW b, b \in Int, Nonneg(file) => b = PlaceOf(file)[Len(file)]
  PROVE  /\ Entered(symbol_table, line, b) \in Seq(Symbol)
         /\ SymbolsRight(Append(file, line), Entered(symbol_table, line, b))
<1> DEFINE f == file
           g == Append(file, line)
           s == symbol_table
           t == Entered(symbol_table, line, b)
           n == Len(file)
           m == Len(symbol_table)
           e == [name |-> line[1][2], pos |-> b]
<1>1. f \in Seq(SourceLines) /\ s \in Seq(Symbol) /\ SymbolsRight(f, s)
  BY DEF Ready
<1>2. /\ n \in Nat /\ m \in Nat /\ DOMAIN f = 1 .. n /\ DOMAIN s = 1 .. m
      /\ DOMAIN g = 1 .. n + 1 /\ g[n + 1] = line /\ \A k \in 1 .. n : g[k] = f[k]
  BY <1>1
<1>3. /\ \A k \in 0 .. n : PlaceOf(g)[k] = PlaceOf(f)[k]
      /\ Nonneg(g) => Nonneg(f)
  BY NextPlace, Zenon
<1>4. Labelled(line) => e \in Symbol
  <2> SUFFICES ASSUME Labelled(line)  PROVE e \in Symbol
    OBVIOUS
  <2>0. 1 \in Nat \ {0}
    OBVIOUS
  <2>1. 1 \in DOMAIN line
    BY <2>0, TokenIs, LineFacts, Zenon DEF Labelled
  <2>2. line[1][2] \in {line[k][2] : k \in DOMAIN line}
    BY <2>1
  <2>3. line[1][2] \in Names
    BY <2>2 DEF Names
  <2> QED
    BY <2>3 DEF Symbol
<1>5. t \in Seq(Symbol)
  <2>1. CASE Labelled(line)
    <3>1. t = Append(s, e)
      BY <2>1, Zenon DEF Entered
    <3> QED
      BY <1>1, <1>4, <2>1, <3>1
  <2>2. CASE ~ Labelled(line)
    BY <1>1, <2>2 DEF Entered
  <2> QED
    BY <2>1, <2>2
<1>6. \A x : LinesOf(g, x) = IF Labelled(line) /\ line[1][2] = x THEN LinesOf(f, x) \cup {n + 1} ELSE LinesOf(f, x)
  <2> TAKE x
  <2>1. Token(line, 1) = <<"IDENT", x>> <=> Labelled(line) /\ line[1][2] = x
    BY FirstTokenIs, Zenon
  <2>2. \A k \in 1 .. n : Token(g[k], 1) = Token(f[k], 1)
    BY <1>2, Zenon
  <2>3. Token(g[n + 1], 1) = Token(line, 1)
    BY <1>2, Zenon
  <2>4. \A k : k \in 1 .. n + 1 <=> k \in 1 .. n \/ k = n + 1
    BY <1>2
  <2> HIDE DEF f, g, n
  <2>5. \A k : k \in LinesOf(f, x) <=> k \in 1 .. n /\ Token(f[k], 1) = <<"IDENT", x>>
    BY <1>2, Zenon DEF LinesOf
  <2>6. \A k : k \in LinesOf(g, x) <=> k \in 1 .. n + 1 /\ Token(g[k], 1) = <<"IDENT", x>>
    BY <1>2, Zenon DEF LinesOf
  <2>7. n + 1 \notin 1 .. n
    BY <1>2
  <2>8. \A k : k \in LinesOf(g, x) <=> k \in LinesOf(f, x) \/ (k = n + 1 /\ Labelled(line) /\ line[1][2] = x)
    BY <2>1, <2>2, <2>3, <2>4, <2>5, <2>6, <2>7, Zenon
  <2> QED
    BY <2>8, Zenon
<1>7. /\ \A k \in 1 .. m : k \in DOMAIN t /\ t[k] = s[k]
      /\ Labelled(line) => DOMAIN t = 1 .. m + 1 /\ t[m + 1].name = line[1][2] /\ t[m + 1].pos = b
      /\ ~ Labelled(line) => t = s
  <2>1. CASE Labelled(line)
    <3>1. t = Append(s, e)
      BY <2>1, Zenon DEF Entered
    <3>2. DOMAIN t = 1 .. m + 1 /\ t[m + 1] = e /\ \A k \in 1 .. m : t[k] = s[k]
      BY <1>1, <1>2, <1>4, <2>1, <3>1
    <3> QED
      BY <1>2, <2>1, <3>2
  <2>2. CASE ~ Labelled(line)
    BY <1>2, <2>2 DEF Entered
  <2> QED
    BY <2>1, <2>2
<1>8. \A x : EntriesIn(t, x) = IF Labelled(line) /\ line[1][2] = x THEN EntriesIn(s, x) \cup {m + 1} ELSE EntriesIn(s, x)
  <2> TAKE x
  <2>1. CASE ~ Labelled(line)
    BY <1>7, <2>1, Zenon
  <2>2. CASE Labelled(line)
    <3>1. \A k : k \in 1 .. m + 1 <=> k \in 1 .. m \/ k = m + 1
      BY <1>2
    <3> HIDE DEF s, t, m
    <3>2. \A k : k \in EntriesIn(s, x) <=> k \in 1 .. m /\ s[k].name = x
      BY <1>2, Zenon DEF EntriesIn
    <3>3. \A k : k \in EntriesIn(t, x) <=> k \in 1 .. m + 1 /\ t[k].name = x
      BY <1>7, <2>2, Zenon DEF EntriesIn
    <3>4. \A k : k \in EntriesIn(t, x) <=> k \in EntriesIn(s, x) \/ (k = m + 1 /\ line[1][2] = x)
      BY <1>2, <1>7, <2>2, <3>1, <3>2, <3>3
    <3> QED
      BY <2>2, <3>4, Zenon
  <2> QED
    BY <2>1, <2>2
<1>9. \A x : /\ EntriesIn(s, x) \subseteq 1 .. m /\ LinesOf(f, x) \subseteq 1 .. n
             /\ EntriesIn(s, x) \subseteq Nat /\ LinesOf(f, x) \subseteq Nat
             /\ \A k \in EntriesIn(s, x) : k < m + 1
             /\ \A k \in LinesOf(f, x) : k < n + 1
  <2> TAKE x
  <2>1. EntriesIn(s, x) \subseteq 1 .. m /\ LinesOf(f, x) \subseteq 1 .. n
    BY <1>2, Zenon DEF EntriesIn, LinesOf
  <2> QED
    BY <1>2, <2>1
<1> HIDE DEF f, g, s, t, n, m, e
<1>10. ASSUME NEW x
       PROVE  /\ EntriesIn(t, x) = {} <=> LinesOf(g, x) = {}
              /\ EntriesIn(t, x) # {} /\ Nonneg(g) =>
                   t[Min(EntriesIn(t, x))].pos = PlaceOf(g)[Min(LinesOf(g, x)) - 1]
  <2> DEFINE E == EntriesIn(s, x)
             L == LinesOf(f, x)
  <2>1. E = {} <=> L = {}
    BY <1>1, Zenon DEF SymbolsRight
  <2>2. E # {} /\ Nonneg(g) => t[Min(E)].pos = PlaceOf(g)[Min(L) - 1]
    <3> SUFFICES ASSUME E # {}, Nonneg(g)  PROVE t[Min(E)].pos = PlaceOf(g)[Min(L) - 1]
      OBVIOUS
    <3>1. s[Min(E)].pos = PlaceOf(f)[Min(L) - 1]
      BY <1>1, <1>3, Zenon DEF SymbolsRight
    <3>2. Min(E) \in E /\ Min(L) \in L
      BY <1>9, <2>1, MinNat, Zenon
    <3>3. Min(E) \in 1 .. m /\ Min(L) \in 1 .. n
      BY <1>9, <3>2, Zenon
    <3> DEFINE a == Min(L)
    <3> HIDE DEF a, E, L
    <3>4. a - 1 \in 0 .. n
      BY <1>2, <3>3 DEF a
    <3> QED
      BY <1>3, <1>7, <3>1, <3>3, <3>4, Zenon DEF a
  <2>3. CASE ~ (Labelled(line) /\ line[1][2] = x)
    <3>1. EntriesIn(t, x) = E /\ LinesOf(g, x) = L
      BY <1>6, <1>8, <2>3, Zenon
    <3> QED
      BY <2>1, <2>2, <3>1, Zenon
  <2>4. CASE Labelled(line) /\ line[1][2] = x
    <3>1. EntriesIn(t, x) = E \cup {m + 1} /\ LinesOf(g, x) = L \cup {n + 1}
      BY <1>6, <1>8, <2>4, Zenon
    <3>2. m + 1 \in Nat /\ n + 1 \in Nat /\ (n + 1) - 1 = n /\ n \in 0 .. n
      BY <1>2
    <3> HIDE DEF E, L
    <3>3. /\ E = {} => Min(E \cup {m + 1}) = m + 1
          /\ E # {} => Min(E \cup {m + 1}) = Min(E)
      BY <1>9, <3>2, MinAdded, Zenon DEF E
    <3>4. /\ L = {} => Min(L \cup {n + 1}) = n + 1
          /\ L # {} => Min(L \cup {n + 1}) = Min(L)
      BY <1>9, <3>2, MinAdded, Zenon DEF L
    <3>5. CASE E = {}
      <4>1. Nonneg(g) => t[m + 1].pos = PlaceOf(g)[(n + 1) - 1]
        <5> SUFFICES ASSUME Nonneg(g)  PROVE t[m + 1].pos = PlaceOf(g)[(n + 1) - 1]
          OBVIOUS
        <5>1. b = PlaceOf(f)[n]
          BY <1>3, Zenon DEF f, n
        <5> QED
          BY <1>3, <1>7, <2>4, <3>2, <5>1, Zenon
      <4>2. EntriesIn(t, x) # {} /\ LinesOf(g, x) # {}
        BY <3>1
      <4>3. Min(EntriesIn(t, x)) = m + 1 /\ Min(LinesOf(g, x)) = n + 1
        <5>1. L = {}
          BY <2>1, <3>5
        <5>2. Min(E \cup {m + 1}) = m + 1 /\ Min(L \cup {n + 1}) = n + 1
          BY <3>3, <3>4, <3>5, <5>1
        <5> QED
          BY <3>1, <5>2
      <4>4. Nonneg(g) => t[Min(EntriesIn(t, x))].pos = PlaceOf(g)[Min(LinesOf(g, x)) - 1]
        BY <4>1, <4>3
      <4> QED
        BY <4>2, <4>4
    <3>6. CASE E # {}
      BY <2>1, <2>2, <3>1, <3>3, <3>4, <3>6, Zenon
    <3> QED
      BY <3>5, <3>6
  <2> QED
    BY <2>3, <2>4
<1>11. SymbolsRight(g, t)
  BY <1>10, Zenon DEF SymbolsRight
<1> QED
  BY <1>5, <1>11 DEF g, t

(* What the lines mean.                                                    *)
Meant == [k \in DOMAIN file |-> Meaning(file[k])]

(* Nothing that the lines mean is moved while the file stays.              *)
LEMMA Unmoved ==
  ASSUME file' = file
  PROVE  Meant' = Meant
<1>1. Place' = Place
  <2>1. (Place = PlaceOf(file))'
    BY PlaceIs, PTL
  <2>2. Place' = PlaceOf(file')
    BY <2>1
  <2> QED
    BY <2>2, PlaceIs
<1>2. \A x : LabelOf(x)' = LabelOf(x)
  BY <1>1 DEF LabelOf
<1>3. \A line, k : NumberOf(line, k)' = NumberOf(line, k)
  BY <1>2 DEF NumberOf
<1>4. \A line : Meaning(line)' = Meaning(line)
  BY <1>3 DEF Meaning
<1> QED
  BY <1>4 DEF Meant

-----------------------------------------------------------------------------
(* What a line does that leaves no error.                                  *)

Follows(b, line, c) == c \in Int /\ (b >= 0 => c = After(b, line))
Output == [pos : Int, code : Seq(Byte)]
Reach  == 65535
Entry(p, c) == [pos |-> p, code |-> c]
CodeOf(line) == SubSeq(BytesOf(line).s.code, 1, Size(line))
PrintsNothing(line) == phase' = phase /\ yo' = yo /\ Size(line) = 0 /\ bytepos' = bytepos
PrintsPlace(line) ==
    /\ phase' = phase /\ Size(line) = 0 /\ bytepos' <= Reach
    /\ yo' = Append(yo, Entry(Digits(bytepos'), <<>>))
PrintsCode(line) ==
    /\ phase' = phase /\ Size(line) > 0 /\ bytepos <= Reach /\ bytepos' = bytepos + Size(line)
    /\ ~ BytesOf(line).s.failed
    /\ yo' = Append(yo, Entry(Digits(bytepos), CodeOf(line)))
Prints(line) == phase' = "rejected" \/ PrintsNothing(line) \/ PrintsPlace(line) \/ PrintsCode(line)
Effect(line) ==
    /\ Accepted(line) /\ tokens' = <<>> /\ Follows(bytepos, line, bytepos') /\ code' \in Codes
    /\ symbol_table' = IF phase = "pass1" THEN Entered(symbol_table, line, bytepos) ELSE symbol_table
    /\ IF phase = "pass1" THEN phase' = phase /\ yo' = yo ELSE Prints(line)

(* print_code in the second pass: an entry, or the end for an address that *)
(* is too great.                                                           *)
LEMMA PrintCodeIs ==
  ASSUME NEW p, p \in Int, NEW c, print_code(p, c), phase # "pass1"
  PROVE  \/ phase' = "rejected"
         \/ /\ phase' = phase /\ yo' = Append(yo, Entry(Digits(p), c))
            /\ p <= Reach
<1>1. CASE p > 65535
  BY <1>1, SMT DEF print_code
<1>2. CASE ~ (p > 65535)
  <2>1. p <= Reach
    BY <1>2, SMT DEF Reach
  <2>2. phase' = phase /\ yo' = Append(yo, [pos |-> Digits(p), code |-> c])
    BY <1>2, SMT DEF print_code
  <2> QED
    BY <2>1, <2>2, Zenon DEF Entry
<1> QED
  BY <1>1, <1>2, SMT

(* A line without a body does nothing but label.                           *)
LEMMA NoBody ==
  ASSUME Ready, NEW line, line \in SourceLines, Is(line, 1, "IDENT") => Labelled(line), ~ HasBody(line),
         NEW b, b \in Int
  PROVE  Accepted(line) /\ Name(line) = "none" /\ Size(line) = 0 /\ After(b, line) = b
<1>1. Accepted(line)
  BY Zenon DEF Accepted
<1>2. ~ (BodyAt(line) <= Len(line))
  <2>1. Len(line) \in Nat /\ BodyAt(line) \in Nat
    BY LineFacts DEF BodyAt
  <2>2. ~ (Len(line) >= BodyAt(line))
    BY Zenon DEF HasBody
  <2> QED
    BY <2>1, <2>2
<1>3. Name(line) = "none"
  BY <1>2, Zenon DEF Name
<1>4. Size(line) = 0
  BY <1>3 DEF Size
<1>5. After(b, line) = b + Size(line)
  <2>1. Name(line) \notin {"pos", "align"}
    BY <1>3
  <2> QED
    BY <1>1, <2>1, AfterIs, Zenon
<1> QED
  BY <1>1, <1>3, <1>4, <1>5

(* An empty line.                                                          *)
LEMMA AnEmptyLine ==
  ASSUME Ready, bytepos \in Int, NEW line, line \in SourceLines, EmptyLine(line)
  PROVE  Effect(line)
<1>1. line = <<>> /\ Len(line) = 0
  BY DEF EmptyLine
<1>2. ~ Is(line, 1, "IDENT")
  BY <1>1 DEF Is, Token, NoToken
<1>3. ~ HasBody(line)
  <2>1. BodyAt(line) \in {1, 3}
    BY DEF BodyAt
  <2>2. ~ (Len(line) >= BodyAt(line))
    BY <1>1, <2>1
  <2> QED
    BY <2>2, Zenon DEF HasBody
<1>4. Accepted(line) /\ Size(line) = 0 /\ After(bytepos, line) = bytepos
  BY <1>2, <1>3, NoBody, Zenon
<1>5. ~ Labelled(line)
  BY <1>2, Zenon DEF Labelled
<1>6. /\ tokens' = <<>> /\ phase' = phase /\ bytepos' = bytepos /\ symbol_table' = symbol_table
      /\ code' = code /\ yo' = yo
  BY DEF EmptyLine, start_line
<1>7. Follows(bytepos, line, bytepos')
  BY <1>4, <1>6 DEF Follows
<1>8. Entered(symbol_table, line, bytepos) = symbol_table
  BY <1>5, Zenon DEF Entered
<1>9. code' \in Codes
  BY <1>6 DEF Ready
<1>10. PrintsNothing(line)
  BY <1>4, <1>6, Zenon DEF PrintsNothing
<1> QED
  BY <1>4, <1>6, <1>7, <1>8, <1>9, <1>10, Zenon DEF Effect, Prints

(* A line with a label alone.                                              *)
LEMMA ALabelLine ==
  ASSUME Ready, bytepos \in Int, NEW line, line \in SourceLines, LabelLine(line)
  PROVE  Effect(line)
<1>1. Labelled(line) /\ Len(line) = 2 /\ BodyAt(line) = 3
  BY DEF LabelLine, BodyAt
<1>2. ~ HasBody(line)
  <2>1. ~ (Len(line) >= BodyAt(line))
    BY <1>1
  <2> QED
    BY <2>1, Zenon DEF HasBody
<1>4. Accepted(line) /\ Size(line) = 0 /\ After(bytepos, line) = bytepos
  BY <1>1, <1>2, NoBody, Zenon
<1>6. /\ tokens' = <<>> /\ bytepos' = bytepos /\ code' = code /\ add_symbol(line) /\ print_code(bytepos, <<>>)
  BY DEF LabelLine, start_line
<1>7. Follows(bytepos, line, bytepos')
  BY <1>4, <1>6 DEF Follows
<1>8. symbol_table' = IF phase = "pass1" THEN Entered(symbol_table, line, bytepos) ELSE symbol_table
  BY <1>1, <1>6, Zenon DEF Entered, add_symbol
<1>9. code' \in Codes
  BY <1>6 DEF Ready
<1>10. IF phase = "pass1" THEN phase' = phase /\ yo' = yo ELSE Prints(line)
  <2>1. CASE phase = "pass1"
    BY <1>6, <2>1 DEF print_code
  <2>2. CASE phase # "pass1"
    <3>1. \/ phase' = "rejected"
          \/ /\ phase' = phase /\ yo' = Append(yo, Entry(Digits(bytepos), <<>>))
             /\ bytepos <= Reach
      BY <1>6, <2>2, PrintCodeIs, Zenon
    <3> QED
      BY <1>4, <1>6, <2>2, <3>1, Zenon DEF Prints, PrintsPlace
  <2> QED
    BY <2>1, <2>2, Zenon
<1> QED
  BY <1>4, <1>6, <1>7, <1>8, <1>9, <1>10, Zenon DEF Effect

(* .align rounds up, as long as bytepos is not negative.                   *)
LEMMA AlignedToIs ==
  ASSUME bytepos \in Int, NEW a, a \in Int, a > 0
  PROVE  /\ AlignedTo(a) \in Int
         /\ bytepos >= 0 => AlignedTo(a) = ((bytepos + a - 1) \div a) * a
<1> DEFINE q == bytepos + a - 1
<1>1. q \in Int /\ (bytepos >= 0 => ~ (q < 0))
  OBVIOUS
<1>2. AlignedTo(a) = IF q < 0 THEN -((-q) \div a) * a ELSE (q \div a) * a
  BY DEF AlignedTo
<1> HIDE DEF q
<1>3. (q \div a) \in Int /\ ((-q) \div a) \in Int
  BY <1>1
<1>4. AlignedTo(a) \in Int
  BY <1>2, <1>3
<1>5. bytepos >= 0 => AlignedTo(a) = (q \div a) * a
  BY <1>1, <1>2
<1> QED
  BY <1>4, <1>5 DEF q

(* A body that is no error is accepted.                                    *)
LEMMA Body ==
  ASSUME NEW line, HasBody(line), Is(line, BodyAt(line), "INSTR"), IsDirective(line) => Numeric(line)
  PROVE  Accepted(line)
BY Zenon DEF Accepted, HasBody

(* .pos and .align.                                                        *)
LEMMA ADirectiveLine ==
  ASSUME Ready, bytepos \in Int, NEW line, line \in SourceLines, DirectiveLine(line)
  PROVE  Effect(line)
<1> DEFINE a == Operand(line)[2]
<1>1. HasBody(line) /\ IsDirective(line) /\ Numeric(line)
  BY DEF DirectiveLine
<1>2. Name(line) \in {"pos", "align"} /\ Size(line) = 0
  <2>1. Name(line) \in {"pos", "align"}
    BY <1>1, NameIs DEF IsDirective
  <2> QED
    BY <2>1 DEF Size
<1>3. Is(line, BodyAt(line), "INSTR")
  <2>1. Name(line) # "none"
    BY <1>2
  <2> QED
    BY <2>1, NameIs, Zenon
<1>4. Accepted(line)
  BY <1>1, <1>3, Body, Zenon
<1>5. a \in Int /\ (Name(line) = "align" => a > 0)
  BY <1>1, OperandIs
<1>6. bytepos' = IF Directive(line, "pos") THEN a ELSE AlignedTo(a)
  BY DEF DirectiveLine
<1> HIDE DEF a
<1>7. Follows(bytepos, line, bytepos')
  <2>1. CASE Name(line) = "pos"
    <3>1. After(bytepos, line) = a
      BY <1>4, <2>1, AfterIs, Zenon DEF a
    <3>2. bytepos' = a
      BY <1>6, <2>1, NameIs, Zenon
    <3> QED
      BY <1>5, <3>1, <3>2 DEF Follows
  <2>2. CASE Name(line) = "align"
    <3>1. After(bytepos, line) = ((bytepos + a - 1) \div a) * a
      BY <1>4, <2>2, AfterIs, Zenon DEF a
    <3>2. bytepos' = AlignedTo(a)
      <4>1. Name(line) # "pos"
        BY <2>2
      <4> QED
        BY <1>6, <4>1, NameIs, Zenon
    <3>3. /\ AlignedTo(a) \in Int
          /\ bytepos >= 0 => AlignedTo(a) = ((bytepos + a - 1) \div a) * a
      BY <1>5, <2>2, AlignedToIs
    <3> QED
      BY <3>1, <3>2, <3>3 DEF Follows
  <2> QED
    BY <1>2, <2>1, <2>2
<1>8. /\ tokens' = <<>> /\ code' = code /\ add_symbol(line) /\ print_code(bytepos', <<>>)
  BY DEF DirectiveLine, start_line
<1>9. symbol_table' = IF phase = "pass1" THEN Entered(symbol_table, line, bytepos) ELSE symbol_table
  BY <1>8, Zenon DEF Entered, add_symbol
<1>10. code' \in Codes
  BY <1>8 DEF Ready
<1>11. IF phase = "pass1" THEN phase' = phase /\ yo' = yo ELSE Prints(line)
  <2>1. CASE phase = "pass1"
    BY <1>8, <2>1, SMT DEF print_code
  <2>2. CASE phase # "pass1"
    <3>0. bytepos' \in Int
      BY <1>7, Zenon DEF Follows
    <3>1. \/ phase' = "rejected"
          \/ /\ phase' = phase /\ yo' = Append(yo, Entry(Digits(bytepos'), <<>>))
             /\ bytepos' <= Reach
      BY <1>8, <2>2, <3>0, PrintCodeIs, Zenon
    <3> QED
      BY <1>2, <2>2, <3>1, Zenon DEF Prints, PrintsPlace
  <2> QED
    BY <2>1, <2>2, Zenon
<1> QED
  BY <1>4, <1>7, <1>8, <1>9, <1>10, <1>11, Zenon DEF Effect

(* An instruction, or .byte to .quad, which did not fail.                  *)
LEMMA AnInstructionLine ==
  ASSUME Ready, bytepos \in Int, NEW line, line \in SourceLines, InstructionLine(line), hit_error' # TRUE
  PROVE  Effect(line)
<1> DEFINE instr == instruction_set(line[BodyAt(line)][2])
           e     == Encoded(line, BodyAt(line) + 1, instr)
<1>1. HasBody(line) /\ Is(line, BodyAt(line), "INSTR") /\ ~ IsDirective(line)
  BY DEF InstructionLine
<1>2. Name(line) = line[BodyAt(line)][2] /\ Name(line) \in Mnemonics \ {"pos", "align"}
  BY <1>1, NameIs DEF IsDirective
<1>3. Accepted(line)
  BY <1>1, Body, Zenon
<1>4. /\ GoodBytes(line) /\ Size(line) = instr.bytes /\ Size(line) \in Nat /\ Size(line) > 0
  BY <1>2, InstructionGood
<1>5. e = BytesOf(line)
  BY <1>2, Zenon DEF BytesOf
<1>6. /\ bytepos' = bytepos + instr.bytes /\ add_symbol(line) /\ tokens' = <<>>
      /\ phase = "pass1" => phase' = phase /\ code' = code /\ yo' = yo
      /\ phase # "pass1" => /\ code' = e.s.code /\ hit_error' = (hit_error \/ e.s.failed)
                            /\ e.printed => print_code(bytepos, SubSeq(e.s.code, 1, instr.bytes))
  BY Zenon DEF InstructionLine, start_line
<1> HIDE DEF e, instr
<1>7. Follows(bytepos, line, bytepos')
  <2>1. After(bytepos, line) = bytepos + Size(line)
    BY <1>2, <1>3, AfterIs
  <2> QED
    BY <1>4, <1>6, <2>1 DEF Follows
<1>8. symbol_table' = IF phase = "pass1" THEN Entered(symbol_table, line, bytepos) ELSE symbol_table
  BY <1>6, Zenon DEF Entered, add_symbol
<1>9. code' \in Codes
  <2>1. e.s.code \in Codes
    BY <1>4, <1>5, Zenon DEF GoodBytes
  <2> QED
    BY <1>6, <2>1 DEF Ready
<1>10. IF phase = "pass1" THEN phase' = phase /\ yo' = yo ELSE Prints(line)
  <2>1. CASE phase = "pass1"
    BY <1>6, <2>1
  <2>2. CASE phase # "pass1"
    <3>1. ~ e.s.failed
      BY <1>6, <2>2
    <3>2. e.printed
      BY <1>4, <1>5, <3>1, Zenon DEF GoodBytes
    <3>3. print_code(bytepos, CodeOf(line))
      BY <1>4, <1>5, <1>6, <2>2, <3>2, Zenon DEF CodeOf
    <3>4. \/ phase' = "rejected"
          \/ /\ phase' = phase /\ yo' = Append(yo, Entry(Digits(bytepos), CodeOf(line)))
             /\ bytepos <= Reach
      BY <2>2, <3>3, PrintCodeIs, Zenon
    <3> QED
      BY <1>4, <1>5, <1>6, <2>2, <3>1, <3>4, Zenon DEF Prints, PrintsCode
  <2> QED
    BY <2>1, <2>2, Zenon
<1> QED
  BY <1>3, <1>6, <1>7, <1>8, <1>9, <1>10, Zenon DEF Effect

(* A line that leaves no error has been accepted, with that effect.        *)
LEMMA LineEffect ==
  ASSUME Ready, bytepos \in Int, tokens = <<>>, Candidates \subseteq SourceLines, Line, ~ hit_error'
  PROVE  phase' = "undefined" \/ \E line \in Candidates : ReadLine(line) /\ Effect(line)
<1>1. hit_error' # TRUE
  OBVIOUS
<1>2. PICK line \in Candidates :
        /\ ReadLine(line)
        /\ LET bad == line # <<>> /\ Last(line) = Invalid
               ts  == tokens \o (IF bad THEN Front(line) ELSE line)
           IN  IF Len(ts) > TOK_PER_LINE THEN TooManyTokens
               ELSE IF bad THEN InvalidLine(ts) ELSE finish_line(ts)
  BY Zenon DEF Line
<1> DEFINE bad == line # <<>> /\ Last(line) = Invalid
           ts  == tokens \o (IF bad THEN Front(line) ELSE line)
<1>3. CASE Len(ts) > TOK_PER_LINE
  <2>1. TooManyTokens
    BY <1>2, <1>3, Zenon
  <2> QED
    BY <2>1, Zenon DEF TooManyTokens
<1>4. CASE ~ (Len(ts) > TOK_PER_LINE) /\ bad
  <2>1. InvalidLine(ts)
    BY <1>2, <1>4, Zenon
  <2>2. hit_error' = TRUE
    BY <2>1, Zenon DEF InvalidLine, fail
  <2> QED
    BY <1>1, <2>2
<1>5. CASE ~ (Len(ts) > TOK_PER_LINE) /\ ~ bad
  <2>1. line \in SourceLines
    BY <1>2
  <2>2. ts = line
    <3>1. line \in Seq({line[k] : k \in DOMAIN line})
      BY <2>1, LinesAssumption
    <3>2. tokens \o line = line
      BY <3>1
    <3> QED
      BY <1>5, <3>2, Zenon
  <2>3. finish_line(line)
    BY <1>2, <1>5, <2>2, Zenon
  <2>4. \/ EmptyLine(line) \/ MissingColon(line) \/ LabelLine(line)
        \/ BadLine(line) \/ DirectiveLine(line) \/ InstructionLine(line)
    BY <2>3, Zenon DEF finish_line
  <2>5. ~ MissingColon(line) /\ ~ BadLine(line)
    BY <1>1, Zenon DEF MissingColon, BadLine, fail
  <2>6. Effect(line)
    BY <1>1, <2>1, <2>4, <2>5, AnEmptyLine, ALabelLine, ADirectiveLine, AnInstructionLine, Zenon
  <2> QED
    BY <1>2, <2>6, Zenon
<1> QED
  BY <1>3, <1>4, <1>5, Zenon

-----------------------------------------------------------------------------
(* The first pass.                                                         *)

Lines(f) ==
    /\ f \in Seq(SourceLines) /\ \A k \in 1 .. Len(f) : Accepted(f[k])
    /\ Integral(f)
Scanning  == Lines(file) /\ Ready /\ tokens = <<>> /\ bytepos \in Int
FirstPass == Scanning /\ yo = <<>> /\ (Nonneg(file) => bytepos = PlaceOf(file)[Len(file)])

(* Every place of a file without negative ones is a natural.               *)
LEMMA PlaceAt ==
  ASSUME NEW f, Lines(f), Nonneg(f), NEW k, k \in 0 .. Len(f)
  PROVE  PlaceOf(f)[k] \in Int /\ PlaceOf(f)[k] >= 0
BY Zenon DEF Lines, Integral, Nonneg

(* A line of the first pass.                                               *)
LEMMA FirstStep ==
  ASSUME FirstPass, phase = "pass1", ~ hit_error', phase' = "pass1", Line
  PROVE  FirstPass'
<1>1. /\ Lines(file) /\ Ready /\ tokens = <<>> /\ bytepos \in Int /\ yo = <<>>
      /\ Nonneg(file) => bytepos = PlaceOf(file)[Len(file)]
  BY Zenon DEF FirstPass, Scanning
<1>2. Candidates \subseteq SourceLines
  BY DEF Candidates
<1>3. PICK line \in Candidates : ReadLine(line) /\ Effect(line)
  <2>1. phase' # "undefined"
    OBVIOUS
  <2> QED
    BY <1>1, <1>2, <2>1, LineEffect, Zenon
<1> DEFINE g == Append(file, line)
           n == Len(file)
<1>4. /\ line \in SourceLines /\ file' = g /\ Accepted(line) /\ tokens' = <<>>
      /\ Follows(bytepos, line, bytepos') /\ code' \in Codes /\ yo' = yo
      /\ symbol_table' = Entered(symbol_table, line, bytepos)
  BY <1>2, <1>3, Zenon DEF ReadLine, Effect
<1>5. /\ n \in Nat /\ Integral(file) /\ file \in Seq(SourceLines)
      /\ Len(g) = n + 1 /\ g[n + 1] = line /\ \A k \in 1 .. n : g[k] = file[k] /\ Accepted(file[k])
      /\ n \in 0 .. Len(file)
  BY <1>1, <1>4 DEF Lines
<1>6. /\ g \in Seq(SourceLines) /\ Integral(g) /\ (Nonneg(g) => Nonneg(file))
      /\ PlaceOf(g)[n + 1] = After(PlaceOf(file)[n], line)
  BY <1>1, <1>4, <1>5, NextPlace, Zenon
<1>7. symbol_table' \in Seq(Symbol) /\ SymbolsRight(g, symbol_table')
  BY <1>1, <1>4, <1>5, AddedSymbol, Zenon
<1>8. \A k \in 1 .. Len(g) : Accepted(g[k])
  <2>1. \A k \in 1 .. n + 1 : k \in 1 .. n \/ k = n + 1
    BY <1>5
  <2> HIDE DEF g, n
  <2> QED
    BY <1>4, <1>5, <2>1, Zenon
<1>9. Nonneg(g) => bytepos' = PlaceOf(g)[Len(g)]
  <2> SUFFICES ASSUME Nonneg(g)  PROVE bytepos' = PlaceOf(g)[Len(g)]
    OBVIOUS
  <2>1. Nonneg(file) /\ bytepos = PlaceOf(file)[n]
    BY <1>1, <1>6, Zenon
  <2>2. bytepos >= 0
    BY <1>1, <1>5, <2>1, PlaceAt, Zenon
  <2>3. bytepos' = After(bytepos, line)
    BY <1>4, <2>2, Zenon DEF Follows
  <2> HIDE DEF g, n
  <2> QED
    BY <1>5, <1>6, <2>1, <2>3, Zenon
<1>10. bytepos' \in Int
  BY <1>4, Zenon DEF Follows
<1> HIDE DEF g, n
<1>11. Lines(file') /\ (Nonneg(file') => bytepos' = PlaceOf(file')[Len(file')])
  BY <1>4, <1>6, <1>8, <1>9, Zenon DEF Lines
<1>12. Ready'
  BY <1>4, <1>6, <1>7 DEF Ready
<1>13. tokens' = <<>> /\ yo' = <<>>
  BY <1>1, <1>4
<1> QED
  BY <1>10, <1>11, <1>12, <1>13, Zenon DEF FirstPass, Scanning

-----------------------------------------------------------------------------
(* The second pass.                                                        *)

(* What the lines up to n have printed: of a line with bytes an entry that *)
(* only lines behind it lie over.                                          *)
PrintedAt(f, e, k) == e.pos = PlaceOf(f)[k - 1] /\ Len(e.code) = Size(f[k])
Tells(f, mean, e, k) ==
    Name(f[k]) \notin DOMAIN data => Encodes(f, mean[k], e.code) /\ Size(f[k]) = ItsSize(mean[k])
PrintedLine(f, mean, y, n, k, m) ==
    /\ PrintedAt(f, y[m], k) /\ Tells(f, mean, y[m], k)
    /\ \A l \in m + 1 .. Len(y) :
           Len(y[l].code) = 0 \/ \E j \in k + 1 .. n : Size(f[j]) > 0 /\ PrintedAt(f, y[l], j)
Printed(f, mean, y, n) ==
    \A k \in 1 .. n : Size(f[k]) > 0 => \E m \in 1 .. Len(y) : PrintedLine(f, mean, y, n, k, m)

(* A line without bytes that prints nothing.                               *)
LEMMA NothingPrinted ==
  ASSUME NEW f, NEW mean, NEW y, y \in Seq(Output), NEW n, n \in Nat,
         Printed(f, mean, y, n), ~ (Size(f[n + 1]) > 0)
  PROVE  Printed(f, mean, y, n + 1)
<1>1. SUFFICES ASSUME NEW k \in 1 .. n + 1, Size(f[k]) > 0
               PROVE  \E m \in 1 .. Len(y) : PrintedLine(f, mean, y, n + 1, k, m)
  BY Zenon DEF Printed
<1>2. k \in 1 .. n
  BY <1>1
<1>3. PICK m \in 1 .. Len(y) : PrintedLine(f, mean, y, n, k, m)
  BY <1>1, <1>2, Zenon DEF Printed
<1>4. \A j \in k + 1 .. n : j \in k + 1 .. n + 1
  BY <1>2
<1>5. PrintedLine(f, mean, y, n + 1, k, m)
  BY <1>3, <1>4, Zenon DEF PrintedLine
<1> QED
  BY <1>5, Zenon

(* A line that prints an entry, of its bytes or of none.                   *)
LEMMA EntryPrinted ==
  ASSUME NEW f, NEW mean, NEW y, y \in Seq(Output), NEW n, n \in Nat, NEW e,
         Printed(f, mean, y, n),
         \/ Len(e.code) = 0 /\ ~ (Size(f[n + 1]) > 0)
         \/ Size(f[n + 1]) > 0 /\ PrintedAt(f, e, n + 1) /\ Tells(f, mean, e, n + 1)
  PROVE  Printed(f, mean, Append(y, e), n + 1)
<1> DEFINE z == Append(y, e)
           r == Len(y)
<1>1. r \in Nat /\ Len(z) = r + 1 /\ z[r + 1] = e /\ \A l \in 1 .. r : z[l] = y[l]
  OBVIOUS
<1>2. SUFFICES ASSUME NEW k \in 1 .. n + 1, Size(f[k]) > 0
               PROVE  \E m \in 1 .. Len(z) : PrintedLine(f, mean, z, n + 1, k, m)
  BY Zenon DEF Printed
<1> HIDE DEF z, r
<1>3. CASE k \in 1 .. n
  <2>1. PICK m \in 1 .. r : PrintedLine(f, mean, y, n, k, m)
    BY <1>2, <1>3, Zenon DEF Printed, r
  <2>2. /\ \A j \in k + 1 .. n : j \in k + 1 .. n + 1
        /\ n + 1 \in k + 1 .. n + 1
        /\ m \in 1 .. Len(z)
        /\ \A l \in m + 1 .. Len(z) : l = r + 1 \/ (l \in 1 .. r /\ l \in m + 1 .. r)
    BY <1>1, <1>3
  <2>3. z[m] = y[m]
    BY <1>1, <2>1, Zenon
  <2>4. ASSUME NEW l \in m + 1 .. Len(z)
        PROVE  Len(z[l].code) = 0 \/ \E j \in k + 1 .. n + 1 : Size(f[j]) > 0 /\ PrintedAt(f, z[l], j)
    <3>1. CASE l = r + 1
      <4>1. z[l] = e
        BY <1>1, <3>1, Zenon
      <4> QED
        BY <2>2, <4>1, Zenon
    <3>2. CASE l \in 1 .. r /\ l \in m + 1 .. r
      <4>1. z[l] = y[l]
        BY <1>1, <3>2, Zenon
      <4>2. Len(y[l].code) = 0 \/ \E j \in k + 1 .. n : Size(f[j]) > 0 /\ PrintedAt(f, y[l], j)
        BY <2>1, <3>2, Zenon DEF PrintedLine, r
      <4> QED
        BY <2>2, <4>1, <4>2, Zenon
    <3> QED
      BY <2>2, <3>1, <3>2, Zenon
  <2>5. PrintedLine(f, mean, z, n + 1, k, m)
    BY <2>1, <2>3, <2>4, Zenon DEF PrintedLine
  <2> QED
    BY <2>2, <2>5, Zenon
<1>4. CASE k = n + 1
  <2>1. r + 1 \in 1 .. Len(z) /\ \A l \in (r + 1) + 1 .. Len(z) : FALSE
    BY <1>1
  <2>2. PrintedAt(f, z[r + 1], k) /\ Tells(f, mean, z[r + 1], k)
    BY <1>1, <1>2, <1>4, Zenon
  <2>3. PrintedLine(f, mean, z, n + 1, k, r + 1)
    BY <2>1, <2>2, Zenon DEF PrintedLine
  <2> QED
    BY <2>1, <2>3, Zenon
<1>5. k \in 1 .. n \/ k = n + 1
  BY <1>2
<1> QED
  BY <1>3, <1>4, <1>5, Zenon DEF z

(* The digits of an address that is not negative are its own.              *)
LEMMA DigitsIs ==
  ASSUME NEW p, p \in Int
  PROVE  Digits(p) \in Int /\ (p >= 0 => Digits(p) = p)
BY SMT DEF Digits

(* What is printed of code are its first bytes.                            *)
LEMMA CodeOfIs ==
  ASSUME Ready, NEW line, line \in SourceLines, Size(line) > 0
  PROVE  /\ CodeOf(line) \in Seq(Byte) /\ Len(CodeOf(line)) = Size(line)
         /\ \A k \in 1 .. Size(line) : CodeOf(line)[k] = BytesOf(line).s.code[k]
<1>1. Name(line) \in Mnemonics \ {"pos", "align"}
  <2>1. Name(line) # "none" /\ Name(line) # "pos" /\ Name(line) # "align"
    BY DEF Size
  <2>2. Name(line) \in Mnemonics
    BY <2>1, NameIs, Zenon
  <2> QED
    BY <2>1, <2>2
<1>2. Size(line) \in 1 .. 10 /\ GoodBytes(line)
  BY <1>1, InstructionGood
<1> DEFINE c == BytesOf(line).s.code
           n == Size(line)
<1>3. c \in Codes /\ n \in 1 .. 10
  BY <1>2, Zenon DEF GoodBytes
<1>4. CodeOf(line) = SubSeq(c, 1, n)
  BY Zenon DEF CodeOf
<1> HIDE DEF c, n
<1>5. SubSeq(c, 1, n) = [k \in 1 .. n |-> c[k]]
  <2>1. SubSeq(c, 1, n) = [k \in 1 .. (1 + n - 1) |-> c[k + 1 - 1]]
    BY <1>3, SMT
  <2> QED
    BY <1>3, <2>1
<1>6. \A k \in 1 .. n : c[k] \in Byte
  BY <1>3 DEF Codes, Byte
<1>7. /\ SubSeq(c, 1, n) \in Seq(Byte) /\ Len(SubSeq(c, 1, n)) = n
      /\ \A k \in 1 .. n : SubSeq(c, 1, n)[k] = c[k]
  BY <1>3, <1>5, <1>6
<1> QED
  BY <1>4, <1>7 DEF c, n

(* Which are all that the instruction has.                                 *)
LEMMA EncodesPrefix ==
  ASSUME NEW f, NEW s, NEW c, NEW d, Encodes(f, s, c), \A j \in 1 .. ItsSize(s) : d[j] = c[j]
  PROVE  Encodes(f, s, d)
<1> DEFINE n == ItsSize(s)
<1>1. /\ n \in Nat /\ 1 \in 1 .. n
      /\ need_regids(s.icode) => 2 \in 1 .. n
      /\ need_imm(s.icode) => \A k \in 0 .. 3 : ImmAt(s) + k \in 1 .. n
  BY DEF ItsSize, ImmAt
<1> HIDE DEF n
<1>2. /\ d[1] = c[1] /\ (need_regids(s.icode) => d[2] = c[2])
      /\ need_imm(s.icode) => \A k \in 0 .. 3 : d[ImmAt(s) + k] = c[ImmAt(s) + k]
  BY <1>1, Zenon DEF n
<1> QED
  BY <1>2, Zenon DEF Encodes

(* So the entry of an instruction tells what its line means.               *)
LEMMA CodeTells ==
  ASSUME Ready, Nonneg(file), NEW k, k \in DOMAIN file, file[k] \in SourceLines,
         Size(file[k]) > 0, ~ BytesOf(file[k]).s.failed, NEW p
  PROVE  Tells(file, Meant, Entry(p, CodeOf(file[k])), k)
<1> DEFINE line == file[k]
           e    == Entry(p, CodeOf(line))
<1>1. e.code = CodeOf(line)
  BY DEF Entry
<1>2. Meant[k] = Meaning(line)
  BY Zenon DEF Meant
<1>3. line \in SourceLines /\ Size(line) > 0 /\ ~ BytesOf(line).s.failed
  OBVIOUS
<1> HIDE DEF line, e
<1>4. /\ Len(CodeOf(line)) = Size(line)
      /\ \A j \in 1 .. Size(line) : CodeOf(line)[j] = BytesOf(line).s.code[j]
  BY <1>3, CodeOfIs, Zenon
<1>5. GoodBytes(line)
  <2>1. Name(line) # "none" /\ Name(line) # "pos" /\ Name(line) # "align"
    BY <1>3 DEF Size
  <2>2. Name(line) \in Mnemonics
    BY <1>3, <2>1, NameIs, Zenon
  <2>3. Name(line) \in Mnemonics \ {"pos", "align"}
    BY <2>1, <2>2
  <2> QED
    BY <1>3, <2>3, InstructionGood, Zenon
<1>6. ASSUME Name(line) \notin DOMAIN data
      PROVE  Encodes(file, Meaning(line), CodeOf(line)) /\ Size(line) = ItsSize(Meaning(line))
  <2>1. Encodes(file, Meaning(line), BytesOf(line).s.code) /\ Size(line) = ItsSize(Meaning(line))
    BY <1>3, <1>5, <1>6, Zenon DEF GoodBytes
  <2>2. \A j \in 1 .. ItsSize(Meaning(line)) : CodeOf(line)[j] = BytesOf(line).s.code[j]
    BY <1>4, <2>1, Zenon
  <2> QED
    BY <2>1, <2>2, EncodesPrefix, Zenon
<1> QED
  BY <1>1, <1>2, <1>6, Zenon DEF Tells, line, e

SecondPass ==
    /\ Scanning /\ yo \in Seq(Output) /\ lineno \in 1 .. Len(file) + 1
    /\ Nonneg(file) => /\ bytepos = PlaceOf(file)[lineno - 1]
                       /\ Printed(file, Meant, yo, lineno - 1) /\ Near(file, lineno - 1)

(* An entry is an address and bytes.                                       *)
LEMMA EntryIs ==
  ASSUME NEW p, NEW c
  PROVE  /\ Entry(p, c).pos = p /\ Entry(p, c).code = c
         /\ p \in Int /\ c \in Seq(Byte) => Entry(p, c) \in Output
BY DEF Entry, Output

(* A line of the second pass prints an entry or nothing.                   *)
LEMMA LinePrints ==
  ASSUME Ready, bytepos \in Int, NEW line, line \in SourceLines, Effect(line), phase = "pass2", phase' = "pass2"
  PROVE  /\ yo \in Seq(Output) => yo' \in Seq(Output)
         /\ PrintsNothing(line) \/ PrintsPlace(line) \/ PrintsCode(line)
<1>1. phase # "pass1" /\ phase' # "rejected"
  OBVIOUS
<1>2. PrintsNothing(line) \/ PrintsPlace(line) \/ PrintsCode(line)
  BY <1>1, Zenon DEF Effect, Prints
<1>3. ASSUME yo \in Seq(Output)
      PROVE  yo' \in Seq(Output)
  <2>1. CASE PrintsNothing(line)
    BY <1>3, <2>1 DEF PrintsNothing
  <2>2. CASE PrintsPlace(line)
    <3> DEFINE e == Entry(Digits(bytepos'), <<>>)
    <3>1. bytepos' \in Int
      BY Zenon DEF Effect, Follows
    <3>2. Digits(bytepos') \in Int
      BY <3>1, DigitsIs, Zenon
    <3>3. <<>> \in Seq(Byte)
      OBVIOUS
    <3>4. e \in Output
      BY <3>2, <3>3, EntryIs, Zenon
    <3>5. yo' = Append(yo, e)
      BY <2>2, Zenon DEF PrintsPlace
    <3> HIDE DEF e
    <3> QED
      BY <1>3, <3>4, <3>5
  <2>3. CASE PrintsCode(line)
    <3> DEFINE e == Entry(Digits(bytepos), CodeOf(line))
    <3>1. Size(line) > 0 /\ yo' = Append(yo, e)
      BY <2>3, Zenon DEF PrintsCode
    <3>2. Digits(bytepos) \in Int /\ CodeOf(line) \in Seq(Byte)
      BY <3>1, DigitsIs, CodeOfIs, Zenon
    <3>3. e \in Output
      BY <3>2, EntryIs, Zenon
    <3> HIDE DEF e
    <3> QED
      BY <1>3, <3>1, <3>3
  <2> QED
    BY <1>2, <2>1, <2>2, <2>3, Zenon
<1> QED
  BY <1>2, <1>3, Zenon

(* It prints at its place, what it means.                                  *)
LEMMA SecondPrints ==
  ASSUME SecondPass, phase = "pass2", phase' = "pass2", Nonneg(file),
         NEW n, n = lineno - 1, n + 1 \in DOMAIN file, NEW line, line = file[n + 1], line \in SourceLines,
         Effect(line)
  PROVE  Printed(file, Meant, yo', n + 1) /\ Near(file, n + 1) /\ bytepos' = PlaceOf(file)[n + 1]
<1>1. /\ Lines(file) /\ Ready /\ bytepos \in Int /\ yo \in Seq(Output) /\ lineno \in 1 .. Len(file) + 1
      /\ bytepos = PlaceOf(file)[n] /\ Printed(file, Meant, yo, n) /\ Near(file, n)
  BY Zenon DEF SecondPass, Scanning
<1>2. n \in Nat /\ n \in 0 .. Len(file) /\ n + 1 \in 0 .. Len(file) /\ Len(file) \in Nat
      /\ n + 1 \in 1 .. Len(file) /\ (n + 1) - 1 = n /\ \A k \in 0 .. n + 1 : k \in 0 .. n \/ k = n + 1
  <2>1. Len(file) \in Nat /\ DOMAIN file = 1 .. Len(file)
    BY <1>1 DEF Lines
  <2> QED
    BY <1>1, <2>1
<1>3. bytepos >= 0 /\ PlaceOf(file)[n + 1] \in Int
  BY <1>1, <1>2, PlaceAt, Zenon
<1>4. bytepos' = PlaceOf(file)[n + 1]
  <2>1. PlaceOf(file)[n + 1] = After(PlaceOf(file)[n], line)
    BY <1>2, PlaceOfIs, Zenon
  <2>2. bytepos' = After(bytepos, line)
    BY <1>3, Zenon DEF Effect, Follows
  <2> QED
    BY <1>1, <2>1, <2>2, Zenon
<1>5. PrintsNothing(line) \/ PrintsPlace(line) \/ PrintsCode(line)
  BY <1>1, LinePrints, Zenon
<1>6. Near(file, n + 1)
  <2>1. bytepos <= Far /\ bytepos' <= Far
    <3>1. bytepos <= Far
      <4>1. n \in 0 .. n
        BY <1>2
      <4>2. PlaceOf(file)[n] <= Far
        BY <1>1, <4>1, Zenon DEF Near
      <4> QED
        BY <1>1, <4>2
    <3>2. CASE PrintsNothing(line)
      BY <3>1, <3>2, Zenon DEF PrintsNothing
    <3>3. CASE PrintsPlace(line)
      <4>1. bytepos' <= Reach
        BY <3>3, Zenon DEF PrintsPlace
      <4> QED
        BY <1>3, <1>4, <3>1, <4>1, SMT DEF Reach, Far
    <3>4. CASE PrintsCode(line)
      <4>1. bytepos <= Reach /\ bytepos' = bytepos + Size(line) /\ Size(line) > 0
        BY <3>4, Zenon DEF PrintsCode
      <4>2. Size(line) \in {1, 2, 4, 8, 9, 10}
        <5>1. Name(line) # "none" /\ Name(line) # "pos" /\ Name(line) # "align"
          BY <4>1 DEF Size
        <5>2. Name(line) \in Mnemonics
          BY <5>1, NameIs, Zenon
        <5> QED
          BY <1>1, <5>1, <5>2, InstructionGood
      <4> QED
        BY <1>1, <3>1, <4>1, <4>2, SMT DEF Reach, Far
    <3> QED
      BY <1>5, <3>1, <3>2, <3>3, <3>4, Zenon
  <2> QED
    BY <1>1, <1>2, <1>4, <2>1, Zenon DEF Near
<1>7. Printed(file, Meant, yo', n + 1)
  <2>1. CASE PrintsNothing(line)
    <3>1. yo' = yo /\ ~ (Size(file[n + 1]) > 0)
      BY <2>1 DEF PrintsNothing
    <3> QED
      BY <1>1, <1>2, <3>1, NothingPrinted, Zenon
  <2>2. CASE PrintsPlace(line)
    <3> DEFINE e == Entry(Digits(bytepos'), <<>>)
    <3>1. yo' = Append(yo, e) /\ Size(line) = 0
      BY <2>2, Zenon DEF PrintsPlace
    <3>2. ~ (Size(file[n + 1]) > 0)
      BY <3>1
    <3>3. e.code = <<>>
      BY EntryIs, Zenon
    <3> HIDE DEF e
    <3>4. Len(e.code) = 0
      BY <3>3
    <3> QED
      BY <1>1, <1>2, <3>1, <3>2, <3>4, EntryPrinted, Zenon
  <2>3. CASE PrintsCode(line)
    <3> DEFINE e == Entry(Digits(bytepos), CodeOf(line))
    <3>1. yo' = Append(yo, e) /\ Size(line) > 0 /\ ~ BytesOf(line).s.failed
      BY <2>3, Zenon DEF PrintsCode
    <3>2. e.pos = bytepos /\ e.code = CodeOf(line)
      <4>1. Digits(bytepos) = bytepos
        <5>1. bytepos \in Int /\ bytepos >= 0
          BY <1>1, <1>3
        <5> QED
          BY <5>1, DigitsIs, Zenon
      <4>2. e.pos = Digits(bytepos) /\ e.code = CodeOf(line)
        BY EntryIs, Zenon
      <4> QED
        BY <4>1, <4>2
    <3>3. Tells(file, Meant, e, n + 1)
      BY <1>1, <3>1, CodeTells, Zenon
    <3> HIDE DEF e
    <3>4. Len(e.code) = Size(file[n + 1]) /\ Size(file[n + 1]) > 0
      BY <1>1, <3>1, <3>2, CodeOfIs, Zenon
    <3>5. PrintedAt(file, e, n + 1)
      BY <1>1, <1>2, <3>2, <3>4, Zenon DEF PrintedAt
    <3> QED
      BY <1>1, <1>2, <3>1, <3>3, <3>4, <3>5, EntryPrinted, Zenon
  <2> QED
    BY <1>5, <2>1, <2>2, <2>3, Zenon
<1> QED
  BY <1>4, <1>6, <1>7, Zenon

(* A line of the second pass.                                              *)
LEMMA SecondStep ==
  ASSUME SecondPass, phase = "pass2", ~ hit_error', phase' = "pass2", Line
  PROVE  SecondPass'
<1>1. /\ Lines(file) /\ Ready /\ tokens = <<>> /\ bytepos \in Int /\ yo \in Seq(Output)
      /\ lineno \in 1 .. Len(file) + 1
  BY Zenon DEF SecondPass, Scanning
<1>2. /\ Len(file) \in Nat /\ DOMAIN file = 1 .. Len(file) /\ \A k \in 1 .. Len(file) : file[k] \in SourceLines
      /\ lineno \in Nat \ {0}
  BY <1>1 DEF Lines
<1>3. Candidates = IF lineno <= Len(file) THEN {file[lineno]} ELSE {}
  BY DEF Candidates
<1>4. Candidates \subseteq SourceLines
  BY <1>2, <1>3
<1>5. PICK line \in Candidates : ReadLine(line) /\ Effect(line)
  <2>1. phase' # "undefined"
    OBVIOUS
  <2> QED
    BY <1>1, <1>4, <2>1, LineEffect, Zenon
<1>6. lineno \in DOMAIN file /\ line = file[lineno] /\ line \in SourceLines
  BY <1>2, <1>3, <1>4
<1>7. /\ file' = file /\ lineno' = lineno + 1 /\ tokens' = <<>> /\ symbol_table' = symbol_table
      /\ code' \in Codes /\ bytepos' \in Int
  BY <1>5, SMT DEF ReadLine, Effect, Follows
<1>8. yo' \in Seq(Output)
  BY <1>1, <1>5, <1>6, LinePrints, Zenon
<1>9. lineno' \in 1 .. Len(file') + 1
  BY <1>2, <1>6, <1>7
<1>10. Ready'
  BY <1>1, <1>7 DEF Ready
<1>11. Scanning'
  BY <1>1, <1>7, <1>10, Zenon DEF Scanning
<1>12. Meant' = Meant
  BY <1>7, Unmoved, Zenon
<1>13. ASSUME Nonneg(file)
       PROVE  /\ bytepos' = PlaceOf(file)[lineno' - 1]
              /\ Printed(file, Meant, yo', lineno' - 1) /\ Near(file, lineno' - 1)
  <2> DEFINE n == lineno - 1
  <2>1. n = lineno - 1 /\ n + 1 = lineno /\ lineno' - 1 = n + 1
    BY <1>2, <1>7
  <2> HIDE DEF n
  <2>2. n + 1 \in DOMAIN file /\ line = file[n + 1]
    BY <1>6, <2>1, Zenon
  <2> QED
    BY <1>5, <1>6, <1>13, <2>1, <2>2, SecondPrints, Zenon
<1> QED
  BY <1>7, <1>8, <1>9, <1>11, <1>12, <1>13, Zenon DEF SecondPass

-----------------------------------------------------------------------------
(* The loader.                                                             *)

(* What is printed last for an address is what memory holds.               *)
Kept(y, mem, n) ==
    \A m \in 1 .. n : \A a \in Bytes(y[m]) :
        (\A l \in m + 1 .. n : a \notin Bytes(y[l])) =>
            a \in DOMAIN mem /\ mem[a] = y[m].code[a - y[m].pos + 1]
With(mem, l) ==
    [a \in DOMAIN mem \cup Bytes(l) |-> IF a \in Bytes(l) THEN l.code[a - l.pos + 1] ELSE mem[a]]
Loading ==
    /\ Lines(file) /\ Ready /\ yo \in Seq(Output) /\ lineno \in 1 .. Len(yo) + 1
    /\ Nonneg(file) => Printed(file, Meant, yo, Len(file)) /\ Near(file, Len(file))
    /\ Kept(yo, memory, lineno - 1)

(* Memory with one entry more in it.                                       *)
LEMMA KeptMore ==
  ASSUME NEW y, NEW mem, NEW n, n \in Nat, Kept(y, mem, n)
  PROVE  Kept(y, With(mem, y[n + 1]), n + 1)
<1> DEFINE l   == y[n + 1]
           new == With(mem, l)
<1>1. /\ DOMAIN new = DOMAIN mem \cup Bytes(l)
      /\ \A a \in Bytes(l) : new[a] = l.code[a - l.pos + 1]
      /\ \A a \in DOMAIN mem : a \notin Bytes(l) => new[a] = mem[a]
  BY DEF With
<1>2. SUFFICES ASSUME NEW m \in 1 .. n + 1, NEW a \in Bytes(y[m]), \A j \in m + 1 .. n + 1 : a \notin Bytes(y[j])
               PROVE  a \in DOMAIN new /\ new[a] = y[m].code[a - y[m].pos + 1]
  BY Zenon DEF Kept
<1> HIDE DEF new
<1>3. CASE m = n + 1
  BY <1>1, <1>2, <1>3, Zenon
<1>4. CASE m \in 1 .. n
  <2>1. n + 1 \in m + 1 .. n + 1 /\ \A j \in m + 1 .. n : j \in m + 1 .. n + 1
    BY <1>4
  <2>2. a \notin Bytes(l) /\ \A j \in m + 1 .. n : a \notin Bytes(y[j])
    BY <1>2, <2>1, Zenon
  <2>3. a \in DOMAIN mem /\ mem[a] = y[m].code[a - y[m].pos + 1]
    BY <1>2, <1>4, <2>2, Zenon DEF Kept
  <2> QED
    BY <1>1, <2>2, <2>3
<1>5. m = n + 1 \/ m \in 1 .. n
  BY <1>2
<1> QED
  BY <1>3, <1>4, <1>5, Zenon

(* An entry is loaded, unless it does not fit, or all have been.           *)
LEMMA LoadStep ==
  ASSUME Loading, load_mem, phase' # "refused"
  PROVE  Loading' /\ (phase' = "loaded" => lineno' = Len(yo') + 1)
<1>1. /\ Lines(file) /\ yo \in Seq(Output) /\ lineno \in 1 .. Len(yo) + 1 /\ Len(yo) \in Nat
      /\ Nonneg(file) => Printed(file, Meant, yo, Len(file)) /\ Near(file, Len(file))
      /\ Kept(yo, memory, lineno - 1)
  BY DEF Loading
<1>2. phase = "load" /\ file' = file /\ yo' = yo /\ Ready'
  <2>1. phase = "load" /\ file' = file /\ yo' = yo /\ symbol_table' = symbol_table /\ code' = code
    BY DEF load_mem
  <2> QED
    BY <2>1 DEF Loading, Ready
<1>3. Meant' = Meant
  BY <1>2, Unmoved, Zenon
<1>4. CASE lineno > Len(yo)
  <2>1. phase' = "loaded" /\ lineno' = lineno /\ memory' = memory
    BY <1>4, Zenon DEF load_mem
  <2>2. lineno' = Len(yo') + 1
    BY <1>1, <1>2, <1>4, <2>1
  <2>3. lineno' \in 1 .. Len(yo') + 1 /\ Kept(yo', memory', lineno' - 1)
    BY <1>1, <1>2, <2>1
  <2> QED
    BY <1>1, <1>2, <1>3, <2>2, <2>3, Zenon DEF Loading
<1>5. CASE ~ (lineno > Len(yo))
  <2> DEFINE l    == yo[lineno]
             fits == {a \in Bytes(l) : a < MEM_SIZE}
             n    == lineno - 1
  <2>1. /\ memory' = [a \in DOMAIN memory \cup fits |->
                        IF a \in fits THEN l.code[a - l.pos + 1] ELSE memory[a]]
        /\ phase' = IF fits = Bytes(l) THEN phase ELSE "refused"
        /\ lineno' = lineno + 1
    BY <1>5, Zenon DEF load_mem
  <2>2. fits = Bytes(l) /\ phase' = "load"
    BY <1>2, <2>1
  <2>3. memory' = With(memory, l)
    BY <2>1, <2>2, Zenon DEF With
  <2>4. n \in Nat /\ n + 1 = lineno /\ lineno' - 1 = n + 1 /\ lineno' \in 1 .. Len(yo) + 1 /\ lineno - 1 = n
    BY <1>1, <1>5, <2>1
  <2> HIDE DEF n
  <2>5. Kept(yo, With(memory, yo[n + 1]), n + 1)
    BY <1>1, <2>4, KeptMore, Zenon
  <2>6. Kept(yo', memory', lineno' - 1) /\ lineno' \in 1 .. Len(yo') + 1
    BY <1>2, <2>3, <2>4, <2>5
  <2>7. phase' # "loaded"
    BY <2>2
  <2> QED
    BY <1>1, <1>2, <1>3, <2>6, <2>7, Zenon DEF Loading
<1> QED
  BY <1>4, <1>5, Zenon

-----------------------------------------------------------------------------
(* What step_state reads.                                                  *)

Word(v) == ByteOf(v, 0) + 256 * ByteOf(v, 1) + 65536 * ByteOf(v, 2) + 16777216 * SignedByte(ByteOf(v, 3))

(* Four bytes are the number they were made of, negative ones too.         *)
LEMMA WordIs ==
  ASSUME NEW v, v \in Int, v >= -2147483647 - 1, v <= 2147483647
  PROVE  Word(v) = v
<1> DEFINE q1 == v \div 256
           q2 == v \div 65536
           q3 == v \div 16777216
<1>1. /\ ByteOf(v, 0) = v % 256 /\ ByteOf(v, 1) = q1 % 256
      /\ ByteOf(v, 2) = q2 % 256 /\ ByteOf(v, 3) = q3 % 256
  BY SMT DEF ByteOf, Weight
<1>2. q1 \in Int /\ q2 \in Int /\ q3 \in Int
  BY SMT
<1>3. v = 256 * q1 + (v % 256)
  BY SMT
<1>4. q1 = 256 * q2 + (q1 % 256)
  BY SMT
<1>5. q2 = 256 * q3 + (q2 % 256)
  BY SMT
<1>6. q3 \in -128 .. 127
  BY SMT
<1> HIDE DEF q1, q2, q3
<1>7. SignedByte(q3 % 256) = q3
  BY <1>6, SMT DEF SignedByte
<1>8. v % 256 \in Int /\ q1 % 256 \in Int /\ q2 % 256 \in Int
  BY <1>2, SMT
<1> DEFINE b0 == v % 256
           b1 == q1 % 256
           b2 == q2 % 256
<1> HIDE DEF b0, b1, b2
<1>9. Word(v) = b0 + 256 * b1 + 65536 * b2 + 16777216 * q3
  BY <1>1, <1>7, SMT DEF Word, b0, b1, b2
<1>10. v = 256 * q1 + b0 /\ q1 = 256 * q2 + b1 /\ q2 = 256 * q3 + b2 /\ b0 \in Int /\ b1 \in Int /\ b2 \in Int
  BY <1>3, <1>4, <1>5, <1>8, SMT DEF b0, b1, b2
<1> QED
  BY <1>2, <1>9, <1>10, SMT

Fits(v) == v \in Int /\ v >= -2147483647 - 1 /\ v <= 2147483647

(* Where memory holds the bytes of s, step_state fetches s.                *)
LEMMA FetchedIs ==
  ASSUME NEW f, NEW s, NEW c, NEW a, a \in Int, Encodes(f, s, c), need_imm(s.icode) => Fits(s.valC),
         \A h \in 0 .. ItsSize(s) - 1 : get_byte_val(a + h) = c[h + 1]
  PROVE  Fetched(a) = [icode |-> s.icode, ifun |-> s.ifun, rA |-> s.rA, rB |-> s.rB, valC |-> s.valC]
<1> DEFINE n  == ItsSize(s)
           ic == s.icode
           rg == need_regids(ic)
           im == need_imm(ic)
           regs == IF rg THEN get_byte_val(a + 1) ELSE HPACK(REG_NONE, REG_NONE)
           cpos == IF rg THEN a + 2 ELSE a + 1
           at   == ImmAt(s)
<1>1. /\ ic \in 0 .. 15 /\ s.ifun \in 0 .. 15 /\ s.rA \in 0 .. 15 /\ s.rB \in 0 .. 15
      /\ c[1] = HPACK(ic, s.ifun)
      /\ rg => c[2] = HPACK(s.rA, s.rB)
      /\ ~ rg => s.rA = REG_NONE /\ s.rB = REG_NONE
      /\ im => \A k \in 0 .. 3 : c[at + k] = ByteOf(s.valC, k)
      /\ ~ im => s.valC = 0
  BY Zenon DEF Encodes
<1>2. /\ n \in Nat /\ 0 \in 0 .. n - 1 /\ a + 0 = a /\ 0 + 1 = 1 /\ 1 + 1 = 2
      /\ rg => 1 \in 0 .. n - 1
      /\ im => \A k \in 0 .. 3 : (at - 1) + k \in 0 .. n - 1 /\ ((at - 1) + k) + 1 = at + k
                                 /\ a + ((at - 1) + k) = cpos + k
  BY DEF ItsSize, ImmAt
<1> HIDE DEF n, at
<1>3. get_byte_val(a) = HPACK(ic, s.ifun)
  <2>1. get_byte_val(a + 0) = c[0 + 1]
    BY <1>2, Zenon DEF n
  <2> QED
    BY <1>1, <1>2, <2>1, Zenon
<1>4. rg => get_byte_val(a + 1) = HPACK(s.rA, s.rB)
  BY <1>1, <1>2, Zenon DEF n
<1>5. im => \A k \in 0 .. 3 : get_byte_val(cpos + k) = ByteOf(s.valC, k)
  <2> SUFFICES ASSUME im, NEW k \in 0 .. 3  PROVE get_byte_val(cpos + k) = ByteOf(s.valC, k)
    OBVIOUS
  <2> DEFINE h == (at - 1) + k
  <2>1. h \in 0 .. n - 1 /\ h + 1 = at + k /\ a + h = cpos + k
    BY <1>2, Zenon
  <2> HIDE DEF h
  <2>2. get_byte_val(a + h) = c[h + 1]
    BY <2>1, Zenon DEF n
  <2> QED
    BY <1>1, <2>1, <2>2, Zenon
<1>6. HI4(get_byte_val(a)) = ic /\ LO4(get_byte_val(a)) = s.ifun
  <2>1. HI4(HPACK(ic, s.ifun)) = ic /\ LO4(HPACK(ic, s.ifun)) = s.ifun
    BY <1>1, APair, Zenon
  <2> QED
    BY <1>3, <2>1, Zenon
<1>7. HI4(regs) = s.rA /\ LO4(regs) = s.rB
  <2>1. CASE rg
    <3>1. HI4(HPACK(s.rA, s.rB)) = s.rA /\ LO4(HPACK(s.rA, s.rB)) = s.rB
      BY <1>1, APair, Zenon
    <3>2. regs = HPACK(s.rA, s.rB)
      BY <1>4, <2>1, Zenon
    <3> QED
      BY <3>1, <3>2, Zenon
  <2>2. CASE ~ rg
    <3>1. REG_NONE \in 0 .. 15
      BY DEF REG_NONE
    <3>2. HI4(HPACK(REG_NONE, REG_NONE)) = REG_NONE /\ LO4(HPACK(REG_NONE, REG_NONE)) = REG_NONE
      BY <3>1, APair, Zenon
    <3> QED
      BY <1>1, <2>2, <3>2, Zenon
  <2> QED
    BY <2>1, <2>2
<1>8. im => get_word_val(cpos) = s.valC
  <2> SUFFICES ASSUME im  PROVE get_word_val(cpos) = s.valC
    OBVIOUS
  <2>1. cpos \in Int
    OBVIOUS
  <2> HIDE DEF cpos
  <2>2. cpos + 0 = cpos /\ 0 \in 0 .. 3 /\ 1 \in 0 .. 3 /\ 2 \in 0 .. 3 /\ 3 \in 0 .. 3
    BY <2>1
  <2>3. /\ get_byte_val(cpos) = ByteOf(s.valC, 0) /\ get_byte_val(cpos + 1) = ByteOf(s.valC, 1)
        /\ get_byte_val(cpos + 2) = ByteOf(s.valC, 2) /\ get_byte_val(cpos + 3) = ByteOf(s.valC, 3)
    BY <1>5, <2>2
  <2>4. get_word_val(cpos) = Word(s.valC)
    BY <2>3, SMT DEF get_word_val, Word
  <2>5. Word(s.valC) = s.valC
    BY WordIs, SMT DEF Fits
  <2> QED
    BY <2>4, <2>5
<1>9. (IF im THEN get_word_val(cpos) ELSE 0) = s.valC
  BY <1>1, <1>8, Zenon
<1>10. Fetched(a) =
         LET icode == HI4(get_byte_val(a))
             rgs   == IF need_regids(icode) THEN get_byte_val(a + 1) ELSE HPACK(REG_NONE, REG_NONE)
             cp    == IF need_regids(icode) THEN a + 2 ELSE a + 1
         IN  [icode |-> icode, ifun |-> LO4(get_byte_val(a)), rA |-> HI4(rgs), rB |-> LO4(rgs),
              valC |-> IF need_imm(icode) THEN get_word_val(cp) ELSE 0]
  BY DEF Fetched
<1> DEFINE v == IF im THEN get_word_val(cpos) ELSE 0
<1>11. Fetched(a) = [icode |-> ic, ifun |-> s.ifun, rA |-> HI4(regs), rB |-> LO4(regs), valC |-> v]
  BY <1>6, <1>10, Zenon
<1> HIDE DEF v, regs
<1> QED
  BY <1>7, <1>9, <1>11, Zenon DEF v

(* A meaning is the record of its parts.                                   *)
LEMMA MeaningRecord ==
  ASSUME NEW line
  PROVE  LET m == Meaning(line)
         IN  m = [icode |-> m.icode, ifun |-> m.ifun, rA |-> m.rA, rB |-> m.rB, valC |-> m.valC]
<1>1. PICK a, b, c, d, e : Meaning(line) = [icode |-> a, ifun |-> b, valC |-> c, rA |-> d, rB |-> e]
  BY Zenon DEF Meaning
<1> QED
  BY <1>1

(* The bytes of a line reach to the place behind it.                       *)
LEMMA PlaceBehind ==
  ASSUME Ready, Lines(file), NEW k, k \in 1 .. Len(file), Size(file[k]) > 0
  PROVE  /\ PlaceOf(file)[k] = PlaceOf(file)[k - 1] + Size(file[k]) /\ PlaceOf(file)[k - 1] \in Int
         /\ Size(file[k]) \in Nat /\ file[k] \in SourceLines
<1>1. Len(file) \in Nat /\ file[k] \in SourceLines /\ k - 1 \in 0 .. Len(file) /\ Accepted(file[k])
  BY DEF Lines
<1>2. Name(file[k]) # "none" /\ Name(file[k]) # "pos" /\ Name(file[k]) # "align"
  BY DEF Size
<1>3. Name(file[k]) \in Mnemonics
  BY <1>1, <1>2, NameIs, Zenon
<1>4. Size(file[k]) \in Nat
  BY <1>1, <1>2, <1>3, InstructionGood
<1>5. PlaceOf(file)[k] = After(PlaceOf(file)[k - 1], file[k])
  BY <1>1, PlaceOfIs, Zenon
<1>6. PlaceOf(file)[k - 1] \in Int
  BY <1>1, Zenon DEF Lines, Integral
<1>7. Name(file[k]) \notin {"pos", "align"}
  BY <1>2
<1>8. After(PlaceOf(file)[k - 1], file[k]) = PlaceOf(file)[k - 1] + Size(file[k])
  BY <1>1, <1>6, <1>7, AfterIs, Zenon
<1> QED
  BY <1>1, <1>4, <1>5, <1>6, <1>8, Zenon

(* Numbers and places that have been printed fit in 32 bits.               *)
LEMMA NumberFits ==
  ASSUME Lines(file), Nonneg(file), Near(file, Len(file)), NEW v, ANumber(file, v)
  PROVE  Fits(v)
<1>1. CASE v \in Int32
  BY <1>1, SMT DEF Int32, Fits
<1>2. CASE v \notin Int32
  <2>1. PICK k \in 0 .. Len(file) : v = PlaceOf(file)[k]
    BY <1>2, Zenon DEF ANumber
  <2>2. v \in Int /\ v >= 0
    BY <2>1, PlaceAt, Zenon
  <2>3. v <= Far
    BY <2>1, Zenon DEF Near
  <2> QED
    BY <2>2, <2>3, SMT DEF Far, Fits
<1> QED
  BY <1>1, <1>2, Zenon

(* At the place of a line over which no later one lies step_state reads    *)
(* what it means.                                                          *)
LEMMA LineReads ==
  ASSUME Loading, lineno = Len(yo) + 1, Nonneg(file), NEW k, k \in 1 .. Len(file),
         Size(file[k]) > 0, Name(file[k]) \notin DOMAIN data,
         \A j \in k + 1 .. Len(file) : Size(file[j]) > 0 =>
            (PlaceOf(file)[j - 1] .. PlaceOf(file)[j] - 1) \cap (PlaceOf(file)[k - 1] .. PlaceOf(file)[k] - 1) = {}
  PROVE  Fetched(PlaceOf(file)[k - 1]) = Meaning(file[k])
<1> DEFINE P  == PlaceOf(file)
           n  == Len(file)
           r  == Len(yo)
           a  == P[k - 1]
           z  == Size(file[k])
           s  == Meaning(file[k])
<1>1. /\ Lines(file) /\ Ready /\ yo \in Seq(Output) /\ Kept(yo, memory, lineno - 1)
      /\ Printed(file, Meant, yo, n) /\ Near(file, n)
  BY Zenon DEF Loading
<1>2. r \in Nat /\ lineno - 1 = r /\ n \in Nat /\ DOMAIN file = 1 .. n
  BY <1>1 DEF Lines
<1>3. PICK m \in 1 .. r : PrintedLine(file, Meant, yo, n, k, m)
  BY <1>1, Zenon DEF Printed
<1> DEFINE e == yo[m]
<1>4. /\ e.pos = a /\ Len(e.code) = z
      /\ Encodes(file, Meant[k], e.code) /\ z = ItsSize(Meant[k])
      /\ \A l \in m + 1 .. r :
            Len(yo[l].code) = 0 \/ \E j \in k + 1 .. n : Size(file[j]) > 0 /\ PrintedAt(file, yo[l], j)
  BY <1>3, Zenon DEF PrintedLine, PrintedAt, Tells
<1>5. Meant[k] = s
  BY <1>2, Zenon DEF Meant
<1>6. P[k] = a + z /\ a \in Int /\ z \in Nat
  BY <1>1, PlaceBehind, Zenon
<1>7. Bytes(e) = a .. P[k] - 1
  <2>1. Bytes(e) = a .. a + z - 1
    BY <1>4, Zenon DEF Bytes
  <2> QED
    BY <1>6, <2>1
<1>8. ASSUME NEW l \in m + 1 .. r
      PROVE  Bytes(yo[l]) \cap Bytes(e) = {}
  <2>1. yo[l] \in Output
    BY <1>1, <1>2
  <2>2. CASE Len(yo[l].code) = 0
    <3>1. yo[l].pos \in Int
      BY <2>1 DEF Output
    <3>2. Bytes(yo[l]) = yo[l].pos .. yo[l].pos + 0 - 1
      BY <2>2, Zenon DEF Bytes
    <3>3. Bytes(yo[l]) = {}
      BY <3>1, <3>2
    <3> QED
      BY <3>3
  <2>3. CASE \E j \in k + 1 .. n : Size(file[j]) > 0 /\ PrintedAt(file, yo[l], j)
    <3>1. PICK j \in k + 1 .. n : Size(file[j]) > 0 /\ PrintedAt(file, yo[l], j)
      BY <2>3
    <3>2. j \in 1 .. n
      <4>1. k \in 1 .. n
        OBVIOUS
      <4> HIDE DEF n
      <4> QED
        BY <1>2, <4>1
    <3>3. P[j] = P[j - 1] + Size(file[j]) /\ P[j - 1] \in Int /\ Size(file[j]) \in Nat
      BY <1>1, <3>1, <3>2, PlaceBehind, Zenon
    <3>4. Bytes(yo[l]) = P[j - 1] .. P[j - 1] + Size(file[j]) - 1
      BY <3>1, Zenon DEF Bytes, PrintedAt
    <3>5. Bytes(yo[l]) = P[j - 1] .. P[j] - 1
      <4> DEFINE p == P[j - 1]
                 w == Size(file[j])
      <4>1. P[j] = p + w /\ p \in Int /\ w \in Nat
        BY <3>3
      <4> HIDE DEF p, w, P
      <4>2. p + w - 1 = P[j] - 1
        BY <4>1
      <4> QED
        BY <3>4, <4>2, Zenon DEF p, w
    <3>6. (P[j - 1] .. P[j] - 1) \cap (a .. P[k] - 1) = {}
      BY <3>1, Zenon
    <3> QED
      BY <1>7, <3>5, <3>6, Zenon
  <2> QED
    BY <1>4, <2>2, <2>3, Zenon
<1>9. \A h \in 0 .. z - 1 : get_byte_val(a + h) = e.code[h + 1]
  <2> SUFFICES ASSUME NEW h \in 0 .. z - 1  PROVE get_byte_val(a + h) = e.code[h + 1]
    OBVIOUS
  <2> DEFINE b == a + h
  <2>1. b \in a .. P[k] - 1 /\ b - a + 1 = h + 1
    BY <1>6
  <2> HIDE DEF b
  <2>2. b \in Bytes(e)
    BY <1>7, <2>1, Zenon
  <2>3. \A l \in m + 1 .. r : b \notin Bytes(yo[l])
    BY <1>8, <2>2
  <2>4. Kept(yo, memory, r)
    BY <1>1, <1>2, Zenon
  <2>5. b \in DOMAIN memory /\ memory[b] = e.code[b - e.pos + 1]
    BY <2>2, <2>3, <2>4, Zenon DEF Kept
  <2>6. get_byte_val(b) = e.code[b - a + 1]
    BY <1>4, <2>5, Zenon DEF get_byte_val
  <2> QED
    BY <2>1, <2>6, Zenon DEF b
<1> HIDE DEF P, n, r, a, z, s, e
<1>10. Encodes(file, s, e.code) /\ \A h \in 0 .. ItsSize(s) - 1 : get_byte_val(a + h) = e.code[h + 1]
  BY <1>4, <1>5, <1>9, Zenon
<1>11. need_imm(s.icode) => Fits(s.valC)
  <2> SUFFICES ASSUME need_imm(s.icode)  PROVE Fits(s.valC)
    OBVIOUS
  <2>1. ANumber(file, s.valC)
    BY <1>10, Zenon DEF Encodes
  <2> QED
    BY <1>1, <2>1, NumberFits, Zenon DEF n
<1>12. Fetched(a) = [icode |-> s.icode, ifun |-> s.ifun, rA |-> s.rA, rB |-> s.rB, valC |-> s.valC]
  BY <1>6, <1>10, <1>11, FetchedIs, Zenon
<1>13. s = [icode |-> s.icode, ifun |-> s.ifun, rA |-> s.rA, rB |-> s.rB, valC |-> s.valC]
  BY MeaningRecord, Zenon DEF s
<1>14. Fetched(a) = s
  BY <1>12, <1>13, Zenon
<1> QED
  BY <1>14 DEF a, s, P

-----------------------------------------------------------------------------
(* The invariant of assembler and loader: in the first pass the table and  *)
(* bytepos are right for the lines so far; in the second every line so far *)
(* has an entry that tells what it means; while loading memory holds what  *)
(* the entries so far say, the last one first.                             *)
YasInv ==
    /\ phase = "pass1" /\ ~ hit_error => FirstPass
    /\ phase = "pass2" /\ ~ hit_error => SecondPass
    /\ phase = "load" => Loading
    /\ phase = "loaded" => Loading /\ lineno = Len(yo) + 1

(* It holds at first,                                                      *)
LEMMA InvStarts == YasInit => YasInv
<1> SUFFICES ASSUME YasInit  PROVE YasInv
  OBVIOUS
<1>1. /\ phase = "pass1" /\ file = <<>> /\ tokens = <<>> /\ bytepos = 0 /\ symbol_table = <<>>
      /\ code = [k \in 1 .. 10 |-> 0] /\ yo = <<>>
  BY DEF YasInit
<1>2. Len(file) = 0 /\ file \in Seq(SourceLines) /\ DOMAIN file = {} /\ DOMAIN symbol_table = {}
      /\ symbol_table \in Seq(Symbol)
  BY <1>1
<1>3. code \in Codes
  BY <1>1 DEF Codes
<1>4. PlaceOf(file)[0] = 0
  <2>1. Len(file) \in Nat
    BY <1>2
  <2> QED
    BY <2>1, PlaceOfIs, Zenon
<1>5. \A k \in 0 .. Len(file) : k = 0
  BY <1>2
<1>6. Integral(file)
  BY <1>4, <1>5 DEF Integral
<1>7. \A x : EntriesIn(symbol_table, x) = {} /\ LinesOf(file, x) = {}
  BY <1>2 DEF EntriesIn, LinesOf
<1>8. SymbolsRight(file, symbol_table)
  BY <1>7, Zenon DEF SymbolsRight
<1>9. Ready
  BY <1>2, <1>3, <1>8, Zenon DEF Ready
<1>10. \A k \in 1 .. Len(file) : FALSE
  BY <1>2
<1>11. Lines(file)
  BY <1>2, <1>6, <1>10, Zenon DEF Lines
<1>12. bytepos \in Int /\ bytepos = PlaceOf(file)[Len(file)]
  BY <1>1, <1>2, <1>4
<1>13. FirstPass
  BY <1>1, <1>9, <1>11, <1>12, Zenon DEF FirstPass, Scanning
<1>14. phase # "pass2" /\ phase # "load" /\ phase # "loaded"
  BY <1>1
<1> QED
  BY <1>13, <1>14, Zenon DEF YasInv

(* print_code goes on or ends.                                             *)
LEMMA PrintCodePhase ==
  ASSUME NEW p, NEW c, print_code(p, c)
  PROVE  phase' = phase \/ phase' = "rejected"
BY SMT DEF print_code

(* Lines leave the phase or end, and an error stays.                       *)
LEMMA LinePhase ==
  ASSUME Line
  PROVE  /\ phase \in {"pass1", "pass2"}
         /\ phase' = phase \/ phase' = "rejected" \/ phase' = "undefined"
         /\ ~ hit_error' => ~ hit_error
<1>1. PICK line \in Candidates :
        LET bad == line # <<>> /\ Last(line) = Invalid
            ts  == tokens \o (IF bad THEN Front(line) ELSE line)
        IN  IF Len(ts) > TOK_PER_LINE THEN TooManyTokens
            ELSE IF bad THEN InvalidLine(ts) ELSE finish_line(ts)
  BY Zenon DEF Line
<1>2. phase \in {"pass1", "pass2"}
  <2>1. Candidates # {}
    BY <1>1
  <2> QED
    BY <2>1 DEF Candidates
<1>3. PICK ts : TooManyTokens \/ InvalidLine(ts) \/ finish_line(ts)
  BY <1>1, Zenon
<1>4. \/ TooManyTokens \/ InvalidLine(ts) \/ ErroneousLine
      \/ EmptyLine(ts) \/ MissingColon(ts) \/ LabelLine(ts)
      \/ BadLine(ts) \/ DirectiveLine(ts) \/ InstructionLine(ts)
  BY <1>3, Zenon DEF finish_line
<1> SUFFICES /\ phase' = phase \/ phase' = "rejected" \/ phase' = "undefined"
             /\ ~ hit_error' => ~ hit_error
  BY <1>2, Zenon
<1>5. CASE TooManyTokens
  BY <1>5 DEF TooManyTokens
<1>6. CASE InvalidLine(ts) \/ MissingColon(ts) \/ BadLine(ts)
  <2>1. hit_error' = TRUE /\ phase' = phase
    BY <1>6 DEF InvalidLine, MissingColon, BadLine, fail
  <2> QED
    BY <2>1
<1>7. CASE ErroneousLine \/ EmptyLine(ts)
  BY <1>7 DEF ErroneousLine, EmptyLine
<1>8. CASE LabelLine(ts)
  <2>1. print_code(bytepos, <<>>) /\ hit_error' = hit_error
    BY <1>8 DEF LabelLine
  <2> QED
    BY <2>1, PrintCodePhase, Zenon
<1>9. CASE DirectiveLine(ts)
  <2>1. print_code(bytepos', <<>>) /\ hit_error' = hit_error
    BY <1>9 DEF DirectiveLine
  <2> QED
    BY <2>1, PrintCodePhase, Zenon
<1>10. CASE InstructionLine(ts)
  <2> DEFINE instr == instruction_set(ts[BodyAt(ts)][2])
             e     == Encoded(ts, BodyAt(ts) + 1, instr)
  <2>1. \/ phase' = phase /\ hit_error' = hit_error
        \/ /\ hit_error' = (hit_error \/ e.s.failed)
           /\ IF e.printed THEN print_code(bytepos, SubSeq(e.s.code, 1, instr.bytes))
              ELSE phase' = phase
    BY <1>10 DEF InstructionLine
  <2> HIDE DEF e, instr
  <2>2. phase' = phase \/ phase' = "rejected"
    BY <2>1, PrintCodePhase, Zenon
  <2>3. ~ hit_error' => ~ hit_error
    BY <2>1
  <2> QED
    BY <2>2, <2>3, Zenon
<1> QED
  BY <1>4, <1>5, <1>6, <1>7, <1>8, <1>9, <1>10, Zenon

(* The second pass begins at the first line with nothing printed.          *)
LEMMA FirstEnds ==
  ASSUME FirstPass, EndPass1
  PROVE  SecondPass'
<1>1. /\ Lines(file) /\ Ready /\ tokens = <<>> /\ yo = <<>>
  BY Zenon DEF FirstPass, Scanning
<1>2. /\ file' = file /\ tokens' = tokens /\ symbol_table' = symbol_table /\ code' = code /\ yo' = yo
      /\ lineno' = 1 /\ bytepos' = 0
  BY DEF EndPass1
<1>3. Ready'
  BY <1>1, <1>2 DEF Ready
<1>4. bytepos' \in Int
  BY <1>2
<1>5. Scanning'
  BY <1>1, <1>2, <1>3, <1>4, Zenon DEF Scanning
<1>6. Len(file) \in Nat /\ lineno' \in 1 .. Len(file') + 1 /\ lineno' - 1 = 0
  BY <1>1, <1>2 DEF Lines
<1>7. PlaceOf(file)[0] = 0
  BY <1>6, PlaceOfIs, Zenon
<1>8. Near(file', lineno' - 1)
  <2>1. 0 <= Far
    BY SMT DEF Far
  <2>2. \A k \in 0 .. 0 : k = 0
    OBVIOUS
  <2>3. \A k \in 0 .. 0 : PlaceOf(file)[k] <= Far
    BY <1>7, <2>1, <2>2, Zenon
  <2>4. Near(file, 0)
    BY <2>3, Zenon DEF Near
  <2> QED
    BY <1>2, <1>6, <2>4, Zenon
<1>9. \A mean : Printed(file', mean, yo', lineno' - 1)
  <2>1. \A k \in 1 .. 0 : FALSE
    OBVIOUS
  <2>2. \A mean, y : Printed(file, mean, y, 0)
    BY <2>1, Zenon DEF Printed
  <2> QED
    BY <1>2, <1>6, <2>2, Zenon
<1>10. yo' \in Seq(Output)
  BY <1>1, <1>2
<1>11. bytepos' = PlaceOf(file')[lineno' - 1]
  BY <1>2, <1>6, <1>7
<1> QED
  BY <1>5, <1>6, <1>8, <1>9, <1>10, <1>11, Zenon DEF SecondPass

(* Loading begins with every line printed.                                 *)
LEMMA SecondEnds ==
  ASSUME SecondPass, EndPass2
  PROVE  Loading'
<1>1. /\ Lines(file) /\ Ready /\ yo \in Seq(Output) /\ lineno \in 1 .. Len(file) + 1
      /\ Nonneg(file) => Printed(file, Meant, yo, lineno - 1) /\ Near(file, lineno - 1)
  BY Zenon DEF SecondPass, Scanning
<1>2. /\ file' = file /\ symbol_table' = symbol_table /\ code' = code /\ yo' = yo
      /\ lineno' = 1 /\ lineno > Len(file)
  BY DEF EndPass2
<1>3. Ready'
  BY <1>1, <1>2 DEF Ready
<1>4. Len(file) \in Nat /\ Len(yo) \in Nat /\ lineno - 1 = Len(file) /\ lineno' \in 1 .. Len(yo') + 1 /\ lineno' - 1 = 0
  <2>1. Len(file) \in Nat /\ Len(yo) \in Nat
    BY <1>1 DEF Lines
  <2> QED
    BY <1>1, <1>2, <2>1
<1>5. Kept(yo', memory', lineno' - 1)
  <2>1. \A k \in 1 .. 0 : FALSE
    OBVIOUS
  <2>2. \A y, mem : Kept(y, mem, 0)
    BY <2>1, Zenon DEF Kept
  <2> QED
    BY <1>4, <2>2, Zenon
<1>6. Meant' = Meant
  BY <1>2, Unmoved, Zenon
<1>7. Nonneg(file') => Printed(file', Meant', yo', Len(file')) /\ Near(file', Len(file'))
  BY <1>1, <1>2, <1>4, <1>6, Zenon
<1> QED
  BY <1>1, <1>2, <1>3, <1>4, <1>5, <1>7, Zenon DEF Loading

(* it stays,                                                               *)
LEMMA InvStays ==
  ASSUME YasInv, [YasNext]_yasVars
  PROVE  YasInv'
<1>1. CASE Line
  <2>1. /\ phase \in {"pass1", "pass2"}
        /\ phase' = phase \/ phase' = "rejected" \/ phase' = "undefined"
        /\ ~ hit_error' => ~ hit_error
    BY <1>1, LinePhase, Zenon
  <2>2. phase' # "load" /\ phase' # "loaded"
    BY <2>1
  <2>3. ASSUME phase' = "pass1", ~ hit_error'  PROVE FirstPass'
    <3>1. phase = "pass1" /\ ~ hit_error
      BY <2>1, <2>3
    <3>2. FirstPass
      BY <3>1, Zenon DEF YasInv
    <3> QED
      BY <1>1, <2>3, <3>1, <3>2, FirstStep, Zenon
  <2>4. ASSUME phase' = "pass2", ~ hit_error'  PROVE SecondPass'
    <3>1. phase = "pass2" /\ ~ hit_error
      BY <2>1, <2>4
    <3>2. SecondPass
      BY <3>1, Zenon DEF YasInv
    <3> QED
      BY <1>1, <2>4, <3>1, <3>2, SecondStep, Zenon
  <2> QED
    BY <2>2, <2>3, <2>4, Zenon DEF YasInv
<1>2. CASE EndPass1
  <2>1. /\ phase = "pass1" /\ hit_error' = hit_error
        /\ phase' = IF hit_error \/ tokens # <<>> THEN "rejected" ELSE "pass2"
    BY <1>2 DEF EndPass1
  <2>2. phase' # "pass1" /\ phase' # "load" /\ phase' # "loaded"
    BY <2>1
  <2>3. ASSUME phase' = "pass2"  PROVE SecondPass'
    <3>1. ~ hit_error
      BY <2>1, <2>3
    <3>2. FirstPass
      BY <2>1, <3>1, Zenon DEF YasInv
    <3> QED
      BY <1>2, <3>2, FirstEnds, Zenon
  <2> QED
    BY <2>2, <2>3, Zenon DEF YasInv
<1>3. CASE EndPass2
  <2>1. phase = "pass2" /\ phase' = IF hit_error THEN "rejected" ELSE "load"
    BY <1>3 DEF EndPass2
  <2>2. phase' # "pass1" /\ phase' # "pass2" /\ phase' # "loaded"
    BY <2>1
  <2>3. ASSUME phase' = "load"  PROVE Loading'
    <3>1. ~ hit_error
      BY <2>1, <2>3
    <3>2. SecondPass
      BY <2>1, <3>1, Zenon DEF YasInv
    <3> QED
      BY <1>3, <3>2, SecondEnds, Zenon
  <2> QED
    BY <2>2, <2>3, Zenon DEF YasInv
<1>4. CASE load_mem
  <2>1. phase = "load" /\ phase' \in {"load", "loaded", "refused"}
    BY <1>4 DEF load_mem
  <2>2. Loading
    BY <2>1, Zenon DEF YasInv
  <2>3. phase' # "pass1" /\ phase' # "pass2" /\ (phase' = "load" \/ phase' = "loaded" => phase' # "refused")
    BY <2>1
  <2>4. phase' # "refused" => Loading' /\ (phase' = "loaded" => lineno' = Len(yo') + 1)
    BY <1>4, <2>2, LoadStep, Zenon
  <2> QED
    BY <2>3, <2>4, Zenon DEF YasInv
<1>5. CASE UNCHANGED yasVars
  <2>1. /\ phase' = phase /\ file' = file /\ lineno' = lineno /\ tokens' = tokens /\ hit_error' = hit_error
        /\ bytepos' = bytepos /\ symbol_table' = symbol_table /\ code' = code /\ yo' = yo /\ memory' = memory
    BY <1>5 DEF yasVars
  <2>2. Meant' = Meant
    BY <2>1, Unmoved, Zenon
  <2>3. Scanning' = Scanning /\ Ready' = Ready
    BY <2>1 DEF Scanning, Ready
  <2>4. FirstPass => FirstPass'
    BY <2>1, <2>3 DEF FirstPass
  <2>5. SecondPass => SecondPass'
    BY <2>1, <2>2, <2>3 DEF SecondPass
  <2>6. Loading => Loading'
    BY <2>1, <2>2, <2>3 DEF Loading
  <2> QED
    BY <2>1, <2>4, <2>5, <2>6 DEF YasInv
<1> QED
  BY <1>1, <1>2, <1>3, <1>4, <1>5, Zenon DEF YasNext

(* and it says enough.                                                     *)
LEMMA InvSuffices == YasInv => LoadedAsWritten
<1> SUFFICES ASSUME YasInv, phase = "loaded", NEW k \in DOMAIN file,
                    Size(file[k]) > 0, Name(file[k]) \notin DOMAIN data,
                    \A j \in DOMAIN Place : Place[j] >= 0,
                    \A j \in k + 1 .. Len(file) : Size(file[j]) > 0 =>
                       (Place[j - 1] .. Place[j] - 1) \cap (Place[k - 1] .. Place[k] - 1) = {}
             PROVE  Fetched(Place[k - 1]) = Meaning(file[k])
  BY Zenon DEF LoadedAsWritten
<1>1. Loading /\ lineno = Len(yo) + 1
  BY Zenon DEF YasInv
<1>2. Place = PlaceOf(file)
  BY PlaceIs, Zenon
<1>3. Len(file) \in Nat /\ DOMAIN file = 1 .. Len(file)
  BY <1>1 DEF Loading, Lines
<1>4. DOMAIN PlaceOf(file) = 0 .. Len(file)
  BY <1>3, PlaceOfIs, Zenon
<1>5. Nonneg(file)
  BY <1>2, <1>4, Zenon DEF Nonneg
<1>6. k \in 1 .. Len(file)
  BY <1>3
<1>7. \A j \in k + 1 .. Len(file) : Size(file[j]) > 0 =>
         (PlaceOf(file)[j - 1] .. PlaceOf(file)[j] - 1) \cap (PlaceOf(file)[k - 1] .. PlaceOf(file)[k] - 1) = {}
  BY <1>2, Zenon
<1>8. Fetched(PlaceOf(file)[k - 1]) = Meaning(file[k])
  BY <1>1, <1>5, <1>6, <1>7, LineReads, Zenon
<1> QED
  BY <1>2, <1>8, Zenon

(* Assembler and loader, for every set of lines and every file in which no *)
(* line lies below address 0: step_state reads at the place of a line the  *)
(* instruction that the line names, unless later lines lie over it.        *)
THEOREM AssembledAsWritten == YasSpec => []LoadedAsWritten
<1>1. YasInit => YasInv
  BY InvStarts
<1>2. YasInv /\ [YasNext]_yasVars => YasInv'
  BY InvStays
<1>3. YasInv => LoadedAsWritten
  BY InvSuffices
<1> QED
  BY <1>1, <1>2, <1>3, PTL DEF YasSpec

----------------------------------------------------------------------------
(* The bit puzzles on ints: bits.c against tests.c for all arguments.      *)

(* The powers of 2 that fit a word, with the bounds that the proofs need.  *)
LEMMA PowerIs ==
  ASSUME NEW k \in 0 .. 30
  PROVE  /\ 2 ^ k \in Nat \ {0} /\ 2 ^ (k + 1) = 2 * 2 ^ k
         /\ k >= 6 => 2 ^ k >= 64
<1>1. CASE k = 0
  BY <1>1
<1>2. CASE k = 1
  BY <1>2
<1>3. CASE k = 2
  BY <1>3
<1>4. CASE k = 3
  BY <1>4
<1>5. CASE k = 4
  BY <1>5
<1>6. CASE k = 5
  BY <1>6
<1>7. CASE k = 6
  BY <1>7
<1>8. CASE k = 7
  BY <1>8
<1>9. CASE k = 8
  BY <1>9
<1>10. CASE k = 9
  BY <1>10
<1>11. CASE k = 10
  BY <1>11
<1>12. CASE k = 11
  BY <1>12
<1>13. CASE k = 12
  BY <1>13
<1>14. CASE k = 13
  BY <1>14
<1>15. CASE k = 14
  BY <1>15
<1>16. CASE k = 15
  BY <1>16
<1>17. CASE k = 16
  BY <1>17
<1>18. CASE k = 17
  BY <1>18
<1>19. CASE k = 18
  BY <1>19
<1>20. CASE k = 19
  BY <1>20
<1>21. CASE k = 20
  BY <1>21
<1>22. CASE k = 21
  BY <1>22
<1>23. CASE k = 22
  BY <1>23
<1>24. CASE k = 23
  BY <1>24
<1>25. CASE k = 24
  BY <1>25
<1>26. CASE k = 25
  BY <1>26
<1>27. CASE k = 26
  BY <1>27
<1>28. CASE k = 27
  BY <1>28
<1>29. CASE k = 28
  BY <1>29
<1>30. CASE k = 29
  BY <1>30
<1>31. CASE k = 30
  BY <1>31
<1> QED
  BY <1>1, <1>2, <1>3, <1>4, <1>5, <1>6, <1>7, <1>8, <1>9, <1>10, <1>11, <1>12, <1>13, <1>14, <1>15, <1>16, <1>17, <1>18, <1>19, <1>20, <1>21, <1>22, <1>23, <1>24, <1>25, <1>26, <1>27, <1>28, <1>29, <1>30, <1>31

(* x + 1 flips a bit if all the bits below it are one.                     *)
LEMMA PlusOneIs ==
  ASSUME NEW x \in int, NEW k \in Bit
  PROVE  k \in Plus(x, ONE) <=> ~ (k \in x <=> 0 .. k - 1 \subseteq x)
<1>1. CASE k = 0
  BY <1>1 DEF Plus, Carry, ONE, int, Bit
<1>2. CASE k # 0
  <2>1. Carry(x, ONE, k) <=> 0 .. k - 1 \subseteq x
    <3>1. ASSUME NEW j \in 0 .. k - 1, j \in x \cap ONE, j + 1 .. k - 1 \subseteq x \cup ONE
          PROVE  0 .. k - 1 \subseteq x
      BY <3>1 DEF ONE, Bit
    <3>2. ASSUME 0 .. k - 1 \subseteq x PROVE Carry(x, ONE, k)
      <4>1. 0 \in 0 .. k - 1 /\ 0 \in x \cap ONE /\ 0 + 1 .. k - 1 \subseteq x \cup ONE
        BY <1>2, <3>2 DEF ONE, Bit
      <4> QED
        BY <4>1, Zenon DEF Carry
    <3> QED
      BY <3>1, <3>2, Zenon DEF Carry
  <2>2. k \notin ONE
    BY <1>2 DEF ONE
  <2> QED
    BY <2>1, <2>2, Zenon DEF Plus
<1> QED
  BY <1>1, <1>2

(* What the C operators return is an int again.                            *)
LEMMA IntOps ==
  \A x, y \in int : \A n \in Nat :
                       /\ Not(x) \in int /\ Lnot(x) \in int /\ Xor(x, y) \in int /\ Plus(x, y) \in int
                       /\ Shl(x, n) \in int /\ Sar(x, n) \in int
                       /\ x \cap y \in int /\ x \cup y \in int
BY DEF int, Not, Lnot, Xor, Plus, Shl, Sar, ZERO, ONE, Bit

(* -x keeps the bits up to the lowest one, and flips the others.           *)
LEMMA NegateIs ==
  ASSUME NEW x \in int, NEW k \in Bit
  PROVE  k \in negate(x) <=> (k \in x <=> x \cap 0 .. k - 1 = {})
<1>1. Not(x) \in int /\ (k \in Not(x) <=> k \notin x)
  BY IntOps DEF Not
<1>2. 0 .. k - 1 \subseteq Not(x) <=> x \cap 0 .. k - 1 = {}
  BY DEF Not, Bit, int
<1>3. k \in Plus(Not(x), ONE) <=> ~ (k \in Not(x) <=> 0 .. k - 1 \subseteq Not(x))
  BY <1>1, PlusOneIs
<1> QED
  BY <1>1, <1>2, <1>3, Zenon DEF negate

(* bitXor is right for all pairs of ints.                                  *)
LEMMA BitXorRight == \A x, y \in int : bitXor(x, y) = test_bitXor(x, y)
BY DEF bitXor, test_bitXor, Not, int

(* tmin is right.                                                          *)
LEMMA TminRight == tmin = test_tmin
BY DEF tmin, test_tmin, Shl, ONE, Bit

(* !(x ^ y) is 1 if x is y, and 0 otherwise.                               *)
LEMMA LnotXor == \A x, y \in int : Lnot(Xor(x, y)) = Truth(x = y)
<1> TAKE x, y \in int
<1>1. Xor(x, y) = {} <=> x = y
  BY DEF Xor
<1> QED
  BY <1>1, Zenon DEF Lnot, Truth, ZERO, ONE

(* isTmax is right for all ints: -1, of which x + 1 = ~x holds too, is     *)
(* told apart.                                                             *)
LEMMA IsTmaxRight == \A x \in int : isTmax(x) = test_isTmax(x)
<1> TAKE x \in int
<1>1. Not(Plus(x, ONE)) \in int /\ Not(x) \in int /\ ZERO \in int
  <2>1. ONE \in int /\ ZERO \in int
    BY DEF ONE, ZERO, int, Bit
  <2>2. Plus(x, ONE) \in int
    BY <2>1, IntOps
  <2> QED
    BY <2>1, <2>2, IntOps
<1>2. isTmax(x) = Truth(x = Not(Plus(x, ONE))) \cap Lnot(Truth(Not(x) = ZERO))
  <2>1. Lnot(Xor(x, Not(Plus(x, ONE)))) = Truth(x = Not(Plus(x, ONE)))
    BY <1>1, LnotXor, Zenon
  <2>2. Lnot(Xor(Not(x), ZERO)) = Truth(Not(x) = ZERO)
    BY <1>1, LnotXor, Zenon
  <2> QED
    BY <2>1, <2>2, Zenon DEF isTmax
<1>3. x = Not(Plus(x, ONE)) <=> \A k \in Bit : 0 .. k - 1 \subseteq x
  <2>1. \A k \in Bit : (k \in x <=> k \in Not(Plus(x, ONE))) <=> 0 .. k - 1 \subseteq x
    <3> TAKE k \in Bit
    <3>1. k \in Not(Plus(x, ONE)) <=> k \notin Plus(x, ONE)
      BY DEF Not
    <3> QED
      BY <3>1, PlusOneIs
  <2>2. x = Not(Plus(x, ONE)) <=> \A k \in Bit : (k \in x <=> k \in Not(Plus(x, ONE)))
    BY <1>1 DEF int
  <2> QED
    BY <2>1, <2>2
<1>4. (\A k \in Bit : 0 .. k - 1 \subseteq x) <=> 0 .. 30 \subseteq x
  BY DEF Bit
<1>5. Not(x) = ZERO <=> x = Bit
  BY DEF Not, ZERO, int
<1>6. 0 .. 30 \subseteq x /\ x # Bit <=> x = 0 .. 30
  <2>1. Bit = 0 .. 30 \cup {31} /\ 31 \notin 0 .. 30
    BY DEF Bit
  <2> QED
    BY <2>1 DEF int
<1> QED
  BY <1>2, <1>3, <1>4, <1>5, <1>6 DEF test_isTmax, Truth, Lnot, ZERO, ONE

(* The bits of a number below 64.                                          *)
LEMMA NumBits ==
  ASSUME NEW n \in 0 .. 63
  PROVE  /\ Num(n) \subseteq 0 .. 5
         /\ 0 \in Num(n) <=> n % 2 = 1
         /\ 1 \in Num(n) <=> (n \div 2) % 2 = 1
         /\ 2 \in Num(n) <=> (n \div 4) % 2 = 1
         /\ 3 \in Num(n) <=> (n \div 8) % 2 = 1
         /\ 4 \in Num(n) <=> (n \div 16) % 2 = 1
         /\ 5 \in Num(n) <=> (n \div 32) % 2 = 1
<1>1. ASSUME NEW k \in 0 .. 30, k >= 6 PROVE k \notin Num(n)
  <2>1. PICK m \in Nat : m = 2 ^ k /\ m >= 64
    BY <1>1, PowerIs
  <2>2. n \div m = 0
    BY <2>1
  <2>3. (n \div 2 ^ k) % 2 # 1
    BY <2>1, <2>2
  <2> QED
    BY <2>3 DEF Num
<1>2. Num(n) \subseteq 0 .. 5
  <2>1. Num(n) \subseteq 0 .. 30
    BY DEF Num
  <2>2. \A k \in 0 .. 30 : k \in 0 .. 5 \/ k >= 6
    OBVIOUS
    <2> QED
    BY <1>1, <2>1, <2>2
<1>3. 2 ^ 0 = 1 /\ 2 ^ 1 = 2 /\ 2 ^ 2 = 4 /\ 2 ^ 3 = 8 /\ 2 ^ 4 = 16 /\ 2 ^ 5 = 32
  OBVIOUS
<1>4. \A k \in 0 .. 30 : k \in Num(n) <=> (n \div 2 ^ k) % 2 = 1
  BY DEF Num
<1>5. 0 \in 0 .. 30 /\ 1 \in 0 .. 30 /\ 2 \in 0 .. 30 /\ 3 \in 0 .. 30 /\ 4 \in 0 .. 30 /\ 5 \in 0 .. 30
  OBVIOUS
<1>6. n \div 1 = n
  OBVIOUS
<1> QED
  BY <1>2, <1>3, <1>4, <1>5, <1>6, Zenon

(* The constants of the puzzles.                                           *)
LEMMA Numbers ==
  /\ Num(3) = {0, 1} /\ Num(9) = {0, 3} /\ Num(10) = {1, 3} /\ Num(15) = 0 .. 3
  /\ Num(48) = {4, 5} /\ Num(57) = {0, 3, 4, 5}
<1>1. \A n \in 0 .. 63 : Num(n) \subseteq {0, 1, 2, 3, 4, 5}
  BY NumBits
<1>2. Num(3) = {0, 1}
  BY <1>1, NumBits
<1>3. Num(9) = {0, 3}
  BY <1>1, NumBits
<1>4. Num(10) = {1, 3}
  BY <1>1, NumBits
<1>5. Num(15) = 0 .. 3
  BY <1>1, NumBits
<1>6. Num(48) = {4, 5}
  BY <1>1, NumBits
<1>7. Num(57) = {0, 3, 4, 5}
  BY <1>1, NumBits
<1> QED
  BY <1>2, <1>3, <1>4, <1>5, <1>6, <1>7

(* allOddBits is right for all ints: the mask it builds is 0xAAAAAAAA.     *)
LEMMA AllOddBitsRight == \A x \in int : allOddBits(x) = test_allOddBits(x)
<1> TAKE x \in int
<1> DEFINE Odd == {k \in Bit : k % 2 = 1}
           m4   == Num(10) \cup Shl(Num(10), 4)
           m8   == m4 \cup Shl(m4, 8)
           mask == m8 \cup Shl(m8, 16)
<1>1. m4 = {1, 3, 5, 7}
  BY Numbers DEF Shl, Bit
<1> HIDE DEF m4
<1>2. m8 = {1, 3, 5, 7, 9, 11, 13, 15}
  BY <1>1 DEF Shl, Bit
<1> HIDE DEF m8
<1>3. mask = {1, 3, 5, 7, 9, 11, 13, 15, 17, 19, 21, 23, 25, 27, 29, 31}
  BY <1>2 DEF Shl, Bit
<1> HIDE DEF mask
<1>4. mask = Odd
  BY <1>3 DEF Bit
<1>5. x \cap mask \in int /\ mask \in int
  BY <1>4 DEF int
<1>6. Lnot(Xor(x \cap mask, mask)) = Truth(x \cap mask = mask)
  BY <1>5, LnotXor, Zenon
<1>7. x \cap mask = mask <=> \A k \in Bit : k % 2 = 1 => k \in x
  BY <1>4
<1>8. allOddBits(x) = Lnot(Xor(x \cap mask, mask))
  BY Zenon DEF allOddBits, mask, m8, m4
<1> QED
  BY <1>6, <1>7, <1>8, Zenon DEF test_allOddBits, Truth

(* Min of an int other than 0 is its lowest one.                           *)
LEMMA MinOf ==
  ASSUME NEW x \in int, x # ZERO
  PROVE  Min(x) \in x /\ Min(x) \in Bit /\ \A k \in x : Min(x) <= k
<1>1. x \subseteq Nat
  BY DEF int, Bit
<1>2. PICK m \in x : \A k \in x : m <= k
  BY <1>1, MinNat DEF ZERO
<1> QED
  BY <1>1, <1>2 DEF Min, int

(* negate is right for all ints, the least among them.                     *)
LEMMA NegateRight == \A x \in int : negate(x) = test_negate(x)
<1> TAKE x \in int
<1>1. CASE x = ZERO
  <2>1. \A k \in Bit : k \notin negate(x)
    BY <1>1, NegateIs DEF ZERO
  <2>2. negate(x) \subseteq Bit
    BY DEF negate, Plus
  <2> QED
    BY <1>1, <2>1, <2>2 DEF test_negate, ZERO
<1>2. CASE x # ZERO
  <2>1. PICK m : m = Min(x) /\ m \in x /\ m \in Bit /\ \A k \in x : m <= k
    BY <1>2, MinOf
  <2>2. \A k \in Bit : x \cap 0 .. k - 1 = {} <=> k <= m
    BY <2>1 DEF int, Bit
  <2>3. \A k \in Bit : k \in negate(x) <=> (k \in x <=> k <= m)
    BY <2>2, NegateIs
  <2>4. negate(x) \subseteq Bit
    BY DEF negate, Plus
  <2>5. test_negate(x) = {k \in Bit : (k \in x) = (k <= m)}
    BY <1>2, <2>1, Zenon DEF test_negate
  <2> QED
    BY <2>3, <2>4, <2>5
<1> QED
  BY <1>1, <1>2

(* x >> 31 is all ones or all zeros.                                       *)
LEMMA SignIs == \A x \in int : Sar(x, 31) = IF 31 \in x THEN Bit ELSE ZERO
<1> TAKE x \in int
<1>1. \A k \in Bit : k + 31 \in Bit => k = 0
  BY DEF Bit
<1>2. \A k \in Bit : k \in Sar(x, 31) <=> 31 \in x
  BY <1>1 DEF Sar
<1>3. Sar(x, 31) \subseteq Bit
  BY DEF Sar
<1> QED
  BY <1>2, <1>3 DEF ZERO

(* !(x >> 31) tells whether x is at least 0.                               *)
LEMMA NonNegative == \A x \in int : Lnot(Sar(x, 31)) = Truth(31 \notin x)
<1> TAKE x \in int
<1>1. Bit # ZERO
  BY DEF Bit, ZERO
<1> QED
  BY <1>1, SignIs, Zenon DEF Lnot, Truth

(* logicalNeg is right for all ints: only 0 and -0 are both non-negative.  *)
LEMMA LogicalNegRight == \A x \in int : logicalNeg(x) = test_logicalNeg(x)
<1> TAKE x \in int
<1> DEFINE y == x \cup negate(x)
<1>1. y \in int
  BY DEF negate, Plus, int
<1>2. 31 \in Bit /\ 31 - 1 = 30
  BY DEF Bit
<1>3. 31 \in negate(x) <=> (31 \in x <=> x \cap 0 .. 30 = {})
  BY <1>2, NegateIs
<1>4. 31 \notin x => x \cap 0 .. 30 = x
  <2>1. \A k \in x : k \in Bit
    BY DEF int
  <2>2. \A k \in Bit : k = 31 \/ k \in 0 .. 30
    BY DEF Bit
  <2> QED
    BY <2>1, <2>2
<1>5. 31 \in y <=> x # ZERO
  BY <1>3, <1>4 DEF ZERO
<1> HIDE DEF y
<1>6. Sar(y, 31) = IF x # ZERO THEN Bit ELSE ZERO
  BY <1>1, <1>5, SignIs, Zenon
<1>7. logicalNeg(x) = Not(Sar(y, 31)) \cap ONE
  BY Zenon DEF logicalNeg, y, negate
<1> QED
  BY <1>6, <1>7 DEF test_logicalNeg, Truth, Not, Bit, ZERO, ONE

(* conditional is right for all ints: the mask is all ones or all zeros.   *)
LEMMA ConditionalRight == \A x, y, z \in int : conditional(x, y, z) = test_conditional(x, y, z)
<1> TAKE x, y, z \in int
<1> DEFINE t == Lnot(Lnot(Xor(x, ZERO)))
           mask == Sar(Shl(t, 31), 31)
<1>1. ZERO \in int
  BY DEF ZERO, int
<1>2. t = Truth(x # ZERO)
  <2>1. Lnot(Xor(x, ZERO)) = Truth(x = ZERO)
    BY <1>1, LnotXor, Zenon
  <2> QED
    BY <2>1 DEF Lnot, Truth, ZERO, ONE
<1> HIDE DEF t
<1>3. Shl(t, 31) \in int /\ (31 \in Shl(t, 31) <=> x # ZERO)
  BY <1>2 DEF Shl, int, Truth, ZERO, ONE, Bit
<1>4. mask = IF x # ZERO THEN Bit ELSE ZERO
  BY <1>3, SignIs
<1>5. conditional(x, y, z) = (mask \cap y) \cup (Not(mask) \cap z)
  BY Zenon DEF conditional, mask, t
<1> HIDE DEF mask
<1> QED
  BY <1>4, <1>5 DEF test_conditional, Not, int, ZERO

(* Max of an int other than 0 is its highest one.                          *)
LEMMA MaxOf ==
  ASSUME NEW x \in int, x # ZERO
  PROVE  Max(x) \in x /\ Max(x) \in Bit /\ \A k \in x : k <= Max(x)
<1> DEFINE r == {31 - k : k \in x}
<1>1. r \subseteq Nat /\ r # {}
  BY DEF int, Bit, ZERO
<1>2. PICK m \in r : \A k \in r : m <= k
  <2> HIDE DEF r
  <2> QED
    BY <1>1, MinNat
<1>3. PICK p \in x : m = 31 - p
  BY <1>2
<1>4. ASSUME NEW k \in x PROVE k <= p
  <2>1. 31 - k \in r
    OBVIOUS
  <2>2. m <= 31 - k
    BY <1>2, <2>1
  <2> QED
    BY <1>3, <2>2 DEF int, Bit
<1> HIDE DEF r
<1>5. Max(x) \in x /\ \A k \in x : k <= Max(x)
  BY <1>4, Zenon DEF Max
<1> QED
  BY <1>5 DEF int

(* The highest bit in which x and y differ.                                *)
Top(m, x, y) ==
    /\ m \in Bit /\ ~ (m \in x <=> m \in y)
    /\ \A k \in Bit : k > m => (k \in x <=> k \in y)

(* x <= y by the sign and by the highest bit in which they differ.         *)
LEMMA AtMostIs ==
  ASSUME NEW x \in int, NEW y \in int, x # y
  PROVE  \E m : /\ Top(m, x, y) /\ m = Max(Xor(x, y))
                /\ AtMost(x, y) <=> 31 \in x \ y \/ ((31 \in x <=> 31 \in y) /\ m \in y)
<1>1. Xor(x, y) \in int /\ Xor(x, y) # ZERO
  BY DEF Xor, ZERO, int
<1>2. PICK m \in Bit : m = Max(Xor(x, y)) /\ m \in Xor(x, y) /\ \A k \in Xor(x, y) : k <= m
  BY <1>1, MaxOf
<1>3. ASSUME NEW k \in Bit, k > m PROVE k \notin Xor(x, y)
  BY <1>2, <1>3 DEF Bit
<1>4. Top(m, x, y)
  BY <1>2, <1>3 DEF Xor, Top
<1>5. AtMost(x, y) <=> 31 \in x \ y \/ ((31 \in x <=> 31 \in y) /\ m \in y)
  BY <1>2, Zenon DEF AtMost
<1> QED
  BY <1>2, <1>4, <1>5

(* isAsciiDigit is right for all ints.                                     *)
LEMMA IsAsciiDigitRight == \A x \in int : isAsciiDigit(x) = test_isAsciiDigit(x)
<1> TAKE x \in int
<1> DEFINE low   == x \cap 0 .. 3
           digit == {4, 5} \subseteq x /\ x \cap 6 .. 31 = {} /\ (3 \notin x \/ (1 \notin x /\ 2 \notin x))
<1>1. isAsciiDigit(x) = Truth(digit)
  <2>1. {0, 1} \in int /\ {0, 3} \in int /\ Sar(x, 4) \in int /\ low \in int /\ ZERO \in int
    BY DEF int, Bit, Sar, ZERO
  <2>2. {0, 3} \cup low \in int /\ Sar(low, 3) \in int
    BY <2>1 DEF int, Sar
  <2>10. \A k : k \in low <=> k \in x /\ k \in 0 .. 3
    OBVIOUS
  <2> HIDE DEF low
  <2>3. Lnot(Xor({0, 1}, Sar(x, 4))) = Truth({0, 1} = Sar(x, 4))
    BY <2>1, LnotXor, Zenon
  <2>4. Lnot(Xor({0, 3} \cup low, {0, 3})) = Truth({0, 3} \cup low = {0, 3})
    BY <2>1, <2>2, LnotXor, Zenon
  <2>5. Lnot(Xor(Sar(low, 3), ZERO)) = Truth(Sar(low, 3) = ZERO)
    BY <2>1, <2>2, LnotXor, Zenon
  <2>6. {0, 1} = Sar(x, 4) <=> {4, 5} \subseteq x /\ x \cap 6 .. 31 = {}
    <3>1. \A k \in Bit : k \in Sar(x, 4) <=> IF k <= 27 THEN k + 4 \in x ELSE 31 \in x
      BY DEF Sar, Bit
    <3>2. {0, 1} = Sar(x, 4) <=> \A k \in Bit : k \in Sar(x, 4) <=> k \in {0, 1}
      BY <2>1 DEF int, Bit
    <3>3. ASSUME {0, 1} = Sar(x, 4) PROVE {4, 5} \subseteq x /\ x \cap 6 .. 31 = {}
      <4>1. 0 + 4 \in x /\ 1 + 4 \in x
        BY <3>1, <3>3 DEF Bit
      <4>2. ASSUME NEW k \in 6 .. 31 PROVE k \notin x
        <5>1. k - 4 \in Bit /\ k - 4 <= 27 /\ k - 4 \notin {0, 1} /\ (k - 4) + 4 = k
          BY DEF Bit
        <5> QED
          BY <3>1, <3>3, <5>1
      <4> QED
        BY <4>1, <4>2
    <3>4. ASSUME {4, 5} \subseteq x, x \cap 6 .. 31 = {} PROVE {0, 1} = Sar(x, 4)
      <4>1. \A k \in Bit : k \in Sar(x, 4) <=> k \in {0, 1}
        BY <3>1, <3>4 DEF Bit
      <4> QED
        BY <3>2, <4>1
    <3> QED
      BY <3>3, <3>4
  <2>7. {0, 3} \cup low = {0, 3} <=> 1 \notin x /\ 2 \notin x
    <3>1. 0 .. 3 = {0, 1, 2, 3}
      OBVIOUS
    <3> QED
      BY <2>10, <3>1
  <2>8. Sar(low, 3) = ZERO <=> 3 \notin x
    <3>1. \A k \in Bit : k \in Sar(low, 3) <=> k = 0 /\ 3 \in x
      BY <2>10 DEF Sar, Bit
    <3> QED
      BY <2>2, <3>1 DEF int, ZERO, Bit
  <2>9. isAsciiDigit(x) = Lnot(Xor({0, 1}, Sar(x, 4)))
                          \cap (Lnot(Xor({0, 3} \cup low, {0, 3})) \cup Lnot(Xor(Sar(low, 3), ZERO)))
    BY Numbers, Zenon DEF isAsciiDigit, low
  <2> QED
    BY <2>3, <2>4, <2>5, <2>6, <2>7, <2>8, <2>9 DEF Truth, ZERO, ONE
<1>2. digit <=> AtMost(Num(48), x) /\ AtMost(x, Num(57))
  <2> DEFINE a == {4, 5}
             b == {0, 3, 4, 5}
  <2>1. a \in int /\ b \in int /\ Num(48) = a /\ Num(57) = b
    BY Numbers DEF int, Bit
  <2>2. a = x => digit /\ AtMost(a, x) /\ AtMost(x, b)
    <3>1. a # b
      OBVIOUS
    <3>2. PICK m : Top(m, a, b) /\ (AtMost(a, b) <=> 31 \in a \ b \/ ((31 \in a <=> 31 \in b) /\ m \in b))
      BY <2>1, <3>1, AtMostIs
    <3>3. AtMost(a, b)
      BY <3>2 DEF Top
    <3>4. AtMost(a, a)
      BY DEF AtMost
    <3> QED
      BY <3>3, <3>4
  <2>3. b = x => digit /\ AtMost(a, x) /\ AtMost(x, b)
    <3>1. a # b
      OBVIOUS
    <3>2. PICK m : Top(m, a, b) /\ (AtMost(a, b) <=> 31 \in a \ b \/ ((31 \in a <=> 31 \in b) /\ m \in b))
      BY <2>1, <3>1, AtMostIs
    <3>3. AtMost(a, b)
      BY <3>2 DEF Top
    <3>4. AtMost(b, b)
      BY DEF AtMost
    <3> QED
      BY <3>3, <3>4
  <2>4. ASSUME a # x, b # x PROVE digit <=> AtMost(a, x) /\ AtMost(x, b)
    <3>1. PICK m : Top(m, a, x) /\ (AtMost(a, x) <=> 31 \in a \ x \/ ((31 \in a <=> 31 \in x) /\ m \in x))
      <4> HIDE DEF a, b, digit
      <4> QED
        BY <2>1, <2>4, AtMostIs, Zenon
    <3>2. PICK n : Top(n, x, b) /\ (AtMost(x, b) <=> 31 \in x \ b \/ ((31 \in x <=> 31 \in b) /\ n \in b))
      <4>1. x # b
        BY <2>4
      <4> HIDE DEF a, b, digit
      <4> QED
        BY <2>1, <4>1, AtMostIs
    <3>3. AtMost(a, x) /\ AtMost(x, b) <=> 31 \notin x /\ m \in x /\ n \in b
      BY <3>1, <3>2
    <3>4. ASSUME digit PROVE 31 \notin x /\ m \in x /\ n \in b
      BY <3>1, <3>2, <3>4 DEF Bit, Top
    <3>5. ASSUME 31 \notin x, m \in x, n \in b PROVE digit
      <4>1. x \cap 6 .. 31 = {}
        BY <3>2, <3>5 DEF Bit, Top
      <4>2. 4 \in x /\ 5 \in x
        BY <3>1, <3>5, <4>1 DEF Bit, Top
      <4>3. 3 \notin x \/ (1 \notin x /\ 2 \notin x)
        BY <3>2, <3>5, <4>2 DEF Bit, Top
      <4> QED
        BY <4>1, <4>2, <4>3
    <3> QED
      BY <3>3, <3>4, <3>5
  <2> HIDE DEF digit
  <2> QED
    BY <2>1, <2>2, <2>3, <2>4
<1> HIDE DEF digit
<1> QED
  BY <1>1, <1>2, Zenon DEF test_isAsciiDigit, Truth

(* The sign of x - y, for numbers of one sign.                             *)
LEMMA DifferenceSign ==
  ASSUME NEW x \in int, NEW y \in int, 31 \in x <=> 31 \in y, NEW d, Top(d, x, y)
  PROVE  31 \in Plus(x, negate(y)) <=> d \in y
<1> DEFINE n == negate(y)
<1>1. \A k \in Bit : k \in n <=> (k \in y <=> y \cap 0 .. k - 1 = {})
  BY NegateIs
<1> HIDE DEF n
<1>2. 31 \in Plus(x, n) <=> (Carry(x, n, 31) <=> (31 \in x <=> 31 \in n))
  BY DEF Plus, Bit
<1>3. d \in 0 .. 30 /\ d \in Bit
  BY DEF Top, Bit
<1>4. CASE y = ZERO
  <2>1. n \cap Bit = {}
    BY <1>1, <1>4 DEF ZERO
  <2>2. ~ Carry(x, n, 31)
    BY <2>1 DEF Carry, Bit
  <2>3. 31 \notin x /\ 31 \notin n /\ d \notin y
    BY <1>4, <2>1 DEF ZERO, Bit
  <2> QED
    BY <1>2, <2>2, <2>3 DEF n
<1>5. CASE y # ZERO
  <2>1. PICK m : m \in y /\ m \in Bit /\ \A k \in y : m <= k
    BY <1>5, MinOf
  <2>2. \A k \in Bit : y \cap 0 .. k - 1 = {} <=> k <= m
    BY <2>1 DEF int, Bit
  <2>3. \A k \in Bit : k \in n <=> (k \in y <=> k <= m)
    BY <1>1, <2>2
  <2>4. \A k \in Bit : k < m => k \notin n
    BY <2>1, <2>3 DEF Bit
  <2>5. \A k \in Bit : k > d => (k \in x <=> k \in y)
    BY DEF Top
  <2>6. ~ (d \in x <=> d \in y)
    BY DEF Top
  <2>7. CASE m = 31
    <3>1. ~ Carry(x, n, 31)
      BY <2>4, <2>7 DEF Carry, Bit
    <3>2. 31 \in x /\ 31 \in n /\ d \notin y
      BY <1>3, <2>1, <2>3, <2>7 DEF Bit
    <3> QED
      BY <1>2, <3>1, <3>2 DEF n
  <2>8. CASE m < 31
    <3>1. 31 \in n <=> 31 \notin x
      BY <2>1, <2>3, <2>8 DEF Bit
    <3>2. ASSUME d \in x PROVE Carry(x, n, 31)
      <4>1. CASE d > m
        <5>1. d \in x \cap n
          BY <1>3, <2>1, <2>3, <2>6, <3>2, <4>1 DEF Bit
        <5>2. d + 1 .. 31 - 1 \subseteq x \cup n
          BY <1>3, <2>1, <2>3, <2>5, <4>1 DEF Bit
        <5> QED
          BY <1>3, <5>1, <5>2 DEF Carry
      <4>2. CASE d < m
        <5>1. m \in x \cap n
          BY <1>3, <2>1, <2>3, <2>5, <4>2 DEF Bit
        <5>2. m + 1 .. 31 - 1 \subseteq x \cup n
          BY <1>3, <2>1, <2>3, <2>5, <4>2 DEF Bit
        <5>3. m \in 0 .. 31 - 1
          BY <2>1, <2>8 DEF Bit
        <5> QED
          BY <5>1, <5>2, <5>3 DEF Carry
      <4>3. d # m
        BY <2>1, <2>6, <3>2
      <4> QED
        BY <1>3, <2>1, <4>1, <4>2, <4>3 DEF Bit
    <3>3. ASSUME d \in y PROVE ~ Carry(x, n, 31)
      <4> SUFFICES ASSUME NEW j \in 0 .. 31 - 1, j \in x \cap n, j + 1 .. 31 - 1 \subseteq x \cup n
                   PROVE  FALSE
        BY DEF Carry
      <4>1. d \notin x /\ m <= d /\ j \in Bit
        BY <1>3, <2>1, <2>6, <3>3 DEF Bit
      <4>2. j <= d
        <5>1. j > d => j \in y /\ j > m
          BY <1>3, <2>1, <2>5, <4>1 DEF Bit
        <5>2. j > d => j \notin n
          BY <2>1, <2>3, <4>1, <5>1 DEF Bit
        <5> QED
          BY <1>3, <5>2 DEF Bit
      <4>3. j < d
        BY <1>3, <4>1, <4>2
      <4>4. d \in n
        BY <1>3, <4>1, <4>3
      <4>5. d <= m
        BY <1>3, <2>3, <3>3, <4>4
      <4>6. j < m
        BY <1>3, <2>1, <4>3, <4>5 DEF Bit
      <4> QED
        BY <2>4, <4>1, <4>6
    <3> QED
      BY <1>2, <2>6, <3>1, <3>2, <3>3 DEF n
  <2> QED
    BY <2>1, <2>7, <2>8 DEF Bit
<1> QED
  BY <1>4, <1>5

(* isLessOrEqual is right for all pairs of ints: x - y counts for numbers  *)
(* of one sign only, where it does not overflow.                           *)
LEMMA IsLessOrEqualRight == \A x, y \in int : isLessOrEqual(x, y) = test_isLessOrEqual(x, y)
<1> TAKE x, y \in int
<1> DEFINE diff == Plus(x, negate(y))
           isXNotPos == Sar(x, 31)
           isYPos    == Lnot(Sar(y, 31))
           same == (Lnot(isXNotPos) \cap isYPos) \cup (isXNotPos \cap Lnot(isYPos))
           isXMinusYPos == Lnot(Sar(diff, 31))
<1>1. isLessOrEqual(x, y) = Lnot(Xor(x, y)) \cup (isXNotPos \cap isYPos) \cup (same \cap Lnot(isXMinusYPos))
  BY Zenon DEF isLessOrEqual, diff, isXNotPos, isYPos, same, isXMinusYPos
<1>2. Lnot(Xor(x, y)) = Truth(x = y)
  BY LnotXor, Zenon
<1>3. diff \in int
  BY DEF Plus, int
<1> HIDE DEF diff
<1>4. isXNotPos = (IF 31 \in x THEN Bit ELSE ZERO) /\ Lnot(isXNotPos) = Truth(31 \notin x)
  BY SignIs, NonNegative, Zenon
<1>5. isYPos = Truth(31 \notin y)
  BY NonNegative, Zenon
<1>6. isXMinusYPos = Truth(31 \notin diff)
  BY <1>3, NonNegative, Zenon
<1> HIDE DEF isXNotPos, isYPos, isXMinusYPos
<1>7. Lnot(isYPos) = Truth(31 \in y) /\ Lnot(isXMinusYPos) = Truth(31 \in diff)
  BY <1>5, <1>6 DEF Lnot, Truth, ZERO, ONE
<1>8. same = Truth(31 \in x <=> 31 \in y)
  BY <1>4, <1>5, <1>7 DEF Truth, ZERO, ONE, Bit
<1> HIDE DEF same
<1>9. isLessOrEqual(x, y) = Truth(x = y \/ 31 \in x \ y \/ ((31 \in x <=> 31 \in y) /\ 31 \in diff))
  BY <1>1, <1>2, <1>4, <1>5, <1>7, <1>8 DEF Truth, ZERO, ONE, Bit
<1>10. CASE x = y
  BY <1>9, <1>10 DEF test_isLessOrEqual, AtMost, Truth
<1>11. CASE x # y
  <2>1. PICK m : Top(m, x, y) /\ (AtMost(x, y) <=> 31 \in x \ y \/ ((31 \in x <=> 31 \in y) /\ m \in y))
    BY <1>11, AtMostIs, Zenon
  <2>2. (31 \in x <=> 31 \in y) => (31 \in diff <=> m \in y)
    BY <2>1, DifferenceSign DEF diff
  <2> QED
    BY <1>9, <1>11, <2>1, <2>2 DEF test_isLessOrEqual, Truth
<1> QED
  BY <1>10, <1>11

(* Value as a SizeSum.                                                     *)
Powers == [k \in 0 .. 30 |-> [size |-> 2 ^ k]]

(* The weights of the bits.                                                *)
LEMMA PowersAre == \A k \in 0 .. 30 : Powers[k].size = 2 ^ k /\ Powers[k].size \in Nat
<1> TAKE k \in 0 .. 30
<1>1. 2 ^ k \in Nat
  BY PowerIs
<1> QED
  BY <1>1 DEF Powers

(* Value adds up the weights of the bits of a word.                        *)
LEMMA ValueIs ==
  ASSUME NEW S, S \subseteq 0 .. 30
  PROVE  Value(S) = SizeSum(Powers, S) /\ IsFiniteSet(S) /\ \A x \in S : Powers[x].size \in Nat
<1> DEFINE E(f) == [s \in SUBSET S |-> IF s = {} THEN 0 ELSE 2 ^ Pick(s) + f[s \ {Pick(s)}]]
           iter == CHOOSE f : f = E(f)
<1>1. Value(S) = iter[S]
  BY DEF Value, MapThenSumSet, MapThenFoldSet, Pick
<1>2. IsFiniteSet(S) /\ \A x \in S : Powers[x].size \in Nat
  <2>1. IsFiniteSet(0 .. 30)
    <3>1. 0 \in Int /\ 30 \in Int
      OBVIOUS
    <3> QED
      BY <3>1, FS_Interval
  <2> QED
    BY <2>1, FS_Subset, PowersAre
<1>3. PICK h : Weighs(Powers, S, h) /\ SizeSum(Powers, S) = h[S]
  BY <1>2, SizeSumIs
<1>4. ASSUME NEW s \in SUBSET S, s # {} PROVE Pick(s) \in s /\ Powers[Pick(s)].size = 2 ^ Pick(s)
  <2>1. Pick(s) \in s
    BY <1>4 DEF Pick
  <2> QED
    BY <2>1, PowersAre
<1>5. h = E(h)
  <2>1. \A s \in SUBSET S : h[s] = IF s = {} THEN 0 ELSE 2 ^ Pick(s) + h[s \ {Pick(s)}]
    BY <1>3, <1>4 DEF Weighs
  <2>2. h = [s \in SUBSET S |-> h[s]]
    BY <1>3 DEF Weighs
  <2> QED
    BY <2>1, <2>2
<1>6. iter = E(iter)
  BY <1>5
<1> HIDE DEF iter
<1>7. \A s \in SUBSET S : iter[s] = IF s = {} THEN 0 ELSE 2 ^ Pick(s) + iter[s \ {Pick(s)}]
  <2> DEFINE b(s) == IF s = {} THEN 0 ELSE 2 ^ Pick(s) + iter[s \ {Pick(s)}]
  <2>1. iter = [s \in SUBSET S |-> b(s)]
    BY <1>6
  <2> HIDE DEF b, E
  <2>2. \A s \in SUBSET S : iter[s] = b(s)
    BY <2>1
  <2> QED
    BY <2>2 DEF b
<1> DEFINE Bad == {s \in SUBSET S : iter[s] # h[s]}
<1>8. ASSUME Bad # {} PROVE FALSE
  <2>1. PICK s : s \in Bad /\ \A d \in Bad : Cardinality(s) <= Cardinality(d)
    <3>1. Bad \subseteq SUBSET S
      OBVIOUS
    <3> HIDE DEF Bad
    <3> QED
      BY <1>2, <1>8, <3>1, LeastSubset
  <2>2. s \in SUBSET S /\ iter[s] # h[s]
    BY <2>1
  <2>3. s # {}
    BY <1>3, <1>7, <2>2 DEF Weighs
  <2>4. PICK x \in s : x = Pick(s) /\ Powers[x].size = 2 ^ x
    BY <1>4, <2>2, <2>3
  <2>5. /\ s \ {x} \in SUBSET S /\ Cardinality(s \ {x}) < Cardinality(s)
        /\ Cardinality(s) \in Nat /\ Cardinality(s \ {x}) \in Nat
    BY <1>2, <2>2, PickedOut
  <2>6. s \ {x} \notin Bad
    <3> HIDE DEF Bad
    <3> QED
      BY <2>1, <2>5
  <2>7. iter[s \ {x}] = h[s \ {x}]
    BY <2>5, <2>6
  <2>8. iter[s] = 2 ^ x + iter[s \ {x}]
    BY <1>7, <2>2, <2>3, <2>4
  <2>9. h[s] = 2 ^ x + h[s \ {x}]
    BY <1>3, <2>2, <2>3, <2>4 DEF Weighs
  <2> QED
    BY <2>2, <2>7, <2>8, <2>9
<1>9. S \in SUBSET S
  OBVIOUS
<1> HIDE DEF E
<1> QED
  BY <1>1, <1>2, <1>3, <1>8, <1>9

(* Value is 0 for no bits, and each bit adds its weight.                   *)
LEMMA ValueFacts ==
  ASSUME NEW S, S \subseteq 0 .. 30
  PROVE  /\ Value(S) \in Nat /\ (S = {} => Value(S) = 0)
         /\ \A k \in S : Value(S) = 2 ^ k + Value(S \ {k}) /\ Value(S \ {k}) \in Nat
<1>1. /\ SizeSum(Powers, S) \in Nat /\ (S = {} => SizeSum(Powers, S) = 0)
      /\ \A k \in S : SizeSum(Powers, S) = Powers[k].size + SizeSum(Powers, S \ {k})
  BY ValueIs, SizeSumFacts
<1>2. Value(S) = SizeSum(Powers, S)
  BY ValueIs
<1>3. ASSUME NEW k \in S PROVE Value(S) = 2 ^ k + Value(S \ {k}) /\ Value(S \ {k}) \in Nat
  <2>1. PICK R : R = S \ {k}
    OBVIOUS
  <2>2. R \subseteq 0 .. 30
    BY <2>1
  <2>3. Value(R) = SizeSum(Powers, R) /\ SizeSum(Powers, R) \in Nat
    BY <2>2, ValueIs, SizeSumFacts
  <2>4. Powers[k].size = 2 ^ k
    BY PowersAre
  <2> QED
    BY <1>1, <1>2, <2>1, <2>3, <2>4
<1> QED
  BY <1>1, <1>2, <1>3

(* n bits stay below 2^n.                                                  *)
LEMMA ValueBelow ==
  ASSUME NEW n \in 0 .. 31
  PROVE  \A S : S \subseteq 0 .. n - 1 => Value(S) \in Nat /\ Value(S) < 2 ^ n
<1> DEFINE Holds(m) == \A S : S \subseteq 0 .. m - 1 => Value(S) < 2 ^ m
           Bad == {m \in 0 .. 31 : ~ Holds(m)}
<1>1. ASSUME Bad # {} PROVE FALSE
  <2>1. Bad \subseteq Nat
    OBVIOUS
  <2>2. PICK m \in Bad : \A k \in Bad : m <= k
    <3> HIDE DEF Bad
    <3> QED
      BY <1>1, <2>1, MinNat
  <2>3. PICK S : S \subseteq 0 .. m - 1 /\ ~ (Value(S) < 2 ^ m)
    BY <2>2
  <2>4. m # 0
    <3> SUFFICES ASSUME m = 0 PROVE FALSE
      OBVIOUS
    <3>1. S = {}
      BY <2>3
    <3>2. Value(S) = 0
      BY <3>1, ValueFacts
    <3>3. 2 ^ m = 1
      OBVIOUS
    <3> QED
      BY <2>3, <3>2, <3>3
  <2>5. PICK l \in 0 .. 30 : m = l + 1
    BY <2>4
  <2>6. Holds(l)
    <3>1. l \in 0 .. 31 /\ ~ (m <= l)
      BY <2>5
    <3>2. l \notin Bad
      BY <2>2, <3>1
    <3> QED
      BY <3>1, <3>2
  <2>7. 2 ^ l \in Nat \ {0} /\ 2 ^ m = 2 * 2 ^ l
    BY <2>5, PowerIs
  <2>8. S \subseteq 0 .. 30
    BY <2>3, <2>5
  <2>9. CASE l \in S
    <3>1. S \ {l} \subseteq 0 .. l - 1
      BY <2>3, <2>5
    <3>2. Value(S \ {l}) < 2 ^ l
      BY <2>6, <3>1
    <3>3. Value(S) = 2 ^ l + Value(S \ {l}) /\ Value(S \ {l}) \in Nat
      BY <2>8, <2>9, ValueFacts
    <3> QED
      BY <2>3, <2>7, <3>2, <3>3
  <2>10. CASE l \notin S
    <3>1. S \subseteq 0 .. l - 1
      BY <2>3, <2>5, <2>10
    <3>2. Value(S) < 2 ^ l /\ Value(S) \in Nat
      BY <2>6, <2>8, <3>1, ValueFacts
    <3> QED
      BY <2>3, <2>7, <3>2
  <2> QED
    BY <2>9, <2>10
<1>2. Holds(n)
  BY <1>1
<1>3. \A S : S \subseteq 0 .. n - 1 => S \subseteq 0 .. 30
  OBVIOUS
<1> QED
  BY <1>2, <1>3, ValueFacts

(* t is the highest bit of m, whose sign is not set.                       *)
Highest(m, t) == m \in int /\ t \in m /\ t \in 0 .. 30 /\ \A k \in m : k <= t

(* A halving of howManyBits brings the highest bit below n, and counts     *)
(* what it shifts out.                                                     *)
LEMMA Halving ==
  ASSUME NEW m, NEW t, Highest(m, t), NEW n \in 1 .. 16, t < 2 * n
  PROVE  LET b == HighHalf(m, n)
         IN  b \in Nat /\ b <= t /\ t - b < n /\ Highest(Sar(m, b), t - b)
<1>0. m \in int /\ t \in m /\ t \in 0 .. 30 /\ 31 \notin m /\ \A k \in m : k <= t
  BY DEF Highest
<1>1. ASSUME NEW b \in Nat, b <= t PROVE Highest(Sar(m, b), t - b)
  <2>1. \A k \in Bit : k \in Sar(m, b) <=> k + b \in m
    BY <1>0 DEF Sar, int
  <2>2. Sar(m, b) \in int
    BY DEF Sar, int
  <2>3. t - b \in 0 .. 30 /\ t - b \in Bit /\ (t - b) + b = t
    BY <1>0, <1>1 DEF Bit
  <2>4. t - b \in Sar(m, b)
    BY <1>0, <2>1, <2>3
  <2>5. ASSUME NEW k \in Sar(m, b) PROVE k <= t - b
    <3>1. k \in Bit /\ k + b <= t
      BY <1>0, <2>1, <2>2 DEF int
    <3> QED
      BY <1>0, <3>1 DEF Bit
  <2> QED
    BY <2>2, <2>3, <2>4, <2>5 DEF Highest
<1>2. CASE t >= n
  <2>1. Highest(Sar(m, n), t - n)
    BY <1>0, <1>1, <1>2
  <2>2. HighHalf(m, n) = n
    BY <2>1 DEF HighHalf, Highest, ZERO
  <2> QED
    BY <1>0, <1>2, <2>1, <2>2
<1>3. CASE t < n
  <2>1. Sar(m, n) = ZERO
    BY <1>0, <1>3 DEF Sar, ZERO, Bit, int
  <2>2. HighHalf(m, n) = 0
    BY <2>1 DEF HighHalf
  <2>3. Highest(Sar(m, 0), t - 0)
    BY <1>0, <1>1
  <2> QED
    BY <1>0, <1>3, <2>2, <2>3
<1> QED
  BY <1>0, <1>2, <1>3

(* Of no bits a halving shifts none out.                                   *)
LEMMA HalvingZero == \A n \in 1 .. 16 : HighHalf(ZERO, n) = 0 /\ Sar(ZERO, 0) = ZERO
BY DEF HighHalf, Sar, ZERO

(* howManyBits is right for all ints: the halvings add up to the place of  *)
(* the highest bit that differs from the sign.                             *)
LEMMA HowManyBitsRight == \A x \in int : howManyBits(x) = test_howManyBits(x)
<1> TAKE x \in int
<1> DEFINE signX == Sar(x, 31)
           m32   == (Not(signX) \cap x) \cup (signX \cap Not(x))
           a     == IF 31 \in x THEN Not(x) ELSE x
           bit16 == HighHalf(m32, 16)
           m16   == Sar(m32, bit16)
           bit8  == HighHalf(m16, 8)
           m8    == Sar(m16, bit8)
           bit4  == HighHalf(m8, 4)
           m4    == Sar(m8, bit4)
           bit2  == HighHalf(m4, 2)
           m2    == Sar(m4, bit2)
           bit1  == HighHalf(m2, 1)
           m1    == Sar(m2, bit1)
<1>1. howManyBits(x) = bit16 + bit8 + bit4 + bit2 + bit1 + Value(m1) + 1
  BY Zenon DEF howManyBits, signX, m32, bit16, m16, bit8, m8, bit4, m4, bit2, m2, bit1, m1
<1>2. a \in int /\ 31 \notin a
  BY DEF Not, int, Bit
<1>3. m32 = a
  <2>1. signX = IF 31 \in x THEN Bit ELSE ZERO
    BY SignIs
  <2> QED
    BY <2>1 DEF Not, int, ZERO
<1>4. test_howManyBits(x) = IF a = ZERO THEN 1 ELSE Max(a) + 2
  BY Zenon DEF test_howManyBits, a
<1>5. CASE a = ZERO
  <2>1. bit16 = 0 /\ m16 = ZERO
    BY <1>3, <1>5, HalvingZero
  <2> HIDE DEF bit16, m16, m32
  <2>2. bit8 = 0 /\ m8 = ZERO
    BY <2>1, HalvingZero
  <2> HIDE DEF bit8, m8
  <2>3. bit4 = 0 /\ m4 = ZERO
    BY <2>2, HalvingZero
  <2> HIDE DEF bit4, m4
  <2>4. bit2 = 0 /\ m2 = ZERO
    BY <2>3, HalvingZero
  <2> HIDE DEF bit2, m2
  <2>5. bit1 = 0 /\ m1 = ZERO
    BY <2>4, HalvingZero
  <2> HIDE DEF bit1, m1
  <2>6. Value(m1) = 0
    BY <2>5, ValueFacts DEF ZERO
  <2> QED
    BY <1>1, <1>4, <1>5, <2>1, <2>2, <2>3, <2>4, <2>5, <2>6
<1>6. CASE a # ZERO
  <2>1. PICK t : t = Max(a) /\ Highest(a, t)
    <3>1. Max(a) \in a /\ Max(a) \in Bit /\ \A k \in a : k <= Max(a)
      BY <1>2, <1>6, MaxOf
    <3>2. Max(a) \in 0 .. 30
      BY <1>2, <3>1 DEF Bit
    <3> QED
      BY <1>2, <3>1, <3>2 DEF Highest
  <2> HIDE DEF a, m32
  <2>2. Highest(m32, t) /\ t \in 0 .. 30 /\ t < 2 * 16
    <3>1. t \in 0 .. 30
      BY <2>1, Zenon DEF Highest
    <3>2. Highest(m32, t)
      BY <1>3, <2>1, Zenon
    <3> QED
      BY <3>1, <3>2
  <2>3. bit16 \in Nat /\ bit16 <= t /\ t - bit16 < 16 /\ Highest(m16, t - bit16)
    BY <2>2, Halving
  <2> HIDE DEF bit16, m16
  <2>4. PICK t16 : t16 = t - bit16 /\ t16 < 2 * 8 /\ Highest(m16, t16)
    BY <2>2, <2>3
  <2>5. bit8 \in Nat /\ bit8 <= t16 /\ t16 - bit8 < 8 /\ Highest(m8, t16 - bit8)
    BY <2>4, Halving
  <2> HIDE DEF bit8, m8
  <2>6. PICK t8 : t8 = t16 - bit8 /\ t8 < 2 * 4 /\ Highest(m8, t8)
    BY <2>2, <2>3, <2>4, <2>5
  <2>7. bit4 \in Nat /\ bit4 <= t8 /\ t8 - bit4 < 4 /\ Highest(m4, t8 - bit4)
    BY <2>6, Halving
  <2> HIDE DEF bit4, m4
  <2>8. PICK t4 : t4 = t8 - bit4 /\ t4 < 2 * 2 /\ Highest(m4, t4)
    BY <2>2, <2>3, <2>4, <2>5, <2>6, <2>7
  <2>9. bit2 \in Nat /\ bit2 <= t4 /\ t4 - bit2 < 2 /\ Highest(m2, t4 - bit2)
    BY <2>8, Halving
  <2> HIDE DEF bit2, m2
  <2>10. PICK t2 : t2 = t4 - bit2 /\ t2 < 2 * 1 /\ Highest(m2, t2)
    BY <2>2, <2>3, <2>4, <2>5, <2>6, <2>7, <2>8, <2>9
  <2>11. bit1 \in Nat /\ bit1 <= t2 /\ t2 - bit1 < 1 /\ Highest(m1, t2 - bit1)
    BY <2>10, Halving
  <2> HIDE DEF bit1, m1
  <2>12. t2 - bit1 = 0 /\ t2 \in Nat
    BY <2>10, <2>11 DEF Highest
  <2>13. m1 = {0}
    <3>1. Highest(m1, 0)
      BY <2>11, <2>12
    <3>2. 0 \in m1 /\ (\A k \in m1 : k <= 0) /\ m1 \subseteq Nat
      BY <3>1 DEF Highest, int, Bit
    <3>3. \A k \in Nat : k <= 0 => k = 0
      OBVIOUS
    <3> QED
      BY <3>2, <3>3
  <2>14. Value(m1) = 1
    <3>1. {0} \subseteq 0 .. 30 /\ {0} \ {0} = {} /\ {} \subseteq 0 .. 30 /\ 2 ^ 0 = 1
      OBVIOUS
    <3>2. Value({}) = 0
      BY <3>1, ValueFacts
    <3>3. Value({0}) = 2 ^ 0 + Value({})
      BY <3>1, ValueFacts
    <3> QED
      BY <2>13, <3>1, <3>2, <3>3
  <2>15. bit16 + bit8 + bit4 + bit2 + bit1 = t
    BY <2>2, <2>3, <2>4, <2>5, <2>6, <2>7, <2>8, <2>9, <2>10, <2>11, <2>12
  <2> QED
    BY <1>1, <1>4, <1>6, <2>1, <2>2, <2>3, <2>5, <2>7, <2>9, <2>11, <2>14, <2>15
<1> QED
  BY <1>5, <1>6

----------------------------------------------------------------------------
(* The bit puzzles on floats.                                              *)

(* A float by its fields.                                                  *)
LEMMA Fields ==
  ASSUME NEW A, NEW B, NEW C
  PROVE  /\ \A f \in [sign : A, exp : B, frac : C] :
              f = F(f.sign, f.exp, f.frac) /\ f.sign \in A /\ f.exp \in B /\ f.frac \in C
         /\ \A s \in A, p \in B, q \in C : F(s, p, q) \in [sign : A, exp : B, frac : C]
BY DEF F

(* What the 23 bits of a fraction may be.                                  *)
Fraction == 0 .. 2 ^ 23 - 1

(* The fields of a float, each in its range.                               *)
LEMMA FloatParts ==
  /\ \A f \in float : /\ f = F(f.sign, f.exp, f.frac)
                      /\ f.sign \in {0, 1} /\ f.exp \in 0 .. 255 /\ f.frac \in Fraction
  /\ \A s \in {0, 1}, p \in 0 .. 255, q \in Fraction : F(s, p, q) \in float
<1>1. float = [sign : {0, 1}, exp : 0 .. 255, frac : Fraction]
  BY SMT DEF float, Fraction
<1>2. ASSUME NEW f \in float
      PROVE  f = F(f.sign, f.exp, f.frac) /\ f.sign \in {0, 1} /\ f.exp \in 0 .. 255 /\ f.frac \in Fraction
  <2> DEFINE A == {0, 1}
             B == 0 .. 255
  <2>1. f \in [sign : A, exp : B, frac : Fraction]
    BY <1>1
  <2> HIDE DEF A, B
  <2>2. f = F(f.sign, f.exp, f.frac) /\ f.sign \in A /\ f.exp \in B /\ f.frac \in Fraction
    BY <2>1, Fields
  <2> QED
    BY <2>2 DEF A, B
<1>3. ASSUME NEW s \in {0, 1}, NEW p \in 0 .. 255, NEW q \in Fraction
      PROVE  F(s, p, q) \in float
  BY <1>1, SMT DEF F
<1> QED
  BY <1>2, <1>3, Zenon

(* u2f gives the fields of a float.                                        *)
LEMMA FloatIs == \A x \in int : u2f(x) \in float
<1> TAKE x \in int
<1> DEFINE e  == {b - 23 : b \in x \cap 23 .. 30}
           fr == x \cap 0 .. 22
<1>1. e \subseteq 0 .. 8 - 1 /\ fr \subseteq 0 .. 23 - 1
  BY DEF int, Bit
<1> HIDE DEF e, fr
<1>2. Value(e) \in Nat /\ Value(e) < 2 ^ 8
  <2>1. 8 \in 0 .. 31
    OBVIOUS
  <2> QED
    BY <1>1, <2>1, ValueBelow, Zenon
<1>3. Value(fr) \in Nat /\ Value(fr) < 2 ^ 23
  <2>1. 23 \in 0 .. 31
    OBVIOUS
  <2> QED
    BY <1>1, <2>1, ValueBelow, Zenon
<1>4. Value(e) \in 0 .. 255
  BY <1>2, SMT
<1>5. Value(fr) \in Fraction
  BY <1>3, SMT DEF Fraction
<1>6. u2f(x) = F(IF 31 \in x THEN 1 ELSE 0, Value(e), Value(fr))
  BY Zenon DEF u2f, e, fr
<1>7. (IF 31 \in x THEN 1 ELSE 0) \in {0, 1}
  OBVIOUS
<1> DEFINE g == IF 31 \in x THEN 1 ELSE 0
<1> HIDE DEF g
<1>8. F(g, Value(e), Value(fr)) \in float
  BY <1>4, <1>5, <1>7, FloatParts DEF g
<1> QED
  BY <1>6, <1>8 DEF g

(* What F makes, and changes to it.                                        *)
LEMMA FieldsOf ==
  /\ \A s, p, q : F(s, p, q).sign = s /\ F(s, p, q).exp = p /\ F(s, p, q).frac = q
  /\ \A f : f = F(f.sign, f.exp, f.frac) => \A v : /\ [f EXCEPT !.exp = v] = F(f.sign, v, f.frac)
                                                   /\ [f EXCEPT !.frac = v] = F(f.sign, f.exp, v)
BY DEF F

(* A float as three numbers.                                               *)
LEMMA FloatCase ==
  ASSUME NEW f \in float
  PROVE  \E s \in {0, 1}, p \in 0 .. 255, q \in Nat :
            f.sign = s /\ f.exp = p /\ f.frac = q /\ q < 2 ^ 23 /\ f = F(s, p, q)
<1>1. f = F(f.sign, f.exp, f.frac) /\ f.sign \in {0, 1} /\ f.exp \in 0 .. 255 /\ f.frac \in Fraction
  BY FloatParts
<1>2. f.frac \in Nat /\ f.frac < 2 ^ 23
  BY <1>1, SMT DEF Fraction
<1>3. PICK s \in {0, 1}, p \in 0 .. 255, q \in Nat : f.sign = s /\ f.exp = p /\ f.frac = q
  BY <1>1, <1>2
<1> QED
  BY <1>1, <1>2, <1>3, SMT

(* floatScale2 is right exactly but for the largest exponent with a        *)
(* fraction, for which it keeps the fraction of what has become infinite.  *)
LEMMA FloatScale2Right ==
  \A f \in float : floatScale2(f) = test_floatScale2(f) <=> ~ (f.exp = 254 /\ f.frac # 0)
<1> TAKE f \in float
<1>1. PICK s \in {0, 1}, p \in 0 .. 255, q \in Nat :
              f.sign = s /\ f.exp = p /\ f.frac = q /\ q < 2 ^ 23 /\ f = F(s, p, q)
  BY FloatCase, Zenon
<1>2. [f EXCEPT !.exp = @ + 1] = F(s, p + 1, q) /\ [f EXCEPT !.frac = 2 * @] = F(s, p, 2 * q)
  BY <1>1, SMT DEF F
<1>3. q \div 2 ^ 23 = 0 /\ q % 2 ^ 23 = q
  BY <1>1, SMT
<1>4. CASE p = 255
  BY <1>1, <1>4, SMT DEF floatScale2, test_floatScale2
<1>5. CASE p = 254
  <2>1. floatScale2(f) = F(s, 255, q)
    BY <1>1, <1>3, <1>5, SMT DEF floatScale2, Packed
  <2>2. test_floatScale2(f) = F(s, 255, 0)
    BY <1>1, <1>5, SMT DEF test_floatScale2, Inf
  <2> QED
    BY <1>1, <1>5, <2>1, <2>2, SMT DEF F
<1>6. CASE p \in 1 .. 253
  <2>1. floatScale2(f) = F(s, p + 1, q)
    BY <1>1, <1>3, <1>6, SMT DEF floatScale2, Packed
  <2>2. test_floatScale2(f) = F(s, p + 1, q)
    BY <1>1, <1>2, <1>6, SMT DEF test_floatScale2
  <2> QED
    BY <1>1, <1>6, <2>1, <2>2, SMT
<1>7. CASE p = 0
  <2>1. floatScale2(f) = F(s, (2 * q) \div 2 ^ 23, (2 * q) % 2 ^ 23)
    BY <1>1, <1>7, SMT DEF floatScale2, Packed
  <2>2. test_floatScale2(f) = IF 2 * q < 2 ^ 23 THEN F(s, 0, 2 * q) ELSE F(s, 1, 2 * q - 2 ^ 23)
    BY <1>1, <1>2, <1>7, SMT DEF test_floatScale2
  <2>3. CASE 2 * q < 2 ^ 23
    <3>1. (2 * q) \div 2 ^ 23 = 0 /\ (2 * q) % 2 ^ 23 = 2 * q
      BY <2>3, SMT
    <3> QED
      BY <1>1, <1>7, <2>1, <2>2, <2>3, <3>1, SMT
  <2>4. CASE ~ (2 * q < 2 ^ 23)
    <3>1. (2 * q) \div 2 ^ 23 = 1 /\ (2 * q) % 2 ^ 23 = 2 * q - 2 ^ 23
      BY <1>1, <2>4, SMT
    <3> QED
      BY <1>1, <1>7, <2>1, <2>2, <2>4, <3>1, SMT
  <2> QED
    BY <2>3, <2>4
<1> QED
  BY <1>4, <1>5, <1>6, <1>7, SMT

(* floatPower2 is right exactly but for the negative powers that a float   *)
(* can represent.                                                          *)
LEMMA FloatPower2Right ==
  \A x \in Int : floatPower2(x) = test_floatPower2(x) <=> x \notin -149 .. -1
<1> TAKE x \in Int
<1>1. CASE x >= 0
  BY <1>1, SMT DEF floatPower2, test_floatPower2, Inf
<1>2. CASE x < -149
  BY <1>2, SMT DEF floatPower2, test_floatPower2
<1>3. CASE x \in -126 .. -1
  BY <1>3, SMT DEF floatPower2, test_floatPower2, F
<1>4. CASE x \in -149 .. -127
  <2>1. PICK q \in Nat \ {0} : q = 2 ^ (x + 149)
    <3>1. x + 149 \in 0 .. 30
      BY <1>4
    <3> QED
      BY <3>1, PowerIs
  <2> QED
    BY <1>4, <2>1, SMT DEF floatPower2, test_floatPower2, F
<1> QED
  BY <1>1, <1>2, <1>3, <1>4, SMT

(* floatFloat2Int is right exactly but for the floats with the exponent 31 *)
(* and a fraction.                                                         *)
LEMMA FloatFloat2IntRight ==
  \A f \in float : floatFloat2Int(f) = test_floatFloat2Int(f) <=> ~ (f.exp = 158 /\ f.frac # 0)
<1> TAKE f \in float
<1>1. PICK s \in {0, 1}, p \in 0 .. 255, q \in Nat :
              f.sign = s /\ f.exp = p /\ f.frac = q /\ q < 2 ^ 23 /\ f = F(s, p, q)
  BY FloatCase, Zenon
<1>2. CASE p < 127 \/ p > 158
  BY <1>1, <1>2, SMT DEF floatFloat2Int, test_floatFloat2Int
<1>3. CASE p = 158
  <2>1. floatFloat2Int(f) = IF s = 0 THEN INT_MIN + q * 2 ^ 8 ELSE Negated(INT_MIN + q * 2 ^ 8)
    BY <1>1, <1>3, SMT DEF floatFloat2Int, ShiftedOut
  <2>2. test_floatFloat2Int(f) = INT_MIN
    BY <1>1, <1>3, SMT DEF test_floatFloat2Int
  <2> QED
    BY <1>1, <1>3, <2>1, <2>2, SMT DEF Negated, INT_MIN
<1>4. CASE p \in 150 .. 157
  <2>1. PICK w \in Nat : w = 2 ^ (p - 150)
    <3>1. p - 150 \in 0 .. 30
      BY <1>4
    <3> QED
      BY <3>1, PowerIs
  <2>2. p - 127 - 23 = p - 150
    BY <1>4
  <2>3. 2 ^ (p - 127 - 23) = w
    BY <2>1, <2>2
  <2>4. PICK r \in Nat : r = (q + 2 ^ 23) * w
    OBVIOUS
  <2>5. floatFloat2Int(f) = IF s = 0 THEN r ELSE Negated(r)
    BY <1>1, <1>4, <2>3, <2>4, SMT DEF floatFloat2Int, ShiftedOut
  <2>6. test_floatFloat2Int(f) = IF s = 0 THEN r ELSE - r
    BY <1>1, <1>4, <2>1, <2>4, SMT DEF test_floatFloat2Int
  <2> QED
    BY <1>1, <1>4, <2>4, <2>5, <2>6, SMT DEF Negated, INT_MIN
<1>5. CASE p \in 127 .. 149
  <2>1. PICK w \in Nat \ {0} : w = 2 ^ (150 - p)
    <3>1. 150 - p \in 0 .. 30
      BY <1>5
    <3> QED
      BY <3>1, PowerIs
  <2>2. 23 - (p - 127) = 150 - p
    BY <1>5
  <2>3. 2 ^ (23 - (p - 127)) = w
    BY <2>1, <2>2
  <2>4. PICK r \in Nat : r = (q + 2 ^ 23) \div w
    BY <2>1
  <2>5. floatFloat2Int(f) = IF s = 0 THEN r ELSE Negated(r)
    BY <1>1, <1>5, <2>3, <2>4, SMT DEF floatFloat2Int
  <2>6. test_floatFloat2Int(f) = IF s = 0 THEN r ELSE - r
    BY <1>1, <1>5, <2>1, <2>4, SMT DEF test_floatFloat2Int
  <2> QED
    BY <1>1, <1>5, <2>4, <2>5, <2>6, SMT DEF Negated, INT_MIN
<1> QED
  BY <1>2, <1>3, <1>4, <1>5, SMT

----------------------------------------------------------------------------
(* btest: the verdicts.                                                    *)

(* The names in test_set.                                                  *)
PuzzleName == {"bitXor", "tmin", "isTmax", "allOddBits", "negate", "isAsciiDigit", "conditional",
               "isLessOrEqual", "logicalNeg", "howManyBits", "floatScale2", "floatFloat2Int", "floatPower2"}

(* An int is a number.                                                     *)
LEMMA NumberIs == \A x \in int : Number(x) \in Int
<1> TAKE x \in int
<1>1. x \ {31} \subseteq 0 .. 30
  BY DEF int, Bit
<1>2. Value(x \ {31}) \in Nat
  BY <1>1, ValueFacts
<1>3. INT_MIN \in Int
  BY SMT DEF INT_MIN
<1> QED
  BY <1>2, <1>3, SMT DEF Number

(* bits.c agrees with tests.c on all arguments of all 13 puzzles but those *)
(* that Missed names.                                                      *)
LEMMA BitsAgree ==
  ASSUME NEW name \in PuzzleName, NEW a \in int \X int \X int
  PROVE  Agree(name, a) <=> ~ Missed(name, a)
<1>1. a[1] \in int /\ a[2] \in int /\ a[3] \in int
  OBVIOUS
<1>2. u2f(a[1]) \in float /\ Number(a[1]) \in Int
  BY <1>1, FloatIs, NumberIs
<1>3. CASE name = "bitXor"
  <2>1. Agree(name, a) <=> bitXor(a[1], a[2]) = test_bitXor(a[1], a[2])
    BY <1>3 DEF Agree
  <2>2. ~ Missed(name, a)
    BY <1>3 DEF Missed
  <2> QED
    BY <1>1, <2>1, <2>2, BitXorRight, Zenon
<1>4. CASE name = "tmin"
  <2>1. Agree(name, a) <=> tmin = test_tmin
    BY <1>4 DEF Agree
  <2>2. ~ Missed(name, a)
    BY <1>4 DEF Missed
  <2> QED
    BY <1>1, <2>1, <2>2, TminRight, Zenon
<1>5. CASE name = "isTmax"
  <2>1. Agree(name, a) <=> isTmax(a[1]) = test_isTmax(a[1])
    BY <1>5 DEF Agree
  <2>2. ~ Missed(name, a)
    BY <1>5 DEF Missed
  <2> QED
    BY <1>1, <2>1, <2>2, IsTmaxRight, Zenon
<1>6. CASE name = "allOddBits"
  <2>1. Agree(name, a) <=> allOddBits(a[1]) = test_allOddBits(a[1])
    BY <1>6 DEF Agree
  <2>2. ~ Missed(name, a)
    BY <1>6 DEF Missed
  <2> QED
    BY <1>1, <2>1, <2>2, AllOddBitsRight, Zenon
<1>7. CASE name = "negate"
  <2>1. Agree(name, a) <=> negate(a[1]) = test_negate(a[1])
    BY <1>7 DEF Agree
  <2>2. ~ Missed(name, a)
    BY <1>7 DEF Missed
  <2> QED
    BY <1>1, <2>1, <2>2, NegateRight, Zenon
<1>8. CASE name = "isAsciiDigit"
  <2>1. Agree(name, a) <=> isAsciiDigit(a[1]) = test_isAsciiDigit(a[1])
    BY <1>8 DEF Agree
  <2>2. ~ Missed(name, a)
    BY <1>8 DEF Missed
  <2> QED
    BY <1>1, <2>1, <2>2, IsAsciiDigitRight, Zenon
<1>9. CASE name = "conditional"
  <2>1. Agree(name, a) <=> conditional(a[1], a[2], a[3]) = test_conditional(a[1], a[2], a[3])
    BY <1>9 DEF Agree
  <2>2. ~ Missed(name, a)
    BY <1>9 DEF Missed
  <2> QED
    BY <1>1, <2>1, <2>2, ConditionalRight, Zenon
<1>10. CASE name = "isLessOrEqual"
  <2>1. Agree(name, a) <=> isLessOrEqual(a[1], a[2]) = test_isLessOrEqual(a[1], a[2])
    BY <1>10 DEF Agree
  <2>2. ~ Missed(name, a)
    BY <1>10 DEF Missed
  <2> QED
    BY <1>1, <2>1, <2>2, IsLessOrEqualRight, Zenon
<1>11. CASE name = "logicalNeg"
  <2>1. Agree(name, a) <=> logicalNeg(a[1]) = test_logicalNeg(a[1])
    BY <1>11 DEF Agree
  <2>2. ~ Missed(name, a)
    BY <1>11 DEF Missed
  <2> QED
    BY <1>1, <2>1, <2>2, LogicalNegRight, Zenon
<1>12. CASE name = "howManyBits"
  <2>1. Agree(name, a) <=> howManyBits(a[1]) = test_howManyBits(a[1])
    BY <1>12 DEF Agree
  <2>2. ~ Missed(name, a)
    BY <1>12 DEF Missed
  <2> QED
    BY <1>1, <2>1, <2>2, HowManyBitsRight, Zenon
<1>13. CASE name = "floatScale2"
  <2>1. Agree(name, a) <=> floatScale2(u2f(a[1])) = test_floatScale2(u2f(a[1]))
    BY <1>13 DEF Agree
  <2>2. Missed(name, a) <=> u2f(a[1]).exp = 254 /\ u2f(a[1]).frac # 0
    BY <1>13 DEF Missed
  <2>3. floatScale2(u2f(a[1])) = test_floatScale2(u2f(a[1])) <=> ~ (u2f(a[1]).exp = 254 /\ u2f(a[1]).frac # 0)
    BY <1>2, FloatScale2Right, Zenon
  <2> QED
    BY <2>1, <2>2, <2>3, Zenon
<1>14. CASE name = "floatFloat2Int"
  <2>1. Agree(name, a) <=> floatFloat2Int(u2f(a[1])) = test_floatFloat2Int(u2f(a[1]))
    BY <1>14 DEF Agree
  <2>2. Missed(name, a) <=> u2f(a[1]).exp = 158 /\ u2f(a[1]).frac # 0
    BY <1>14 DEF Missed
  <2>3. floatFloat2Int(u2f(a[1])) = test_floatFloat2Int(u2f(a[1])) <=> ~ (u2f(a[1]).exp = 158 /\ u2f(a[1]).frac # 0)
    BY <1>2, FloatFloat2IntRight, Zenon
  <2> QED
    BY <2>1, <2>2, <2>3, Zenon
<1>15. CASE name = "floatPower2"
  <2>1. Agree(name, a) <=> floatPower2(Number(a[1])) = test_floatPower2(Number(a[1]))
    BY <1>15 DEF Agree
  <2>2. Missed(name, a) <=> Number(a[1]) \in -149 .. -1
    BY <1>15 DEF Missed
  <2>3. floatPower2(Number(a[1])) = test_floatPower2(Number(a[1])) <=> ~ (Number(a[1]) \in -149 .. -1)
    BY <1>2, FloatPower2Right, Zenon
  <2> QED
    BY <2>1, <2>2, <2>3, Zenon
<1> QED
  BY <1>3, <1>4, <1>5, <1>6, <1>7, <1>8, <1>9, <1>10, <1>11, <1>12, <1>13, <1>14, <1>15 DEF PuzzleName

(* What gen_vals generates is a tuple of ints, for any windows.            *)
LEMMA Generated ==
  ASSUME NEW r \in int, \A k \in DOMAIN argval : argval[k] \in int
  PROVE  \A t : Tested(t, r) \subseteq int \X int \X int
<1>1. \A n : Num(n) \in int
  BY DEF Num, int, Bit
<1>2. \A x, n : Minus(x, n) \in int
  BY DEF Minus, Plus, int
<1>3. \A x, y : Plus(x, y) \in int
  BY DEF Plus, int
<1>4. \A x, n : Around(x, n) \subseteq int
  BY <1>2, <1>3 DEF Around
<1>5. \A S : S \subseteq int => EitherSign(S) \subseteq int
  <2> TAKE S
  <2> HAVE S \subseteq int
  <2>1. \A x \in S : {31} \cup x \in int
    BY DEF int, Bit
  <2> QED
    BY <2>1 DEF EitherSign
<1>6. \A range : FloatVals(range) \subseteq int
  <2> TAKE range
  <2> DEFINE N == 0 .. range - 1
  <2>1. {23 .. 30, 22 .. 30} \subseteq int
    BY DEF int, Bit
  <2> HIDE DEF N
  <2>2. {Num(n) : n \in N} \cup (UNION {Around({23}, n) : n \in N}) \cup (UNION {Around(23 .. 29, n) : n \in N})
          \cup {Minus(24 .. 30, n) : n \in N} \cup {23 .. 30, 22 .. 30} \subseteq int
    <3>1. {Num(n) : n \in N} \subseteq int
      BY <1>1
    <3>2. UNION {Around({23}, n) : n \in N} \subseteq int
      BY <1>4
    <3>3. UNION {Around(23 .. 29, n) : n \in N} \subseteq int
      BY <1>4
    <3>4. {Minus(24 .. 30, n) : n \in N} \subseteq int
      BY <1>2
    <3> QED
      BY <2>1, <3>1, <3>2, <3>3, <3>4
  <2> QED
    BY <1>5, <2>2, Zenon DEF FloatVals, N
<1>7. \A range : IntVals(range, r) \subseteq int
  <2> TAKE range
  <2> DEFINE N == 0 .. range - 1
  <2> HIDE DEF N
  <2>1. \A n \in N : {Plus({31}, Num(n)), Minus(0 .. 30, n), Num(n), Minus(ZERO, n)} \subseteq int
    BY <1>1, <1>2, <1>3
  <2>2. {r} \cup (UNION {{Plus({31}, Num(n)), Minus(0 .. 30, n), Num(n), Minus(ZERO, n)} : n \in N}) \subseteq int
    BY <2>1
  <2> QED
    BY <2>2, Zenon DEF IntVals, N
<1>8. \A k, t, range : gen_vals(k, t, range, r) \subseteq int
  BY <1>6, <1>7 DEF gen_vals
<1>9. ZERO \in int
  BY DEF ZERO, int
<1> TAKE t
<1> DEFINE S(k) == IF k <= t.args THEN gen_vals(k, t, Root(t.args), r) ELSE {ZERO}
<1>10. S(1) \subseteq int /\ S(2) \subseteq int /\ S(3) \subseteq int
  BY <1>8, <1>9
<1>11. Tested(t, r) = S(1) \X S(2) \X S(3)
  BY Zenon DEF Tested
<1> HIDE DEF S
<1> QED
  BY <1>10, <1>11

(* There are 13 puzzles.                                                   *)
LEMMA TestSet == /\ Len(test_set) = 13
                 /\ \A k \in 1 .. 13 : test_set[k].name \in PuzzleName
BY DEF test_set, Puzzle, PuzzleName

(* The driver's state, as far as the verdict on a puzzle depends on it.    *)
BtestTypes ==
    /\ i \in Nat \ {0} /\ random \in int /\ terrors \in {0, 1}
    /\ \A k \in DOMAIN argval : argval[k] \in int
    /\ pc \in {"setjmp", "testing", "score"} => i <= Len(test_set)

(* The state main starts in.                                               *)
LEMMA BtestInitial == BtestInit => BtestTypes /\ WrongExactlyWhenMissed
BY DEF BtestInit, BtestTypes, WrongExactlyWhenMissed, NoArgs, ZERO, int

(* Every step keeps the types.                                             *)
LEMMA BtestTypesStep ==
  ASSUME BtestTypes, [BtestNext]_btestVars
  PROVE  BtestTypes'
<1> USE DEF BtestTypes
<1>1. ASSUME BtestNext PROVE BtestTypes'
  <2>1. ASSUME OptionName \/ OptionNoTimeout PROVE BtestTypes'
    BY <2>1 DEF OptionName, OptionNoTimeout, Totals, Alarms, Result
  <2>2. ASSUME NEW k \in 1 .. 3, NEW v \in ArgVals[k], OptionArg(k, v) PROVE BtestTypes'
    <3>1. v \in int
      BY ValuesAssumption
    <3>2. \A j \in DOMAIN argval' : argval'[j] \in int
      BY <2>2, <3>1 DEF OptionArg
    <3> QED
      BY <2>2, <3>2 DEF OptionArg, Totals, Alarms, Result
  <2>3. ASSUME RunTests \/ SetAlarm \/ Exit PROVE BtestTypes'
    BY <2>3 DEF RunTests, SetAlarm, Exit, Config, Totals, Alarms, Result
  <2>4. ASSUME GenVals PROVE BtestTypes'
    BY <2>4, ValuesAssumption DEF GenVals, Config, Totals, Alarms
  <2>5. ASSUME Skip \/ Score PROVE BtestTypes'
    BY <2>5 DEF Skip, Score, Config, Alarms, Result
  <2>6. ASSUME TestFunction PROVE BtestTypes'
    BY <2>6 DEF TestFunction, Config, Totals, Alarms
  <2>7. ASSUME Alarm PROVE BtestTypes'
    BY <2>7 DEF Alarm, Config, Totals
  <2> QED
    BY <1>1, <2>1, <2>2, <2>3, <2>4, <2>5, <2>6, <2>7 DEF BtestNext
<1>2. ASSUME UNCHANGED btestVars PROVE BtestTypes'
  BY <1>2 DEF btestVars
<1> QED
  BY <1>1, <1>2

(* test_function counts an error exactly if it tried a missed input.       *)
LEMMA BtestVerdict ==
  ASSUME BtestTypes, TestFunction
  PROVE  terrors' = 1 <=> \E a \in Tested(test_set[i], random) : Missed(test_set[i].name, a)
<1>1. test_set[i].name \in PuzzleName
  BY TestSet DEF BtestTypes, TestFunction
<1>2. \A a \in Tested(test_set[i], random) : a \in int \X int \X int
  BY Generated DEF BtestTypes
<1>3. \A a \in Tested(test_set[i], random) : Agree(test_set[i].name, a) <=> ~ Missed(test_set[i].name, a)
  BY <1>1, <1>2, BitsAgree
<1>4. terrors' = IF \A a \in Tested(test_set[i], random) : Agree(test_set[i].name, a) THEN 0 ELSE 1
  BY DEF TestFunction
<1> QED
  BY <1>3, <1>4

(* Every step keeps the verdict exact: what it depends on does not change  *)
(* before the score is taken.                                              *)
LEMMA BtestStep ==
  ASSUME BtestTypes, WrongExactlyWhenMissed, [BtestNext]_btestVars
  PROVE  WrongExactlyWhenMissed'
<1> USE DEF WrongExactlyWhenMissed
<1>1. CASE TestFunction
  <2>1. /\ argval' = argval /\ i' = i /\ random' = random
    BY <1>1 DEF TestFunction, Config, Totals, Alarms
  <2>2. terrors' = 1 <=> \E a \in Tested(test_set[i], random) : Missed(test_set[i].name, a)
    BY <1>1, BtestVerdict
  <2> QED
    BY <2>1, <2>2 DEF Tested, gen_vals
<1>2. CASE UNCHANGED btestVars
  BY <1>2 DEF btestVars, Tested, gen_vals
<1>3. ASSUME BtestNext, ~ TestFunction PROVE ~ (pc' = "score" /\ ~ expired')
  <2>1. ASSUME OptionName \/ OptionNoTimeout \/ RunTests \/ GenVals \/ Skip \/ SetAlarm \/ Score \/ Exit
        PROVE  pc' # "score"
    BY <2>1 DEF OptionName, OptionNoTimeout, RunTests, GenVals, Skip, SetAlarm, Score, Exit
  <2>2. ASSUME NEW k, NEW v, OptionArg(k, v) PROVE pc' # "score"
    BY <2>2 DEF OptionArg
  <2>3. ASSUME Alarm PROVE ~ (pc' = "score" /\ ~ expired')
    BY <2>3 DEF Alarm
  <2> QED
    BY <1>3, <2>1, <2>2, <2>3 DEF BtestNext
<1> QED
  BY <1>1, <1>2, <1>3

(* run_tests: a verdict given in time is an error exactly if a tested      *)
(* input is one that Missed names, for every value of the options and of   *)
(* random_val.                                                             *)
THEOREM WrongStaysExact == BtestSpec => []WrongExactlyWhenMissed
<1>1. BtestInit => BtestTypes /\ WrongExactlyWhenMissed
  BY BtestInitial
<1>2. BtestTypes /\ WrongExactlyWhenMissed /\ [BtestNext]_btestVars => (BtestTypes /\ WrongExactlyWhenMissed)'
  BY BtestTypesStep, BtestStep
<1> QED
  BY <1>1, <1>2, PTL DEF BtestSpec

----------------------------------------------------------------------------
(* btest: the windows of gen_vals, and the marks of a session.             *)

(* A word without one of its bits.                                         *)
LEMMA Peel ==
  ASSUME NEW S, S \subseteq 0 .. 30, NEW k \in 0 .. 30
  PROVE  /\ Value(S \ {k}) \in Nat
         /\ Value(S) = (IF k \in S THEN 2 ^ k ELSE 0) + Value(S \ {k})
<1>1. S \ {k} \subseteq 0 .. 30
  OBVIOUS
<1>2. Value(S \ {k}) \in Nat
  BY <1>1, ValueFacts
<1>3. CASE k \in S
  BY <1>2, <1>3, ValueFacts
<1>4. CASE k \notin S
  <2>1. S \ {k} = S
    BY <1>4
  <2> QED
    BY <1>2, <1>4, <2>1
<1> QED
  BY <1>3, <1>4

(* R is S without its bit k, the highest it may have.                      *)
Peeled(S, R, k) ==
    /\ R \subseteq 0 .. k - 1 /\ Value(R) \in Nat
    /\ Value(S) = (IF k \in S THEN 2 ^ k ELSE 0) + Value(R)
    /\ \A j : j # k => (j \in R <=> j \in S)

(* Every word up to bit k has such a rest.                                 *)
LEMMA PeelTop ==
  ASSUME NEW k \in 0 .. 30
  PROVE  \A S : S \subseteq 0 .. k => \E R : Peeled(S, R, k)
<1> TAKE S
<1> HAVE S \subseteq 0 .. k
<1>1. S \subseteq 0 .. 30 /\ S \ {k} \subseteq 0 .. k - 1
  OBVIOUS
<1>2. \A j : j # k => (j \in S \ {k} <=> j \in S)
  OBVIOUS
<1>3. /\ Value(S \ {k}) \in Nat
      /\ Value(S) = (IF k \in S THEN 2 ^ k ELSE 0) + Value(S \ {k})
  BY <1>1, Peel, Zenon
<1> QED
  BY <1>1, <1>2, <1>3, Zenon DEF Peeled

(* An exponent of 254 or 158: the bits that the windows of gen_vals never  *)
(* combine.                                                                *)
LEMMA EightBits ==
  ASSUME NEW e, e \subseteq 0 .. 7
  PROVE  Value(e) \in {254, 158} => 0 \notin e /\ 1 \in e /\ 7 \in e
<1>1. PICK e7 : Peeled(e, e7, 7)
  <2>1. 7 \in 0 .. 30
    OBVIOUS
  <2>2. e \subseteq 0 .. 7
    OBVIOUS
  <2> QED
    BY <2>1, <2>2, PeelTop, Zenon
<1>2. PICK e6 : Peeled(e7, e6, 6)
  <2>1. 6 \in 0 .. 30
    OBVIOUS
  <2>2. e7 \subseteq 0 .. 6
    BY <1>1 DEF Peeled
  <2> QED
    BY <2>1, <2>2, PeelTop, Zenon
<1>3. PICK e5 : Peeled(e6, e5, 5)
  <2>1. 5 \in 0 .. 30
    OBVIOUS
  <2>2. e6 \subseteq 0 .. 5
    BY <1>2 DEF Peeled
  <2> QED
    BY <2>1, <2>2, PeelTop, Zenon
<1>4. PICK e4 : Peeled(e5, e4, 4)
  <2>1. 4 \in 0 .. 30
    OBVIOUS
  <2>2. e5 \subseteq 0 .. 4
    BY <1>3 DEF Peeled
  <2> QED
    BY <2>1, <2>2, PeelTop, Zenon
<1>5. PICK e3 : Peeled(e4, e3, 3)
  <2>1. 3 \in 0 .. 30
    OBVIOUS
  <2>2. e4 \subseteq 0 .. 3
    BY <1>4 DEF Peeled
  <2> QED
    BY <2>1, <2>2, PeelTop, Zenon
<1>6. PICK e2 : Peeled(e3, e2, 2)
  <2>1. 2 \in 0 .. 30
    OBVIOUS
  <2>2. e3 \subseteq 0 .. 2
    BY <1>5 DEF Peeled
  <2> QED
    BY <2>1, <2>2, PeelTop, Zenon
<1>7. PICK e1 : Peeled(e2, e1, 1)
  <2>1. 1 \in 0 .. 30
    OBVIOUS
  <2>2. e2 \subseteq 0 .. 1
    BY <1>6 DEF Peeled
  <2> QED
    BY <2>1, <2>2, PeelTop, Zenon
<1>8. PICK e0 : Peeled(e1, e0, 0)
  <2>1. 0 \in 0 .. 30
    OBVIOUS
  <2>2. e1 \subseteq 0 .. 0
    BY <1>7 DEF Peeled
  <2> QED
    BY <2>1, <2>2, PeelTop, Zenon
<1>9. Value(e0) = 0
  <2>1. e0 = {} /\ {} \subseteq 0 .. 30
    BY <1>8 DEF Peeled
  <2> QED
    BY <2>1, ValueFacts
<1>10. /\ 1 \in e2 <=> 1 \in e
       /\ 0 \in e1 <=> 0 \in e
  BY <1>1, <1>2, <1>3, <1>4, <1>5, <1>6, <1>7 DEF Peeled
<1> DEFINE B(S, k, w) == IF k \in S THEN w ELSE 0
<1>11. Value(e) = B(e, 7, 128) + B(e7, 6, 64) + B(e6, 5, 32) + B(e5, 4, 16)
                 + B(e4, 3, 8) + B(e3, 2, 4) + B(e2, 1, 2) + B(e1, 0, 1)
  BY <1>1, <1>2, <1>3, <1>4, <1>5, <1>6, <1>7, <1>8, <1>9 DEF Peeled
<1>12. /\ B(e, 7, 128) \in {0, 128} /\ B(e7, 6, 64) \in {0, 64} /\ B(e6, 5, 32) \in {0, 32} /\ B(e5, 4, 16) \in {0, 16}
       /\ B(e4, 3, 8) \in {0, 8} /\ B(e3, 2, 4) \in {0, 4} /\ B(e2, 1, 2) \in {0, 2} /\ B(e1, 0, 1) \in {0, 1}
       /\ (7 \in e <=> B(e, 7, 128) = 128) /\ (1 \in e <=> B(e2, 1, 2) = 2) /\ (0 \in e <=> B(e1, 0, 1) = 1)
  BY <1>10
<1> HIDE DEF B
<1> QED
  BY <1>11, <1>12

(* What a missed argument of floatScale2 and floatFloat2Int looks like.    *)
LEMMA MissedExponent ==
  ASSUME NEW x \in int, u2f(x).exp \in {254, 158}, u2f(x).frac # 0
  PROVE  23 \notin x /\ 24 \in x /\ 30 \in x /\ x \cap 0 .. 22 # {}
<1> DEFINE e  == {b - 23 : b \in x \cap 23 .. 30}
           fr == x \cap 0 .. 22
<1>1. u2f(x) = F(IF 31 \in x THEN 1 ELSE 0, Value(e), Value(fr))
  BY Zenon DEF u2f
<1>2. Value(e) \in {254, 158} /\ Value(fr) # 0
  <2> HIDE DEF e, fr
  <2> QED
    BY <1>1, FieldsOf
<1>3. e \subseteq 0 .. 7
  OBVIOUS
<1>4. 0 \notin e /\ 1 \in e /\ 7 \in e
  <2> HIDE DEF e, fr
  <2> QED
    BY <1>2, <1>3, EightBits
<1>5. fr # {}
  <2>1. {} \subseteq 0 .. 30
    OBVIOUS
  <2>2. Value({}) = 0
    BY <2>1, ValueFacts
  <2> QED
    BY <1>2, <2>2
<1>6. (23 \in x => 0 \in e) /\ (1 \in e => 24 \in x) /\ (7 \in e => 30 \in x)
  <2>1. 23 \in x => 23 - 23 \in e
    OBVIOUS
  <2>2. \A b \in 23 .. 30 : (b - 23 = 1 => b = 24) /\ (b - 23 = 7 => b = 30)
    OBVIOUS
  <2> QED
    BY <2>1, <2>2
<1> QED
  BY <1>4, <1>5, <1>6

(* A word and its complement add up to all ones.                           *)
LEMMA ValueComplement ==
  ASSUME NEW n \in 0 .. 31
  PROVE  \A S : S \subseteq 0 .. n - 1 => Value(S) + Value(0 .. n - 1 \ S) = 2 ^ n - 1
<1> DEFINE Holds(m) == \A S : S \subseteq 0 .. m - 1 => Value(S) + Value((0 .. m - 1) \ S) = 2 ^ m - 1
           Bad == {m \in 0 .. 31 : ~ Holds(m)}
<1>1. ASSUME Bad # {} PROVE FALSE
  <2>1. Bad \subseteq Nat
    OBVIOUS
  <2>2. PICK m \in Bad : \A k \in Bad : m <= k
    <3> HIDE DEF Bad
    <3> QED
      BY <1>1, <2>1, MinNat
  <2>3. PICK S : S \subseteq 0 .. m - 1 /\ Value(S) + Value((0 .. m - 1) \ S) # 2 ^ m - 1
    BY <2>2
  <2>4. m # 0
    <3> SUFFICES ASSUME m = 0 PROVE FALSE
      OBVIOUS
    <3>1. S = {} /\ (0 .. m - 1) \ S = {} /\ {} \subseteq 0 .. 30
      BY <2>3
    <3>2. Value({}) = 0
      BY <3>1, ValueFacts
    <3>3. 2 ^ m = 1
      OBVIOUS
    <3> QED
      BY <2>3, <3>1, <3>2, <3>3
  <2>5. PICK l \in 0 .. 30 : m = l + 1
    BY <2>4
  <2>6. Holds(l)
    <3>1. l \in 0 .. 31 /\ ~ (m <= l)
      BY <2>5
    <3>2. l \notin Bad
      BY <2>2, <3>1
    <3> QED
      BY <3>1, <3>2
  <2>7. 2 ^ l \in Nat \ {0} /\ 2 ^ m = 2 * 2 ^ l
    BY <2>5, PowerIs
  <2>8. PICK R : R = (0 .. m - 1) \ S
    OBVIOUS
  <2>9. /\ S \subseteq 0 .. 30 /\ R \subseteq 0 .. 30 /\ S \ {l} \subseteq 0 .. l - 1
        /\ R \ {l} = (0 .. l - 1) \ (S \ {l}) /\ (l \in R <=> l \notin S)
    BY <2>3, <2>5, <2>8
  <2>10. Value(S \ {l}) + Value(R \ {l}) = 2 ^ l - 1
    BY <2>6, <2>9
  <2>11. /\ Value(S \ {l}) \in Nat /\ Value(S) = (IF l \in S THEN 2 ^ l ELSE 0) + Value(S \ {l})
         /\ Value(R \ {l}) \in Nat /\ Value(R) = (IF l \in R THEN 2 ^ l ELSE 0) + Value(R \ {l})
    BY <2>9, Peel
  <2>12. Value(S) + Value(R) = 2 ^ m - 1
    BY <2>7, <2>9, <2>10, <2>11
  <2> QED
    BY <2>3, <2>8, <2>12
<1>2. Holds(n)
  BY <1>1
<1> QED
  BY <1>2

(* A missed argument of floatPower2 is at least -149: its bits from 8 on   *)
(* are all one.                                                            *)
LEMMA MissedPower ==
  ASSUME NEW x \in int, Number(x) \in -149 .. -1
  PROVE  8 .. 30 \subseteq x
<1> DEFINE S == x \ {31}
           C == (0 .. 30) \ S
<1>1. S \subseteq 0 .. 30 /\ C \subseteq 0 .. 30
  BY DEF int, Bit
<1> HIDE DEF S
<1>2. Value(S) \in Nat /\ Value(C) \in Nat
  BY <1>1, ValueFacts
<1>3. Value(S) + Value(C) = 2 ^ 31 - 1
  <2>1. 31 \in 0 .. 31 /\ S \subseteq 0 .. 31 - 1 /\ 0 .. 31 - 1 = 0 .. 30
    BY <1>1
  <2>2. Value(S) + Value(0 .. 31 - 1 \ S) = 2 ^ 31 - 1
    BY <2>1, ValueComplement, Zenon
  <2> QED
    BY <2>1, <2>2
<1>4. Number(x) = (IF 31 \in x THEN INT_MIN ELSE 0) + Value(S)
  BY Zenon DEF Number, S
<1> HIDE DEF C
<1>5. Value(C) < 149
  BY <1>2, <1>3, <1>4, SMT DEF INT_MIN
<1>6. ASSUME NEW k \in 8 .. 30, k \in C PROVE FALSE
  <2>1. 2 ^ k >= 256 /\ 2 ^ k \in Nat
    <3>1. PICK j \in 6 .. 28 : k = (j + 1) + 1
      <4>1. k - 2 \in 6 .. 28 /\ k = ((k - 2) + 1) + 1
        OBVIOUS
      <4> QED
        BY <4>1
    <3>2. j \in 0 .. 30 /\ j + 1 \in 0 .. 30 /\ j >= 6
      OBVIOUS
    <3>3. 2 ^ j \in Nat /\ 2 ^ j >= 64 /\ 2 ^ (j + 1) = 2 * 2 ^ j
      BY <3>2, PowerIs
    <3>4. 2 ^ k = 2 * 2 ^ (j + 1)
      BY <3>1, <3>2, PowerIs
    <3> QED
      BY <3>3, <3>4
  <2>2. Value(C) = 2 ^ k + Value(C \ {k}) /\ Value(C \ {k}) \in Nat
    BY <1>1, <1>6, ValueFacts
  <2> QED
    BY <1>5, <2>1, <2>2
<1> QED
  BY <1>6 DEF C, S

(* Numbers below 2^23 do not reach the exponent.                           *)
LEMMA NumLow == \A n \in Nat : n < 2 ^ 23 => Num(n) \subseteq 0 .. 22
<1> TAKE n \in Nat
<1> HAVE n < 2 ^ 23
<1>1. ASSUME NEW k \in 23 .. 30 PROVE n \div 2 ^ k = 0
  <2>1. k = 23 \/ k = 24 \/ k = 25 \/ k = 26 \/ k = 27 \/ k = 28 \/ k = 29 \/ k = 30
    OBVIOUS
  <2>2. 2 ^ k \in Nat /\ 2 ^ k >= 2 ^ 23
    <3>1. CASE k = 23
      BY <3>1, SMT
    <3>2. CASE k = 24
      BY <3>2, SMT
    <3>3. CASE k = 25
      BY <3>3, SMT
    <3>4. CASE k = 26
      BY <3>4, SMT
    <3>5. CASE k = 27
      BY <3>5, SMT
    <3>6. CASE k = 28
      BY <3>6, SMT
    <3>7. CASE k = 29
      BY <3>7, SMT
    <3>8. CASE k = 30
      BY <3>8, SMT
    <3> QED
      BY <2>1, <3>1, <3>2, <3>3, <3>4, <3>5, <3>6, <3>7, <3>8, Zenon
  <2>3. PICK w \in Nat : w = 2 ^ k /\ n < w
    BY <2>2, SMT
  <2>4. n \div w = 0
    BY <2>3, SMT
  <2> QED
    BY <2>3, <2>4
<1>2. ASSUME NEW k \in Num(n) PROVE k \in 0 .. 22
  <2>1. k \in 0 .. 30 /\ (n \div 2 ^ k) % 2 = 1
    BY <1>2 DEF Num
  <2>2. CASE k \in 23 .. 30
    <3>1. n \div 2 ^ k = 0
      BY <1>1, <2>2, Zenon
    <3>2. PICK q : q = n \div 2 ^ k
      OBVIOUS
    <3>3. q = 0 /\ q % 2 = 1
      BY <2>1, <3>1, <3>2, Zenon
    <3> QED
      BY <3>3, SMT
  <2> QED
    BY <2>1, <2>2
<1> QED
  BY <1>2

(* Their negatives are all ones from the exponent on.                      *)
LEMMA NegateLow ==
  ASSUME NEW N, N \subseteq 0 .. 22
  PROVE  /\ N = {} => negate(N) = {}
         /\ N # {} => 23 .. 31 \subseteq negate(N)
         /\ negate(N) \subseteq Bit
<1>1. N \in int
  BY DEF int, Bit
<1>2. \A k \in Bit : k \in negate(N) <=> (k \in N <=> N \cap 0 .. k - 1 = {})
  BY <1>1, NegateIs
<1>3. negate(N) \subseteq Bit
  BY DEF negate, Plus
<1>4. ASSUME N # {}, NEW k \in 23 .. 31 PROVE k \in negate(N)
  <2>1. k \in Bit /\ k \notin N
    BY DEF Bit
  <2>2. N \cap 0 .. k - 1 # {}
    <3>1. PICK j \in N : TRUE
      BY <1>4
    <3>2. j \in 0 .. 22
      OBVIOUS
    <3>3. j \in 0 .. k - 1
      BY <3>2
    <3> QED
      BY <3>1, <3>3
  <2> QED
    BY <1>2, <1>4, <2>1, <2>2
<1>5. N = {} => negate(N) = {}
  BY <1>2, <1>3
<1> QED
  BY <1>3, <1>4, <1>5

(* A sum without carries.                                                  *)
LEMMA PlusDisjoint ==
  ASSUME NEW x \in int, NEW y \in int, x \cap y = {}
  PROVE  Plus(x, y) = x \cup y
<1>1. \A k : ~ Carry(x, y, k)
  BY DEF Carry
<1> QED
  BY <1>1 DEF Plus, int, Bit

(* What gen_vals gives a function on floats, the sign aside.               *)
Harmless(x) ==
    /\ x \in int
    /\ 30 \notin x \/ 23 \in x \/ x \cap 0 .. 22 = {}
    /\ ~ (21 .. 30 \subseteq x /\ 8 .. 20 \subseteq x)

(* The sign does no harm.                                                  *)
LEMMA HarmlessSign == \A x : Harmless(x) => Harmless({31} \cup x)
BY DEF Harmless, int, Bit

(* None of these is missed.                                                *)
LEMMA HarmlessIs ==
  ASSUME NEW x, Harmless(x)
  PROVE  /\ ~ (u2f(x).exp \in {254, 158} /\ u2f(x).frac # 0)
         /\ Number(x) \notin -149 .. -1
<1>1. x \in int
  BY DEF Harmless
<1>2. ~ (u2f(x).exp \in {254, 158} /\ u2f(x).frac # 0)
  <2> SUFFICES ASSUME u2f(x).exp \in {254, 158}, u2f(x).frac # 0 PROVE FALSE
    OBVIOUS
  <2>1. 23 \notin x /\ 30 \in x /\ x \cap 0 .. 22 # {}
    BY <1>1, MissedExponent
  <2> QED
    BY <2>1 DEF Harmless
<1>3. Number(x) \notin -149 .. -1
  <2> SUFFICES ASSUME Number(x) \in -149 .. -1 PROVE FALSE
    OBVIOUS
  <2>1. 8 .. 30 \subseteq x
    BY <1>1, MissedPower
  <2>2. 21 .. 30 \subseteq x /\ 8 .. 20 \subseteq x
    BY <2>1
  <2> QED
    BY <2>2 DEF Harmless
<1> QED
  BY <1>2, <1>3

(* The windows of gen_vals: around the least and around a middle exponent  *)
(* bit 30 stays zero, and below the largest one the borrow sets bit 23.    *)
LEMMA WindowsHarmless ==
  ASSUME NEW n \in Nat, n < 2 ^ 23
  PROVE  /\ Harmless(Num(n))
         /\ \A x \in Around({23}, n) \cup Around(23 .. 29, n) : Harmless(x)
         /\ Harmless(Minus(24 .. 30, n))
<1> DEFINE N == Num(n)
<1>1. N \subseteq 0 .. 22 /\ N \in int
  BY NumLow DEF int, Bit
<1> DEFINE M == negate(N)
<1>2. (N = {} => M = {}) /\ (N # {} => 23 .. 31 \subseteq M) /\ M \subseteq Bit
  <2> HIDE DEF N
  <2> QED
    BY <1>1, NegateLow
<1>3. {23} \in int /\ 23 .. 29 \in int /\ 24 .. 30 \in int
  BY DEF int, Bit
<1> HIDE DEF N, M
<1>4. Harmless(N)
  BY <1>1 DEF Harmless
<1>5. ASSUME NEW x \in int, x \subseteq 23 .. 29 PROVE Harmless(Plus(x, N))
  <2>1. x \cap N = {}
    BY <1>1, <1>5
  <2>2. Plus(x, N) = x \cup N
    BY <1>1, <2>1, PlusDisjoint
  <2>3. 30 \notin x \cup N /\ x \cup N \in int
    BY <1>1, <1>5 DEF int
  <2> QED
    BY <2>2, <2>3 DEF Harmless
<1>6. ASSUME NEW x \in int, x \in {{23}, 23 .. 29} PROVE Harmless(Plus(x, M))
  <2>1. Plus(x, M) \in int
    BY DEF Plus, int
  <2>2. 30 \notin x
    BY <1>6
  <2>3. CASE N = {}
    <3>1. x \cap M = {} /\ M \in int
      BY <1>2, <2>3 DEF int
    <3>2. Plus(x, M) = x
      BY <1>2, <2>3, <3>1, PlusDisjoint
    <3> QED
      BY <2>1, <2>2, <3>2 DEF Harmless
  <2>4. CASE N # {}
    <3>1. 23 \in x \cap M /\ 24 .. 29 \subseteq x \cup M /\ 30 \in M
      BY <1>2, <1>6, <2>4
    <3>2. Carry(x, M, 30)
      <4>1. 23 \in 0 .. 30 - 1 /\ 23 + 1 .. 30 - 1 = 24 .. 29
        OBVIOUS
      <4> QED
        BY <3>1, <4>1 DEF Carry
    <3>3. 30 \notin Plus(x, M)
      BY <2>2, <3>1, <3>2 DEF Plus
    <3> QED
      BY <2>1, <3>3 DEF Harmless
  <2> QED
    BY <2>3, <2>4
<1>7. Harmless(Plus(24 .. 30, M))
  <2>1. Plus(24 .. 30, M) \in int
    BY DEF Plus, int
  <2>2. CASE N = {}
    <3>1. 24 .. 30 \cap M = {} /\ M \in int
      BY <1>2, <2>2 DEF int
    <3>2. Plus(24 .. 30, M) = 24 .. 30
      BY <1>2, <1>3, <2>2, <3>1, PlusDisjoint
    <3>3. (24 .. 30) \cap 0 .. 22 = {} /\ 23 \notin 24 .. 30
      OBVIOUS
    <3> QED
      BY <2>1, <3>2, <3>3 DEF Harmless
  <2>3. CASE N # {}
    <3>1. 23 \in M /\ 24 \in M
      BY <1>2, <2>3
    <3>2. ~ Carry(24 .. 30, M, 23) /\ ~ Carry(24 .. 30, M, 24)
      BY DEF Carry
    <3>3. 23 \in Plus(24 .. 30, M) /\ 24 \notin Plus(24 .. 30, M)
      BY <3>1, <3>2 DEF Plus, Bit
    <3> QED
      BY <2>1, <3>3 DEF Harmless
  <2> QED
    BY <2>2, <2>3
<1>8. \A x \in int : Around(x, n) = {Plus(x, N), Plus(x, M)} /\ Minus(x, n) = Plus(x, M)
  BY Zenon DEF Around, Minus, N, M
<1>9. \A x \in Around({23}, n) : Harmless(x)
  BY <1>3, <1>5, <1>6, <1>8
<1>10. \A x \in Around(23 .. 29, n) : Harmless(x)
  BY <1>3, <1>5, <1>6, <1>8
<1>11. Harmless(Minus(24 .. 30, n))
  BY <1>3, <1>7, <1>8
<1> QED
  BY <1>4, <1>9, <1>10, <1>11 DEF N

(* Windows of up to 2^23 values, on either side, hold no missed input.     *)
LEMMA FloatValsHarmless ==
  ASSUME NEW range \in Nat, range <= 2 ^ 23
  PROVE  \A x \in FloatVals(range) : Harmless(x)
<1>1. ASSUME NEW n \in 0 .. range - 1 PROVE n \in Nat /\ n < 2 ^ 23
  BY SMT
<1>2. Harmless(23 .. 30) /\ Harmless(22 .. 30)
  BY DEF Harmless, int, Bit
<1> DEFINE N == 0 .. range - 1
<1>3. \A n \in N : /\ Harmless(Num(n)) /\ Harmless(Minus(24 .. 30, n))
                   /\ \A x \in Around({23}, n) : Harmless(x)
                   /\ \A x \in Around(23 .. 29, n) : Harmless(x)
  BY <1>1, WindowsHarmless, Zenon
<1> DEFINE S == {Num(n) : n \in N} \cup (UNION {Around({23}, n) : n \in N}) \cup (UNION {Around(23 .. 29, n) : n \in N})
                  \cup {Minus(24 .. 30, n) : n \in N} \cup {23 .. 30, 22 .. 30}
<1> HIDE DEF N
<1>4. \A x \in S : Harmless(x)
  BY <1>2, <1>3
<1>5. FloatVals(range) = EitherSign(S)
  BY Zenon DEF FloatVals, N
<1> HIDE DEF S
<1> QED
  BY <1>4, <1>5, HarmlessSign DEF EitherSign

(* The ratings as a SizeSum.                                               *)
Ratings == [k \in 1 .. 13 |-> [size |-> test_set[k].rating]]

(* The ratings of the puzzles.                                             *)
LEMMA Rates ==
  /\ DOMAIN test_set = 1 .. 13 /\ DOMAIN Ratings = 1 .. 13
  /\ \A k \in 1 .. 13 : Ratings[k].size = test_set[k].rating /\ test_set[k].rating \in Nat
BY DEF test_set, Puzzle, Ratings

(* The sum over test_set as a SizeSum.                                     *)
LEMMA AllRatings ==
  MapThenSumSet(LAMBDA k : test_set[k].rating, DOMAIN test_set) = SizeSum(Ratings, 1 .. 13)
<1> DEFINE S == 1 .. 13
           E(f) == [s \in SUBSET S |-> IF s = {} THEN 0 ELSE test_set[Pick(s)].rating + f[s \ {Pick(s)}]]
           iter == CHOOSE f : f = E(f)
<1>1. MapThenSumSet(LAMBDA k : test_set[k].rating, S) = iter[S]
  BY DEF MapThenSumSet, MapThenFoldSet, Pick
<1>2. IsFiniteSet(S) /\ \A x \in S : Ratings[x].size \in Nat
  <2>1. IsFiniteSet(1 .. 13)
    <3>1. 1 \in Int /\ 13 \in Int
      OBVIOUS
    <3> QED
      BY <3>1, FS_Interval
  <2> QED
    BY <2>1, Rates
<1>3. PICK h : Weighs(Ratings, S, h) /\ SizeSum(Ratings, S) = h[S]
  BY <1>2, SizeSumIs
<1>4. ASSUME NEW s \in SUBSET S, s # {} PROVE Pick(s) \in s /\ Ratings[Pick(s)].size = test_set[Pick(s)].rating
  <2>1. Pick(s) \in s
    BY <1>4 DEF Pick
  <2> QED
    BY <2>1, Rates
<1>5. h = E(h)
  <2>1. \A s \in SUBSET S : h[s] = IF s = {} THEN 0 ELSE test_set[Pick(s)].rating + h[s \ {Pick(s)}]
    BY <1>3, <1>4 DEF Weighs
  <2>2. h = [s \in SUBSET S |-> h[s]]
    BY <1>3 DEF Weighs
  <2> QED
    BY <2>1, <2>2
<1>6. iter = E(iter)
  BY <1>5
<1> HIDE DEF iter
<1>7. \A s \in SUBSET S : iter[s] = IF s = {} THEN 0 ELSE test_set[Pick(s)].rating + iter[s \ {Pick(s)}]
  <2> DEFINE b(s) == IF s = {} THEN 0 ELSE test_set[Pick(s)].rating + iter[s \ {Pick(s)}]
  <2>1. iter = [s \in SUBSET S |-> b(s)]
    BY <1>6
  <2> HIDE DEF b, E
  <2>2. \A s \in SUBSET S : iter[s] = b(s)
    BY <2>1
  <2> QED
    BY <2>2 DEF b
<1> DEFINE Bad == {s \in SUBSET S : iter[s] # h[s]}
<1>8. ASSUME Bad # {} PROVE FALSE
  <2>1. PICK s : s \in Bad /\ \A d \in Bad : Cardinality(s) <= Cardinality(d)
    <3>1. Bad \subseteq SUBSET S
      OBVIOUS
    <3> HIDE DEF Bad
    <3> QED
      BY <1>2, <1>8, <3>1, LeastSubset
  <2>2. s \in SUBSET S /\ iter[s] # h[s]
    BY <2>1
  <2>3. s # {}
    BY <1>3, <1>7, <2>2 DEF Weighs
  <2>4. PICK x \in s : x = Pick(s) /\ Ratings[x].size = test_set[x].rating
    BY <1>4, <2>2, <2>3
  <2>5. /\ s \ {x} \in SUBSET S /\ Cardinality(s \ {x}) < Cardinality(s)
        /\ Cardinality(s) \in Nat /\ Cardinality(s \ {x}) \in Nat
    <3> HIDE DEF S, E, Bad
    <3> QED
      BY <1>2, <2>2, PickedOut
  <2>6. s \ {x} \notin Bad
    <3> HIDE DEF Bad
    <3> QED
      BY <2>1, <2>5
  <2>7. iter[s \ {x}] = h[s \ {x}]
    BY <2>5, <2>6
  <2>8. iter[s] = test_set[x].rating + iter[s \ {x}]
    BY <1>7, <2>2, <2>3, <2>4
  <2>9. h[s] = test_set[x].rating + h[s \ {x}]
    BY <1>3, <2>2, <2>3, <2>4 DEF Weighs
  <2> QED
    BY <2>2, <2>7, <2>8, <2>9
<1>9. S \in SUBSET S /\ DOMAIN test_set = S
  BY Rates
<1> HIDE DEF E
<1> QED
  BY <1>1, <1>2, <1>3, <1>8, <1>9

(* The windows are no larger than TEST_RANGE.                              *)
LEMMA RootSmall == Root(1) \in Nat /\ Root(1) <= 2 ^ 23
<1> DEFINE S == {1} \cup {r \in 1 .. TEST_RANGE : r ^ 1 <= TEST_RANGE}
<1>1. TEST_RANGE \in Nat /\ TEST_RANGE >= 1 /\ TEST_RANGE <= 2 ^ 23
  BY RangeAssumption, SMT
<1>2. S \subseteq 0 .. TEST_RANGE /\ S # {}
  BY <1>1
<1> HIDE DEF S
<1>3. PICK m : Greatest(S, m)
  BY <1>1, <1>2, GreatestExists
<1>4. Max(S) = m
  <2>1. S \subseteq Nat
    BY <1>1, <1>2
  <2> QED
    BY <1>3, <2>1, MaxIs
<1>5. m \in 0 .. TEST_RANGE
  BY <1>2, <1>3 DEF Greatest
<1>6. Root(1) = Max(S)
  BY Zenon DEF Root, S
<1> QED
  BY <1>1, <1>4, <1>5, <1>6, SMT

(* The puzzles that take a float, or a power.                              *)
FloatName == {"floatScale2", "floatFloat2Int", "floatPower2"}

(* They take one argument, from the windows for floats.                    *)
LEMMA FloatPuzzles ==
  \A k \in 1 .. 13 : test_set[k].name \in FloatName => test_set[k].args = 1 /\ test_set[k].isfloat
BY DEF test_set, Puzzle, FloatName

(* Without options no puzzle is tested on an input it misses.              *)
LEMMA NothingMissed ==
  ASSUME NEW k \in 1 .. 13, NEW r, argval = NoArgs
  PROVE  \A a \in Tested(test_set[k], r) : ~ Missed(test_set[k].name, a)
<1> DEFINE t == test_set[k]
<1>1. CASE t.name \notin FloatName
  BY <1>1 DEF Missed, FloatName
<1>2. CASE t.name \in FloatName
  <2>1. t.args = 1 /\ t.isfloat
    BY <1>2, FloatPuzzles
  <2> HIDE DEF t
  <2> DEFINE S(j) == IF j <= t.args THEN gen_vals(j, t, Root(t.args), r) ELSE {ZERO}
  <2>2. Tested(t, r) = S(1) \X S(2) \X S(3)
    BY Zenon DEF Tested
  <2>3. S(1) = FloatVals(Root(1))
    <3>1. 1 \notin DOMAIN argval
      BY DEF NoArgs
    <3> QED
      BY <2>1, <3>1 DEF gen_vals
  <2> HIDE DEF S
  <2>4. \A a \in Tested(t, r) : a[1] \in FloatVals(Root(1))
    BY <2>2, <2>3
  <2>5. \A a \in Tested(t, r) : Harmless(a[1])
    BY <2>4, RootSmall, FloatValsHarmless, Zenon
  <2>6. ASSUME NEW a \in Tested(t, r) PROVE ~ Missed(t.name, a)
    <3>1. /\ ~ (u2f(a[1]).exp \in {254, 158} /\ u2f(a[1]).frac # 0)
          /\ Number(a[1]) \notin -149 .. -1
      BY <2>5, HarmlessIs, Zenon
    <3> QED
      BY <3>1 DEF Missed
  <2> QED
    BY <2>6 DEF t
<1> QED
  BY <1>1, <1>2

(* The counts of a session: no puzzle is counted before the options are    *)
(* read; without options every error is a timeout, the one of the puzzle   *)
(* being scored included.                                                  *)
BtestCounts ==
    /\ i \in 1 .. 14 /\ errors \in Nat /\ points \in Nat /\ max_points \in Nat /\ timeouts \in Nat
    /\ pc = "main" => i = 1 /\ errors = 0 /\ points = 0 /\ max_points = 0 /\ timeouts = 0 /\ ~ armed
    /\ test_fname = "all" /\ argval = NoArgs /\ pc \notin {"main", "gone"} =>
          /\ max_points = SizeSum(Ratings, 1 .. i - 1)
          /\ errors + (IF pc = "score" /\ expired THEN 1 ELSE 0) = timeouts
          /\ timeouts = 0 => points = max_points
          /\ pc = "score" => terrors = IF expired THEN 1 ELSE 0

(* The maximum grows by the rating of each puzzle.                         *)
LEMMA RatingSum ==
  /\ SizeSum(Ratings, 1 .. 0) = 0
  /\ \A k \in 1 .. 13 : SizeSum(Ratings, 1 .. k) = SizeSum(Ratings, 1 .. k - 1) + test_set[k].rating
<1>1. ASSUME NEW k \in 0 .. 13 PROVE IsFiniteSet(1 .. k) /\ \A y \in 1 .. k : Ratings[y].size \in Nat
  <2>1. IsFiniteSet(1 .. k)
    <3>1. 1 \in Int /\ k \in Int
      OBVIOUS
    <3> QED
      BY <3>1, FS_Interval
  <2>2. ASSUME NEW y \in 1 .. k PROVE Ratings[y].size \in Nat
    <3>1. y \in 1 .. 13
      OBVIOUS
    <3> QED
      BY <3>1, Rates
  <2> QED
    BY <2>1, <2>2
<1>2. SizeSum(Ratings, 1 .. 0) = 0
  <2>1. 1 .. 0 = {} /\ 0 \in 0 .. 13
    OBVIOUS
  <2> QED
    BY <1>1, <2>1, SizeSumFacts
<1>3. ASSUME NEW k \in 1 .. 13
      PROVE  SizeSum(Ratings, 1 .. k) = SizeSum(Ratings, 1 .. k - 1) + test_set[k].rating
  <2>1. PICK R : R = 1 .. k - 1
    OBVIOUS
  <2>2. IsFiniteSet(R) /\ \A y \in R : Ratings[y].size \in Nat
    <3>1. k - 1 \in 0 .. 13
      OBVIOUS
    <3> QED
      BY <1>1, <2>1, <3>1
  <2>3. k \notin R /\ 1 .. k = R \cup {k}
    BY <2>1
  <2>4. Ratings[k].size = test_set[k].rating /\ Ratings[k].size \in Nat
    BY Rates
  <2>5. SizeSum(Ratings, R \cup {k}) = SizeSum(Ratings, R) + Ratings[k].size
    BY <2>2, <2>3, <2>4, SizeSumAdd, Zenon
  <2> QED
    BY <2>1, <2>3, <2>4, <2>5, Zenon
<1> QED
  BY <1>2, <1>3

(* No count has begun when main starts.                                    *)
LEMMA BtestCountsInitial == BtestInit => BtestCounts
BY DEF BtestInit, BtestCounts

(* Every step keeps the counts.                                            *)
LEMMA BtestCountsStep ==
  ASSUME BtestTypes, BtestCounts, [BtestNext]_btestVars
  PROVE  BtestCounts'
<1>0. Len(test_set) = 13
  BY TestSet
<1>1. ASSUME OptionName \/ OptionNoTimeout PROVE BtestCounts'
  BY <1>1 DEF OptionName, OptionNoTimeout, Totals, Alarms, Result, BtestCounts
<1>2. ASSUME NEW k \in 1 .. 3, NEW v \in ArgVals[k], OptionArg(k, v) PROVE BtestCounts'
  <2>1. pc = "main" /\ pc' \in {"main", "exit"}
    BY <1>2 DEF OptionArg
  <2>2. UNCHANGED <<test_fname, i, errors, points, max_points, timeouts, armed, terrors, expired>>
    BY <1>2 DEF OptionArg, Totals, Alarms, Result
  <2>3. SizeSum(Ratings, 1 .. 1 - 1) = 0
    BY RatingSum
  <2> QED
    BY <2>1, <2>2, <2>3 DEF BtestCounts
<1>3. ASSUME RunTests PROVE BtestCounts'
  <2>1. pc = "main" /\ pc' = "next"
    BY <1>3 DEF RunTests
  <2>2. UNCHANGED <<test_fname, argval, i, errors, points, max_points, timeouts, armed, terrors, expired>>
    BY <1>3 DEF RunTests, Config, Totals, Alarms, Result
  <2>3. SizeSum(Ratings, 1 .. 1 - 1) = 0
    BY RatingSum
  <2> QED
    BY <2>1, <2>2, <2>3 DEF BtestCounts
<1>4. ASSUME GenVals \/ SetAlarm \/ Exit PROVE BtestCounts'
  <2>1. pc \in {"next", "setjmp"} /\ pc' \in {"setjmp", "testing", "exit"}
    BY <1>4 DEF GenVals, SetAlarm, Exit
  <2>2. UNCHANGED <<test_fname, argval, i, errors, points, max_points, timeouts>>
    BY <1>4 DEF GenVals, SetAlarm, Exit, Config, Totals, Alarms
  <2> QED
    BY <2>1, <2>2 DEF BtestCounts
<1>5. ASSUME Skip PROVE BtestCounts'
  <2>1. /\ pc = "next" /\ pc' = "next" /\ test_fname # "all" /\ i <= 13 /\ i' = i + 1
        /\ UNCHANGED <<test_fname, errors, points, max_points, timeouts>>
    BY <1>0, <1>5 DEF Skip, Chosen, Config, Alarms
  <2> QED
    BY <2>1 DEF BtestCounts
<1>6. ASSUME TestFunction PROVE BtestCounts'
  <2>1. pc = "testing" /\ pc' = "score" /\ expired' = FALSE
    BY <1>6 DEF TestFunction
  <2>2. UNCHANGED <<test_fname, argval, i, errors, points, max_points, timeouts>>
    BY <1>6 DEF TestFunction, Config, Totals, Alarms
  <2>3. argval = NoArgs => terrors' = 0
    <3> SUFFICES ASSUME argval = NoArgs PROVE terrors' = 0
      OBVIOUS
    <3>1. i \in 1 .. 13
      BY <1>0, <2>1 DEF BtestTypes
    <3>2. \A a \in Tested(test_set[i], random) : ~ Missed(test_set[i].name, a)
      BY <3>1, NothingMissed
    <3>3. terrors' = 1 <=> \E a \in Tested(test_set[i], random) : Missed(test_set[i].name, a)
      BY <1>6, BtestVerdict
    <3>4. terrors' \in {0, 1}
      BY <1>6 DEF TestFunction
    <3> QED
      BY <3>2, <3>3, <3>4
  <2> QED
    BY <2>1, <2>2, <2>3 DEF BtestCounts
<1>7. ASSUME Score PROVE BtestCounts'
  <2>1. /\ pc = "score" /\ pc' = "next" /\ i' = i + 1 /\ i \in 1 .. 13
        /\ errors' = errors + terrors
        /\ points' = points + (IF terrors = 0 THEN test_set[i].rating ELSE 0)
        /\ max_points' = max_points + test_set[i].rating
        /\ UNCHANGED <<test_fname, argval, timeouts>>
    BY <1>0, <1>7 DEF Score, Config, Alarms, BtestTypes
  <2>2. test_set[i].rating \in Nat /\ terrors \in {0, 1}
    BY <2>1, Rates DEF BtestTypes
  <2>3. SizeSum(Ratings, 1 .. i) = SizeSum(Ratings, 1 .. i - 1) + test_set[i].rating /\ i' - 1 = i
    <3>1. i \in 1 .. 13 /\ i' - 1 = i
      BY <2>1
    <3> QED
      BY <3>1, RatingSum, Zenon
  <2>4. i' \in 1 .. 14 /\ errors' \in Nat /\ points' \in Nat /\ max_points' \in Nat /\ timeouts' \in Nat
    BY <2>1, <2>2 DEF BtestCounts
  <2>5. ASSUME test_fname' = "all", argval' = NoArgs
        PROVE  /\ max_points' = SizeSum(Ratings, 1 .. i' - 1)
               /\ errors' = timeouts'
               /\ timeouts' = 0 => points' = max_points'
    <3>1. /\ max_points = SizeSum(Ratings, 1 .. i - 1) /\ errors + (IF expired THEN 1 ELSE 0) = timeouts
          /\ timeouts = 0 => points = max_points
          /\ terrors = IF expired THEN 1 ELSE 0
      BY <2>1, <2>5 DEF BtestCounts
    <3>2. max_points' = SizeSum(Ratings, 1 .. i' - 1)
      BY <2>1, <2>3, <3>1
    <3>3. errors' = timeouts'
      BY <2>1, <3>1
    <3>4. timeouts' = 0 => points' = max_points'
      <4>1. timeouts = 0 => terrors = 0
        BY <2>1, <3>1 DEF BtestCounts
      <4> QED
        BY <2>1, <2>2, <3>1, <4>1
    <3> QED
      BY <3>2, <3>3, <3>4
  <2>6. pc' # "main" /\ pc' # "score"
    BY <2>1
  <2>7. errors' + (IF pc' = "score" /\ expired' THEN 1 ELSE 0) = errors'
    <3>1. (IF pc' = "score" /\ expired' THEN 1 ELSE 0) = 0
      BY <2>6, Zenon
    <3>2. errors' + 0 = errors'
      <4>1. \A m \in Nat : m + 0 = m
        OBVIOUS
      <4> QED
        BY <2>4, <4>1, Zenon
    <3> QED
      BY <3>1, <3>2, Zenon
  <2> QED
    BY <2>4, <2>5, <2>6, <2>7, Zenon DEF BtestCounts
<1>8. ASSUME Alarm PROVE BtestCounts'
  <2>1. pc # "main"
    BY <1>8 DEF Alarm, BtestCounts
  <2>2. /\ timeouts' = timeouts + 1 /\ UNCHANGED <<test_fname, argval, i, errors, points, max_points>>
        /\ \/ pc = "testing" /\ pc' = "score" /\ terrors' = 1 /\ expired' = TRUE
           \/ pc' = "gone"
    BY <1>8 DEF Alarm, Config, Totals
  <2> QED
    BY <2>1, <2>2 DEF BtestCounts
<1>9. ASSUME UNCHANGED btestVars PROVE BtestCounts'
  BY <1>9 DEF btestVars, BtestCounts
<1> QED
  BY <1>1, <1>2, <1>3, <1>4, <1>5, <1>6, <1>7, <1>8, <1>9 DEF BtestNext

(* After the last puzzle the counts are the marks.                         *)
LEMMA CountsGiveFullMarks == BtestCounts => FullMarks
<1> SUFFICES ASSUME BtestCounts, pc = "exit", i > Len(test_set), test_fname = "all", argval = NoArgs
             PROVE  /\ timeouts = 0 => points = max_points /\ errors = 0
                    /\ errors = timeouts
                    /\ max_points = MapThenSumSet(LAMBDA k : test_set[k].rating, DOMAIN test_set)
  BY Zenon DEF FullMarks
<1>1. /\ max_points = SizeSum(Ratings, 1 .. i - 1) /\ errors = timeouts
      /\ timeouts = 0 => points = max_points
  BY DEF BtestCounts
<1>2. i - 1 = 13
  BY TestSet DEF BtestCounts
<1>3. max_points = SizeSum(Ratings, 1 .. 13)
  BY <1>1, <1>2
<1>4. max_points = MapThenSumSet(LAMBDA k : test_set[k].rating, DOMAIN test_set)
  BY <1>3, AllRatings, Zenon
<1> QED
  BY <1>1, <1>4, Zenon

(* main: a session over all puzzles without -1, -2 or -3 loses points to   *)
(* timeouts only, and its maximum is the sum of all ratings, for every     *)
(* TEST_RANGE up to 2^23 and every value of random_val.                    *)
THEOREM MarksStayFull == BtestSpec => []FullMarks
<1>1. BtestInit => BtestTypes /\ BtestCounts
  BY BtestInitial, BtestCountsInitial
<1>2. BtestTypes /\ BtestCounts /\ [BtestNext]_btestVars => (BtestTypes /\ BtestCounts)'
  BY BtestTypesStep, BtestCountsStep
<1> QED
  BY <1>1, <1>2, CountsGiveFullMarks, PTL DEF BtestSpec
=============================================================================
