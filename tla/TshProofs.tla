----------------------------- MODULE TshProofs -----------------------------
(***************************************************************************)
(* Invariants of the shell, for every number of slots and every set of     *)
(* processes.                                                              *)
(***************************************************************************)
EXTENDS Tsh, JobListProofs, FiniteSetTheorems

----------------------------------------------------------------------------
(* Type correctness.  The locals hold what the next step of the main flow  *)
(* expects: a child after fork, a slot inside do_bgfg.                     *)

LocalsOK ==
    /\ pc = "forked" => loc.pid \in PIDs /\ loc.st \in {"FG", "BG"}
    /\ pc \in {"setstate", "readpid", "cont", "contdone"} => loc.slot \in Slots

TInv == TypeOK /\ LocalsOK

LEMMA TInvInit == Init => TInv
BY DEF Init, TInv, TypeOK, LocalsOK, initjobs, clearjob, Job, JobState, PC,
       NoLoc, NoFrame, Errno, Frames, Signals, Keyboard, AllSigs, ProcState

(* The kernel's side of a kill.                                            *)
LEMMA KillType ==
  ASSUME TypeOK, NEW p \in PIDs \cup {NoPid}, NEW s, Kill(p, s)
  PROVE  /\ errno' \in Errno
         /\ pending' \in SUBSET Signals
         /\ proc' \in [PIDs -> ProcState]
         /\ held' \in SUBSET PIDs
<1> USE DEF TypeOK, Signals, Errno, ProcState
<1>1. CASE p = NoPid
  BY <1>1, NoPidAssumption DEF Kill
<1>2. CASE p \in PIDs
  <2>1. errno' \in Errno /\ GroupReceives(p, s)
    BY <1>2, NoPidAssumption DEF Kill
  <2>2. QED  BY <1>2, <2>1 DEF GroupReceives, ChildChanges
<1>3. QED  BY <1>1, <1>2

(* A handler that returns puts back what its frame holds.                  *)
LEMMA ReturnType ==
  ASSUME TypeOK, NEW s \in Signals, stack # <<>>, Return(s)
  PROVE  /\ stack' \in Seq(Signals)
         /\ mask' \in SUBSET AllSigs
         /\ saved' \in SUBSET AllSigs
         /\ frame' \in [Signals -> Frames]
         /\ errno' \in Errno
         /\ pc' = pc \/ pc' = "waitfg"
<1>1. frame[s] \in Frames /\ NoFrame \in Frames
  BY DEF TypeOK, Frames, NoFrame, Errno
<1>2. stack' \in Seq(Signals)
  BY DEF Return, TypeOK
<1>3. frame' \in [Signals -> Frames] /\ mask' \in SUBSET AllSigs
  BY <1>1 DEF Return, TypeOK, Frames
<1>4. /\ errno' \in Errno /\ saved' \in SUBSET AllSigs
      /\ pc' = pc \/ pc' = "waitfg"
  BY <1>1 DEF Return, TypeOK, Frames, Errno
<1>5. QED  BY <1>2, <1>3, <1>4

(* A handler that goes on to another place, with another child.            *)
LEMMA FrameType ==
  ASSUME TypeOK, NEW s \in Signals, NEW p \in PIDs \cup {NoPid},
         NEW at \in {"wait", "ended", "stopped", "kill", "ret"}
  PROVE  [frame EXCEPT ![s] = [@ EXCEPT !.at = at, !.pid = p]] \in [Signals -> Frames]
<1>1. [frame[s] EXCEPT !.at = at, !.pid = p] \in Frames
  BY DEF TypeOK, Frames
<1>2. QED  BY <1>1 DEF TypeOK

(* A command or a step of the main flow keeps the types.                   *)
LEMMA TInvMain == TInv /\ (Command \/ MainStep) => TInv'
<1> SUFFICES ASSUME TInv, Command \/ MainStep PROVE TInv'
  OBVIOUS
<1> USE DEF TInv, TypeOK, LocalsOK, PC, JobState, NoLoc, kernel
<1>1. ASSUME NEW p \in PIDs, NEW st \in {"FG", "BG"}, Fork(p, st) PROVE TInv'
  BY <1>1 DEF Fork, Main, mask_one, AllSigs, Signals, Keyboard, ProcState
<1>2. ASSUME NEW j \in Slots \cup {NoSlot}, NEW st \in {"FG", "BG"}, BgfgLookup(j, st)
      PROVE  TInv'
  BY <1>2 DEF BgfgLookup, Main
<1>3. ASSUME NEW p \in PIDs, NEW st \in {"FG", "BG"}, BgfgByPid(p, st) PROVE TInv'
  BY <1>2, <1>3, GetjobpidFacts DEF BgfgByPid
<1>4. ASSUME NEW n \in 1 .. MaxJid, NEW st \in {"FG", "BG"}, BgfgByJid(n, st) PROVE TInv'
  <2>1. getjobjid(jobs, n) \in Slots \cup {NoSlot}
    <3>1. {i \in Slots : jobs[i].jid = n} \subseteq Slots
      OBVIOUS
    <3> QED  BY <3>1, FirstSlotFacts DEF getjobjid
  <2> QED  BY <2>1, <1>2, <1>4 DEF BgfgByJid
<1>5. CASE Exit
  BY <1>5 DEF Exit, Main
<1>6. CASE RecordJob
  <2>1. loc.pid \in PIDs /\ loc.st \in JobState
    BY <1>6 DEF RecordJob, Main
  <2>2. jobs' \in [Slots -> Job] /\ nextjid' \in Nat \ {0}
    BY <1>6, <2>1, AddjobFacts DEF RecordJob
  <2> QED  BY <1>6, <2>2 DEF RecordJob, Main, AllSigs
<1>7. CASE WaitfgReturn
  BY <1>7 DEF WaitfgReturn, Main
<1>8. CASE WaitfgLoop
  BY <1>8 DEF WaitfgLoop, Main
<1>9. CASE WaitfgSuspend
  BY <1>9 DEF WaitfgSuspend, Main, suspendMask
<1>10. CASE BgfgSetState
  <2>1. loc.slot \in Slots /\ loc.st \in JobState
    BY <1>10 DEF BgfgSetState, Main
  <2>2. jobs' \in [Slots -> Job]
    BY <1>10, <2>1, SetStateFacts DEF BgfgSetState
  <2> QED  BY <1>10, <2>1, <2>2 DEF BgfgSetState, Main
<1>11. CASE BgfgReadPid
  <2>1. loc.slot \in Slots
    BY <1>11 DEF BgfgReadPid, Main
  <2>2. jobs[loc.slot].pid \in PIDs \cup {NoPid}
    BY <2>1 DEF Job
  <2> QED  BY <1>11, <2>1, <2>2 DEF BgfgReadPid, Main
<1>12. CASE BgfgContinue
  <2>1. Kill(loc.pid, "CONT") /\ loc.pid \in PIDs \cup {NoPid}
    BY <1>12 DEF BgfgContinue
  <2>2. /\ errno' \in Errno /\ pending' \in SUBSET Signals
        /\ proc' \in [PIDs -> ProcState] /\ held' \in SUBSET PIDs
    BY <2>1, KillType
  <2> QED  BY <1>12, <2>2 DEF BgfgContinue, Main
<1>13. CASE BgfgWait
  <2>1. loc.slot \in Slots
    BY <1>13 DEF BgfgWait, Main
  <2>2. jobs[loc.slot].pid \in PIDs \cup {NoPid}
    BY <2>1 DEF Job
  <2> QED  BY <1>13, <2>1, <2>2 DEF BgfgWait, Main
<1>14. QED
  BY <1>1, <1>3, <1>4, <1>5, <1>6, <1>7, <1>8, <1>9, <1>10, <1>11, <1>12, <1>13
     DEF Command, MainStep

(* A signal delivered, or a step of a handler, keeps the types.            *)
LEMMA TInvHandler ==
  ASSUME TInv, NEW s \in Signals, Deliver(s) \/ HandlerStep(s)
  PROVE  TInv'
<1> USE DEF TInv, TypeOK, LocalsOK, kernel
<1>1. CASE Deliver(s)
  <2>1. fgpid(jobs) \in PIDs \cup {NoPid}
    <3> DEFINE S == {k \in Slots : jobs[k].state = "FG"}
    <3>1. FirstSlot(S) \in Slots \cup {NoSlot} /\ (FirstSlot(S) # NoSlot => FirstSlot(S) \in Slots)
      <4>1. S \subseteq Slots
        OBVIOUS
      <4> HIDE DEF S
      <4> QED  BY <4>1, FirstSlotFacts
    <3>2. fgpid(jobs) = IF FirstSlot(S) = NoSlot THEN NoPid ELSE jobs[FirstSlot(S)].pid
      BY DEF fgpid
    <3> HIDE DEF S
    <3> QED  BY <3>1, <3>2 DEF Job
  <2>2. frame' \in [Signals -> Frames]
    BY <1>1, <2>1 DEF Deliver, Frames
  <2>3. mask' \in SUBSET AllSigs /\ pending' \in SUBSET Signals
    BY <1>1 DEF Deliver, AllSigs
  <2>4. stack' \in Seq(Signals)
    BY <1>1 DEF Deliver
  <2> QED  BY <1>1, <2>2, <2>3, <2>4 DEF Deliver
<1>2. ASSUME NEW p \in PIDs, WaitpidReports(p) PROVE TInv'
  <2>1. frame' \in [Signals -> Frames]
    <3>1. "CHLD" \in Signals
      BY DEF Signals
    <3>2. (IF proc[p] = "zombie" THEN "ended" ELSE "stopped") \in {"ended", "stopped"}
      OBVIOUS
    <3> QED  BY <1>2, <3>1, <3>2, FrameType DEF WaitpidReports
  <2>2. proc' \in [PIDs -> ProcState]
    BY <1>2 DEF WaitpidReports, ProcState
  <2> QED  BY <1>2, <2>1, <2>2 DEF WaitpidReports
<1>3. CASE SigchldUpdate
  <2>1. frame["CHLD"].pid \in PIDs \cup {NoPid}
    BY DEF Frames, Signals
  <2>2. jobs' \in [Slots -> Job] /\ nextjid' \in Nat \ {0}
    <3>1. CASE InHandler("CHLD", "ended")
      <4>1. /\ jobs' = deletejob(jobs, nextjid, frame["CHLD"].pid).jobs
            /\ nextjid' = deletejob(jobs, nextjid, frame["CHLD"].pid).nextjid
        BY <1>3, <3>1 DEF SigchldUpdate, RecordReport, InHandler
      <4> QED  BY <2>1, <4>1, DeletejobFacts
    <3>2. CASE InHandler("CHLD", "stopped")
      <4> DEFINE j == getjobpid(jobs, frame["CHLD"].pid)
      <4>1. /\ jobs' = IF j = NoSlot THEN jobs ELSE [jobs EXCEPT ![j].state = "ST"]
            /\ nextjid' = nextjid
        BY <1>3, <3>2 DEF SigchldUpdate, RecordReport, InHandler
      <4>2. j \in Slots \cup {NoSlot}
        BY <2>1, GetjobpidFacts
      <4> HIDE DEF j
      <4> QED  BY <4>1, <4>2, SetStateFacts DEF JobState
    <3> QED  BY <1>3, <3>1, <3>2 DEF SigchldUpdate, RecordReport
  <2>3. frame' \in [Signals -> Frames]
    <3>1. "CHLD" \in Signals
      BY DEF Signals
    <3> QED  BY <1>3, <3>1, FrameType DEF SigchldUpdate
  <2> QED  BY <1>3, <2>2, <2>3 DEF SigchldUpdate
<1>4. CASE SigchldDone
  <2>1. stack # <<>>
    BY <1>4 DEF SigchldDone, InHandler
  <2>2. CASE Return("CHLD")
    <3>1. "CHLD" \in Signals
      BY DEF Signals
    <3> QED  BY <1>4, <2>1, <2>2, <3>1, ReturnType DEF SigchldDone, PC
  <2>3. CASE pc' = "waiterror" /\ UNCHANGED <<errno, mask, saved, stack, frame>>
    BY <1>4, <2>3 DEF SigchldDone, PC
  <2> QED  BY <1>4, <2>2, <2>3 DEF SigchldDone
<1>5. CASE KeyboardKill(s)
  <2>1. Kill(frame[s].pid, s) /\ frame[s].pid \in PIDs \cup {NoPid}
    BY <1>5 DEF KeyboardKill, Frames
  <2>2. /\ errno' \in Errno /\ pending' \in SUBSET Signals
        /\ proc' \in [PIDs -> ProcState] /\ held' \in SUBSET PIDs
    BY <2>1, KillType
  <2>3. frame' \in [Signals -> Frames]
    BY <1>5, FrameType DEF KeyboardKill
  <2> QED  BY <1>5, <2>2, <2>3 DEF KeyboardKill
<1>6. CASE KeyboardReturn(s)
  <2>1. stack # <<>>
    BY <1>6 DEF KeyboardReturn, InHandler
  <2> QED  BY <1>6, <2>1, ReturnType DEF KeyboardReturn, PC
<1>7. QED
  BY <1>1, <1>2, <1>3, <1>4, <1>5, <1>6 DEF HandlerStep

(* The user and the children only touch pending and proc.                  *)
LEMMA TInvEnvironment == TInv /\ (Environment \/ Sigquit \/ Stopped) => TInv'
<1> SUFFICES ASSUME TInv, Environment \/ Sigquit \/ Stopped PROVE TInv'
  OBVIOUS
<1> USE DEF TInv, TypeOK, LocalsOK, shell, PC
<1>1. ASSUME NEW s \in Keys, Keypress(s) PROVE TInv'
  BY <1>1, KeysAssumption DEF Keypress, Signals, Keyboard
<1>2. ASSUME NEW p \in PIDs, ChildStarts(p) PROVE TInv'
  BY <1>2 DEF ChildStarts, ChildSetpgid, ChildExecve, ProcState
<1>3. ASSUME NEW p \in PIDs, ChildEnds(p) \/ ChildStops(p) PROVE TInv'
  BY <1>3 DEF ChildEnds, ChildStops, ChildChanges, ProcState, Signals
<1>4. CASE Sigquit
  BY <1>4 DEF Sigquit, kernel
<1>5. CASE Stopped
  BY <1>5 DEF Stopped, vars, kernel
<1>6. QED  BY <1>1, <1>2, <1>3, <1>4, <1>5 DEF Environment

LEMMA TInvNext == TInv /\ [Next]_vars => TInv'
<1> SUFFICES ASSUME TInv, [Next]_vars PROVE TInv'
  OBVIOUS
<1>1. CASE UNCHANGED vars
  BY <1>1 DEF TInv, TypeOK, LocalsOK, vars, shell, kernel
<1>2. CASE Next
  BY <1>2, TInvMain, TInvHandler, TInvEnvironment DEF Next
<1>3. QED  BY <1>1, <1>2

LEMMA TInvAlways == Spec => []TInv
BY TInvInit, TInvNext, PTL DEF Spec

(* Every variable keeps its type, for any number of slots and children.    *)
THEOREM TypeCorrect == Spec => []TypeOK
<1>1. TInv => TypeOK
  BY DEF TInv
<1>2. QED  BY <1>1, TInvAlways, PTL

----------------------------------------------------------------------------
(* The handlers nest.  The stack names the handlers that have started, a   *)
(* signal on it is blocked, and returning from a handler leaves blocked    *)
(* every signal whose handler it had interrupted: no handler is re-entered *)
(* while its frame is in use, and the main flow runs only without frames.  *)

Nested ==
    /\ \A s \in Signals : frame[s].at # "idle" <=> \E i \in 1 .. Len(stack) : stack[i] = s
    /\ \A i \in 1 .. Len(stack) : stack[i] \in mask
    /\ \A i, k \in 1 .. Len(stack) :
          i < k => stack[i] # stack[k] /\ stack[k] \in frame[stack[i]].oldmask

(* SIGCHLD stays blocked from fork to addjob, also while the handlers of   *)
(* SIGINT and SIGTSTP come and go.                                         *)
ForkWindow ==
    pc = "forked" =>
        /\ "CHLD" \in mask /\ frame["CHLD"].at = "idle"
        /\ \A s \in Signals : frame[s].at # "idle" => "CHLD" \in frame[s].oldmask
        /\ Live(loc.pid) /\ loc.pid \notin Listed(jobs)

RInv == TInv /\ Nested /\ ForkWindow /\ ReapedNotListed

(* A kill changes no child to or from free, and announces what it changes. *)
LEMMA KillFacts ==
  ASSUME TypeOK, NEW p \in PIDs \cup {NoPid}, NEW s, Kill(p, s)
  PROVE  /\ \A q \in PIDs : Live(q)' <=> Live(q)
         /\ \A q \in PIDs : Waitable(q)' => Waitable(q) \/ "CHLD" \in pending'
         /\ pending \subseteq pending'
<1> USE DEF TypeOK, ProcState, Live, Waitable
<1>1. CASE p = NoPid
  BY <1>1, NoPidAssumption DEF Kill
<1>2. CASE p \in PIDs
  <2>1. GroupReceives(p, s)
    BY <1>2, NoPidAssumption DEF Kill
  <2> QED  BY <1>2, <2>1 DEF GroupReceives, ChildChanges, Heeds, Paused
<1>3. QED  BY <1>1, <1>2

(* A handler that starts is innermost, and nests.                          *)
LEMMA NestedDeliver ==
  ASSUME TypeOK, Nested, NEW s \in Signals, Deliver(s)
  PROVE  Nested'
<1> DEFINE n == Len(stack)
<1>1. /\ n \in Nat /\ stack' \in Seq(Signals) /\ Len(stack') = n + 1
      /\ stack'[1] = s /\ \A i \in 1 .. n : stack'[i + 1] = stack[i]
  BY DEF TypeOK, Deliver
<1>2. \A i \in 1 .. Len(stack') : i = 1 \/ (i - 1 \in 1 .. n /\ stack'[i] = stack[i - 1])
  <2> TAKE i \in 1 .. Len(stack')
  <2>1. CASE i = 1
    BY <2>1
  <2>2. CASE i # 1
    <3>1. i - 1 \in 1 .. n /\ (i - 1) + 1 = i
      BY <1>1, <2>2
    <3> QED  BY <1>1, <3>1
  <2> QED  BY <2>1, <2>2
<1>3. \A i \in 1 .. n : stack[i] \in Signals /\ stack[i] # s
  BY DEF Nested, Deliver, TypeOK
<1>4. /\ frame'[s].at # "idle"
      /\ frame'[s].oldmask = IF Main("suspend") THEN saved ELSE mask
      /\ \A t \in Signals : t # s => frame'[t] = frame[t]
  BY DEF Deliver, TypeOK
<1>5. mask' = mask \cup {s}
  BY DEF Deliver
<1> HIDE DEF n
<1>6. \A t \in Signals : frame'[t].at # "idle" <=> \E i \in 1 .. Len(stack') : stack'[i] = t
  <2> TAKE t \in Signals
  <2>1. CASE t = s
    <3>1. 1 \in 1 .. Len(stack')
      BY <1>1
    <3> QED  BY <1>1, <1>4, <2>1, <3>1
  <2>2. CASE t # s
    <3>1. frame'[t].at # "idle" <=> \E i \in 1 .. n : stack[i] = t
      BY <1>4, <2>2 DEF Nested, n
    <3>2. ASSUME NEW i \in 1 .. n, stack[i] = t PROVE \E k \in 1 .. Len(stack') : stack'[k] = t
      <4>1. i + 1 \in 1 .. Len(stack')
        BY <1>1
      <4> QED  BY <1>1, <3>2, <4>1
    <3>3. ASSUME NEW k \in 1 .. Len(stack'), stack'[k] = t PROVE \E i \in 1 .. n : stack[i] = t
      BY <1>1, <1>2, <2>2, <3>3
    <3> QED  BY <3>1, <3>2, <3>3
  <2> QED  BY <2>1, <2>2
<1>7. \A i \in 1 .. Len(stack') : stack'[i] \in mask'
  BY <1>1, <1>2, <1>5 DEF Nested, n
<1>8. ASSUME NEW i \in 1 .. Len(stack'), NEW k \in 1 .. Len(stack'), i < k
      PROVE  stack'[i] # stack'[k] /\ stack'[k] \in frame'[stack'[i]].oldmask
  <2>1. k # 1 /\ k - 1 \in 1 .. n /\ stack'[k] = stack[k - 1]
    BY <1>2, <1>8
  <2>2. CASE i = 1
    <3>1. stack # <<>>
      BY <2>1 DEF n
    <3>2. stack[k - 1] \in mask
      BY <2>1 DEF Nested, n
    <3> QED  BY <1>1, <1>3, <1>4, <2>1, <2>2, <3>1, <3>2 DEF Main
  <2>3. CASE i # 1
    <3>1. i - 1 \in 1 .. n /\ stack'[i] = stack[i - 1] /\ i - 1 < k - 1
      BY <1>2, <1>8, <2>3
    <3>2. stack[i - 1] # stack[k - 1] /\ stack[k - 1] \in frame[stack[i - 1]].oldmask
      BY <2>1, <3>1 DEF Nested, n
    <3> QED  BY <1>3, <1>4, <2>1, <3>1, <3>2
  <2> QED  BY <2>2, <2>3
<1>9. QED  BY <1>6, <1>7, <1>8 DEF Nested

(* Returning from the innermost handler uncovers the one below.            *)
LEMMA NestedReturn ==
  ASSUME TypeOK, Nested, NEW s \in Signals, stack # <<>>, s = Head(stack), Return(s)
  PROVE  Nested'
<1> DEFINE n == Len(stack)
<1>1. /\ n \in Nat /\ n # 0 /\ Len(stack') = n - 1 /\ stack[1] = s
      /\ \A i \in 1 .. n - 1 : stack'[i] = stack[i + 1]
  BY DEF TypeOK, Return
<1>2. /\ mask' = frame[s].oldmask
      /\ frame'[s].at = "idle"
      /\ \A t \in Signals : t # s => frame'[t] = frame[t]
  BY DEF Return, TypeOK, NoFrame
<1>3. \A i \in 1 .. n : stack[i] \in Signals
  BY DEF TypeOK
<1> HIDE DEF n
<1>4. \A i \in 1 .. n - 1 : i + 1 \in 1 .. n /\ 1 < i + 1 /\ stack[i + 1] # s
                            /\ stack[i + 1] \in frame[s].oldmask
  <2> TAKE i \in 1 .. n - 1
  <2>1. 1 \in 1 .. n /\ i + 1 \in 1 .. n /\ 1 < i + 1
    BY <1>1
  <2>2. stack[1] # stack[i + 1] /\ stack[i + 1] \in frame[stack[1]].oldmask
    BY <2>1 DEF Nested, n
  <2> QED  BY <1>1, <2>1, <2>2
<1>5. \A t \in Signals : frame'[t].at # "idle" <=> \E i \in 1 .. Len(stack') : stack'[i] = t
  <2> TAKE t \in Signals
  <2>1. CASE t = s
    BY <1>1, <1>2, <1>4, <2>1
  <2>2. CASE t # s
    <3>1. frame'[t].at # "idle" <=> \E i \in 1 .. n : stack[i] = t
      BY <1>2, <2>2 DEF Nested, n
    <3>2. ASSUME NEW i \in 1 .. n, stack[i] = t PROVE \E k \in 1 .. Len(stack') : stack'[k] = t
      <4>1. i # 1
        BY <1>1, <2>2, <3>2
      <4>2. i - 1 \in 1 .. n - 1 /\ (i - 1) + 1 = i
        BY <1>1, <4>1
      <4> QED  BY <1>1, <3>2, <4>2
    <3>3. ASSUME NEW k \in 1 .. Len(stack'), stack'[k] = t PROVE \E i \in 1 .. n : stack[i] = t
      BY <1>1, <1>4, <3>3
    <3> QED  BY <3>1, <3>2, <3>3
  <2> QED  BY <2>1, <2>2
<1>6. \A i \in 1 .. Len(stack') : stack'[i] \in mask'
  BY <1>1, <1>2, <1>4
<1>7. ASSUME NEW i \in 1 .. Len(stack'), NEW k \in 1 .. Len(stack'), i < k
      PROVE  stack'[i] # stack'[k] /\ stack'[k] \in frame'[stack'[i]].oldmask
  <2>1. i + 1 \in 1 .. n /\ k + 1 \in 1 .. n /\ i + 1 < k + 1
    BY <1>1, <1>7
  <2>2. stack[i + 1] # stack[k + 1] /\ stack[k + 1] \in frame[stack[i + 1]].oldmask
    BY <2>1 DEF Nested, n
  <2> QED  BY <1>1, <1>2, <1>3, <1>4, <2>1, <2>2
<1>8. QED  BY <1>5, <1>6, <1>7 DEF Nested

----------------------------------------------------------------------------
(* No child event is lost.                                                 *)

LEMMA NoLostMain == TInv /\ NoLostChild /\ (Command \/ MainStep) => NoLostChild'
<1> SUFFICES ASSUME TInv, NoLostChild, Command \/ MainStep PROVE NoLostChild'
  OBVIOUS
<1> USE DEF NoLostChild, Waitable, Exited, kernel
<1>1. ASSUME NEW p \in PIDs, NEW st \in {"FG", "BG"}, Fork(p, st) PROVE NoLostChild'
  BY <1>1 DEF Fork, Main, TInv, TypeOK
<1>2. ASSUME NEW j, NEW st, BgfgLookup(j, st) PROVE NoLostChild'
  BY <1>2 DEF BgfgLookup, Main
<1>3. CASE Exit
  BY <1>3 DEF Exit
<1>4. CASE RecordJob \/ WaitfgReturn \/ WaitfgLoop \/ WaitfgSuspend \/ BgfgSetState
           \/ BgfgReadPid \/ BgfgWait
  BY <1>4 DEF RecordJob, WaitfgReturn, WaitfgLoop, WaitfgSuspend, BgfgSetState,
              BgfgReadPid, BgfgWait, Main
<1>5. CASE BgfgContinue
  <2>1. Kill(loc.pid, "CONT") /\ loc.pid \in PIDs \cup {NoPid}
    BY <1>5 DEF BgfgContinue, TInv, TypeOK
  <2>2. /\ \A q \in PIDs : Waitable(q)' => Waitable(q) \/ "CHLD" \in pending'
        /\ pending \subseteq pending'
    BY <2>1, KillFacts DEF TInv
  <2>3. frame' = frame /\ ~Exited
    BY <1>5 DEF BgfgContinue, Main
  <2> QED  BY <2>2, <2>3
<1>6. QED  BY <1>1, <1>2, <1>3, <1>4, <1>5 DEF Command, MainStep, BgfgByPid, BgfgByJid

LEMMA NoLostHandler ==
  ASSUME TInv, NoLostChild, NEW s \in Signals, Deliver(s) \/ HandlerStep(s)
  PROVE  NoLostChild'
<1> USE DEF NoLostChild, Waitable, Exited, kernel
<1>1. "CHLD" \in Signals /\ "CHLD" \notin Keyboard
  BY DEF Signals, Keyboard
<1>2. CASE Deliver(s)
  BY <1>1, <1>2 DEF Deliver, TInv, TypeOK
<1>3. ASSUME NEW p \in PIDs, WaitpidReports(p) PROVE NoLostChild'
  <2>1. frame'["CHLD"].at # "idle"
    BY <1>1, <1>3 DEF WaitpidReports, TInv, TypeOK, Frames
  <2> QED  BY <2>1
<1>4. CASE SigchldUpdate
  <2>1. frame'["CHLD"].at # "idle"
    BY <1>1, <1>4 DEF SigchldUpdate, TInv, TypeOK, Frames
  <2> QED  BY <2>1
<1>5. CASE SigchldDone
  BY <1>5 DEF SigchldDone
<1>6. ASSUME s \in Keyboard, KeyboardKill(s) PROVE NoLostChild'
  <2>1. Kill(frame[s].pid, s) /\ frame[s].pid \in PIDs \cup {NoPid}
    BY <1>6 DEF KeyboardKill, TInv, TypeOK, Frames
  <2>2. /\ \A q \in PIDs : Waitable(q)' => Waitable(q) \/ "CHLD" \in pending'
        /\ pending \subseteq pending'
    BY <2>1, KillFacts DEF TInv
  <2>3. frame'["CHLD"] = frame["CHLD"] /\ pc' = pc
    BY <1>1, <1>6 DEF KeyboardKill, TInv, TypeOK
  <2> QED  BY <2>2, <2>3
<1>7. ASSUME s \in Keyboard, KeyboardReturn(s) PROVE NoLostChild'
  <2>1. frame'["CHLD"] = frame["CHLD"] /\ pending' = pending /\ proc' = proc
    BY <1>1, <1>7 DEF KeyboardReturn, Return, TInv, TypeOK
  <2>2. ~Exited
    BY <1>7 DEF KeyboardReturn, InHandler
  <2> QED  BY <2>1, <2>2
<1>8. QED  BY <1>2, <1>3, <1>4, <1>5, <1>6, <1>7 DEF HandlerStep

LEMMA NoLostEnvironment ==
  TInv /\ NoLostChild /\ (Environment \/ Sigquit \/ Stopped) => NoLostChild'
<1> SUFFICES ASSUME TInv, NoLostChild, Environment \/ Sigquit \/ Stopped PROVE NoLostChild'
  OBVIOUS
<1> USE DEF NoLostChild, Waitable, Exited, shell
<1>1. ASSUME NEW s \in Keys, Keypress(s) PROVE NoLostChild'
  BY <1>1 DEF Keypress
<1>2. ASSUME NEW p \in PIDs, ChildStarts(p) PROVE NoLostChild'
  BY <1>2 DEF ChildStarts, ChildSetpgid, ChildExecve, TInv, TypeOK
<1>3. ASSUME NEW p \in PIDs, ChildEnds(p) \/ ChildStops(p) PROVE NoLostChild'
  BY <1>3 DEF ChildEnds, ChildStops, ChildChanges
<1>4. CASE Sigquit \/ Stopped
  BY <1>4 DEF Sigquit, Stopped, vars, kernel
<1>5. QED  BY <1>1, <1>2, <1>3, <1>4 DEF Environment

(* While a child has a change to report, the shell has a SIGCHLD to come   *)
(* or is in the handler's loop: one SIGCHLD for many children is enough.   *)
THEOREM NoChildIsLost == Spec => []NoLostChild
<1>1. Init => NoLostChild
  BY DEF Init, NoLostChild, Waitable
<1>2. TInv /\ NoLostChild /\ [Next]_vars => NoLostChild'
  <2> SUFFICES ASSUME TInv, NoLostChild, [Next]_vars PROVE NoLostChild'
    OBVIOUS
  <2>1. CASE UNCHANGED vars
    BY <2>1 DEF NoLostChild, Waitable, Exited, vars, shell, kernel
  <2>2. CASE Next
    BY <2>2, NoLostMain, NoLostHandler, NoLostEnvironment DEF Next
  <2>3. QED  BY <2>1, <2>2
<1>3. QED  BY <1>1, <1>2, TInvAlways, PTL DEF Spec

----------------------------------------------------------------------------
(* No job outlives its process in the list.                                *)

LEMMA RInvInit == Init => RInv
<1> SUFFICES ASSUME Init PROVE RInv
  OBVIOUS
<1>1. TInv
  BY TInvInit
<1>2. Nested /\ ForkWindow
  BY DEF Init, Nested, ForkWindow, NoFrame
<1>3. ReapedNotListed
  BY DEF Init, ReapedNotListed, UniquePids, Used, initjobs, clearjob
<1>4. QED  BY <1>1, <1>2, <1>3 DEF RInv

(* A step that leaves the stack and the frames' masks alone.               *)
LEMMA NestedSame ==
  ASSUME TypeOK, Nested, stack' = stack,
         mask' = mask \/ stack = <<>>,
         \A s \in Signals : /\ frame'[s].oldmask = frame[s].oldmask
                            /\ frame'[s].at # "idle" <=> frame[s].at # "idle"
  PROVE  Nested'
<1>1. \A i \in 1 .. Len(stack) : stack[i] \in Signals
  BY DEF TypeOK
<1>2. stack # <<>> \/ Len(stack) = 0
  OBVIOUS
<1>3. QED  BY <1>1, <1>2 DEF Nested

(* While the main flow runs, no handler has a frame.                       *)
LEMMA MainAlone ==
  ASSUME TypeOK, Nested, stack = <<>>
  PROVE  \A s \in Signals : frame[s].at = "idle"
BY DEF Nested

(* A change that frees no process and moves no job keeps the invariant.    *)
LEMMA ListSame ==
  ASSUME ReapedNotListed,
         jobs' \in [Slots -> Job], \A i \in Slots : jobs'[i].pid = jobs[i].pid,
         \A p \in PIDs : Live(p) => Live(p)',
         jobs \in [Slots -> Job],
         frame["CHLD"].at = "ended" => frame'["CHLD"].at = "ended"
                                       /\ frame'["CHLD"].pid = frame["CHLD"].pid
  PROVE  ReapedNotListed' /\ Listed(jobs') = Listed(jobs)
<1>1. Used(jobs') = Used(jobs) /\ Listed(jobs') = Listed(jobs)
  BY DEF Used, Listed
<1>2. \A i \in Used(jobs) : jobs[i].pid \in PIDs
  BY DEF Used, Job
<1>3. UniquePids(jobs')
  BY <1>1 DEF ReapedNotListed, UniquePids, Used
<1>4. QED  BY <1>1, <1>2, <1>3 DEF ReapedNotListed, Used

LEMMA RInvMain == RInv /\ (Command \/ MainStep) => RInv'
<1> SUFFICES ASSUME RInv, Command \/ MainStep PROVE RInv'
  OBVIOUS
<1>1. TInv' /\ TInv /\ TypeOK
  BY TInvMain DEF RInv, TInv
<1>2. stack = <<>> /\ stack' = stack /\ frame' = frame
  BY DEF Command, MainStep, Fork, BgfgByPid, BgfgByJid, BgfgLookup, Exit, RecordJob,
         WaitfgReturn, WaitfgLoop, WaitfgSuspend, BgfgSetState, BgfgReadPid,
         BgfgContinue, BgfgWait, Main
<1>3. Nested'
  BY <1>1, <1>2, NestedSame DEF RInv
<1>4. \A s \in Signals : frame[s].at = "idle"
  BY <1>1, <1>2, MainAlone DEF RInv
<1>5. \A i \in Used(jobs) : Live(jobs[i].pid) /\ jobs[i].pid \in PIDs
  BY <1>1, <1>4 DEF RInv, ReapedNotListed, Signals, TypeOK, Used, Job
<1>6. SUFFICES ForkWindow' /\ ReapedNotListed'
  BY <1>1, <1>3 DEF RInv
<1>7. ASSUME NEW p \in PIDs, NEW st \in {"FG", "BG"}, Fork(p, st)
      PROVE  ForkWindow' /\ ReapedNotListed'
  <2>1. jobs' = jobs /\ pc' = "forked" /\ loc'.pid = p /\ "CHLD" \in mask' /\ ~Live(p)
    BY <1>7 DEF Fork, Main, NoLoc, mask_one, Live
  <2>2. \A q \in PIDs : Live(q)' <=> (Live(q) \/ q = p)
    BY <1>1, <1>7 DEF Fork, Live, TypeOK, ProcState
  <2>3. p \notin Listed(jobs)
    BY <1>5, <2>1 DEF Listed
  <2>4. ForkWindow'
    BY <1>2, <1>4, <2>1, <2>2, <2>3 DEF ForkWindow, Signals, Live
  <2>5. ReapedNotListed'
    BY <1>1, <1>2, <2>1, <2>2, ListSame DEF RInv, TypeOK
  <2>6. QED  BY <2>4, <2>5
<1>8. CASE RecordJob
  <2>1. /\ loc.pid \in PIDs /\ loc.st \in JobState /\ Live(loc.pid)
        /\ loc.pid \notin Listed(jobs) /\ UniquePids(jobs)
    BY <1>1, <1>8 DEF RecordJob, Main, RInv, ForkWindow, TInv, LocalsOK, JobState,
                      ReapedNotListed
  <2>2. jobs' = addjob(jobs, nextjid, loc.pid, loc.st).jobs /\ proc' = proc /\ pc' # "forked"
    BY <1>8 DEF RecordJob, kernel
  <2>3. /\ UniquePids(jobs')
        /\ \A i \in Used(jobs') :
              jobs'[i].pid = loc.pid \/ (i \in Used(jobs) /\ jobs'[i].pid = jobs[i].pid)
    BY <1>1, <2>1, <2>2, AddjobUnique DEF TypeOK
  <2>4. \A i \in Used(jobs') : proc'[jobs'[i].pid] # "free"
    BY <1>5, <2>1, <2>2, <2>3 DEF Live
  <2>5. ReapedNotListed'
    BY <2>3, <2>4 DEF ReapedNotListed, Live
  <2>6. QED  BY <2>2, <2>5 DEF ForkWindow
<1>9. CASE BgfgSetState
  <2>1. loc.slot \in Slots
    BY <1>1, <1>9 DEF BgfgSetState, Main, TInv, LocalsOK
  <2>2. (\A i \in Slots : jobs'[i].pid = jobs[i].pid) /\ proc' = proc /\ pc' = "readpid"
    BY <1>1, <1>9, <2>1 DEF BgfgSetState, TypeOK, Job, kernel
  <2>3. \A p \in PIDs : Live(p) => Live(p)'
    BY <2>2 DEF Live
  <2>4. ReapedNotListed'
    BY <1>1, <1>2, <2>2, <2>3, ListSame DEF RInv, TypeOK, TInv
  <2>5. QED  BY <2>2, <2>4 DEF ForkWindow
<1>10. CASE BgfgContinue
  <2>1. Kill(loc.pid, "CONT") /\ loc.pid \in PIDs \cup {NoPid}
    BY <1>1, <1>10 DEF BgfgContinue, TypeOK
  <2>2. \A q \in PIDs : Live(q)' <=> Live(q)
    BY <1>1, <2>1, KillFacts
  <2>3. jobs' = jobs /\ pc' # "forked"
    BY <1>10 DEF BgfgContinue
  <2>4. ReapedNotListed'
    BY <1>1, <1>2, <2>2, <2>3, ListSame DEF RInv, TypeOK
  <2>5. QED  BY <2>3, <2>4 DEF ForkWindow
<1>11. ASSUME jobs' = jobs, proc' = proc, pc' # "forked"
       PROVE  ForkWindow' /\ ReapedNotListed'
  <2>1. \A q \in PIDs : Live(q) => Live(q)'
    BY <1>11 DEF Live
  <2>2. ReapedNotListed'
    BY <1>1, <1>2, <1>11, <2>1, ListSame DEF RInv, TypeOK
  <2>3. QED  BY <1>11, <2>2 DEF ForkWindow
<1>12. CASE (\E j, st : BgfgLookup(j, st)) \/ Exit \/ WaitfgReturn \/ WaitfgLoop
            \/ WaitfgSuspend \/ BgfgReadPid \/ BgfgWait
  <2>1. jobs' = jobs /\ proc' = proc /\ pc' # "forked"
    BY <1>12 DEF BgfgLookup, Exit, WaitfgReturn, WaitfgLoop, WaitfgSuspend, BgfgReadPid,
                 BgfgWait, kernel
  <2>2. QED  BY <1>11, <2>1
<1>13. QED
  BY <1>7, <1>8, <1>9, <1>10, <1>12 DEF Command, MainStep, BgfgByPid, BgfgByJid

LEMMA RInvHandler ==
  ASSUME RInv, NEW s \in Signals, Deliver(s) \/ HandlerStep(s)
  PROVE  RInv'
<1>1. TInv' /\ TInv /\ TypeOK /\ Nested /\ ForkWindow /\ ReapedNotListed
  BY TInvHandler DEF RInv, TInv
<1>2. jobs \in [Slots -> Job] /\ jobs' \in [Slots -> Job]
  BY <1>1 DEF TInv, TypeOK
<1>3. "CHLD" \in Signals /\ "CHLD" \notin Keyboard /\ Keyboard \subseteq Signals
  BY DEF Signals, Keyboard
<1>4. SUFFICES Nested' /\ ForkWindow' /\ ReapedNotListed'
  BY <1>1 DEF RInv
<1>5. \A t \in Signals : frame[t].at # "idle" => t \in mask
  BY <1>1 DEF Nested
<1>6. CASE Deliver(s)
  <2>1. Nested'
    BY <1>1, <1>6, NestedDeliver
  <2>2. /\ jobs' = jobs /\ proc' = proc /\ pc' = pc /\ loc' = loc /\ s \notin mask
        /\ mask' = mask \cup {s}
        /\ frame'[s].oldmask = IF Main("suspend") THEN saved ELSE mask
        /\ \A t \in Signals : t # s => frame'[t] = frame[t]
    BY <1>1, <1>6 DEF Deliver, TypeOK
  <2>3. frame["CHLD"].at = "ended" => s # "CHLD"
    BY <1>3, <1>5, <2>2
  <2>4. \A p \in PIDs : Live(p)' <=> Live(p)
    BY <2>2 DEF Live
  <2>5. ReapedNotListed'
    BY <1>1, <1>2, <1>3, <2>2, <2>3, <2>4, ListSame
  <2>6. ForkWindow'
    <3>1. SUFFICES ASSUME pc = "forked" PROVE ForkWindow'
      BY <2>2 DEF ForkWindow
    <3>2. s # "CHLD"
      BY <1>1, <2>2, <3>1 DEF ForkWindow
    <3>3. frame'[s].oldmask = mask
      BY <2>2, <3>1 DEF Main
    <3>4. \A t \in Signals : frame'[t].at # "idle" => "CHLD" \in frame'[t].oldmask
      BY <1>1, <2>2, <3>1, <3>3 DEF ForkWindow
    <3> QED  BY <1>1, <1>3, <2>2, <3>1, <3>2, <3>4 DEF ForkWindow, Live
  <2>7. QED  BY <2>1, <2>5, <2>6
<1>7. ASSUME InHandler("CHLD", "wait") \/ InHandler("CHLD", "ended") \/ InHandler("CHLD", "stopped")
      PROVE  pc # "forked"
  BY <1>1, <1>7 DEF InHandler, ForkWindow
<1>8. ASSUME frame["CHLD"].at # "ended"
      PROVE  \A i \in Used(jobs) : Live(jobs[i].pid)
  BY <1>1, <1>8 DEF ReapedNotListed
<1>9. ASSUME NEW p \in PIDs, WaitpidReports(p) PROVE Nested' /\ ForkWindow' /\ ReapedNotListed'
  <2>1. /\ frame["CHLD"].at = "wait" /\ jobs' = jobs /\ pc' = pc /\ pc # "forked"
        /\ stack' = stack /\ mask' = mask
    BY <1>7, <1>9 DEF WaitpidReports, InHandler
  <2>2. /\ frame'["CHLD"].at = IF proc[p] = "zombie" THEN "ended" ELSE "stopped"
        /\ frame'["CHLD"].pid = p
        /\ frame'["CHLD"].oldmask = frame["CHLD"].oldmask
        /\ \A t \in Signals : t # "CHLD" => frame'[t] = frame[t]
    BY <1>1, <1>3, <1>9 DEF WaitpidReports, TypeOK, Frames
  <2>3. Nested'
    BY <1>1, <1>3, <2>1, <2>2, NestedSame
  <2>4. /\ \A q \in PIDs : q # p => proc'[q] = proc[q]
        /\ proc'[p] = IF proc[p] = "zombie" THEN "free" ELSE "stopped"
    BY <1>1, <1>9 DEF WaitpidReports, TypeOK
  <2>5. \A i \in Used(jobs) : Live(jobs[i].pid) /\ jobs[i].pid \in PIDs
    BY <1>2, <1>8, <2>1 DEF Used, Job
  <2>6. \A i \in Used(jobs') :
          \/ proc'[jobs'[i].pid] # "free"
          \/ frame'["CHLD"].at = "ended" /\ frame'["CHLD"].pid = jobs'[i].pid
    BY <2>1, <2>2, <2>4, <2>5 DEF Live
  <2>7. ReapedNotListed'
    BY <1>1, <2>1, <2>6 DEF ReapedNotListed, Live
  <2>8. QED  BY <2>1, <2>3, <2>7 DEF ForkWindow
<1>10. CASE SigchldUpdate
  <2>1. /\ pc' = pc /\ pc # "forked" /\ stack' = stack /\ mask' = mask /\ proc' = proc
    BY <1>7, <1>10 DEF SigchldUpdate, RecordReport, kernel
  <2>2. /\ frame["CHLD"].at \in {"ended", "stopped"}
        /\ frame'["CHLD"].at = "wait"
        /\ frame'["CHLD"].oldmask = frame["CHLD"].oldmask
        /\ \A t \in Signals : t # "CHLD" => frame'[t] = frame[t]
    BY <1>1, <1>3, <1>10 DEF SigchldUpdate, RecordReport, InHandler, TypeOK, Frames
  <2>3. Nested'
    BY <1>1, <1>3, <2>1, <2>2, NestedSame
  <2>4. frame["CHLD"].pid \in PIDs \cup {NoPid} /\ nextjid \in Nat \ {0}
    BY <1>1, <1>3 DEF TypeOK, Frames
  <2>5. CASE frame["CHLD"].at = "ended"
    <3>1. jobs' = deletejob(jobs, nextjid, frame["CHLD"].pid).jobs
      BY <1>10, <2>5 DEF SigchldUpdate, RecordReport, InHandler
    <3>2. UniquePids(jobs)
      BY <1>1 DEF ReapedNotListed
    <3>3. /\ UniquePids(jobs')
          /\ \A i \in Used(jobs') : /\ i \in Used(jobs) /\ jobs'[i] = jobs[i]
                                    /\ jobs'[i].pid # frame["CHLD"].pid
      BY <1>2, <2>4, <3>1, <3>2, DeletejobFacts
    <3>4. \A i \in Used(jobs') : proc'[jobs'[i].pid] # "free"
      BY <1>1, <2>1, <3>3 DEF ReapedNotListed, Live
    <3> QED  BY <2>1, <2>3, <3>3, <3>4 DEF ReapedNotListed, Live, ForkWindow
  <2>6. CASE frame["CHLD"].at = "stopped"
    <3> DEFINE j == getjobpid(jobs, frame["CHLD"].pid)
    <3>1. jobs' = IF j = NoSlot THEN jobs ELSE [jobs EXCEPT ![j].state = "ST"]
      BY <1>10, <2>6 DEF SigchldUpdate, RecordReport, InHandler
    <3>2. j \in Slots \cup {NoSlot}
      BY <2>4, GetjobpidFacts
    <3>3. \A i \in Slots : jobs'[i].pid = jobs[i].pid
      <4> HIDE DEF j
      <4> QED  BY <1>2, <3>1, <3>2 DEF Job
    <3>4. \A q \in PIDs : Live(q) => Live(q)'
      BY <2>1 DEF Live
    <3>5. ReapedNotListed'
      BY <1>1, <1>2, <2>6, <3>3, <3>4, ListSame
    <3> QED  BY <2>1, <2>3, <3>5 DEF ForkWindow
  <2>7. QED  BY <2>2, <2>5, <2>6
<1>11. ASSUME NEW t \in Signals, stack # <<>>, t = Head(stack), frame[t].at # "ended",
              Return(t), jobs' = jobs, proc' = proc, loc' = loc
       PROVE  Nested' /\ ForkWindow' /\ ReapedNotListed'
  <2>1. Nested'
    BY <1>1, <1>11, NestedReturn
  <2>2. /\ mask' = frame[t].oldmask /\ frame'[t].at = "idle"
        /\ \A u \in Signals : u # t => frame'[u] = frame[u]
        /\ pc' = pc \/ pc' = "waitfg"
    BY <1>1, <1>11 DEF Return, TypeOK, NoFrame
  <2>3. \A q \in PIDs : Live(q) => Live(q)'
    BY <1>11 DEF Live
  <2>4. ReapedNotListed'
    BY <1>1, <1>2, <1>3, <1>11, <2>2, <2>3, ListSame
  <2>5. frame[t].at # "idle"
    <3>1. 1 \in 1 .. Len(stack) /\ stack[1] = t
      BY <1>1, <1>11 DEF TypeOK
    <3> QED  BY <1>1, <3>1 DEF Nested
  <2>6. ForkWindow'
    BY <1>1, <1>3, <1>11, <2>2, <2>5 DEF ForkWindow, Live
  <2>7. QED  BY <2>1, <2>4, <2>6
<1>12. CASE SigchldDone
  <2>1. /\ stack # <<>> /\ "CHLD" = Head(stack) /\ frame["CHLD"].at = "wait"
        /\ jobs' = jobs /\ proc' = proc /\ loc' = loc
    BY <1>12 DEF SigchldDone, InHandler, kernel
  <2>2. CASE Return("CHLD")
    BY <1>3, <1>11, <2>1, <2>2
  <2>3. CASE pc' = "waiterror" /\ UNCHANGED <<errno, mask, saved, stack, frame>>
    <3>1. Nested'
      BY <1>1, <2>3, NestedSame
    <3>2. \A q \in PIDs : Live(q) => Live(q)'
      BY <2>1 DEF Live
    <3>3. ReapedNotListed'
      BY <1>1, <1>2, <2>1, <2>3, <3>2, ListSame
    <3> QED  BY <2>3, <3>1, <3>3 DEF ForkWindow
  <2>4. QED  BY <1>12, <2>2, <2>3 DEF SigchldDone
<1>13. ASSUME s \in Keyboard, KeyboardKill(s) PROVE Nested' /\ ForkWindow' /\ ReapedNotListed'
  <2>1. /\ frame[s].at = "kill" /\ jobs' = jobs /\ pc' = pc /\ loc' = loc
        /\ stack' = stack /\ mask' = mask
        /\ Kill(frame[s].pid, s) /\ frame[s].pid \in PIDs \cup {NoPid}
    BY <1>1, <1>13 DEF KeyboardKill, InHandler, TypeOK, Frames
  <2>2. /\ frame'[s].at = "ret" /\ frame'[s].oldmask = frame[s].oldmask
        /\ \A t \in Signals : t # s => frame'[t] = frame[t]
    BY <1>1, <1>13 DEF KeyboardKill, TypeOK, Frames
  <2>3. Nested'
    BY <1>1, <2>1, <2>2, NestedSame
  <2>4. \A q \in PIDs : Live(q)' <=> Live(q)
    BY <1>1, <2>1, KillFacts
  <2>5. ReapedNotListed'
    BY <1>1, <1>2, <1>3, <1>13, <2>1, <2>2, <2>4, ListSame
  <2>6. ForkWindow'
    <3>1. SUFFICES ASSUME pc = "forked" PROVE ForkWindow'
      BY <2>1 DEF ForkWindow
    <3>2. loc.pid \in PIDs
      BY <1>1, <3>1 DEF TInv, LocalsOK
    <3>3. Live(loc.pid)'
      BY <1>1, <2>1, <2>4, <3>1, <3>2 DEF ForkWindow, Live
    <3> QED  BY <1>1, <1>3, <1>13, <2>1, <2>2, <3>1, <3>3 DEF ForkWindow
  <2>7. QED  BY <2>3, <2>5, <2>6
<1>14. ASSUME s \in Keyboard, KeyboardReturn(s) PROVE Nested' /\ ForkWindow' /\ ReapedNotListed'
  <2>1. /\ stack # <<>> /\ s = Head(stack) /\ frame[s].at = "ret"
        /\ jobs' = jobs /\ proc' = proc /\ loc' = loc /\ Return(s)
    BY <1>14 DEF KeyboardReturn, InHandler, kernel
  <2>2. QED  BY <1>11, <2>1
<1>15. QED
  BY <1>6, <1>9, <1>10, <1>12, <1>13, <1>14 DEF HandlerStep

LEMMA RInvEnvironment == RInv /\ (Environment \/ Sigquit \/ Stopped \/ UNCHANGED vars) => RInv'
<1> SUFFICES ASSUME RInv, Environment \/ Sigquit \/ Stopped \/ UNCHANGED vars PROVE RInv'
  OBVIOUS
<1>1. TInv' /\ TInv /\ TypeOK
  BY TInvEnvironment, TInvNext DEF RInv, TInv
<1>2. /\ jobs' = jobs /\ loc' = loc /\ stack' = stack /\ mask' = mask /\ frame' = frame
      /\ pc' = pc \/ pc' = "exited"
  BY DEF Environment, Keypress, ChildStarts, ChildSetpgid, ChildExecve, ChildEnds, ChildStops,
         Sigquit, Stopped, vars, shell
<1>3. \A q \in PIDs : Live(q) => Live(q)'
  BY <1>1 DEF Environment, Keypress, ChildStarts, ChildSetpgid, ChildExecve, ChildEnds,
         ChildStops, ChildChanges, Sigquit, Stopped, vars, kernel, Live, TypeOK
<1>4. Nested'
  BY <1>1, <1>2, NestedSame DEF RInv
<1>5. ReapedNotListed'
  BY <1>1, <1>2, <1>3, ListSame DEF RInv, TypeOK
<1>6. ForkWindow'
  <2>1. pc = "forked" => loc.pid \in PIDs
    BY <1>1 DEF TInv, LocalsOK
  <2>2. QED  BY <1>2, <1>3, <2>1 DEF RInv, ForkWindow, Live
<1>7. QED  BY <1>1, <1>4, <1>5, <1>6 DEF RInv

LEMMA RInvAlways == Spec => []RInv
<1>1. RInv /\ [Next]_vars => RInv'
  BY RInvMain, RInvHandler, RInvEnvironment DEF Next
<1>2. QED  BY <1>1, RInvInit, PTL DEF Spec

(* A listed process exists, or the handler that reaped it is about to      *)
(* delete it; it is listed once: the SIGCHLD block around fork suffices.   *)
THEOREM NoGhostJobs == Spec => []ReapedNotListed
<1>1. RInv => ReapedNotListed
  BY DEF RInv
<1>2. QED  BY <1>1, RInvAlways, PTL

----------------------------------------------------------------------------
(* One job in the foreground.                                              *)

FGs(tbl) == {i \in Slots : tbl[i].state = "FG"}

(* The foreground job is the one that eval or fg is concerned with.        *)
FInv ==
    /\ \A i, k \in FGs(jobs) : i = k
    /\ \A i \in FGs(jobs) :
          \/ pc \in {"readpid", "cont", "contdone"} /\ loc.st = "FG" /\ loc.slot = i
          \/ Waiting /\ loc.pid = jobs[i].pid
          \/ Exited

(* A step that puts no job in the foreground.                              *)
LEMMA FInvFewer ==
  ASSUME FInv, \A i \in Slots : jobs'[i].state = "FG" =>
                   jobs[i].state = "FG" /\ jobs'[i].pid = jobs[i].pid,
         loc' = loc, pc' = pc \/ (Waiting /\ Waiting') \/ Exited'
  PROVE  FInv'
BY DEF FInv, FGs, Waiting, Exited

LEMMA FgpidFacts ==
  ASSUME NEW tbl, fgpid(tbl) # NoPid \/ FGs(tbl) # {}
  PROVE  \E i \in FGs(tbl) : fgpid(tbl) = tbl[i].pid
<1>1. {k \in Slots : tbl[k].state = "FG"} = FGs(tbl) /\ FGs(tbl) \subseteq Slots
  BY DEF FGs
<1>2. FirstSlot(FGs(tbl)) # NoSlot
  BY <1>1, FirstSlotFacts DEF fgpid
<1>3. FirstSlot(FGs(tbl)) \in FGs(tbl)
  BY <1>1, <1>2, FirstSlotFacts
<1> QED
  BY <1>1, <1>2, <1>3 DEF fgpid

LEMMA FInvMain == TInv /\ FInv /\ (Command \/ MainStep) => FInv'
<1> SUFFICES ASSUME TInv, FInv, Command \/ MainStep PROVE FInv'
  OBVIOUS
<1>1. jobs \in [Slots -> Job]
  BY DEF TInv, TypeOK
<1>2. ASSUME pc \in {"prompt", "forked", "setstate"} PROVE FGs(jobs) = {}
  BY <1>2 DEF FInv, Waiting, Exited
<1>3. ASSUME NEW p \in PIDs, NEW st \in {"FG", "BG"}, Fork(p, st) PROVE FInv'
  BY <1>2, <1>3 DEF Fork, Main, FInv, FGs
<1>4. ASSUME NEW j, NEW st, BgfgLookup(j, st) PROVE FInv'
  BY <1>2, <1>4 DEF BgfgLookup, Main, FInv, FGs
<1>5. CASE Exit
  BY <1>2, <1>5 DEF Exit, Main, FInv, FGs
<1>6. CASE RecordJob
  <2>1. /\ FGs(jobs) = {} /\ loc.pid \in PIDs /\ loc.st \in JobState
        /\ nextjid \in Nat \ {0}
    BY <1>2, <1>6 DEF RecordJob, Main, TInv, TypeOK, LocalsOK, JobState
  <2>2. jobs' = addjob(jobs, nextjid, loc.pid, loc.st).jobs
    BY <1>6 DEF RecordJob
  <2>3. \/ FGs(jobs') = {}
        \/ loc.st = "FG" /\ \E i \in Slots : FGs(jobs') = {i} /\ jobs'[i].pid = loc.pid
    <3> DEFINE new == [pid |-> loc.pid, jid |-> nextjid, state |-> loc.st]
    <3>1. jobs' = jobs \/ \E i \in Slots : jobs' = [jobs EXCEPT ![i] = new]
      BY <1>1, <2>1, <2>2, AddjobFacts
    <3>2. CASE jobs' = jobs
      BY <2>1, <3>2
    <3>3. ASSUME NEW i \in Slots, jobs' = [jobs EXCEPT ![i] = new]
          PROVE  FGs(jobs') \in {{}, {i}} /\ jobs'[i].pid = loc.pid
                 /\ (FGs(jobs') # {} => loc.st = "FG")
      BY <1>1, <2>1, <3>3 DEF FGs
    <3> QED
      BY <3>1, <3>2, <3>3
  <2>4. loc.st = "FG" => pc' = "waitfg" /\ loc' = loc
    BY <1>6 DEF RecordJob
  <2> QED
    BY <2>3, <2>4 DEF FInv, Waiting
<1>7. CASE WaitfgReturn
  <2>1. FGs(jobs) = {}
    <3>1. pc = "waitfg" /\ fgpid(jobs) # loc.pid
      BY <1>7 DEF WaitfgReturn, Main
    <3>2. \A i \in FGs(jobs) : loc.pid = jobs[i].pid
      BY <3>1 DEF FInv, Exited
    <3> QED
      BY <3>1, <3>2, FgpidFacts
  <2> QED
    BY <1>7, <2>1 DEF WaitfgReturn, FInv
<1>8. CASE WaitfgLoop \/ WaitfgSuspend
  BY <1>8, FInvFewer DEF WaitfgLoop, WaitfgSuspend, Main, Waiting
<1>9. CASE BgfgSetState
  <2>1. FGs(jobs) = {} /\ loc.slot \in Slots /\ pc' = "readpid" /\ loc' = loc
    BY <1>2, <1>9 DEF BgfgSetState, Main, TInv, LocalsOK
  <2>2. jobs' = [jobs EXCEPT ![loc.slot].state = loc.st]
    BY <1>9 DEF BgfgSetState
  <2>3. \A i \in FGs(jobs') : i = loc.slot /\ loc.st = "FG"
    BY <1>1, <2>1, <2>2 DEF FGs, Job
  <2> QED
    BY <2>1, <2>3 DEF FInv
<1>10. CASE BgfgReadPid
  BY <1>10 DEF BgfgReadPid, Main, FInv, Waiting, Exited, TInv, TypeOK
<1>11. CASE BgfgContinue
  BY <1>11 DEF BgfgContinue, Main, FInv, Waiting, Exited
<1>12. CASE BgfgWait
  <2>1. pc = "contdone" /\ pc' = "waitfg" /\ jobs' = jobs /\ loc'.pid = jobs[loc.slot].pid
    BY <1>12 DEF BgfgWait, Main, TInv, TypeOK
  <2>2. \A i \in FGs(jobs) : loc.slot = i
    BY <2>1 DEF FInv, Waiting, Exited
  <2> QED
    BY <2>1, <2>2 DEF FInv, Waiting
<1> QED
  BY <1>3, <1>4, <1>5, <1>6, <1>7, <1>8, <1>9, <1>10, <1>11, <1>12
  DEF Command, MainStep, BgfgByPid, BgfgByJid

(* What the SIGCHLD handler writes: a slot is cleared or marked ST.        *)
LEMMA ReportFacts ==
  ASSUME TInv, RecordReport, NEW i \in Slots
  PROVE  /\ jobs'[i] \in {jobs[i], clearjob, [jobs[i] EXCEPT !.state = "ST"]}
         /\ frame["CHLD"].at = "ended" => jobs'[i] \in {jobs[i], clearjob}
         /\ frame["CHLD"].at = "stopped" =>
               jobs'[i] = IF i = getjobpid(jobs, frame["CHLD"].pid)
                          THEN [jobs[i] EXCEPT !.state = "ST"] ELSE jobs[i]
<1> DEFINE p == frame["CHLD"].pid
           j == getjobpid(jobs, p)
<1>1. jobs \in [Slots -> Job] /\ p \in PIDs \cup {NoPid} /\ 0 \notin Slots
  BY DEF TInv, TypeOK, Frames, Signals, Slots
<1>2. j \in Slots \cup {NoSlot}
  BY <1>1, GetjobpidFacts
<1>3. CASE frame["CHLD"].at = "ended"
  <2>1. jobs' = deletejob(jobs, nextjid, p).jobs
    BY <1>3 DEF RecordReport, InHandler
  <2>2. jobs' = IF j = NoSlot THEN jobs ELSE [jobs EXCEPT ![j] = clearjob]
    BY <2>1 DEF deletejob
  <2> QED
    <3> HIDE DEF j, p
    <3> QED  BY <1>1, <1>2, <1>3, <2>2
<1>4. CASE frame["CHLD"].at = "stopped"
  <2>1. jobs' = IF j = NoSlot THEN jobs ELSE [jobs EXCEPT ![j].state = "ST"]
    BY <1>4 DEF RecordReport, InHandler
  <2>2. jobs'[i] = IF i = j THEN [jobs[i] EXCEPT !.state = "ST"] ELSE jobs[i]
    <3> HIDE DEF j, p
    <3> QED  BY <1>1, <1>2, <2>1 DEF NoSlot
  <2> QED  BY <1>4, <2>2
<1> QED
  BY <1>3, <1>4 DEF RecordReport, InHandler

LEMMA FInvHandler ==
  ASSUME TInv, FInv, NEW s \in Signals, Deliver(s) \/ HandlerStep(s)
  PROVE  FInv'
<1> USE DEF kernel
<1>1. CASE Deliver(s)
  BY <1>1, FInvFewer DEF Deliver
<1>2. ASSUME NEW p \in PIDs, WaitpidReports(p) PROVE FInv'
  BY <1>2, FInvFewer DEF WaitpidReports
<1>3. CASE SigchldUpdate
  <2>1. \A i \in Slots : jobs'[i] \in {jobs[i], clearjob, [jobs[i] EXCEPT !.state = "ST"]}
    BY <1>3, ReportFacts DEF SigchldUpdate
  <2>2. \A i \in Slots : jobs[i] \in Job
    BY DEF TInv, TypeOK
  <2>3. \A i \in Slots : jobs'[i].state = "FG" =>
            jobs[i].state = "FG" /\ jobs'[i].pid = jobs[i].pid
    BY <2>1, <2>2 DEF clearjob, Job
  <2> QED
    BY <1>3, <2>3, FInvFewer DEF SigchldUpdate
<1>4. ASSUME NEW t, Return(t), jobs' = jobs, loc' = loc PROVE FInv'
  BY <1>4, FInvFewer DEF Return, Waiting
<1>5. CASE SigchldDone
  BY <1>4, <1>5, FInvFewer DEF SigchldDone, Exited
<1>6. CASE KeyboardKill(s)
  BY <1>6, FInvFewer DEF KeyboardKill
<1>7. CASE KeyboardReturn(s)
  BY <1>4, <1>7 DEF KeyboardReturn
<1> QED
  BY <1>1, <1>2, <1>3, <1>5, <1>6, <1>7 DEF HandlerStep

LEMMA FInvNext == TInv /\ FInv /\ [Next]_vars => FInv'
<1> SUFFICES ASSUME TInv, FInv, [Next]_vars PROVE FInv'
  OBVIOUS
<1>1. CASE Environment \/ Sigquit \/ Stopped \/ UNCHANGED vars
  <2>1. jobs' = jobs /\ loc' = loc /\ (pc' = pc \/ pc' = "exited")
    BY <1>1 DEF Environment, Keypress, ChildStarts, ChildSetpgid, ChildExecve, ChildEnds,
       ChildStops, Sigquit, Stopped, vars, shell
  <2> QED
    BY <2>1, FInvFewer DEF Exited
<1> QED
  BY <1>1, FInvMain, FInvHandler DEF Next

LEMMA FInvAlways == Spec => []FInv
<1>1. Init => FInv
  BY DEF Init, FInv, FGs, initjobs, clearjob
<1> QED
  BY <1>1, FInvNext, TInvAlways, PTL DEF Spec

(* At most one job is in the foreground, through fg, bg, stops and reaping,*)
(* and none is left over when the shell takes the next command.            *)
THEOREM OneForegroundEver == Spec => []OneForeground
<1>1. FInv => OneForeground
  BY DEF FInv, FGs, OneForeground, Waiting, Exited
<1> QED
  BY <1>1, FInvAlways, PTL

----------------------------------------------------------------------------
(* A key hits the job it was meant for.                                    *)

(* The handler's target is not listed as a background job.                 *)
KInv ==
    \A s \in Keyboard : frame[s].at = "kill" =>
        \A i \in Used(jobs) : jobs[i].pid = frame[s].pid => jobs[i].state # "BG"

(* A step that chooses no target and puts no job in the background.        *)
LEMMA KInvFewer ==
  ASSUME KInv,
         \A s \in Keyboard : frame'[s].at = "kill" => frame'[s] = frame[s],
         \A i \in Slots : jobs'[i].state = "BG" => jobs'[i] = jobs[i]
  PROVE  KInv'
BY DEF KInv, Used

LEMMA KInvMain == RInv /\ (Command \/ MainStep) => KInv'
<1> SUFFICES ASSUME RInv, Command \/ MainStep PROVE KInv'
  OBVIOUS
<1>1. stack = <<>> /\ frame' = frame
  <2>1. ASSUME NEW p, NEW st, Fork(p, st) \/ BgfgLookup(p, st) PROVE stack = <<>> /\ frame' = frame
    BY <2>1 DEF Fork, BgfgLookup, Main
  <2>2. CASE Command
    BY <2>1, <2>2 DEF Command, BgfgByPid, BgfgByJid, Exit, Main
  <2>3. CASE RecordJob \/ BgfgSetState \/ BgfgReadPid \/ BgfgContinue \/ BgfgWait
    BY <2>3 DEF RecordJob, BgfgSetState, BgfgReadPid, BgfgContinue, BgfgWait, Main
  <2>4. CASE WaitfgReturn \/ WaitfgLoop \/ WaitfgSuspend
    BY <2>4 DEF WaitfgReturn, WaitfgLoop, WaitfgSuspend, Main
  <2> QED
    BY <2>2, <2>3, <2>4 DEF MainStep
<1>2. \A s \in Signals : frame[s].at = "idle"
  BY <1>1, MainAlone DEF RInv, TInv
<1> QED
  BY <1>1, <1>2 DEF KInv, Signals

LEMMA KInvHandler ==
  ASSUME RInv, KInv, NEW s \in Signals, Deliver(s) \/ HandlerStep(s)
  PROVE  KInv'
<1>1. /\ jobs \in [Slots -> Job] /\ frame \in [Signals -> Frames]
      /\ Keyboard \subseteq Signals /\ "CHLD" \in Signals /\ "CHLD" \notin Keyboard
  BY DEF RInv, TInv, TypeOK, Signals, Keyboard
<1>2. CASE Deliver(s)
  <2>1. jobs' = jobs /\ \A t \in Signals : t # s => frame'[t] = frame[t]
    BY <1>1, <1>2 DEF Deliver
  <2>2. ASSUME s \in Keyboard, frame'[s].at = "kill",
               NEW i \in Used(jobs), jobs[i].pid = frame'[s].pid
        PROVE  jobs[i].state # "BG"
    <3>1. fgpid(jobs) # NoPid /\ frame'[s].pid = fgpid(jobs)
      BY <1>1, <1>2, <2>2 DEF Deliver
    <3>2. PICK k \in FGs(jobs) : jobs[k].pid = fgpid(jobs)
      BY <3>1, FgpidFacts
    <3>3. k \in Used(jobs) /\ jobs[k].state = "FG"
      BY <3>1, <3>2 DEF FGs, Used
    <3>4. i = k
      BY <2>2, <3>1, <3>2, <3>3 DEF RInv, ReapedNotListed, UniquePids
    <3> QED  BY <3>3, <3>4
  <2> QED
    BY <1>1, <2>1, <2>2 DEF KInv
<1>3. ASSUME NEW p \in PIDs, WaitpidReports(p) PROVE KInv'
  BY <1>1, <1>3, KInvFewer DEF WaitpidReports
<1>4. CASE SigchldUpdate
  <2>1. \A i \in Slots : jobs'[i] \in {jobs[i], clearjob, [jobs[i] EXCEPT !.state = "ST"]}
    BY <1>4, ReportFacts DEF SigchldUpdate, RInv
  <2>2. \A i \in Slots : jobs'[i].state = "BG" => jobs'[i] = jobs[i]
    BY <1>1, <2>1 DEF clearjob, Job
  <2> QED
    BY <1>1, <1>4, <2>2, KInvFewer DEF SigchldUpdate
<1>5. ASSUME NEW t \in Signals, Return(t), jobs' = jobs PROVE KInv'
  BY <1>1, <1>5, KInvFewer DEF Return, NoFrame
<1>6. CASE SigchldDone
  BY <1>1, <1>5, <1>6, KInvFewer DEF SigchldDone
<1>7. CASE KeyboardKill(s)
  BY <1>1, <1>7, KInvFewer DEF KeyboardKill
<1>8. CASE KeyboardReturn(s)
  BY <1>5, <1>8 DEF KeyboardReturn
<1> QED
  BY <1>2, <1>3, <1>4, <1>6, <1>7, <1>8 DEF HandlerStep

(* ctrl-c and ctrl-z never reach a background job, whichever handlers run  *)
(* between the choice of the target and the kill.                          *)
THEOREM KeysSpareBackground == Spec => []KeyboardSparesBackground
<1>1. Init => KInv
  BY DEF Init, KInv, NoFrame, Signals
<1>2. RInv /\ KInv /\ [Next]_vars => KInv'
  <2> SUFFICES ASSUME RInv, KInv, [Next]_vars PROVE KInv'
    OBVIOUS
  <2>1. CASE Environment \/ Sigquit \/ Stopped \/ UNCHANGED vars
    <3>1. jobs' = jobs /\ frame' = frame
      BY <2>1 DEF Environment, Keypress, ChildStarts, ChildSetpgid, ChildExecve, ChildEnds,
         ChildStops, Sigquit, Stopped, vars, shell
    <3> QED
      BY <3>1, KInvFewer
  <2> QED
    BY <2>1, KInvMain, KInvHandler DEF Next
<1>3. RInv /\ KInv => KeyboardSparesBackground
  <2> SUFFICES ASSUME RInv, KInv, NEW s \in Keyboard, frame[s].at = "kill",
                      frame[s].pid \in Listed(jobs)
               PROVE  StateOf(frame[s].pid) # "BG"
    BY DEF KeyboardSparesBackground
  <2>1. PICK i \in Used(jobs) : jobs[i].pid = frame[s].pid
    BY DEF Listed
  <2>2. getjobpid(jobs, frame[s].pid) = i
    BY <2>1, SlotOfListed DEF RInv, TInv, TypeOK, ReapedNotListed
  <2> QED
    BY <2>1, <2>2 DEF KInv, StateOf
<1> QED
  BY <1>1, <1>2, <1>3, RInvAlways, PTL DEF Spec

----------------------------------------------------------------------------
(* A stopped job is shown as stopped.                                      *)

(* Why the job in slot i may be stopped and not be marked so.              *)
Unmarked(i) ==
    \/ frame["CHLD"].at = "stopped" /\ frame["CHLD"].pid = jobs[i].pid
    \/ pc \in {"readpid", "cont"} /\ loc.slot = i
    \/ Exited

StoppedShown ==
    \A i \in Used(jobs) :
        proc[jobs[i].pid] = "stopped" => jobs[i].state = "ST" \/ Unmarked(i)

(* bg and fg continue the process whose slot they changed, as long as the  *)
(* slot is in use; a child is not stopped before it is listed.             *)
ContinuesSlot == pc = "cont" /\ loc.slot \in Used(jobs) => loc.pid = jobs[loc.slot].pid
NewNotStopped == pc = "forked" => proc[loc.pid] # "stopped"

SInv == StoppedShown /\ ContinuesSlot /\ NewNotStopped

(* No kill leaves a process stopped that was not, and SIGCONT leaves none. *)
LEMMA KillStops ==
  ASSUME TypeOK, NEW p \in PIDs \cup {NoPid}, NEW s, Kill(p, s),
         NEW q \in PIDs, proc'[q] = "stopped"
  PROVE  proc[q] = "stopped" /\ (s = "CONT" => q # p)
<1> USE DEF TypeOK, ProcState
<1>1. CASE p = NoPid
  BY <1>1, NoPidAssumption DEF Kill
<1>2. CASE p \in PIDs
  <2>1. GroupReceives(p, s)
    BY <1>2, NoPidAssumption DEF Kill
  <2> QED  BY <1>2, <2>1 DEF GroupReceives, ChildChanges, Heeds, Paused
<1> QED  BY <1>1, <1>2

(* A step that takes jobs away and stops no process.                       *)
LEMMA SInvFewer ==
  ASSUME SInv, jobs \in [Slots -> Job], loc' = loc,
         pc' = pc \/ (pc = "suspend" /\ pc' = "waitfg") \/ Exited',
         \A i \in Slots : jobs'[i] = jobs[i] \/ jobs'[i] = clearjob,
         \A q \in PIDs : proc'[q] = "stopped" => proc[q] = "stopped",
         frame["CHLD"].at = "stopped" => frame'["CHLD"] = frame["CHLD"],
         pc = "forked" => loc.pid \in PIDs
  PROVE  SInv'
<1>1. Used(jobs') \subseteq Used(jobs) /\ \A i \in Used(jobs') : jobs'[i] = jobs[i]
  BY DEF Used, clearjob
<1>2. \A i \in Used(jobs) : jobs[i].pid \in PIDs
  BY DEF Used, Job
<1>3. Exited => Exited'
  BY DEF Exited
<1>4. StoppedShown'
  BY <1>1, <1>2, <1>3 DEF SInv, StoppedShown, Unmarked, Exited
<1>5. ContinuesSlot' /\ NewNotStopped'
  BY <1>1 DEF SInv, ContinuesSlot, NewNotStopped, Exited
<1> QED
  BY <1>4, <1>5 DEF SInv

LEMMA SInvMain == RInv /\ SInv /\ (Command \/ MainStep) => SInv'
<1> SUFFICES ASSUME RInv, SInv, Command \/ MainStep PROVE SInv'
  OBVIOUS
<1>1. TypeOK /\ jobs \in [Slots -> Job] /\ proc \in [PIDs -> ProcState]
  BY DEF RInv, TInv, TypeOK
<1>2. \A i \in Used(jobs) : jobs[i].pid \in PIDs
  BY <1>1 DEF Used, Job
<1>3. ASSUME stack = <<>>, pc \notin {"readpid", "cont"}, ~Exited,
             NEW i \in Used(jobs), proc[jobs[i].pid] = "stopped"
      PROVE  jobs[i].state = "ST"
  BY <1>3, MainAlone DEF RInv, TInv, SInv, StoppedShown, Unmarked, Signals
<1>4. ASSUME stack = <<>>, pc \notin {"readpid", "cont"}, ~Exited,
             jobs' = jobs, proc' = proc, pc' \notin {"cont", "forked"}
      PROVE  SInv'
  BY <1>3, <1>4 DEF SInv, StoppedShown, ContinuesSlot, NewNotStopped
<1>5. ASSUME NEW p \in PIDs, NEW st, Fork(p, st) PROVE SInv'
  <2>1. /\ stack = <<>> /\ pc = "prompt" /\ jobs' = jobs /\ loc'.pid = p /\ pc' = "forked"
        /\ proc' = [proc EXCEPT ![p] = "forked"]
    BY <1>5 DEF Fork, Main, NoLoc
  <2> QED
    BY <1>1, <1>2, <1>3, <2>1 DEF SInv, StoppedShown, ContinuesSlot, NewNotStopped, Exited
<1>6. ASSUME NEW j, NEW st, BgfgLookup(j, st) PROVE SInv'
  BY <1>4, <1>6 DEF BgfgLookup, Main, kernel, Exited
<1>7. CASE Exit
  BY <1>4, <1>7 DEF Exit, Main, kernel, Exited
<1>8. CASE WaitfgReturn \/ WaitfgLoop \/ WaitfgSuspend \/ BgfgWait
  BY <1>4, <1>8 DEF WaitfgReturn, WaitfgLoop, WaitfgSuspend, BgfgWait, Main, kernel, Exited
<1>9. CASE RecordJob
  <2>1. /\ stack = <<>> /\ pc = "forked" /\ pc' \in {"waitfg", "prompt", "segv"} /\ proc' = proc
        /\ jobs' = addjob(jobs, nextjid, loc.pid, loc.st).jobs
    BY <1>9 DEF RecordJob, Main, kernel
  <2>2. loc.pid \in PIDs /\ loc.st \in JobState /\ nextjid \in Nat \ {0}
    BY <2>1 DEF RInv, TInv, TypeOK, LocalsOK, JobState
  <2>3. \A i \in Slots : jobs'[i] = jobs[i] \/ jobs'[i].pid = loc.pid
    <3> DEFINE new == [pid |-> loc.pid, jid |-> nextjid, state |-> loc.st]
    <3>1. jobs' = jobs \/ \E i \in Slots : jobs' = [jobs EXCEPT ![i] = new]
      BY <1>1, <2>1, <2>2, AddjobFacts
    <3> QED
      BY <1>1, <3>1
  <2>4. \A i \in Used(jobs') : proc[jobs'[i].pid] = "stopped" =>
            i \in Used(jobs) /\ jobs'[i] = jobs[i]
    BY <2>1, <2>3 DEF SInv, NewNotStopped, Used
  <2> QED
    BY <1>3, <2>1, <2>4 DEF SInv, StoppedShown, ContinuesSlot, NewNotStopped, Exited
<1>10. CASE BgfgSetState
  <2>1. /\ stack = <<>> /\ pc = "setstate" /\ pc' = "readpid" /\ loc' = loc /\ proc' = proc
        /\ jobs' = [jobs EXCEPT ![loc.slot].state = loc.st]
    BY <1>10 DEF BgfgSetState, Main, kernel
  <2>2. \A i \in Slots : jobs'[i].pid = jobs[i].pid /\ (i # loc.slot => jobs'[i] = jobs[i])
    BY <1>1, <2>1 DEF Job
  <2>3. \A i \in Used(jobs') : i \in Used(jobs) /\ jobs'[i].pid = jobs[i].pid
                             /\ (i # loc.slot => jobs'[i] = jobs[i])
    BY <2>2 DEF Used
  <2>4. \A i \in Used(jobs') : i # loc.slot /\ proc'[jobs'[i].pid] = "stopped" => jobs'[i].state = "ST"
    BY <1>3, <2>1, <2>3 DEF Exited
  <2> QED
    BY <2>1, <2>4 DEF SInv, StoppedShown, Unmarked, ContinuesSlot, NewNotStopped
<1>11. CASE BgfgReadPid
  <2>1. /\ pc = "readpid" /\ pc' = "cont" /\ proc' = proc /\ jobs' = jobs /\ frame' = frame
        /\ loc'.slot = loc.slot /\ loc'.pid = jobs[loc.slot].pid
    BY <1>11 DEF BgfgReadPid, Main, kernel, RInv, TInv, TypeOK
  <2> QED
    BY <2>1 DEF SInv, StoppedShown, Unmarked, ContinuesSlot, NewNotStopped, Exited
<1>12. CASE BgfgContinue
  <2>1. /\ stack = <<>> /\ pc = "cont" /\ pc' \in {"prompt", "contdone"} /\ jobs' = jobs
        /\ Kill(loc.pid, "CONT") /\ loc.pid \in PIDs \cup {NoPid}
    BY <1>1, <1>12 DEF BgfgContinue, Main, TypeOK
  <2>2. ASSUME NEW i \in Used(jobs), proc'[jobs[i].pid] = "stopped"
        PROVE  jobs[i].state = "ST"
    <3>1. proc[jobs[i].pid] = "stopped" /\ jobs[i].pid # loc.pid
      BY <1>1, <1>2, <2>1, <2>2, KillStops
    <3>2. i # loc.slot
      BY <2>1, <3>1 DEF SInv, ContinuesSlot
    <3> QED
      BY <2>1, <3>1, <3>2, MainAlone
      DEF RInv, TInv, SInv, StoppedShown, Unmarked, Signals, Exited
  <2> QED
    BY <2>1, <2>2 DEF SInv, StoppedShown, ContinuesSlot, NewNotStopped
<1> QED
  BY <1>5, <1>6, <1>7, <1>8, <1>9, <1>10, <1>11, <1>12
  DEF Command, MainStep, BgfgByPid, BgfgByJid

LEMMA SInvHandler ==
  ASSUME RInv, SInv, NEW s \in Signals, Deliver(s) \/ HandlerStep(s)
  PROVE  SInv'
<1>1. /\ TypeOK /\ jobs \in [Slots -> Job] /\ frame \in [Signals -> Frames]
      /\ proc \in [PIDs -> ProcState]
      /\ Keyboard \subseteq Signals /\ "CHLD" \in Signals /\ "CHLD" \notin Keyboard
  BY DEF RInv, TInv, TypeOK, Signals, Keyboard
<1>2. pc = "forked" => loc.pid \in PIDs
  BY DEF RInv, TInv, LocalsOK
<1> USE DEF kernel
<1>3. CASE Deliver(s)
  <2>1. s = "CHLD" => frame[s].at = "idle"
    BY <1>1, <1>3 DEF Deliver, RInv, Nested
  <2>2. \A t \in Signals : t # s => frame'[t] = frame[t]
    BY <1>1, <1>3 DEF Deliver
  <2> QED
    BY <1>1, <1>2, <1>3, <2>1, <2>2, SInvFewer DEF Deliver
<1>4. ASSUME NEW p \in PIDs, WaitpidReports(p) PROVE SInv'
  <2>1. /\ frame["CHLD"].at = "wait" /\ jobs' = jobs /\ pc' = pc /\ loc' = loc
        /\ proc[p] \in {"zombie", "stopping"}
    BY <1>4 DEF WaitpidReports, InHandler, Waitable
  <2>2. \A q \in PIDs : proc'[q] = "stopped" =>
            \/ q # p /\ proc[q] = "stopped"
            \/ q = p /\ frame'["CHLD"].at = "stopped" /\ frame'["CHLD"].pid = p
    BY <1>1, <1>4, <2>1 DEF WaitpidReports
  <2>3. \A i \in Used(jobs) : jobs[i].pid \in PIDs
    BY <1>1 DEF Used, Job
  <2>4. pc # "forked"
    BY <2>1 DEF RInv, ForkWindow
  <2> QED
    BY <2>1, <2>2, <2>3, <2>4
    DEF SInv, StoppedShown, Unmarked, ContinuesSlot, NewNotStopped, Exited
<1>5. CASE SigchldUpdate
  <2>1. /\ pc' = pc /\ loc' = loc /\ proc' = proc /\ RecordReport
        /\ frame["CHLD"].at \in {"ended", "stopped"}
    BY <1>5 DEF SigchldUpdate, RecordReport, InHandler
  <2>2. CASE frame["CHLD"].at = "ended"
    <3>1. \A i \in Slots : jobs'[i] = jobs[i] \/ jobs'[i] = clearjob
      BY <2>1, <2>2, ReportFacts DEF RInv
    <3> QED
      BY <1>1, <1>2, <2>1, <2>2, <3>1, SInvFewer
  <2>3. CASE frame["CHLD"].at = "stopped"
    <3> DEFINE p == frame["CHLD"].pid
    <3>1. \A i \in Slots : jobs'[i] = IF i = getjobpid(jobs, p)
                                     THEN [jobs[i] EXCEPT !.state = "ST"] ELSE jobs[i]
      BY <2>1, <2>3, ReportFacts DEF RInv
    <3>2. \A i \in Slots : jobs'[i].pid = jobs[i].pid
                         /\ (jobs[i].state = "ST" => jobs'[i].state = "ST")
      BY <1>1, <3>1 DEF Job
    <3>3. Used(jobs') = Used(jobs)
      BY <3>2 DEF Used
    <3>4. ASSUME NEW i \in Used(jobs), jobs[i].pid = p PROVE jobs'[i].state = "ST"
      <4>1. i \in Slots /\ getjobpid(jobs, p) = i
        BY <1>1, <3>4, SlotOfListed DEF RInv, ReapedNotListed, Used
      <4> QED
        BY <1>1, <3>1, <4>1 DEF Job
    <3>5. \A i \in Used(jobs) : i \in Slots
      BY DEF Used
    <3>6. StoppedShown'
      BY <2>1, <3>2, <3>3, <3>4, <3>5 DEF SInv, StoppedShown, Unmarked, Exited
    <3> QED
      BY <2>1, <3>2, <3>3, <3>5, <3>6 DEF SInv, ContinuesSlot, NewNotStopped
  <2> QED
    BY <2>1, <2>2, <2>3
<1>6. ASSUME NEW t \in Signals, Return(t), frame[t].at \in {"wait", "ret"},
             jobs' = jobs, loc' = loc, proc' = proc
      PROVE  SInv'
  <2>1. pc' = pc \/ (pc = "suspend" /\ pc' = "waitfg")
    BY <1>6 DEF Return
  <2>2. frame["CHLD"].at = "stopped" => frame'["CHLD"] = frame["CHLD"]
    BY <1>1, <1>6 DEF Return
  <2> QED
    BY <1>1, <1>2, <1>6, <2>1, <2>2, SInvFewer
<1>7. CASE SigchldDone
  <2>1. \/ Return("CHLD") /\ frame["CHLD"].at = "wait"
        \/ pc' = "waiterror" /\ frame' = frame
    BY <1>7 DEF SigchldDone, InHandler
  <2>2. jobs' = jobs /\ loc' = loc /\ proc' = proc
    BY <1>7 DEF SigchldDone
  <2> QED
    BY <1>1, <1>2, <1>6, <2>1, <2>2, SInvFewer DEF Exited
<1>8. ASSUME s \in Keyboard, KeyboardKill(s) PROVE SInv'
  <2>1. /\ jobs' = jobs /\ pc' = pc /\ loc' = loc /\ frame'["CHLD"] = frame["CHLD"]
        /\ Kill(frame[s].pid, s) /\ frame[s].pid \in PIDs \cup {NoPid}
    BY <1>1, <1>8 DEF KeyboardKill, Frames
  <2>2. \A q \in PIDs : proc'[q] = "stopped" => proc[q] = "stopped"
    BY <1>1, <2>1, KillStops
  <2> QED
    BY <1>1, <1>2, <2>1, <2>2, SInvFewer
<1>9. CASE KeyboardReturn(s)
  BY <1>6, <1>9 DEF KeyboardReturn, InHandler
<1> QED
  BY <1>3, <1>4, <1>5, <1>7, <1>8, <1>9 DEF HandlerStep

LEMMA SInvEnvironment ==
  ASSUME RInv, SInv, Environment \/ Sigquit \/ Stopped \/ UNCHANGED vars
  PROVE  SInv'
<1>1. jobs \in [Slots -> Job] /\ proc \in [PIDs -> ProcState] /\ (pc = "forked" => loc.pid \in PIDs)
  BY DEF RInv, TInv, TypeOK, LocalsOK
<1>2. /\ jobs' = jobs /\ frame' = frame /\ loc' = loc /\ (pc' = pc \/ pc' = "exited")
  BY DEF Environment, Keypress, ChildStarts, ChildSetpgid, ChildExecve, ChildEnds,
     ChildStops, Sigquit, Stopped, vars, shell
<1>3. \A q \in PIDs : proc'[q] = "stopped" => proc[q] = "stopped"
  BY <1>1 DEF Environment, Keypress, ChildStarts, ChildSetpgid, ChildExecve, ChildEnds,
     ChildStops, ChildChanges, Sigquit, Stopped, vars, kernel
<1> QED
  BY <1>1, <1>2, <1>3, SInvFewer DEF Exited

(* The list never shows a stopped job as running, except while the handler *)
(* is about to mark it or bg or fg is about to continue it.                *)
THEOREM StopsAlwaysShown == Spec => []StopsAreShown
<1>1. Init => SInv
  BY DEF Init, SInv, StoppedShown, ContinuesSlot, NewNotStopped, Used, initjobs, clearjob
<1>2. RInv /\ SInv /\ [Next]_vars => SInv'
  BY SInvMain, SInvHandler, SInvEnvironment DEF Next
<1>3. RInv /\ SInv => StopsAreShown
  <2> SUFFICES ASSUME RInv, SInv, NEW p \in Listed(jobs), proc[p] = "stopped"
               PROVE  \/ StateOf(p) = "ST"
                      \/ frame["CHLD"].at = "stopped" /\ frame["CHLD"].pid = p
                      \/ pc \in {"readpid", "cont"} /\ loc.slot = getjobpid(jobs, p)
                      \/ Exited
    BY DEF StopsAreShown
  <2>1. PICK i \in Used(jobs) : jobs[i].pid = p
    BY DEF Listed
  <2>2. getjobpid(jobs, p) = i
    BY <2>1, SlotOfListed DEF RInv, TInv, TypeOK, ReapedNotListed
  <2> QED
    BY <2>1, <2>2 DEF SInv, StoppedShown, Unmarked, StateOf
<1> QED
  BY <1>1, <1>2, <1>3, RInvAlways, PTL DEF Spec

----------------------------------------------------------------------------
(* Every child is listed, as long as jobs[] has room for all of them.      *)

(* With as many slots as processes, a process that is not listed finds a   *)
(* free slot.                                                              *)
LEMMA RoomForChild ==
  ASSUME IsFiniteSet(PIDs), Cardinality(PIDs) <= MAXJOBS,
         jobs \in [Slots -> Job], UniquePids(jobs),
         NEW p \in PIDs, p \notin Listed(jobs)
  PROVE  \E i \in Slots : jobs[i].pid = NoPid
<1> SUFFICES ASSUME \A i \in Slots : jobs[i].pid # NoPid PROVE FALSE
  OBVIOUS
<1> DEFINE f == [i \in Slots |-> jobs[i].pid]
<1>1. f \in [Slots -> PIDs \ {p}]
  BY DEF Listed, Used, Job
<1>2. /\ IsFiniteSet(PIDs \ {p}) /\ Cardinality(PIDs \ {p}) = Cardinality(PIDs) - 1
      /\ Cardinality(PIDs) \in Nat
  BY FS_RemoveElement, FS_CardinalityType
<1>3. IsFiniteSet(Slots) /\ Cardinality(Slots) = MAXJOBS /\ MAXJOBS \in Nat
  BY MaxJobsAssumption, FS_Interval DEF Slots
<1>4. Cardinality(PIDs \ {p}) < Cardinality(Slots)
  BY <1>2, <1>3
<1>5. \E i, k \in Slots : i # k /\ f[i] = f[k]
  <2> HIDE DEF f
  <2> QED  BY <1>1, <1>2, <1>3, <1>4, FS_PigeonHole
<1> QED
  BY <1>5 DEF UniquePids, Used

(* addjob lists the process when a slot is free, and loses no other.       *)
LEMMA AddjobLists ==
  ASSUME jobs \in [Slots -> Job], nextjid \in Nat \ {0}, NEW p \in PIDs, NEW st \in JobState,
         \E i \in Slots : jobs[i].pid = NoPid
  PROVE  Listed(jobs) \cup {p} \subseteq Listed(addjob(jobs, nextjid, p, st).jobs)
<1> DEFINE S == {i \in Slots : jobs[i].pid = NoPid}
           n == FreeSlot(jobs)
           new == [jobs EXCEPT ![n] = [pid |-> p, jid |-> nextjid, state |-> st]]
<1>1. n \in Slots /\ n # NoSlot /\ jobs[n].pid = NoPid
  <2>1. n = FirstSlot(S) /\ S \subseteq Slots /\ S # {}
    BY DEF FreeSlot
  <2> QED
    BY <2>1, FirstSlotFacts
<1>2. p # NoPid
  BY NoPidAssumption
<1>3. addjob(jobs, nextjid, p, st).jobs = new
  BY <1>1, <1>2 DEF addjob
<1> HIDE DEF n
<1>4. new[n].pid = p /\ \A i \in Slots : i # n => new[i] = jobs[i]
  BY <1>1
<1> HIDE DEF new
<1> QED
  BY <1>1, <1>2, <1>3, <1>4 DEF Listed, Used

(* A process whose end the SIGCHLD handler holds is reaped.                *)
EndedIsReaped ==
    frame["CHLD"].at = "ended" => frame["CHLD"].pid \in PIDs /\ ~Live(frame["CHLD"].pid)

LInv == EveryChildListed /\ EndedIsReaped

(* A step that makes no child and delists none.                            *)
LEMMA LInvSame ==
  ASSUME LInv, jobs' = jobs \/ Listed(jobs') = Listed(jobs),
         pc # "forked" \/ (pc' = pc /\ loc' = loc) \/ Exited',
         Exited => Exited',
         \A p \in PIDs : Live(p)' => Live(p),
         frame'["CHLD"].at = "ended" => frame'["CHLD"] = frame["CHLD"]
  PROVE  LInv'
BY DEF LInv, EveryChildListed, EndedIsReaped

LEMMA LInvMain ==
  ASSUME IsFiniteSet(PIDs), Cardinality(PIDs) <= MAXJOBS,
         RInv, LInv, Command \/ MainStep
  PROVE  LInv'
<1>1. TypeOK /\ jobs \in [Slots -> Job] /\ proc \in [PIDs -> ProcState]
  BY DEF RInv, TInv, TypeOK
<1>2. ASSUME stack = <<>>, frame' = frame
      PROVE  frame'["CHLD"].at # "ended"
  BY <1>2, MainAlone DEF RInv, TInv, Signals
<1>3. ASSUME stack = <<>>, frame' = frame, jobs' = jobs, pc \notin {"forked"}, ~Exited,
             \A p \in PIDs : Live(p)' => Live(p)
      PROVE  LInv'
  BY <1>2, <1>3, LInvSame
<1>4. ASSUME NEW p \in PIDs, NEW st, Fork(p, st) PROVE LInv'
  <2>1. /\ stack = <<>> /\ frame' = frame /\ pc = "prompt" /\ jobs' = jobs
        /\ loc'.pid = p /\ pc' = "forked" /\ \A q \in PIDs : q # p => proc'[q] = proc[q]
    BY <1>1, <1>4 DEF Fork, Main, NoLoc
  <2> QED
    BY <1>2, <2>1 DEF LInv, EveryChildListed, EndedIsReaped, Live, Exited
<1>5. ASSUME NEW j, NEW st, BgfgLookup(j, st) PROVE LInv'
  BY <1>3, <1>5 DEF BgfgLookup, Main, kernel, Exited, Live
<1>6. CASE Exit
  BY <1>3, <1>6 DEF Exit, Main, kernel, Exited, Live
<1>7. CASE WaitfgReturn \/ WaitfgLoop \/ WaitfgSuspend
  BY <1>3, <1>7 DEF WaitfgReturn, WaitfgLoop, WaitfgSuspend, Main, kernel, Exited, Live
<1>8. CASE BgfgReadPid \/ BgfgWait
  BY <1>3, <1>8 DEF BgfgReadPid, BgfgWait, Main, kernel, Exited, Live
<1>9. CASE RecordJob
  <2>1. /\ stack = <<>> /\ frame' = frame /\ pc = "forked" /\ proc' = proc
        /\ jobs' = addjob(jobs, nextjid, loc.pid, loc.st).jobs
    BY <1>9 DEF RecordJob, Main, kernel
  <2>2. /\ loc.pid \in PIDs /\ loc.st \in JobState /\ nextjid \in Nat \ {0}
        /\ loc.pid \notin Listed(jobs) /\ UniquePids(jobs)
    BY <2>1 DEF RInv, TInv, TypeOK, LocalsOK, JobState, ForkWindow, ReapedNotListed
  <2>3. Listed(jobs) \cup {loc.pid} \subseteq Listed(jobs')
    BY <1>1, <2>1, <2>2, RoomForChild, AddjobLists
  <2> QED
    BY <1>2, <2>1, <2>3 DEF LInv, EveryChildListed, EndedIsReaped, Live, Exited
<1>10. CASE BgfgSetState
  <2>1. /\ stack = <<>> /\ frame' = frame /\ pc = "setstate" /\ proc' = proc
        /\ jobs' = [jobs EXCEPT ![loc.slot].state = loc.st]
    BY <1>10 DEF BgfgSetState, Main, kernel
  <2>2. \A i \in Slots : jobs'[i].pid = jobs[i].pid
    BY <1>1, <2>1 DEF Job
  <2>3. Listed(jobs') = Listed(jobs)
    BY <2>2 DEF Listed, Used
  <2> QED
    BY <1>2, <2>1, <2>3, LInvSame DEF Exited, Live
<1>11. CASE BgfgContinue
  <2>1. /\ stack = <<>> /\ frame' = frame /\ pc = "cont" /\ jobs' = jobs
        /\ Kill(loc.pid, "CONT") /\ loc.pid \in PIDs \cup {NoPid}
    BY <1>1, <1>11 DEF BgfgContinue, Main, TypeOK
  <2>2. \A q \in PIDs : Live(q)' <=> Live(q)
    BY <1>1, <2>1, KillFacts, Zenon
  <2> QED
    BY <1>3, <2>1, <2>2 DEF Exited
<1> QED
  BY <1>4, <1>5, <1>6, <1>7, <1>8, <1>9, <1>10, <1>11
  DEF Command, MainStep, BgfgByPid, BgfgByJid

LEMMA LInvHandler ==
  ASSUME RInv, LInv, NEW s \in Signals, Deliver(s) \/ HandlerStep(s)
  PROVE  LInv'
<1>1. /\ TypeOK /\ jobs \in [Slots -> Job] /\ frame \in [Signals -> Frames]
      /\ proc \in [PIDs -> ProcState]
      /\ Keyboard \subseteq Signals /\ "CHLD" \in Signals /\ "CHLD" \notin Keyboard
  BY DEF RInv, TInv, TypeOK, Signals, Keyboard
<1>2. frame["CHLD"].at = "ended" => frame["CHLD"].pid \in PIDs
  BY DEF LInv, EndedIsReaped
<1> USE DEF kernel
<1>3. CASE Deliver(s)
  <2>1. frame'["CHLD"].at = "ended" => frame'["CHLD"] = frame["CHLD"]
    BY <1>1, <1>3 DEF Deliver, Keyboard
  <2> QED
    BY <1>2, <1>3, <2>1, LInvSame DEF Deliver, Live, Exited
<1>4. ASSUME NEW p \in PIDs, WaitpidReports(p) PROVE LInv'
  <2>1. /\ jobs' = jobs /\ pc' = pc /\ loc' = loc /\ proc[p] \in {"zombie", "stopping"}
        /\ \A q \in PIDs : Live(q)' => Live(q)
    BY <1>1, <1>4 DEF WaitpidReports, Waitable, Live
  <2>2. frame'["CHLD"].at = "ended" => frame'["CHLD"].pid = p /\ proc'[p] = "free"
    BY <1>1, <1>4 DEF WaitpidReports
  <2> QED
    BY <2>1, <2>2 DEF LInv, EveryChildListed, EndedIsReaped, Live, Exited
<1>5. CASE SigchldUpdate
  <2> DEFINE p == frame["CHLD"].pid
  <2>1. /\ pc' = pc /\ loc' = loc /\ proc' = proc /\ RecordReport
        /\ frame["CHLD"].at \in {"ended", "stopped"} /\ frame'["CHLD"].at = "wait"
    BY <1>1, <1>5 DEF SigchldUpdate, RecordReport, InHandler
  <2>2. ASSUME NEW i \in Slots, jobs[i].pid # NoPid, jobs[i].pid # p \/ frame["CHLD"].at # "ended"
        PROVE  jobs'[i].pid = jobs[i].pid
    <3>1. CASE frame["CHLD"].at = "stopped"
      BY <1>1, <2>1, <3>1, ReportFacts DEF RInv, Job
    <3>2. CASE frame["CHLD"].at = "ended"
      <4>1. jobs' = deletejob(jobs, nextjid, p).jobs
        BY <2>1, <3>2 DEF RecordReport, InHandler
      <4>2. p \in PIDs /\ jobs[i].pid # p
        BY <1>2, <2>2, <3>2
      <4>3. \/ getjobpid(jobs, p) = NoSlot
            \/ getjobpid(jobs, p) \in Slots /\ getjobpid(jobs, p) # i
        BY <4>2, GetjobpidFacts
      <4> QED
        BY <1>1, <4>1, <4>3 DEF deletejob
    <3> QED
      BY <2>1, <3>1, <3>2
  <2>3. \A q \in Listed(jobs) : q \in Listed(jobs') \/ (q = p /\ frame["CHLD"].at = "ended")
    BY <2>2 DEF Listed, Used
  <2> QED
    BY <2>1, <2>3 DEF LInv, EveryChildListed, EndedIsReaped, Live, Exited
<1>6. ASSUME NEW t \in Signals, Return(t), jobs' = jobs, loc' = loc, proc' = proc
      PROVE  LInv'
  BY <1>1, <1>2, <1>6, LInvSame DEF Return, NoFrame, Live, Exited
<1>7. CASE SigchldDone
  <2>1. \/ Return("CHLD")
        \/ pc' = "waiterror" /\ frame' = frame
    BY <1>7 DEF SigchldDone
  <2>2. jobs' = jobs /\ loc' = loc /\ proc' = proc
    BY <1>7 DEF SigchldDone
  <2> QED
    BY <1>1, <1>2, <1>6, <2>1, <2>2, LInvSame DEF Exited, Live
<1>8. ASSUME s \in Keyboard, KeyboardKill(s) PROVE LInv'
  <2>1. /\ jobs' = jobs /\ pc' = pc /\ loc' = loc /\ frame'["CHLD"] = frame["CHLD"]
        /\ Kill(frame[s].pid, s) /\ frame[s].pid \in PIDs \cup {NoPid}
    BY <1>1, <1>8 DEF KeyboardKill, Frames
  <2>2. \A q \in PIDs : Live(q)' <=> Live(q)
    BY <1>1, <2>1, KillFacts
  <2> QED
    BY <1>2, <2>1, <2>2, LInvSame DEF Exited
<1>9. CASE KeyboardReturn(s)
  BY <1>6, <1>9 DEF KeyboardReturn
<1> QED
  BY <1>3, <1>4, <1>5, <1>7, <1>8, <1>9 DEF HandlerStep

LEMMA LInvEnvironment ==
  ASSUME RInv, LInv, Environment \/ Sigquit \/ Stopped \/ UNCHANGED vars
  PROVE  LInv'
<1>1. proc \in [PIDs -> ProcState]
  BY DEF RInv, TInv, TypeOK
<1>2. /\ jobs' = jobs /\ frame' = frame /\ loc' = loc /\ (pc' = pc \/ pc' = "exited")
  BY DEF Environment, Keypress, ChildStarts, ChildSetpgid, ChildExecve, ChildEnds,
     ChildStops, Sigquit, Stopped, vars, shell
<1>3. \A q \in PIDs : Live(q)' => Live(q)
  BY <1>1 DEF Environment, Keypress, ChildStarts, ChildSetpgid, ChildExecve, ChildEnds,
     ChildStops, ChildChanges, Sigquit, Stopped, vars, kernel, Live
<1> QED
  BY <1>1, <1>2, <1>3, LInvSame DEF Exited

(* No child escapes the list, except between fork and addjob, if there are *)
(* at least as many slots as processes.                                    *)
THEOREM EveryChildIsListed ==
  ASSUME IsFiniteSet(PIDs), Cardinality(PIDs) <= MAXJOBS
  PROVE  Spec => []EveryChildListed
<1>1. Init => LInv
  BY DEF Init, LInv, EveryChildListed, EndedIsReaped, Live, NoFrame, Signals
<1>2. RInv /\ LInv /\ [Next]_vars => LInv'
  BY LInvMain, LInvHandler, LInvEnvironment DEF Next
<1>3. LInv => EveryChildListed
  BY DEF LInv
<1> QED
  BY <1>1, <1>2, <1>3, RInvAlways, PTL DEF Spec

----------------------------------------------------------------------------
(* The shell implements the job control of module JobControl.              *)

(* The status of the processes as the list, the kernel and the child that  *)
(* is forked and not yet recorded determine it.                            *)
View(tbl, pr, new) ==
    [p \in PIDs |->
        IF p \in Listed(tbl) THEN tbl[getjobpid(tbl, p)].state
        ELSE IF pr[p] = "free" THEN "absent"
        ELSE IF p = new THEN "new"
        ELSE "unmanaged"]

NewChild == IF pc = "forked" THEN loc.pid ELSE NoPid

LEMMA StatusIsView ==
  /\ status = View(jobs, proc, NewChild)
  /\ status' = View(jobs', proc', NewChild')
<1>1. \A p \in PIDs : p # NoPid
  BY NoPidAssumption
<1>2. status = View(jobs, proc, NewChild)
  <2>1. \A p \in PIDs : p = NewChild <=> pc = "forked" /\ loc.pid = p
    BY <1>1 DEF NewChild
  <2> QED
    BY <2>1 DEF status, View, Live, StateOf
<1>3. status' = View(jobs', proc', NewChild')
  <2>1. \A p \in PIDs : p = NewChild' <=> pc' = "forked" /\ loc'.pid = p
    BY <1>1 DEF NewChild
  <2> QED
    BY <2>1 DEF status, View, Live, StateOf
<1> QED
  BY <1>2, <1>3

(* The entry of a process, by where it comes from.                         *)
LEMMA ViewFacts ==
  ASSUME NEW tbl \in [Slots -> Job], UniquePids(tbl), NEW pr, NEW new, NEW p \in PIDs
  PROVE  /\ \A i \in Used(tbl) : tbl[i].pid = p =>
               p \in Listed(tbl) /\ View(tbl, pr, new)[p] = tbl[i].state
         /\ p \notin Listed(tbl) => View(tbl, pr, new)[p] =
               IF pr[p] = "free" THEN "absent" ELSE IF p = new THEN "new" ELSE "unmanaged"
<1>1. ASSUME NEW i \in Used(tbl), tbl[i].pid = p
      PROVE  p \in Listed(tbl) /\ View(tbl, pr, new)[p] = tbl[i].state
  <2>1. p \in Listed(tbl) /\ getjobpid(tbl, p) = i
    BY <1>1, SlotOfListed DEF Listed
  <2> QED
    BY <2>1 DEF View
<1> QED
  BY <1>1 DEF View

(* A process keeps its entry when what is written concerns others.         *)
LEMMA ViewOther ==
  ASSUME NEW t1 \in [Slots -> Job], NEW t2 \in [Slots -> Job], UniquePids(t1), UniquePids(t2),
         NEW k \in Slots, \A i \in Slots : i # k => t2[i] = t1[i],
         NEW q \in PIDs, t1[k].pid # q, t2[k].pid # q,
         NEW pr1, NEW pr2, pr2[q] = "free" <=> pr1[q] = "free",
         NEW n1, NEW n2, q = n2 <=> q = n1
  PROVE  View(t2, pr2, n2)[q] = View(t1, pr1, n1)[q]
<1>1. /\ q \in Listed(t2) <=> q \in Listed(t1)
      /\ q \in Listed(t1) => t2[getjobpid(t2, q)] = t1[getjobpid(t1, q)]
  BY OtherEntries
<1> QED
  BY <1>1 DEF View

----------------------------------------------------------------------------
(* What the refinement needs beside the invariants above: a listed job is  *)
(* in one of the three states, bg and fg ask for BG or FG, and the process *)
(* whose end the SIGCHLD handler holds is reaped.                          *)

JobStates == \A i \in Used(jobs) : jobs[i].state \in JC!JobStatus
BgfgAsks  == pc = "setstate" => loc.st \in {"FG", "BG"}

CInv == RInv /\ FInv /\ JobStates /\ BgfgAsks /\ EndedIsReaped

(* Steps of the main flow run without handlers and leave their frames.     *)
LEMMA MainFrame == Command \/ MainStep => stack = <<>> /\ stack' = stack /\ frame' = frame
BY DEF Command, MainStep, Fork, BgfgByPid, BgfgByJid, BgfgLookup, Exit, RecordJob,
       WaitfgReturn, WaitfgLoop, WaitfgSuspend, BgfgSetState, BgfgReadPid,
       BgfgContinue, BgfgWait, Main

LEMMA CInvMain ==
  ASSUME RInv, JobStates, BgfgAsks, Command \/ MainStep
  PROVE  JobStates' /\ BgfgAsks' /\ EndedIsReaped'
<1>1. jobs \in [Slots -> Job] /\ nextjid \in Nat \ {0}
  BY DEF RInv, TInv, TypeOK
<1>2. EndedIsReaped'
  <2>1. frame'["CHLD"].at = "idle"
    BY MainFrame, MainAlone DEF RInv, TInv, Signals
  <2> QED
    BY <2>1 DEF EndedIsReaped
<1>3. BgfgAsks'
  BY DEF BgfgAsks, Command, MainStep, Fork, BgfgByPid, BgfgByJid, BgfgLookup, Exit, RecordJob,
         WaitfgReturn, WaitfgLoop, WaitfgSuspend, BgfgSetState, BgfgReadPid,
         BgfgContinue, BgfgWait, NoLoc
<1>4. CASE RecordJob
  <2>1. /\ jobs' = addjob(jobs, nextjid, loc.pid, loc.st).jobs
        /\ loc.pid \in PIDs /\ loc.st \in {"FG", "BG"}
    BY <1>4 DEF RecordJob, Main, RInv, TInv, LocalsOK
  <2> DEFINE new == [pid |-> loc.pid, jid |-> nextjid, state |-> loc.st]
  <2>2. jobs' = jobs \/ \E k \in Slots : jobs' = [jobs EXCEPT ![k] = new]
    BY <1>1, <2>1, AddjobFills
  <2>3. \A i \in Slots : jobs'[i] = jobs[i] \/ jobs'[i].state \in {"FG", "BG"}
    <3>1. new.state \in {"FG", "BG"}
      BY <2>1
    <3> HIDE DEF new
    <3> QED  BY <1>1, <2>2, <3>1
  <2> QED
    BY <1>2, <1>3, <2>3 DEF JobStates, Used, JC!JobStatus
<1>5. CASE BgfgSetState
  <2>1. /\ jobs' = [jobs EXCEPT ![loc.slot].state = loc.st]
        /\ loc.slot \in Slots /\ loc.st \in {"FG", "BG"}
    BY <1>5 DEF BgfgSetState, Main, RInv, TInv, LocalsOK, BgfgAsks
  <2>2. \A i \in Slots : jobs'[i] = jobs[i] \/ jobs'[i].state \in {"FG", "BG"}
    BY <1>1, <2>1 DEF Job
  <2> QED
    BY <1>2, <1>3, <2>2 DEF JobStates, Used, JC!JobStatus
<1>6. CASE jobs' = jobs
  BY <1>2, <1>3, <1>6 DEF JobStates
<1> QED
  BY <1>4, <1>5, <1>6
  DEF Command, MainStep, Fork, BgfgByPid, BgfgByJid, BgfgLookup, Exit,
      WaitfgReturn, WaitfgLoop, WaitfgSuspend, BgfgReadPid, BgfgContinue, BgfgWait

LEMMA CInvHandler ==
  ASSUME RInv, JobStates, BgfgAsks, EndedIsReaped,
         NEW s \in Signals, Deliver(s) \/ HandlerStep(s)
  PROVE  JobStates' /\ BgfgAsks' /\ EndedIsReaped'
<1>1. /\ TypeOK /\ jobs \in [Slots -> Job] /\ frame \in [Signals -> Frames]
      /\ proc \in [PIDs -> ProcState]
      /\ Keyboard \subseteq Signals /\ "CHLD" \in Signals /\ "CHLD" \notin Keyboard
  BY DEF RInv, TInv, TypeOK, Signals, Keyboard
<1> USE DEF kernel
<1>2. ASSUME jobs' = jobs, loc' = loc, pc' # "setstate" \/ pc' = pc, EndedIsReaped'
      PROVE  JobStates' /\ BgfgAsks' /\ EndedIsReaped'
  BY <1>2 DEF JobStates, BgfgAsks
<1>3. ASSUME frame'["CHLD"].at = "ended" => frame'["CHLD"] = frame["CHLD"],
             \A p \in PIDs : Live(p)' => Live(p)
      PROVE  EndedIsReaped'
  BY <1>3 DEF EndedIsReaped
<1>4. CASE Deliver(s)
  <2>1. frame'["CHLD"].at = "ended" => frame'["CHLD"] = frame["CHLD"]
    BY <1>1, <1>4 DEF Deliver, Keyboard
  <2> QED
    BY <1>2, <1>3, <1>4, <2>1 DEF Deliver, Live
<1>5. ASSUME NEW p \in PIDs, WaitpidReports(p)
      PROVE  JobStates' /\ BgfgAsks' /\ EndedIsReaped'
  <2>1. frame'["CHLD"].at = "ended" => frame'["CHLD"].pid = p /\ proc'[p] = "free"
    BY <1>1, <1>5 DEF WaitpidReports
  <2> QED
    BY <1>2, <1>5, <2>1 DEF WaitpidReports, EndedIsReaped, Live
<1>6. CASE SigchldUpdate
  <2>1. \A i \in Slots : jobs'[i] \in {jobs[i], clearjob, [jobs[i] EXCEPT !.state = "ST"]}
    BY <1>6, ReportFacts DEF SigchldUpdate, RInv
  <2>2. \A i \in Slots : \/ jobs'[i] = jobs[i]
                         \/ jobs'[i].pid = NoPid
                         \/ jobs'[i].state = "ST"
    BY <1>1, <2>1 DEF clearjob, Job
  <2>3. frame'["CHLD"].at = "wait" /\ pc' = pc /\ loc' = loc
    BY <1>1, <1>6 DEF SigchldUpdate
  <2> QED
    BY <2>2, <2>3 DEF JobStates, Used, BgfgAsks, EndedIsReaped, JC!JobStatus
<1>7. ASSUME NEW t \in Signals, Return(t), jobs' = jobs, loc' = loc, proc' = proc
      PROVE  JobStates' /\ BgfgAsks' /\ EndedIsReaped'
  BY <1>1, <1>2, <1>3, <1>7 DEF Return, NoFrame, Live
<1>8. CASE SigchldDone
  <2>1. Return("CHLD") \/ (pc' = "waiterror" /\ frame' = frame)
    BY <1>8 DEF SigchldDone
  <2>2. jobs' = jobs /\ loc' = loc /\ proc' = proc
    BY <1>8 DEF SigchldDone
  <2> QED
    BY <1>1, <1>2, <1>3, <1>7, <2>1, <2>2 DEF Live
<1>9. ASSUME s \in Keyboard, KeyboardKill(s)
      PROVE  JobStates' /\ BgfgAsks' /\ EndedIsReaped'
  <2>1. /\ jobs' = jobs /\ pc' = pc /\ loc' = loc /\ frame'["CHLD"] = frame["CHLD"]
        /\ Kill(frame[s].pid, s) /\ frame[s].pid \in PIDs \cup {NoPid}
    BY <1>1, <1>9 DEF KeyboardKill, Frames
  <2>2. \A q \in PIDs : Live(q)' <=> Live(q)
    BY <1>1, <2>1, KillFacts
  <2> QED
    BY <1>2, <1>3, <2>1, <2>2
<1>10. CASE KeyboardReturn(s)
  BY <1>7, <1>10 DEF KeyboardReturn
<1> QED
  BY <1>4, <1>5, <1>6, <1>8, <1>9, <1>10 DEF HandlerStep

LEMMA CInvEnvironment ==
  ASSUME RInv, JobStates, BgfgAsks, EndedIsReaped,
         Environment \/ Sigquit \/ Stopped \/ UNCHANGED vars
  PROVE  JobStates' /\ BgfgAsks' /\ EndedIsReaped'
<1>1. proc \in [PIDs -> ProcState]
  BY DEF RInv, TInv, TypeOK
<1>2. /\ jobs' = jobs /\ frame' = frame /\ loc' = loc /\ (pc' = pc \/ pc' = "exited")
  BY DEF Environment, Keypress, ChildStarts, ChildSetpgid, ChildExecve, ChildEnds,
     ChildStops, Sigquit, Stopped, vars, shell
<1>3. \A q \in PIDs : Live(q)' => Live(q)
  BY <1>1 DEF Environment, Keypress, ChildStarts, ChildSetpgid, ChildExecve, ChildEnds,
     ChildStops, ChildChanges, Sigquit, Stopped, vars, kernel, Live
<1> QED
  BY <1>2, <1>3 DEF JobStates, BgfgAsks, EndedIsReaped

LEMMA CInvAlways == Spec => []CInv
<1> DEFINE I == JobStates /\ BgfgAsks /\ EndedIsReaped
<1>1. Init => I
  BY DEF Init, JobStates, BgfgAsks, EndedIsReaped, Used, initjobs, clearjob, NoFrame, Signals
<1>2. RInv /\ I /\ [Next]_vars => I'
  BY CInvMain, CInvHandler, CInvEnvironment DEF Next
<1>3. RInv /\ FInv /\ I => CInv
  BY DEF CInv
<1> QED
  BY <1>1, <1>2, <1>3, RInvAlways, FInvAlways, PTL DEF Spec

----------------------------------------------------------------------------
(* The steps.                                                              *)

(* Nothing that job control sees has changed.                              *)
LEMMA Unseen ==
  ASSUME jobs' = jobs, \A p \in PIDs : Live(p)' <=> Live(p), NewChild' = NewChild,
         Exited' <=> Exited
  PROVE  UNCHANGED JC!vars
<1>1. \A p \in PIDs : proc'[p] = "free" <=> proc[p] = "free"
  BY DEF Live
<1>2. status' = status
  BY <1>1, StatusIsView DEF View
<1> QED
  BY <1>2 DEF JC!vars

(* The status of one process has changed.                                  *)
LEMMA OneBecomes ==
  ASSUME NEW p \in PIDs, NEW s, ~Exited, ~Exited', status'[p] = s,
         \A q \in PIDs : q # p => status'[q] = status[q]
  PROVE  JC!Becomes(p, s)
<1>1. /\ status = [q \in PIDs |-> status[q]]
      /\ status' = [q \in PIDs |-> status'[q]]
  BY DEF status
<1>2. status' = [status EXCEPT ![p] = s]
  <2> DEFINE a == status
             b == status'
  <2>1. a = [q \in PIDs |-> a[q]] /\ b = [q \in PIDs |-> b[q]] /\ b[p] = s
        /\ \A q \in PIDs : q # p => b[q] = a[q]
    BY <1>1
  <2> HIDE DEF a, b
  <2>2. b = [a EXCEPT ![p] = s]
    BY <2>1
  <2> QED
    BY <2>2 DEF a, b
<1> QED
  BY <1>2 DEF JC!Becomes

(* The shell goes: a child that is not recorded yet never will be.         *)
LEMMA Leaves ==
  ASSUME CInv, ~Exited, Exited', jobs' = jobs, proc' = proc
  PROVE  JC!Exit
<1>1. jobs \in [Slots -> Job] /\ UniquePids(jobs) /\ NewChild' = NoPid
  BY DEF CInv, RInv, TInv, TypeOK, ReapedNotListed, NewChild, Exited
<1>2. ASSUME NEW p \in PIDs
      PROVE  status'[p] = IF status[p] = "new" THEN "unmanaged" ELSE status[p]
  <2>1. p # NoPid
    BY NoPidAssumption
  <2>2. CASE p \in Listed(jobs)
    <3>1. PICK i \in Used(jobs) : jobs[i].pid = p
      BY <2>2 DEF Listed
    <3>2. status[p] = jobs[i].state /\ status'[p] = jobs[i].state
      BY <1>1, <3>1, StatusIsView, ViewFacts
    <3>3. jobs[i].state # "new"
      BY <3>1 DEF CInv, JobStates, JC!JobStatus
    <3> QED  BY <3>2, <3>3
  <2>3. CASE p \notin Listed(jobs)
    <3>1. /\ status[p] = IF proc[p] = "free" THEN "absent"
                         ELSE IF p = NewChild THEN "new" ELSE "unmanaged"
          /\ status'[p] = IF proc[p] = "free" THEN "absent" ELSE "unmanaged"
      BY <1>1, <2>1, <2>3, StatusIsView, ViewFacts
    <3> QED  BY <3>1
  <2> QED  BY <2>2, <2>3
<1>3. status' = [p \in PIDs |-> IF status[p] = "new" THEN "unmanaged" ELSE status[p]]
  <2>1. status' = [q \in PIDs |-> status'[q]]
    BY DEF status
  <2> QED
    BY <1>2, <2>1
<1> QED
  BY <1>3 DEF JC!Exit

(* While the shell has no foreground job and no new child, job control     *)
(* sees none.                                                              *)
LEMMA NoForeground ==
  ASSUME CInv, FGs(jobs) = {}, pc # "forked"
  PROVE  JC!Has({"new", "FG"}) = {}
<1>1. jobs \in [Slots -> Job] /\ UniquePids(jobs) /\ NewChild = NoPid
  BY DEF CInv, RInv, TInv, TypeOK, ReapedNotListed, NewChild
<1>2. ASSUME NEW p \in PIDs PROVE status[p] \notin {"new", "FG"}
  <2>1. p # NoPid
    BY NoPidAssumption
  <2>2. CASE p \in Listed(jobs)
    <3>1. PICK i \in Used(jobs) : jobs[i].pid = p
      BY <2>2 DEF Listed
    <3>2. status[p] = jobs[i].state
      BY <1>1, <3>1, StatusIsView, ViewFacts
    <3>3. jobs[i].state \notin {"new", "FG"}
      BY <3>1 DEF CInv, JobStates, JC!JobStatus, FGs, Used
    <3> QED  BY <3>2, <3>3
  <2>3. CASE p \notin Listed(jobs)
    BY <1>1, <2>1, <2>3, StatusIsView, ViewFacts
  <2> QED  BY <2>2, <2>3
<1> QED
  BY <1>2 DEF JC!Has

(* The processes that have a job status are those of the list, one per     *)
(* used slot.                                                              *)
LEMMA JobsCounted ==
  ASSUME CInv
  PROVE  JC!Cardinality(JC!Has(JC!JobStatus)) < MAXJOBS <=> Used(jobs) # Slots
<1>1. jobs \in [Slots -> Job] /\ UniquePids(jobs)
  BY DEF CInv, RInv, TInv, TypeOK, ReapedNotListed
<1>2. JC!Has(JC!JobStatus) = Listed(jobs)
  <2>1. Listed(jobs) \subseteq PIDs
    BY <1>1 DEF Listed, Used, Job
  <2>2. ASSUME NEW p \in Listed(jobs) PROVE status[p] \in JC!JobStatus
    <3>1. PICK i \in Used(jobs) : jobs[i].pid = p
      BY DEF Listed
    <3>2. status[p] = jobs[i].state
      BY <1>1, <2>1, <3>1, StatusIsView, ViewFacts
    <3> QED
      BY <3>1, <3>2 DEF CInv, JobStates
  <2>3. ASSUME NEW p \in PIDs, p \notin Listed(jobs) PROVE status[p] \notin JC!JobStatus
    BY <1>1, <2>3, StatusIsView, ViewFacts DEF JC!JobStatus
  <2> QED
    BY <2>1, <2>2, <2>3 DEF JC!Has
<1> DEFINE f == [i \in Used(jobs) |-> jobs[i].pid]
<1>3. f \in Bijection(Used(jobs), Listed(jobs))
  <2>1. f \in [Used(jobs) -> Listed(jobs)]
    BY DEF Listed
  <2>2. \A i, k \in Used(jobs) : f[i] = f[k] => i = k
    BY <1>1 DEF UniquePids
  <2>3. \A p \in Listed(jobs) : \E i \in Used(jobs) : f[i] = p
    BY DEF Listed
  <2> HIDE DEF f
  <2> QED
    BY <2>1, <2>2, <2>3 DEF Bijection, Injection, IsInjective, Surjection
<1>4. IsFiniteSet(Slots) /\ Cardinality(Slots) = MAXJOBS /\ MAXJOBS \in Nat
  BY MaxJobsAssumption, FS_Interval DEF Slots
<1>5. /\ Used(jobs) \in SUBSET Slots
      /\ IsFiniteSet(Used(jobs)) /\ Cardinality(Used(jobs)) <= MAXJOBS
      /\ Cardinality(Used(jobs)) = MAXJOBS => Used(jobs) = Slots
      /\ Cardinality(Used(jobs)) \in Nat
  <2>1. Used(jobs) \in SUBSET Slots
    BY DEF Used
  <2> QED
    BY <1>4, <2>1, FS_Subset, FS_CardinalityType
<1>6. Cardinality(Listed(jobs)) = Cardinality(Used(jobs))
  <2>1. ExistsBijection(Used(jobs), Listed(jobs))
    BY <1>3 DEF ExistsBijection
  <2> QED
    BY <1>5, <2>1, FS_Bijection
<1>7. JC!Cardinality(Listed(jobs)) = Cardinality(Listed(jobs))
  BY DEF JC!Cardinality, Cardinality
<1> QED
  BY <1>2, <1>4, <1>5, <1>6, <1>7

(* Before the main flow takes a step, the list is up to date.              *)
LEMMA MainList ==
  ASSUME CInv, stack = <<>>
  PROVE  \A q \in Listed(jobs) : q \in PIDs /\ Live(q)
<1>1. \A i \in Used(jobs) : Live(jobs[i].pid)
  BY MainAlone DEF CInv, RInv, TInv, ReapedNotListed, Signals
<1> QED
  BY <1>1 DEF Listed, Used, CInv, RInv, TInv, TypeOK, Job

LEMMA ForkLaunches ==
  ASSUME CInv, CInv', NEW p \in PIDs, NEW st \in {"FG", "BG"}, Fork(p, st)
  PROVE  JC!Launch(p)
<1>1. /\ jobs \in [Slots -> Job] /\ UniquePids(jobs) /\ proc \in [PIDs -> ProcState]
      /\ jobs' = jobs /\ pc = "prompt" /\ pc' = "forked" /\ loc'.pid = p /\ ~Live(p)
      /\ proc'[p] # "free" /\ \A q \in PIDs : q # p => proc'[q] = proc[q]
      /\ stack = <<>> /\ p # NoPid
  BY NoPidAssumption DEF CInv, RInv, TInv, TypeOK, ReapedNotListed, Fork, Main, NoLoc, Live
<1>2. p \notin Listed(jobs)
  BY <1>1, MainList
<1>3. NewChild = NoPid /\ NewChild' = p
  BY <1>1 DEF NewChild
<1>4. status[p] = "absent" /\ status'[p] = "new"
  BY <1>1, <1>2, <1>3, StatusIsView, ViewFacts DEF Live
<1>5. \A q \in PIDs : q # p => status'[q] = status[q]
  <2> SUFFICES ASSUME NEW q \in PIDs, q # p PROVE status'[q] = status[q]
    OBVIOUS
  <2>1. View(jobs, proc', NewChild')[q] = View(jobs, proc, NewChild)[q]
    BY <1>1, <1>3, NoPidAssumption DEF View
  <2> QED
    BY <1>1, <2>1, StatusIsView
<1>6. JC!Has({"new", "FG"}) = {}
  <2>1. FGs(jobs) = {}
    BY <1>1 DEF CInv, FInv, Waiting, Exited
  <2> QED
    BY <1>1, <2>1, NoForeground
<1>7. JC!Becomes(p, "new")
  BY <1>1, <1>4, <1>5, OneBecomes DEF Exited
<1> QED
  BY <1>4, <1>6, <1>7 DEF JC!Launch

LEMMA RecordJobRecords ==
  ASSUME CInv, CInv', RecordJob
  PROVE  JC!Record(loc.pid) \/ JC!Exit
<1> DEFINE p == loc.pid
           new == [pid |-> p, jid |-> nextjid, state |-> loc.st]
<1>1. /\ jobs \in [Slots -> Job] /\ UniquePids(jobs)
      /\ jobs' \in [Slots -> Job] /\ UniquePids(jobs') /\ nextjid \in Nat \ {0}
  BY DEF CInv, RInv, TInv, TypeOK, ReapedNotListed
<1>2. /\ pc = "forked" /\ p \in PIDs /\ p # NoPid /\ loc.st \in {"FG", "BG"}
      /\ Live(p) /\ p \notin Listed(jobs)
  BY NoPidAssumption DEF RecordJob, Main, CInv, RInv, ForkWindow, TInv, LocalsOK
<1>3. /\ jobs' = addjob(jobs, nextjid, p, loc.st).jobs /\ proc' = proc
      /\ pc' \in {"waitfg", "prompt", "segv"}
  BY DEF RecordJob, kernel
<1>4. NewChild = p /\ NewChild' = NoPid
  BY <1>2, <1>3 DEF NewChild
<1>5. status[p] = "new"
  BY <1>1, <1>2, <1>4, StatusIsView, ViewFacts DEF Live
<1>6. CASE Used(jobs) = Slots /\ jobs' = jobs
  <2>1. CASE Exited'
    BY <1>2, <1>3, <1>6, <2>1, Leaves DEF Exited
  <2>2. CASE ~Exited'
    <3>1. status'[p] = "unmanaged"
      BY <1>1, <1>2, <1>3, <1>4, <1>6, StatusIsView, ViewFacts DEF Live
    <3>2. \A q \in PIDs : q # p => status'[q] = status[q]
      <4> SUFFICES ASSUME NEW q \in PIDs, q # p PROVE status'[q] = status[q]
        OBVIOUS
      <4>1. View(jobs, proc, NewChild')[q] = View(jobs, proc, NewChild)[q]
        BY <1>4, NoPidAssumption DEF View
      <4> QED
        BY <1>3, <1>6, <4>1, StatusIsView
    <3>3. JC!Becomes(p, "unmanaged")
      BY <1>2, <2>2, <3>1, <3>2, OneBecomes DEF Exited
    <3> QED
      BY <1>5, <1>6, <3>3, JobsCounted DEF JC!Record
  <2> QED  BY <2>1, <2>2
<1>7. ASSUME NEW k \in Slots \ Used(jobs), jobs' = [jobs EXCEPT ![k] = new]
      PROVE  JC!Record(p)
  <2>1. /\ jobs'[k].pid = p /\ jobs'[k].state = loc.st /\ jobs[k].pid = NoPid
        /\ \A i \in Slots : i # k => jobs'[i] = jobs[i]
    BY <1>1, <1>7 DEF Used
  <2>2. k \in Used(jobs')
    BY <1>2, <2>1 DEF Used
  <2>3. status'[p] = loc.st
    BY <1>1, <1>2, <2>1, <2>2, StatusIsView, ViewFacts
  <2>4. \A q \in PIDs : q # p => status'[q] = status[q]
    <3> SUFFICES ASSUME NEW q \in PIDs, q # p PROVE status'[q] = status[q]
      OBVIOUS
    <3>1. q # NoPid
      BY NoPidAssumption
    <3>2. View(jobs', proc', NewChild')[q] = View(jobs, proc, NewChild)[q]
      <4> HIDE DEF p
      <4> QED  BY <1>1, <1>3, <1>4, <2>1, <3>1, ViewOther
    <3> QED
      BY <3>2, StatusIsView
  <2>5. ~Exited'
    <3>1. loc.st = "BG" => getjobpid(jobs', p) = k
      BY <1>1, <2>1, <2>2, SlotOfListed
    <3>2. k # NoSlot
      BY MaxJobsAssumption DEF Slots, NoSlot
    <3> QED
      BY <1>2, <1>3, <3>1, <3>2 DEF RecordJob, Exited
  <2>6. JC!Becomes(p, loc.st)
    BY <1>2, <2>3, <2>4, <2>5, OneBecomes DEF Exited
  <2>7. JC!Cardinality(JC!Has(JC!JobStatus)) < MAXJOBS
    BY <1>7, JobsCounted
  <2> QED
    BY <1>2, <1>5, <2>6, <2>7 DEF JC!Record
<1> QED
  <2>1. \/ Used(jobs) = Slots /\ jobs' = jobs
        \/ \E k \in Slots \ Used(jobs) : jobs' = [jobs EXCEPT ![k] = new]
    <3>1. loc.pid \in PIDs
      BY <1>2
    <3> QED
      BY <1>1, <1>3, <3>1, AddjobFills
  <2> QED
    BY <1>6, <1>7, <2>1

(* A write to the state of slot k.                                         *)
LEMMA StateWritten ==
  ASSUME CInv, CInv', NEW k \in Slots, NEW st,
         \A i \in Slots : jobs'[i] = IF i = k THEN [jobs[i] EXCEPT !.state = st] ELSE jobs[i],
         proc' = proc, NewChild' = NewChild, ~Exited, ~Exited'
  PROVE  /\ k \notin Used(jobs) => UNCHANGED JC!vars
         /\ k \in Used(jobs) =>
               /\ jobs[k].pid \in PIDs /\ status[jobs[k].pid] = jobs[k].state
               /\ JC!Becomes(jobs[k].pid, st)
               /\ jobs[k].state = st => UNCHANGED JC!vars
<1>1. /\ jobs \in [Slots -> Job] /\ UniquePids(jobs)
      /\ jobs' \in [Slots -> Job] /\ UniquePids(jobs')
  BY DEF CInv, RInv, TInv, TypeOK, ReapedNotListed
<1> DEFINE p == jobs[k].pid
<1>2. jobs'[k].pid = p /\ jobs'[k].state = st /\ \A i \in Slots : i # k => jobs'[i] = jobs[i]
  BY <1>1 DEF Job
<1>3. \A q \in PIDs : q # p => status'[q] = status[q]
  <2> SUFFICES ASSUME NEW q \in PIDs, q # p PROVE status'[q] = status[q]
    OBVIOUS
  <2>1. View(jobs', proc', NewChild')[q] = View(jobs, proc, NewChild)[q]
    <3>1. jobs[k].pid # q /\ jobs'[k].pid # q
      BY <1>2
    <3> HIDE DEF p
    <3> QED  BY <1>1, <1>2, <3>1, ViewOther
  <2> QED
    BY <2>1, StatusIsView
<1>4. /\ status = [q \in PIDs |-> status[q]]
      /\ status' = [q \in PIDs |-> status'[q]]
  BY DEF status
<1>5. ASSUME k \notin Used(jobs) PROVE UNCHANGED JC!vars
  <2>1. p = NoPid
    BY <1>5 DEF Used
  <2>2. status' = status
    BY <1>3, <1>4, <2>1, NoPidAssumption
  <2> QED
    BY <2>2 DEF JC!vars
<1>6. ASSUME k \in Used(jobs)
      PROVE  /\ p \in PIDs /\ status[p] = jobs[k].state
             /\ JC!Becomes(p, st)
             /\ jobs[k].state = st => UNCHANGED JC!vars
  <2>1. p \in PIDs /\ k \in Used(jobs')
    BY <1>1, <1>2, <1>6 DEF Used, Job
  <2>2. status[p] = jobs[k].state /\ status'[p] = st
    BY <1>1, <1>2, <1>6, <2>1, StatusIsView, ViewFacts
  <2>3. JC!Becomes(p, st)
    BY <1>3, <2>1, <2>2, OneBecomes
  <2>4. ASSUME jobs[k].state = st PROVE UNCHANGED JC!vars
    <3>1. status' = status
      BY <1>3, <1>4, <2>2, <2>4
    <3> QED  BY <3>1 DEF JC!vars
  <2> QED
    BY <2>1, <2>2, <2>3, <2>4
<1> QED
  BY <1>5, <1>6

LEMMA SetStateResumes ==
  ASSUME CInv, CInv', BgfgSetState
  PROVE  (\E p \in PIDs : JC!Resume(p)) \/ UNCHANGED JC!vars
<1> DEFINE k == loc.slot
<1>1. /\ pc = "setstate" /\ pc' = "readpid" /\ proc' = proc /\ k \in Slots
      /\ loc.st \in {"FG", "BG"} /\ jobs \in [Slots -> Job]
      /\ jobs' = [jobs EXCEPT ![k].state = loc.st]
  BY DEF BgfgSetState, Main, CInv, RInv, TInv, TypeOK, LocalsOK, BgfgAsks, kernel
<1>2. \A i \in Slots : jobs'[i] = IF i = k THEN [jobs[i] EXCEPT !.state = loc.st] ELSE jobs[i]
  BY <1>1
<1>3. NewChild' = NewChild /\ ~Exited /\ ~Exited'
  BY <1>1 DEF NewChild, Exited
<1>4. FGs(jobs) = {}
  BY <1>1 DEF CInv, FInv, Waiting, Exited
<1>5. JC!Has({"new", "FG"}) = {}
  BY <1>1, <1>4, NoForeground
<1> HIDE DEF k
<1>6. CASE k \notin Used(jobs)
  BY <1>1, <1>2, <1>3, <1>6, StateWritten
<1>7. CASE k \in Used(jobs)
  <2>1. /\ jobs[k].pid \in PIDs /\ status[jobs[k].pid] = jobs[k].state
        /\ JC!Becomes(jobs[k].pid, loc.st)
        /\ jobs[k].state = loc.st => UNCHANGED JC!vars
    BY <1>1, <1>2, <1>3, <1>7, StateWritten
  <2>2. jobs[k].state \in {"BG", "ST"}
    BY <1>1, <1>4, <1>7 DEF CInv, JobStates, JC!JobStatus, FGs
  <2> QED
    BY <1>1, <1>5, <2>1, <2>2 DEF JC!Resume
<1> QED
  BY <1>6, <1>7

JCStep == JC!Next \/ UNCHANGED JC!vars

LEMMA MainRefines ==
  ASSUME CInv, CInv', Command \/ MainStep
  PROVE  JCStep
<1>1. TypeOK /\ proc \in [PIDs -> ProcState] /\ loc.pid \in PIDs \cup {NoPid}
  BY DEF CInv, RInv, TInv, TypeOK
<1> USE DEF kernel
<1>2. ASSUME jobs' = jobs, \A p \in PIDs : Live(p)' <=> Live(p),
             pc # "forked", pc' # "forked", ~Exited, ~Exited'
      PROVE  JCStep
  BY <1>2, Unseen DEF NewChild, JCStep
<1>3. ASSUME NEW p \in PIDs, NEW st \in {"FG", "BG"}, Fork(p, st) PROVE JCStep
  BY <1>3, ForkLaunches DEF JCStep, JC!Next
<1>4. ASSUME NEW j, NEW st, BgfgLookup(j, st) PROVE JCStep
  BY <1>2, <1>4 DEF BgfgLookup, Main, Live, Exited
<1>5. CASE Exit
  <2>1. JC!Exit
    BY <1>5, Leaves DEF Exit, Main, Exited
  <2> QED
    BY <2>1 DEF JCStep, JC!Next
<1>6. CASE RecordJob
  <2>1. loc.pid \in PIDs
    BY <1>6 DEF RecordJob, Main, CInv, RInv, TInv, LocalsOK
  <2> QED
    BY <1>6, <2>1, RecordJobRecords DEF JCStep, JC!Next
<1>7. CASE WaitfgReturn \/ WaitfgLoop \/ WaitfgSuspend \/ BgfgReadPid \/ BgfgWait
  BY <1>2, <1>7
  DEF WaitfgReturn, WaitfgLoop, WaitfgSuspend, BgfgReadPid, BgfgWait, Main, Live, Exited
<1>8. CASE BgfgSetState
  BY <1>8, SetStateResumes DEF JCStep, JC!Next
<1>9. CASE BgfgContinue
  <2>1. Kill(loc.pid, "CONT") /\ jobs' = jobs /\ pc = "cont" /\ pc' \in {"prompt", "contdone"}
    BY <1>9 DEF BgfgContinue, Main
  <2>2. \A q \in PIDs : Live(q)' <=> Live(q)
    BY <1>1, <2>1, KillFacts
  <2> QED
    BY <1>2, <2>1, <2>2 DEF Exited
<1> QED
  BY <1>3, <1>4, <1>5, <1>6, <1>7, <1>8, <1>9 DEF Command, MainStep, BgfgByPid, BgfgByJid

(* waitpid frees a zombie: it ends now if it is no job, and else stays one *)
(* until the handler has deleted it.                                       *)
LEMMA WaitpidRefines ==
  ASSUME CInv, CInv', NEW p \in PIDs, WaitpidReports(p)
  PROVE  JC!End(p) \/ UNCHANGED JC!vars
<1>1. /\ jobs \in [Slots -> Job] /\ UniquePids(jobs) /\ proc \in [PIDs -> ProcState]
  BY DEF CInv, RInv, TInv, TypeOK, ReapedNotListed
<1>2. /\ jobs' = jobs /\ pc' = pc /\ loc' = loc /\ ~Exited /\ ~Exited'
      /\ frame["CHLD"].at = "wait" /\ proc[p] \in {"zombie", "stopping"}
      /\ \A q \in PIDs : q # p => proc'[q] = proc[q]
      /\ proc'[p] = IF proc[p] = "zombie" THEN "free" ELSE "stopped"
  BY <1>1 DEF WaitpidReports, InHandler, Waitable, Exited
<1>3. NewChild' = NoPid /\ NewChild = NoPid
  BY <1>2 DEF NewChild, CInv, RInv, ForkWindow
<1>4. CASE proc[p] = "stopping"
  <2>1. \A q \in PIDs : Live(q)' <=> Live(q)
    BY <1>2, <1>4 DEF Live
  <2> QED
    BY <1>2, <1>3, <2>1, Unseen
<1>5. \A q \in PIDs : q # p \/ q \in Listed(jobs) => status'[q] = status[q]
  <2>1. \A q \in PIDs : q # p \/ q \in Listed(jobs) =>
            View(jobs, proc', NewChild')[q] = View(jobs, proc, NewChild)[q]
    BY <1>2, <1>3 DEF View
  <2> QED
    BY <1>2, <2>1, StatusIsView
<1>6. CASE p \in Listed(jobs)
  <2>1. /\ status = [q \in PIDs |-> status[q]]
        /\ status' = [q \in PIDs |-> status'[q]]
    BY DEF status
  <2>2. status' = status
    BY <1>5, <1>6, <2>1
  <2> QED
    BY <1>2, <2>2 DEF JC!vars
<1>7. CASE p \notin Listed(jobs) /\ proc[p] = "zombie"
  <2>1. p # NoPid
    BY NoPidAssumption
  <2>2. status[p] = "unmanaged" /\ status'[p] = "absent"
    BY <1>1, <1>2, <1>3, <1>7, <2>1, StatusIsView, ViewFacts
  <2>3. JC!Becomes(p, "absent")
    BY <1>2, <1>5, <2>2, OneBecomes
  <2> QED
    BY <2>2, <2>3 DEF JC!End
<1> QED
  BY <1>2, <1>4, <1>6, <1>7

(* The handler takes a reaped process off the list: its job ends.          *)
LEMMA EndedRefines ==
  ASSUME CInv, CInv', SigchldUpdate, frame["CHLD"].at = "ended"
  PROVE  JC!End(frame["CHLD"].pid) \/ UNCHANGED JC!vars
<1> DEFINE p == frame["CHLD"].pid
<1>1. /\ jobs \in [Slots -> Job] /\ UniquePids(jobs)
      /\ jobs' \in [Slots -> Job] /\ UniquePids(jobs')
  BY DEF CInv, RInv, TInv, TypeOK, ReapedNotListed
<1>2. /\ jobs' = deletejob(jobs, nextjid, p).jobs
      /\ proc' = proc /\ pc' = pc /\ loc' = loc /\ ~Exited /\ ~Exited'
  BY DEF SigchldUpdate, RecordReport, InHandler, Exited, kernel
<1>3. NewChild' = NewChild /\ p # NewChild
  BY <1>2, NoPidAssumption DEF NewChild, CInv, RInv, ForkWindow, EndedIsReaped
<1>4. p \in PIDs /\ p # NoPid /\ ~Live(p)
  BY NoPidAssumption DEF CInv, EndedIsReaped
<1>5. CASE jobs' = jobs
  BY <1>2, <1>3, <1>5, Unseen DEF Live
<1>6. ASSUME NEW k \in Used(jobs), jobs[k].pid = p, jobs' = [jobs EXCEPT ![k] = clearjob]
      PROVE  JC!End(p)
  <2>1. k \in Slots /\ jobs'[k].pid = NoPid /\ \A i \in Slots : i # k => jobs'[i] = jobs[i]
    BY <1>1, <1>6 DEF Used, clearjob
  <2>2. \A q \in PIDs : q # p => status'[q] = status[q]
    <3> SUFFICES ASSUME NEW q \in PIDs, q # p PROVE status'[q] = status[q]
      OBVIOUS
    <3>1. jobs[k].pid # q /\ jobs'[k].pid # q
      BY <1>6, <2>1, NoPidAssumption
    <3>2. View(jobs', proc, NewChild)[q] = View(jobs, proc, NewChild)[q]
      <4> HIDE DEF p
      <4> QED  BY <1>1, <2>1, <3>1, ViewOther
    <3> QED
      BY <1>2, <1>3, <3>2, StatusIsView
  <2>3. status[p] \in JC!JobStatus
    <3>1. status[p] = jobs[k].state
      BY <1>1, <1>4, <1>6, StatusIsView, ViewFacts
    <3> QED
      BY <1>6, <3>1 DEF CInv, JobStates
  <2>4. status'[p] = "absent"
    <3>1. p \notin Listed(jobs')
      BY <1>1, <1>4, <1>6, <2>1 DEF Listed, Used, UniquePids
    <3> QED
      BY <1>1, <1>2, <1>4, <3>1, StatusIsView, ViewFacts DEF Live
  <2>5. JC!Becomes(p, "absent")
    BY <1>2, <1>4, <2>2, <2>4, OneBecomes
  <2> QED
    BY <2>3, <2>5 DEF JC!End
<1>7. \/ jobs' = jobs
      \/ \E k \in Used(jobs) : jobs[k].pid = p /\ jobs' = [jobs EXCEPT ![k] = clearjob]
  <2> HIDE DEF p
  <2> QED  BY <1>1, <1>2, <1>4, DeletejobClears
<1> QED
  BY <1>5, <1>6, <1>7

(* The handler marks a job as stopped.                                     *)
LEMMA StoppedRefines ==
  ASSUME CInv, CInv', SigchldUpdate, frame["CHLD"].at = "stopped"
  PROVE  (\E p \in PIDs : JC!Stop(p)) \/ UNCHANGED JC!vars
<1> DEFINE k == getjobpid(jobs, frame["CHLD"].pid)
<1>1. /\ proc' = proc /\ pc' = pc /\ loc' = loc /\ ~Exited /\ ~Exited' /\ RecordReport
  BY DEF SigchldUpdate, RecordReport, InHandler, Exited, kernel
<1>2. NewChild' = NewChild
  BY <1>1 DEF NewChild
<1>3. jobs \in [Slots -> Job] /\ jobs' \in [Slots -> Job] /\ frame["CHLD"].pid \in PIDs \cup {NoPid}
  BY DEF CInv, RInv, TInv, TypeOK, Frames, Signals
<1>4. \A i \in Slots : jobs'[i] = IF i = k THEN [jobs[i] EXCEPT !.state = "ST"] ELSE jobs[i]
  BY <1>1, ReportFacts DEF CInv, RInv
<1>5. k \in Slots \cup {NoSlot}
  BY <1>3, GetjobpidFacts
<1> HIDE DEF k
<1>6. CASE k \notin Slots
  <2>1. jobs' = jobs
    BY <1>3, <1>4, <1>6
  <2> QED
    BY <1>1, <1>2, <2>1, Unseen DEF Live
<1>7. CASE k \in Slots \ Used(jobs)
  BY <1>1, <1>2, <1>4, <1>7, StateWritten
<1>8. CASE k \in Used(jobs) /\ k \in Slots
  <2>1. /\ jobs[k].pid \in PIDs /\ status[jobs[k].pid] = jobs[k].state
        /\ JC!Becomes(jobs[k].pid, "ST")
        /\ jobs[k].state = "ST" => UNCHANGED JC!vars
    BY <1>1, <1>2, <1>4, <1>8, StateWritten
  <2>2. jobs[k].state \in {"FG", "BG", "ST"}
    BY <1>8 DEF CInv, JobStates, JC!JobStatus
  <2> QED
    BY <2>1, <2>2 DEF JC!Stop
<1> QED
  BY <1>5, <1>6, <1>7, <1>8

LEMMA HandlerRefines ==
  ASSUME CInv, CInv', NEW s \in Signals, Deliver(s) \/ HandlerStep(s)
  PROVE  JCStep
<1>1. /\ TypeOK /\ frame \in [Signals -> Frames]
      /\ Keyboard \subseteq Signals /\ "CHLD" \in Signals /\ "CHLD" \notin Keyboard
  BY DEF CInv, RInv, TInv, TypeOK, Signals, Keyboard
<1> USE DEF kernel
<1>2. ASSUME jobs' = jobs, loc' = loc, \A p \in PIDs : Live(p)' <=> Live(p), ~Exited,
             pc' = pc \/ (pc = "suspend" /\ pc' = "waitfg")
      PROVE  JCStep
  <2>1. NewChild' = NewChild /\ (Exited' <=> Exited)
    BY <1>2 DEF NewChild, Exited
  <2> QED
    BY <1>2, <2>1, Unseen DEF JCStep
<1>3. CASE Deliver(s)
  BY <1>2, <1>3 DEF Deliver, Live
<1>4. ASSUME NEW p \in PIDs, WaitpidReports(p) PROVE JCStep
  BY <1>4, WaitpidRefines DEF JCStep, JC!Next
<1>5. CASE SigchldUpdate
  <2>1. frame["CHLD"].at \in {"ended", "stopped"}
    BY <1>5 DEF SigchldUpdate, RecordReport, InHandler
  <2>2. frame["CHLD"].at = "ended" => frame["CHLD"].pid \in PIDs
    BY DEF CInv, EndedIsReaped
  <2> QED
    BY <1>5, <2>1, <2>2, EndedRefines, StoppedRefines DEF JCStep, JC!Next
<1>6. CASE SigchldDone
  <2>1. jobs' = jobs /\ loc' = loc /\ proc' = proc /\ ~Exited
    BY <1>6 DEF SigchldDone, InHandler
  <2>2. CASE Return("CHLD")
    BY <1>2, <2>1, <2>2 DEF Return, Live
  <2>3. CASE pc' = "waiterror"
    <3>1. JC!Exit
      BY <2>1, <2>3, Leaves DEF Exited
    <3> QED
      BY <3>1 DEF JCStep, JC!Next
  <2> QED
    BY <1>6, <2>2, <2>3 DEF SigchldDone
<1>7. ASSUME s \in Keyboard, KeyboardKill(s) PROVE JCStep
  <2>1. /\ jobs' = jobs /\ pc' = pc /\ loc' = loc /\ ~Exited
        /\ Kill(frame[s].pid, s) /\ frame[s].pid \in PIDs \cup {NoPid}
    BY <1>1, <1>7 DEF KeyboardKill, InHandler, Frames
  <2>2. \A q \in PIDs : Live(q)' <=> Live(q)
    BY <1>1, <2>1, KillFacts
  <2> QED
    BY <1>2, <2>1, <2>2
<1>8. CASE KeyboardReturn(s)
  <2>1. jobs' = jobs /\ loc' = loc /\ proc' = proc /\ ~Exited
        /\ (pc' = pc \/ (pc = "suspend" /\ pc' = "waitfg"))
    BY <1>8 DEF KeyboardReturn, InHandler, Return
  <2> QED
    BY <1>2, <2>1 DEF Live
<1> QED
  BY <1>3, <1>4, <1>5, <1>6, <1>7, <1>8 DEF HandlerStep

LEMMA EnvironmentRefines ==
  ASSUME CInv, CInv', Environment \/ Sigquit \/ Stopped \/ UNCHANGED vars
  PROVE  JCStep
<1>1. proc \in [PIDs -> ProcState]
  BY DEF CInv, RInv, TInv, TypeOK
<1>2. CASE Sigquit
  <2>1. JC!Exit
    BY <1>2, Leaves DEF Sigquit, Exited, kernel
  <2> QED
    BY <2>1 DEF JCStep, JC!Next
<1>3. CASE Environment \/ Stopped \/ UNCHANGED vars
  <2>1. jobs' = jobs /\ loc' = loc /\ pc' = pc
    BY <1>3 DEF Environment, Keypress, ChildStarts, ChildSetpgid, ChildExecve, ChildEnds,
       ChildStops, Stopped, vars, shell
  <2>2. \A q \in PIDs : Live(q)' <=> Live(q)
    BY <1>1, <1>3 DEF Environment, Keypress, ChildStarts, ChildSetpgid, ChildExecve, ChildEnds,
       ChildStops, ChildChanges, Stopped, vars, kernel, Live
  <2>3. NewChild' = NewChild /\ (Exited' <=> Exited)
    BY <2>1 DEF NewChild, Exited
  <2> QED
    BY <2>1, <2>2, <2>3, Unseen DEF JCStep
<1> QED
  BY <1>2, <1>3

(* The shell implements job control: whatever its handlers, its commands   *)
(* and its children do in between, every step is a transition that the     *)
(* table of tsh.c:28-35 allows, or changes no job.                         *)
THEOREM Implements == Spec => ImplementsJobControl
<1>1. Init => JC!Init
  <2> SUFFICES ASSUME Init PROVE JC!Init
    OBVIOUS
  <2>1. ~Exited
    BY DEF Init, Exited
  <2>2. Listed(jobs) = {} /\ \A p \in PIDs : ~Live(p)
    BY DEF Init, Listed, Used, initjobs, clearjob, Live
  <2>3. status = [p \in PIDs |-> "absent"]
    BY <2>2 DEF status
  <2> QED
    BY <2>1, <2>3 DEF JC!Init
<1>2. CInv /\ CInv' /\ [Next]_vars => [JC!Next]_(JC!vars)
  <2> SUFFICES ASSUME CInv, CInv', [Next]_vars PROVE JCStep
    BY DEF JCStep
  <2> QED
    BY MainRefines, HandlerRefines, EnvironmentRefines DEF Next
<1> QED
  BY <1>1, <1>2, CInvAlways, PTL DEF Spec, JC!Spec, ImplementsJobControl
=============================================================================
