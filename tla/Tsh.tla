-------------------------------- MODULE Tsh --------------------------------
(***************************************************************************)
(* The tiny shell, shell lab/tsh.c: the read/eval loop, the bg and fg      *)
(* commands, waitfg, and the SIGCHLD, SIGINT and SIGTSTP handlers, which   *)
(* interrupt the loop and each other wherever their signal is not blocked. *)
(*                                                                         *)
(* The shell's memory is jobs, nextjid and errno; its control is pc, loc   *)
(* (the main flow), stack and frame (the handlers that interrupted it and  *)
(* each other) and mask.  The kernel's view is proc, held and pending.  A  *)
(* code sequence that runs with every signal blocked is one step: only     *)
(* children, which do not touch the shell's memory, can run inside it.     *)
(***************************************************************************)
EXTENDS JobList, Sequences

CONSTANTS
    Keys,       \* the keys the user presses: INT (ctrl-c), TSTP (ctrl-z)
    MaxJid      \* bound on the job IDs a session explores

ASSUME KeysAssumption == Keys \subseteq {"INT", "TSTP"}
ASSUME MaxJidAssumption == MaxJid \in Nat

VARIABLES
    jobs, nextjid,  \* the job list
    pc,             \* where the main flow is
    loc,            \* its locals: pid, the state for a new job or argv[0], slot j
    errno,
    mask,           \* signals blocked now
    saved,          \* the mask that sigsuspend puts back
    stack,          \* the signals whose handlers have started, innermost first
    frame,          \* frame[s]: the locals of the handler of s
    pending,        \* signals the kernel holds for the shell
    proc,           \* each child, as the kernel sees it
    held            \* stopped children that hold an undelivered SIGINT

shell  == <<jobs, nextjid, pc, loc, errno, mask, saved, stack, frame>>
kernel == <<pending, proc, held>>
vars   == <<shell, kernel>>

Keyboard == {"INT", "TSTP"}
Signals  == {"CHLD"} \cup Keyboard
AllSigs  == Signals \cup {"QUIT"}               \* Sigfillset

PC == {"prompt", "forked", "waitfg", "tosuspend", "suspend",
       "setstate", "readpid", "cont", "contdone", "exited", "waiterror", "segv"}
Waiting == pc \in {"waitfg", "tosuspend", "suspend"}
Exited == pc \in {"exited", "waiterror", "segv"}

NoLoc   == [pid |-> NoPid, st |-> "UNDEF", slot |-> NoSlot]
NoFrame == [at |-> "idle", pid |-> NoPid, olderrno |-> "other",
            oldmask |-> {}]

(* Only EINTR and ECHILD are ever told apart; "other" is 0, ESRCH, ...     *)
Errno  == {"other", "EINTR"}
Frames == [at : {"idle", "wait", "ended", "stopped", "kill", "ret"},
           pid : PIDs \cup {NoPid}, olderrno : Errno,
           oldmask : SUBSET AllSigs]

(* A child: not started or reaped ("free"); forked, still in the shell's   *)
(* process group; in its own group but before execve, with the shell's     *)
(* handlers; running its program; stopped, before and after waitpid has    *)
(* reported the stop; dead and not yet reaped.                             *)
ProcState == {"free", "forked", "grouped", "running", "stopping", "stopped", "zombie"}

TypeOK ==
    /\ jobs \in [Slots -> Job]
    /\ nextjid \in Nat \ {0}
    /\ pc \in PC
    /\ loc \in [pid : PIDs \cup {NoPid}, st : JobState, slot : Slots \cup {NoSlot}]
    /\ errno \in Errno
    /\ mask \in SUBSET AllSigs /\ saved \in SUBSET AllSigs
    /\ stack \in Seq(Signals)
    /\ frame \in [Signals -> Frames]
    /\ pending \in SUBSET Signals
    /\ proc \in [PIDs -> ProcState]
    /\ held \in SUBSET PIDs

Init ==
    /\ jobs = initjobs /\ nextjid = 1
    /\ pc = "prompt" /\ loc = NoLoc
    /\ errno = "other"
    /\ mask = {} /\ saved = {}
    /\ stack = <<>> /\ frame = [s \in Signals |-> NoFrame]
    /\ pending = {}
    /\ proc = [p \in PIDs |-> "free"] /\ held = {}

----------------------------------------------------------------------------
(* The kernel: signals to a process group.                                 *)

Live(p)    == proc[p] # "free"
Paused(p)  == proc[p] \in {"stopping", "stopped"}
HasGroup(p) == proc[p] \notin {"free", "forked"}

(* p stops or dies or continues: the kernel tells the shell.               *)
ChildChanges(p, new) ==
    /\ proc' = [proc EXCEPT ![p] = new]
    /\ pending' = pending \cup {"CHLD"}

(* kill(-p, s) as the children see it.  Before execve the shell's handlers *)
(* catch s in the child and, finding no foreground job, ignore it; a       *)
(* paused process acts on SIGINT only once continued.                      *)
Heeds(p, s) ==
    \/ proc[p] = "running" /\ s \in Keyboard
    \/ Paused(p) /\ s \in {"INT", "CONT"}

GroupReceives(p, s) ==
    \/ /\ ~Heeds(p, s)
       /\ UNCHANGED <<proc, pending, held>>
    \/ /\ proc[p] = "running" /\ s \in Keyboard
       /\ ChildChanges(p, IF s = "INT" THEN "zombie" ELSE "stopping")
       /\ UNCHANGED held
    \/ /\ Paused(p) /\ s = "INT"
       /\ held' = held \cup {p}
       /\ UNCHANGED <<proc, pending>>
    \/ /\ Paused(p) /\ s = "CONT"
       /\ ChildChanges(p, IF p \in held THEN "zombie" ELSE "running")
       /\ held' = held \ {p}

(* Kill(-pid, s): pid 0 signals the shell's own group, where SIGCONT does  *)
(* nothing; a pid without a group fails with ESRCH, which Kill accepts.    *)
Kill(pid, s) ==
    \/ /\ pid = NoPid
       /\ UNCHANGED <<errno, pending, proc, held>>
    \/ /\ pid \in PIDs
       /\ errno' = IF HasGroup(pid) THEN errno ELSE "other"
       /\ GroupReceives(pid, s)

----------------------------------------------------------------------------
(* The main flow runs when no handler does.                                *)

Main(at) == stack = <<>> /\ pc = at

mask_one_empty == {}        \* mutant: SIGCHLD is not blocked around fork
mask_one == {"CHLD"}

(* A foreground or background command line: block SIGCHLD, then fork.  A   *)
(* pid is free again once it is reaped.                                    *)
Fork(p, st) ==
    /\ Main("prompt")
    /\ proc[p] = "free" /\ nextjid <= MaxJid
    /\ mask' = mask \cup mask_one
    /\ proc' = [proc EXCEPT ![p] = "forked"]
    /\ pc' = "forked" /\ loc' = [NoLoc EXCEPT !.pid = p, !.st = st]
    /\ UNCHANGED <<jobs, nextjid, errno, saved, stack, frame, pending, held>>

(* The parent's side of eval, all signals blocked: addjob; a foreground    *)
(* job goes on to waitfg; for a background job the line is printed through *)
(* getjobpid's pointer, which is NULL when the list was full.              *)
RecordJob ==
    /\ Main("forked")
    /\ LET r == addjob(jobs, nextjid, loc.pid, loc.st)
       IN  /\ jobs' = r.jobs /\ nextjid' = r.nextjid
           /\ \/ /\ loc.st = "FG"
                 /\ pc' = "waitfg" /\ mask' = AllSigs /\ UNCHANGED loc
              \/ /\ loc.st = "BG" /\ getjobpid(r.jobs, loc.pid) # NoSlot
                 /\ pc' = "prompt" /\ mask' = {} /\ loc' = NoLoc
              \/ /\ loc.st = "BG" /\ getjobpid(r.jobs, loc.pid) = NoSlot
                 /\ pc' = "segv" /\ UNCHANGED <<mask, loc>>
    /\ UNCHANGED <<errno, saved, stack, frame, kernel>>

(* Mutant: the test of the loop is inverted.                               *)
WaitfgReturnAtOnce ==
    /\ Main("waitfg") /\ fgpid(jobs) = loc.pid
    /\ pc' = "prompt" /\ mask' = {} /\ loc' = NoLoc
    /\ UNCHANGED <<jobs, nextjid, errno, saved, stack, frame, kernel>>

(* waitfg tests fgpid; it returns (and eval restores the mask) or goes on  *)
(* to sigsuspend with an empty mask, another step: fg runs it unblocked.   *)
WaitfgReturn ==
    /\ Main("waitfg") /\ fgpid(jobs) # loc.pid
    /\ pc' = "prompt" /\ mask' = {} /\ loc' = NoLoc
    /\ UNCHANGED <<jobs, nextjid, errno, saved, stack, frame, kernel>>

WaitfgLoop ==
    /\ Main("waitfg") /\ fgpid(jobs) = loc.pid
    /\ pc' = "tosuspend"
    /\ UNCHANGED <<jobs, nextjid, loc, errno, mask, saved, stack, frame, kernel>>

suspendMaskKeepsChld == mask_one            \* mutants: the mask is not emptied
suspendMaskKeepsKeys == Keyboard
suspendMask == {}

WaitfgSuspend ==
    /\ Main("tosuspend")
    /\ pc' = "suspend" /\ mask' = suspendMask /\ saved' = mask
    /\ UNCHANGED <<jobs, nextjid, loc, errno, stack, frame, kernel>>

(* do_bgfg finds slot j; without one it prints a message and returns.      *)
BgfgLookup(j, st) ==
    /\ Main("prompt") /\ j # NoSlot
    /\ pc' = "setstate" /\ loc' = [NoLoc EXCEPT !.st = st, !.slot = j]
    /\ UNCHANGED <<jobs, nextjid, errno, mask, saved, stack, frame, kernel>>

BgfgByPid(p, st) == BgfgLookup(getjobpid(jobs, p), st)
BgfgByJid(n, st) == BgfgLookup(getjobjid(jobs, n), st)

(* j->state = BG or FG: no signal is blocked, handlers run in between.     *)
BgfgSetState ==
    /\ Main("setstate")
    /\ jobs' = [jobs EXCEPT ![loc.slot].state = loc.st]
    /\ pc' = "readpid"
    /\ UNCHANGED <<nextjid, loc, errno, mask, saved, stack, frame, kernel>>

BgfgReadPid ==
    /\ Main("readpid")
    /\ loc' = [loc EXCEPT !.pid = jobs[loc.slot].pid]
    /\ pc' = "cont"
    /\ UNCHANGED <<jobs, nextjid, errno, mask, saved, stack, frame, kernel>>

BgfgContinue ==
    /\ Main("cont")
    /\ Kill(loc.pid, "CONT")
    /\ \/ loc.st = "BG" /\ pc' = "prompt" /\ loc' = NoLoc
       \/ loc.st = "FG" /\ pc' = "contdone" /\ UNCHANGED loc
    /\ UNCHANGED <<jobs, nextjid, mask, saved, stack, frame>>

(* fg reads j->pid again for waitfg, which runs with no signal blocked.    *)
BgfgWait ==
    /\ Main("contdone")
    /\ loc' = [loc EXCEPT !.pid = jobs[loc.slot].pid]
    /\ pc' = "waitfg"
    /\ UNCHANGED <<jobs, nextjid, errno, mask, saved, stack, frame, kernel>>

(* quit, end of file, or a fork that fails.                                *)
Exit ==
    /\ Main("prompt")
    /\ pc' = "exited"
    /\ UNCHANGED <<jobs, nextjid, loc, errno, mask, saved, stack, frame, kernel>>

(* SIGQUIT arrives while it is not blocked.                                *)
Sigquit ==
    /\ ~Exited /\ "QUIT" \notin mask
    /\ pc' = "exited"
    /\ UNCHANGED <<jobs, nextjid, loc, errno, mask, saved, stack, frame, kernel>>

Command ==
    \/ \E p \in PIDs, st \in {"FG", "BG"} : Fork(p, st) \/ BgfgByPid(p, st)
    \/ \E n \in 1 .. MaxJid, st \in {"FG", "BG"} : BgfgByJid(n, st)
    \/ Exit

MainStep ==
    \/ RecordJob \/ WaitfgReturn \/ WaitfgLoop \/ WaitfgSuspend
    \/ BgfgSetState \/ BgfgReadPid \/ BgfgContinue \/ BgfgWait

----------------------------------------------------------------------------
(* The handlers.                                                           *)

(* The kernel interrupts the running flow and starts the handler of s,     *)
(* which saves errno; those of SIGINT and SIGTSTP look up the foreground   *)
(* job.  Out of sigsuspend the mask to put back is the one it replaced.    *)
Deliver(s) ==
    /\ ~Exited /\ s \in pending /\ s \notin mask
    /\ pending' = pending \ {s}
    /\ LET fg == fgpid(jobs)
       IN  frame' = [frame EXCEPT ![s] =
               [at  |-> IF s = "CHLD" THEN "wait" ELSE IF fg = NoPid THEN "ret" ELSE "kill",
                pid |-> IF s = "CHLD" THEN NoPid ELSE fg,
                olderrno |-> errno,
                oldmask |-> IF Main("suspend") THEN saved ELSE mask]]
    /\ mask' = mask \cup {s} /\ stack' = <<s>> \o stack
    /\ UNCHANGED <<jobs, nextjid, pc, loc, errno, saved, proc, held>>

InHandler(s, at) ==
    ~Exited /\ stack # <<>> /\ s = Head(stack) /\ frame[s].at = at

(* errno = olderrno; return.  Back in the main flow sigsuspend returns     *)
(* with EINTR and waitfg tests fgpid again.                                *)
Return(s) ==
    /\ stack' = Tail(stack)
    /\ mask' = frame[s].oldmask
    /\ frame' = [frame EXCEPT ![s] = NoFrame]
    /\ IF Tail(stack) = <<>> /\ pc = "suspend"
       THEN pc' = "waitfg" /\ errno' = "EINTR" /\ saved' = {}
       ELSE errno' = frame[s].olderrno /\ UNCHANGED <<pc, saved>>

Waitable(p) == proc[p] \in {"zombie", "stopping"}

(* waitpid(-1, &status, WNOHANG | WUNTRACED) reports some child...         *)
WaitpidReports(p) ==
    /\ InHandler("CHLD", "wait") /\ Waitable(p)
    /\ frame' = [frame EXCEPT !["CHLD"] =
           [@ EXCEPT !.at = IF proc[p] = "zombie" THEN "ended" ELSE "stopped", !.pid = p]]
    /\ proc' = [proc EXCEPT ![p] = IF @ = "zombie" THEN "free" ELSE "stopped"]
    /\ UNCHANGED <<jobs, nextjid, pc, loc, errno, mask, saved, stack, pending, held>>

(* Mutants: a stopped job is deleted too; only a foreground job is marked. *)
RecordReportDeletes ==
    LET d == deletejob(jobs, nextjid, frame["CHLD"].pid)
    IN  /\ InHandler("CHLD", "ended") \/ InHandler("CHLD", "stopped")
        /\ jobs' = d.jobs /\ nextjid' = d.nextjid

RecordReportFgOnly ==
    LET j == getjobpid(jobs, frame["CHLD"].pid)
        d == deletejob(jobs, nextjid, frame["CHLD"].pid)
    IN  \/ /\ InHandler("CHLD", "ended")
           /\ jobs' = d.jobs /\ nextjid' = d.nextjid
        \/ /\ InHandler("CHLD", "stopped")
           /\ jobs' = IF j # NoSlot /\ jobs[j].state = "FG"
                      THEN [jobs EXCEPT ![j].state = "ST"] ELSE jobs
           /\ UNCHANGED nextjid

(* ... and with all signals blocked the handler brings the list up to date *)
(* and goes round its loop.                                                *)
RecordReport ==
    LET p == frame["CHLD"].pid
        j == getjobpid(jobs, p)
        d == deletejob(jobs, nextjid, p)
    IN  \/ /\ InHandler("CHLD", "ended")
           /\ jobs' = d.jobs /\ nextjid' = d.nextjid
        \/ /\ InHandler("CHLD", "stopped")
           /\ jobs' = IF j = NoSlot THEN jobs ELSE [jobs EXCEPT ![j].state = "ST"]
           /\ UNCHANGED nextjid

(* Mutant: one waitpid per SIGCHLD.                                        *)
SigchldUpdateOnce == RecordReport /\ Return("CHLD") /\ UNCHANGED <<loc, kernel>>

SigchldUpdate ==
    /\ RecordReport
    /\ frame' = [frame EXCEPT !["CHLD"] = [@ EXCEPT !.at = "wait", !.pid = NoPid]]
    /\ UNCHANGED <<pc, loc, errno, mask, saved, stack, kernel>>

(* waitpid reports no child: with children left it returns 0 and leaves    *)
(* errno alone, without any it fails with ECHILD.  The handler exits       *)
(* unless errno is ECHILD or EINTR.                                        *)
SigchldDone ==
    LET err == IF \E p \in PIDs : Live(p) THEN errno ELSE "ECHILD"
    IN  /\ InHandler("CHLD", "wait") /\ \A p \in PIDs : ~Waitable(p)
        /\ \/ err \in {"ECHILD", "EINTR"} /\ Return("CHLD")
           \/ /\ err \notin {"ECHILD", "EINTR"}
              /\ pc' = "waiterror"
              /\ UNCHANGED <<errno, mask, saved, stack, frame>>
        /\ UNCHANGED <<jobs, nextjid, loc, kernel>>

(* sigint_handler and sigtstp_handler: Kill with all signals blocked.      *)
KeyboardKill(s) ==
    /\ InHandler(s, "kill")
    /\ Kill(frame[s].pid, s)
    /\ frame' = [frame EXCEPT ![s] = [@ EXCEPT !.at = "ret", !.pid = NoPid]]
    /\ UNCHANGED <<jobs, nextjid, pc, loc, mask, saved, stack>>

KeyboardReturn(s) ==
    /\ InHandler(s, "ret")
    /\ Return(s)
    /\ UNCHANGED <<jobs, nextjid, loc, kernel>>

HandlerStep(s) ==
    \/ s = "CHLD" /\ ((\E p \in PIDs : WaitpidReports(p)) \/ SigchldUpdate \/ SigchldDone)
    \/ s \in Keyboard /\ (KeyboardKill(s) \/ KeyboardReturn(s))

----------------------------------------------------------------------------
(* The user and the children.                                              *)

(* ctrl-c or ctrl-z.                                                       *)
Keypress(s) ==
    /\ ~Exited /\ s \notin pending
    /\ pending' = pending \cup {s}
    /\ UNCHANGED <<shell, proc, held>>

(* The child restores the mask and calls setpgid, then execve.             *)
ChildSetpgid(p) ==
    /\ ~Exited /\ proc[p] = "forked"
    /\ proc' = [proc EXCEPT ![p] = "grouped"]
    /\ UNCHANGED <<shell, pending, held>>

ChildExecve(p) ==
    /\ ~Exited /\ proc[p] = "grouped"
    /\ proc' = [proc EXCEPT ![p] = "running"]
    /\ UNCHANGED <<shell, pending, held>>

(* Execve fails and the child exits; or the job ends by itself.            *)
ChildEnds(p) ==
    /\ ~Exited /\ proc[p] \in {"grouped", "running"}
    /\ ChildChanges(p, "zombie")
    /\ UNCHANGED <<shell, held>>

(* The job stops itself with a SIGTSTP (mystop.c).                         *)
ChildStops(p) ==
    /\ ~Exited /\ proc[p] = "running"
    /\ ChildChanges(p, "stopping")
    /\ UNCHANGED <<shell, held>>

ChildStarts(p) == ChildSetpgid(p) \/ ChildExecve(p)

Environment ==
    \/ \E s \in Keys : Keypress(s)
    \/ \E p \in PIDs : ChildStarts(p) \/ ChildEnds(p) \/ ChildStops(p)

(* exit() and a crash are the only places where the shell may stop.        *)
Stopped == Exited /\ UNCHANGED vars

Next ==
    \/ Command \/ MainStep
    \/ \E s \in Signals : Deliver(s) \/ HandlerStep(s)
    \/ Sigquit
    \/ Environment \/ Stopped

Spec == Init /\ [][Next]_vars

(* The shell is not starved: a flow that is resumed again and again takes  *)
(* its next step (keys are slower than instructions), and the kernel       *)
(* delivers a signal that is unblocked again and again.  A child gets to   *)
(* its execve.  Nothing obliges a user to type or a job to end.            *)
Fairness ==
    /\ SF_vars(MainStep)
    /\ \A s \in {"CHLD"} \cup Keys : SF_vars(Deliver(s)) /\ SF_vars(HandlerStep(s))
    /\ \A p \in PIDs : WF_vars(ChildStarts(p))

FairSpec == Spec /\ Fairness

----------------------------------------------------------------------------
(* Safety.                                                                 *)

StateOf(p) == jobs[getjobpid(jobs, p)].state

(* "At most 1 job can be in the FG state" (tsh.c:35), across fg, bg, stops *)
(* and reaping: and none is left when the shell takes a command or starts  *)
(* a job, so that a new foreground job never meets an old one.             *)
OneForeground ==
    LET FGs == {i \in Slots : jobs[i].state = "FG"}
    IN  /\ \A i, k \in FGs : i = k
        /\ pc \in {"prompt", "forked"} => FGs = {}

(* No ghost jobs: a listed process is alive or unreaped, or the SIGCHLD    *)
(* handler holds it between waitpid and deletejob, and it is listed once.  *)
(* The SIGCHLD block around fork is there for this.                        *)
ReapedNotListed ==
    /\ \A i \in Used(jobs) :
          \/ Live(jobs[i].pid)
          \/ frame["CHLD"].at = "ended" /\ frame["CHLD"].pid = jobs[i].pid
    /\ UniquePids(jobs)

(* While jobs[] has room for every child, no child escapes the list except *)
(* between fork and addjob.                                                *)
EveryChildListed ==
    \A p \in PIDs : Live(p) =>
        p \in Listed(jobs) \/ (pc = "forked" /\ loc.pid = p) \/ Exited

(* No child event is lost although SIGCHLDs merge: while some child has a  *)
(* change to report, a SIGCHLD is pending or its handler is in its loop.   *)
NoLostChild ==
    \A p \in PIDs : Waitable(p) =>
        "CHLD" \in pending \/ frame["CHLD"].at # "idle" \/ Exited

(* A child whose stop has been reported is listed as ST, except while the  *)
(* handler is about to record it or a bg or fg command is about to send    *)
(* SIGCONT; the list never shows a stopped job as running.                 *)
StopsAreShown ==
    \A p \in Listed(jobs) : proc[p] = "stopped" =>
        \/ StateOf(p) = "ST"
        \/ frame["CHLD"].at = "stopped" /\ frame["CHLD"].pid = p
        \/ pc \in {"readpid", "cont"} /\ loc.slot = getjobpid(jobs, p)
        \/ Exited

(* ctrl-c and ctrl-z never hit a background job: the target chosen when    *)
(* the handler starts is not turned into one before the kill, whatever     *)
(* handlers nest in between.                                               *)
KeyboardSparesBackground ==
    \A s \in Keyboard : frame[s].at = "kill" /\ frame[s].pid \in Listed(jobs)
        => StateOf(frame[s].pid) # "BG"

----------------------------------------------------------------------------
(* The shell implements the job control of module JobControl.              *)

status ==
    [p \in PIDs |->
        IF p \in Listed(jobs) THEN StateOf(p)
        ELSE IF ~Live(p) THEN "absent"
        ELSE IF pc = "forked" /\ loc.pid = p THEN "new"
        ELSE "unmanaged"]

JC == INSTANCE JobControl WITH Capacity <- MAXJOBS, up <- ~Exited

(* Every step of the shell, its handlers and its children is a transition  *)
(* that the table of tsh.c:28-35 allows, or changes no job.                *)
ImplementsJobControl == JC!Spec

----------------------------------------------------------------------------
(* Liveness, under FairSpec.                                               *)

(* Every zombie is reaped, however the handlers and the main flow meet.    *)
EventuallyReaped ==
    \A p \in PIDs : proc[p] = "zombie" ~> (proc[p] # "zombie" \/ Exited)

(* eval's foreground wait ends: when the job has died, stopped or gone,    *)
(* the shell comes back to its prompt.                                     *)
ForegroundReturns ==
    \A p \in PIDs :
        (Waiting /\ loc.slot = NoSlot /\ loc.pid = p
            /\ proc[p] \in {"free", "zombie", "stopping", "stopped"})
        ~> (pc = "prompt" \/ Exited)

(* A ctrl-c or ctrl-z that finds the shell waiting for a running job kills *)
(* or stops that job.                                                      *)
KeyReachesForeground ==
    \A p \in PIDs, s \in Keyboard :
        (s \in pending /\ pc = "suspend" /\ proc[p] = "running" /\ fgpid(jobs) = p)
        ~> (proc[p] # "running" \/ Exited)
=============================================================================
