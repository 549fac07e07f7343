-------------------------------- MODULE Tsh --------------------------------
(***************************************************************************)
(* The job-control shell tsh.c: its read/eval loop, its signal handlers and *)
(* the children it forks, interleaved as signals interleave them.           *)
(*                                                                         *)
(* One thread runs the main flow (main, eval, builtin_cmd, do_bgfg, waitfg) *)
(* and, pushed on top of it, the handlers that interrupt it.  Code that runs*)
(* with every signal blocked is one step; elsewhere a handler may be pushed *)
(* between any two steps.  Handlers block only their own signal on entry    *)
(* (Signal installs them with an empty sa_mask), so a ctrl-c or a ctrl-z    *)
(* may interrupt the SIGCHLD handler, and the converse.                     *)
(*                                                                         *)
(* Outside the shell are the user, who types command lines and keyboard     *)
(* signals, and the children with the kernel's rules for them: waitpid,     *)
(* kill on a process group, and what SIGINT, SIGTSTP and SIGCONT do.        *)
(***************************************************************************)
EXTENDS JobList, Sequences

CONSTANT JidCap  \* bound: no job is started once nextjid exceeds JidCap

ASSUME JidCapAssumption == JidCap \in Nat

VARIABLES
  jobs,      \* the job list
  nextjid,   \* next job ID to allocate
  shell,     \* the shell process: running, exited or crashed
  main,      \* where the main flow is
  cur,       \* pid: the child eval forked or the job waitfg waits for
  add,       \* addjob's arguments and the stores it has still to do
  mask,      \* the signals blocked now
  prevMask,  \* the mask eval or do_bgfg goes back to
  waitPrev,  \* waitfg's maskPrev
  stack,     \* active handlers, the innermost first
  chld,      \* SIGCHLD is pending for the shell
  proc,      \* state of each process, as the kernel sees it
  sent       \* signals pending for each process

shellVars == <<jobs, nextjid, shell, main, cur, add, mask, prevMask, waitPrev>>
childVars == <<proc, sent>>
vars == <<shellVars, stack, chld, childVars>>

-----------------------------------------------------------------------------

Signals == {"CHLD", "INT", "TSTP", "QUIT"}

\* Where the main flow is: reading a command line; in eval after the block and
\* before fork; after fork, in addjob or just behind it; at the top of
\* waitfg's loop; inside sigsuspend; just out of it.
MainState == {"prompt", "fork", "addjob", "waitfg", "suspended", "resumed"}

Alive == shell = "running"

\* A process: not there; forked, still in the shell's process group; in its
\* own group, before execve; running its program; stopped, and waitpid has not
\* or has reported it; terminated and not reaped.
ProcState ==
  {"free", "forked", "grouped", "running", "stopped", "held", "zombie"}

Fields == {"pid", "state", "jid"}

Adding == [slot : Slots \cup {NoSlot}, state : {FG, BG}, todo : SUBSET Fields]

NoAdd == [slot |-> NoSlot, state |-> BG, todo |-> {}]

\* A handler activation: its signal, how far it is, the pid waitpid returned
\* and the mask its return restores.
Frame ==
  [sig : {"CHLD", "INT", "TSTP"},
   at  : {"enter", "loop", "dead", "stop", "leave"},
   pid : Pids \cup {NoPid},
   ret : SUBSET Signals]

TypeOK ==
  /\ jobs \in [Slots -> Job]
  /\ nextjid \in Nat
  /\ shell \in {"running", "exited", "crashed"}
  /\ main \in MainState
  /\ cur \in Pids \cup {NoPid}
  /\ add \in Adding
  /\ mask \in SUBSET Signals
  /\ prevMask \in SUBSET Signals
  /\ waitPrev \in SUBSET Signals
  /\ stack \in Seq(Frame)
  /\ chld \in BOOLEAN
  /\ proc \in [Pids -> ProcState]
  /\ sent \in [Pids -> SUBSET {"INT", "TSTP"}]

Init ==
  /\ jobs = initjobs
  /\ nextjid = 1
  /\ shell = "running"
  /\ main = "prompt"
  /\ cur = NoPid
  /\ add = NoAdd
  /\ mask = {}
  /\ prevMask = {}
  /\ waitPrev = {}
  /\ stack = <<>>
  /\ chld = FALSE
  /\ proc = [p \in Pids |-> "free"]
  /\ sent = [p \in Pids |-> {}]

-----------------------------------------------------------------------------
(* The main flow: it advances only when no handler is active.              *)

MainAt(where) == Alive /\ main = where /\ stack = <<>>

\* main at end of file, and the quit command.  Blank lines, jobs, and bg or fg
\* without a valid argument change nothing and are stuttering steps.
Quit ==
  /\ MainAt("prompt")
  /\ shell' = "exited"
  /\ UNCHANGED <<jobs, nextjid, main, cur, add, mask, prevMask, waitPrev, stack,
                 chld, childVars>>

\* Mutant of EvalBlock: SIGCHLD is not blocked around fork and addjob.
EvalNoBlock(s) ==
  /\ MainAt("prompt")
  /\ nextjid <= JidCap
  /\ prevMask' = mask
  /\ main' = "fork"
  /\ add' = [NoAdd EXCEPT !.state = s]
  /\ UNCHANGED <<jobs, nextjid, shell, cur, mask, waitPrev, stack, chld,
                 childVars>>

\* eval of a command that is not built in, up to the block of SIGCHLD; s is
\* the state addjob will store.
EvalBlock(s) ==
  /\ MainAt("prompt")
  /\ nextjid <= JidCap
  /\ prevMask' = mask
  /\ mask' = mask \cup {"CHLD"}
  /\ main' = "fork"
  /\ add' = [NoAdd EXCEPT !.state = s]
  /\ UNCHANGED <<jobs, nextjid, shell, cur, waitPrev, stack, chld, childVars>>

\* fork succeeds with pid p, and addjob picks its slot; with no free slot it
\* prints its message and stores nothing, and its result is ignored.
EvalFork(p) ==
  /\ MainAt("fork")
  /\ proc[p] = "free"
  /\ proc' = [proc EXCEPT ![p] = "forked"]
  /\ sent' = [sent EXCEPT ![p] = {}]
  /\ cur' = p
  /\ LET i == FreeSlot(jobs)
     IN  add' = [add EXCEPT !.slot = i,
                            !.todo = IF i = NoSlot THEN {} ELSE Fields]
  /\ main' = "addjob"
  /\ UNCHANGED <<jobs, nextjid, shell, mask, prevMask, waitPrev, stack, chld>>

\* Mutant of EvalForkFails: the result of fork is not tested.
EvalForkUnchecked ==
  /\ MainAt("fork")
  /\ main' = "addjob"
  /\ cur' = -1
  /\ UNCHANGED <<jobs, nextjid, shell, add, mask, prevMask, waitPrev, stack,
                 chld, childVars>>

\* fork fails: unix_error exits.
EvalForkFails ==
  /\ MainAt("fork")
  /\ shell' = "exited"
  /\ UNCHANGED <<jobs, nextjid, main, cur, add, mask, prevMask, waitPrev, stack,
                 chld, childVars>>

\* One store of addjob.  The handlers of SIGINT and SIGTSTP may run between
\* the stores, and the compiler may order them as it likes.
AddjobStore(f) ==
  /\ MainAt("addjob")
  /\ f \in add.todo
  /\ add' = [add EXCEPT !.todo = @ \ {f}]
  /\ jobs' = CASE f = "pid"   -> [jobs EXCEPT ![add.slot].pid = cur]
               [] f = "state" -> [jobs EXCEPT ![add.slot].state = add.state]
               [] f = "jid"   -> [jobs EXCEPT ![add.slot].jid = nextjid]
  /\ nextjid' = IF f = "jid" THEN JidAfter(nextjid) ELSE nextjid
  /\ UNCHANGED <<shell, main, cur, mask, prevMask, waitPrev, stack, chld, childVars>>

\* Mutant of EvalUnblock: the mask is not restored.
EvalStaysBlocked ==
  /\ MainAt("addjob")
  /\ add.todo = {}
  /\ prevMask' = mask
  /\ add' = NoAdd
  /\ main' = IF add.state = FG THEN "waitfg" ELSE "prompt"
  /\ cur' = IF add.state = FG THEN cur ELSE NoPid
  /\ UNCHANGED <<jobs, nextjid, shell, mask, waitPrev, stack, chld, childVars>>

\* eval restores the mask; a foreground job is then waited for.
EvalUnblock ==
  /\ MainAt("addjob")
  /\ add.todo = {}
  /\ mask' = prevMask
  /\ prevMask' = mask'
  /\ add' = NoAdd
  /\ IF add.state = FG
     THEN main' = "waitfg" /\ cur' = cur
     ELSE main' = "prompt" /\ cur' = NoPid
  /\ UNCHANGED <<jobs, nextjid, shell, waitPrev, stack, chld, childVars>>

\* One turn of waitfg's loop.  It blocks every signal before it looks: either
\* the job is in the foreground, and sigsuspend opens the mask and sleeps in
\* one go...
WaitfgSuspend ==
  /\ MainAt("waitfg")
  /\ fgpid(jobs) = cur
  /\ waitPrev' = mask
  /\ mask' = {}
  /\ main' = "suspended"
  /\ UNCHANGED <<jobs, nextjid, shell, cur, add, prevMask, stack, chld, childVars>>

\* Mutant of WaitfgResume: no loop, waitfg returns after the first signal.
WaitfgOnce ==
  /\ MainAt("resumed")
  /\ mask' = prevMask
  /\ waitPrev' = {}
  /\ cur' = NoPid
  /\ main' = "prompt"
  /\ UNCHANGED <<jobs, nextjid, shell, add, prevMask, stack, chld, childVars>>

\* ...(a handler has returned, and sigsuspend with it, every signal blocked:
\* waitfg restores its caller's mask and loops)...
WaitfgResume ==
  /\ MainAt("resumed")
  /\ mask' = waitPrev
  /\ waitPrev' = {}
  /\ main' = "waitfg"
  /\ UNCHANGED <<jobs, nextjid, shell, cur, add, prevMask, stack, chld, childVars>>

\* ...or it is not, and waitfg returns with the mask it was called with: to
\* eval, which leaves it as it is, or to do_bgfg, which restores its caller's.
WaitfgReturn ==
  /\ MainAt("waitfg")
  /\ fgpid(jobs) # cur
  /\ mask' = prevMask
  /\ cur' = NoPid
  /\ main' = "prompt"
  /\ UNCHANGED <<jobs, nextjid, shell, add, prevMask, waitPrev, stack, chld, childVars>>

-----------------------------------------------------------------------------
(* kill on the process group of a job, and the two job-control commands.   *)

\* kill(-p, s) for SIGINT and SIGTSTP: there is no such group before the child
\* has called setpgid or once it is reaped (ESRCH, which Kill ignores), and a
\* zombie takes no signal.
SentAfterKill(p, s) ==
  IF p \in Pids /\ proc[p] \in {"grouped", "running", "stopped", "held"}
  THEN [sent EXCEPT ![p] = @ \cup {s}]
  ELSE sent

\* kill(-p, SIGCONT): a stopped process runs, a stop that waitpid has not
\* reported never will be, a pending SIGTSTP is discarded, and the parent gets
\* a SIGCHLD.
Continue(p) ==
  LET stopped == proc[p] \in {"stopped", "held"}
  IN  /\ proc' = IF stopped THEN [proc EXCEPT ![p] = "running"] ELSE proc
      /\ sent' = [sent EXCEPT ![p] = @ \ {"TSTP"}]
      /\ chld' = (chld \/ stopped)

\* do_bgfg with the ID n of a job in the list; a pid argument is turned into a
\* job ID first, so it selects a job the same way.  Every signal is blocked
\* until bg returns or fg sleeps in waitfg.
DoBgfg(cmd, n) ==
  LET i == getjobjid(jobs, n)
  IN  /\ MainAt("prompt")
      /\ i # NoSlot
      /\ jobs' = [jobs EXCEPT ![i].state = cmd]
      /\ IF jobs[i].state = ST
         THEN Continue(jobs[i].pid)
         ELSE UNCHANGED <<chld, childVars>>
      /\ IF cmd = FG
         THEN /\ main' = "waitfg"
              /\ cur' = jobs[i].pid
              /\ prevMask' = mask
              /\ mask' = Signals
         ELSE UNCHANGED <<main, cur, prevMask, mask>>
      /\ UNCHANGED <<nextjid, shell, add, waitPrev, stack>>

-----------------------------------------------------------------------------
(* Signal delivery and the handlers.                                       *)

\* The kernel interrupts the shell with signal s: the handler starts with s
\* blocked too.  The first handler that interrupts sigsuspend restores the
\* mask waitfg slept with, not the one sigsuspend opened.
Deliver(s, where) ==
  /\ Alive
  /\ s \notin mask
  /\ LET saved == IF main = "suspended" /\ stack = <<>> THEN Signals ELSE mask
     IN  stack' = <<[sig |-> s, at |-> where, pid |-> NoPid, ret |-> saved]>>
                  \o stack
  /\ mask' = mask \cup {s}
  /\ UNCHANGED <<jobs, nextjid, shell, main, cur, add, prevMask, waitPrev,
                 childVars>>

DeliverChld ==
  /\ chld
  /\ Deliver("CHLD", "loop")
  /\ chld' = FALSE

\* The user types ctrl-c or ctrl-z (or a driver sends the signal).  While it is
\* blocked it is pending, which nothing in the shell can see: the model lets
\* it arrive when it is delivered.
Keyboard(s) ==
  /\ Deliver(s, "enter")
  /\ UNCHANGED chld

\* sigquit_handler.
Sigquit ==
  /\ Alive
  /\ "QUIT" \notin mask
  /\ shell' = "exited"
  /\ UNCHANGED <<jobs, nextjid, main, cur, add, mask, prevMask, waitPrev, stack,
                 chld, childVars>>

\* The innermost handler is that of s and has come to "where".
HandlerAt(s, where) ==
  /\ Alive
  /\ stack # <<>>
  /\ Head(stack).sig = s
  /\ Head(stack).at = where

\* The innermost handler goes on at "where".
GoesOn(where, p) ==
  stack' = <<[Head(stack) EXCEPT !.at = where, !.pid = p]>> \o Tail(stack)

\* The innermost handler returns, and so does a sigsuspend it interrupted.
HandlerReturn ==
  /\ mask' = Head(stack).ret
  /\ stack' = Tail(stack)
  /\ main' = IF main = "suspended" /\ Tail(stack) = <<>> THEN "resumed" ELSE main

\* The processes whose change waitpid(-1, WNOHANG | WUNTRACED) can report.
Waitable == {p \in Pids : proc[p] \in {"zombie", "stopped"}}

\* sigchld_handler: waitpid reports p; the handler has not blocked yet.
SigchldWait(p) ==
  /\ HandlerAt("CHLD", "loop")
  /\ p \in Waitable
  /\ GoesOn(IF proc[p] = "zombie" THEN "dead" ELSE "stop", p)
  /\ proc' = [proc EXCEPT ![p] = IF @ = "zombie" THEN "free" ELSE "held"]
  /\ UNCHANGED <<shellVars, chld, sent>>

\* Mutant of SigchldDelete: an if instead of the while, one child per SIGCHLD.
SigchldDeleteOne ==
  LET p == Head(stack).pid
  IN  /\ HandlerAt("CHLD", "dead")
      /\ jobs' = deletejob(jobs, p)
      /\ nextjid' = JidAfterDelete(jobs, p, nextjid)
      /\ HandlerReturn
      /\ UNCHANGED <<shell, cur, add, prevMask, waitPrev, chld, childVars>>

\* It blocks every signal, deletes the job of a terminated child, restores.
SigchldDelete ==
  LET p == Head(stack).pid
  IN  /\ HandlerAt("CHLD", "dead")
      /\ jobs' = deletejob(jobs, p)
      /\ nextjid' = JidAfterDelete(jobs, p, nextjid)
      /\ GoesOn("loop", NoPid)
      /\ UNCHANGED <<shell, main, cur, add, mask, prevMask, waitPrev, chld,
                     childVars>>

\* Mutant of SigchldStop: the stop is reported to the user only.
SigchldStopUnmarked ==
  /\ HandlerAt("CHLD", "stop")
  /\ GoesOn("loop", NoPid)
  /\ UNCHANGED <<shellVars, chld, childVars>>

\* It marks the job of a stopped child.  A child that has no slot makes
\* getjobpid return NULL, which the handler dereferences.
SigchldStop ==
  LET p == Head(stack).pid
      i == getjobpid(jobs, p)
  IN  /\ HandlerAt("CHLD", "stop")
      /\ IF i = NoSlot
         THEN shell' = "crashed" /\ UNCHANGED <<jobs, stack>>
         ELSE /\ jobs' = [jobs EXCEPT ![i].state = ST]
              /\ GoesOn("loop", NoPid)
              /\ UNCHANGED shell
      /\ UNCHANGED <<nextjid, main, cur, add, mask, prevMask, waitPrev, chld,
                     childVars>>

\* waitpid has nothing more to report.
SigchldReturn ==
  /\ HandlerAt("CHLD", "loop")
  /\ Waitable = {}
  /\ HandlerReturn
  /\ UNCHANGED <<jobs, nextjid, shell, cur, add, prevMask, waitPrev, chld, childVars>>

\* sigint_handler, every signal blocked.
SigintForward ==
  /\ HandlerAt("INT", "enter")
  /\ sent' = SentAfterKill(fgpid(jobs), "INT")
  /\ GoesOn("leave", NoPid)
  /\ UNCHANGED <<shellVars, chld, proc>>

\* Mutant of SigtstpForward: the job is moved to the background.
SigtstpToBackground ==
  LET p == fgpid(jobs)
      i == getjobpid(jobs, p)
  IN  /\ HandlerAt("TSTP", "enter")
      /\ jobs' = IF i = NoSlot THEN jobs ELSE [jobs EXCEPT ![i].state = BG]
      /\ sent' = SentAfterKill(p, "TSTP")
      /\ GoesOn("leave", NoPid)
      /\ UNCHANGED <<nextjid, shell, main, cur, add, mask, prevMask, waitPrev, chld,
                     proc>>

\* sigtstp_handler, every signal blocked: the job is marked before kill.
SigtstpForward ==
  LET p == fgpid(jobs)
      i == getjobpid(jobs, p)
  IN  /\ HandlerAt("TSTP", "enter")
      /\ jobs' = IF i = NoSlot THEN jobs ELSE [jobs EXCEPT ![i].state = ST]
      /\ sent' = SentAfterKill(p, "TSTP")
      /\ GoesOn("leave", NoPid)
      /\ UNCHANGED <<nextjid, shell, main, cur, add, mask, prevMask, waitPrev, chld,
                     proc>>

KeyboardReturn(s) ==
  /\ HandlerAt(s, "leave")
  /\ HandlerReturn
  /\ UNCHANGED <<jobs, nextjid, shell, cur, add, prevMask, waitPrev, chld, childVars>>

-----------------------------------------------------------------------------
(* The children.                                                           *)

Child(p, from) == Alive /\ proc[p] \in from

\* setpgid(0, 0) in the child.
ChildSetpgid(p) ==
  /\ Child(p, {"forked"})
  /\ proc' = [proc EXCEPT ![p] = "grouped"]
  /\ UNCHANGED <<shellVars, stack, chld, sent>>

\* execve: from here on signals have their default effect.
ChildExec(p) ==
  /\ Child(p, {"grouped"})
  /\ proc' = [proc EXCEPT ![p] = "running"]
  /\ UNCHANGED <<shellVars, stack, chld, sent>>

\* Before execve a signal runs the handler inherited from the shell, on a copy
\* of a job list without foreground job: nothing comes of it.
ChildIgnores(p, s) ==
  /\ Child(p, {"grouped"})
  /\ s \in sent[p]
  /\ sent' = [sent EXCEPT ![p] = @ \ {s}]
  /\ UNCHANGED <<shellVars, stack, chld, proc>>

Becomes(p, state) ==
  /\ proc' = [proc EXCEPT ![p] = state]
  /\ chld' = TRUE
  /\ UNCHANGED <<shellVars, stack>>

\* A pending SIGINT or SIGTSTP takes effect.
ChildInterrupted(p) ==
  /\ Child(p, {"running"})
  /\ "INT" \in sent[p]
  /\ Becomes(p, "zombie")
  /\ sent' = [sent EXCEPT ![p] = {}]

ChildSuspended(p) ==
  /\ Child(p, {"running"})
  /\ "TSTP" \in sent[p]
  /\ Becomes(p, "stopped")
  /\ sent' = [sent EXCEPT ![p] = @ \ {"TSTP"}]

\* The child stops by itself (mystop), or ends: it exits, execve fails, or
\* somebody kills it.
ChildStops(p) ==
  /\ Child(p, {"running"})
  /\ Becomes(p, "stopped")
  /\ UNCHANGED sent

ChildEnds(p) ==
  /\ Child(p, {"forked", "grouped", "running", "stopped", "held"})
  /\ Becomes(p, "zombie")
  /\ sent' = [sent EXCEPT ![p] = {}]

-----------------------------------------------------------------------------

\* What the shell does by itself once a command line is there.
MainStep ==
  \/ \E p \in Pids : EvalFork(p)
  \/ EvalForkFails
  \/ \E f \in Fields : AddjobStore(f)
  \/ EvalUnblock
  \/ WaitfgSuspend
  \/ WaitfgResume
  \/ WaitfgReturn

SigchldStep ==
  \/ \E p \in Pids : SigchldWait(p)
  \/ SigchldDelete
  \/ SigchldStop
  \/ SigchldReturn

SigintStep == SigintForward \/ KeyboardReturn("INT")

SigtstpStep == SigtstpForward \/ KeyboardReturn("TSTP")

\* What the user does.
UserStep ==
  \/ Quit
  \/ \E s \in {FG, BG} : EvalBlock(s)
  \/ \E cmd \in {FG, BG}, i \in Slots : DoBgfg(cmd, jobs[i].jid)
  \/ \E s \in {"INT", "TSTP"} : Keyboard(s)
  \/ Sigquit

ChildStep(p) ==
  \/ ChildSetpgid(p)
  \/ ChildExec(p)
  \/ \E s \in {"INT", "TSTP"} : ChildIgnores(p, s)
  \/ ChildInterrupted(p)
  \/ ChildSuspended(p)
  \/ ChildStops(p)
  \/ ChildEnds(p)

\* The shell is gone.
Gone == ~Alive /\ UNCHANGED vars

Next ==
  \/ MainStep
  \/ DeliverChld
  \/ SigchldStep
  \/ SigintStep
  \/ SigtstpStep
  \/ UserStep
  \/ \E p \in Pids : ChildStep(p)
  \/ Gone

Spec == Init /\ [][Next]_vars

(***************************************************************************)
(* Fairness.  The processor runs the shell and its children, and the kernel *)
(* delivers a SIGCHLD that is not blocked.  Any handler may be interrupted  *)
(* by another again and again, but a keyboard is slow: what was interrupted *)
(* gets the processor back in between and is not put off for ever, hence    *)
(* strong fairness.  Nothing is assumed of the user, nor that a program     *)
(* ever stops or ends.                                                      *)
(***************************************************************************)
Fairness ==
  /\ SF_vars(MainStep)
  /\ SF_vars(DeliverChld)
  /\ SF_vars(SigchldStep)
  /\ SF_vars(SigintStep)
  /\ SF_vars(SigtstpStep)

FairSpec == Spec /\ Fairness

-----------------------------------------------------------------------------
(* What is claimed of the shell.                                           *)

\* A handler has come to "where" with pid p.
Handling(p, where) ==
  \E i \in 1 .. Len(stack) : stack[i].at = where /\ stack[i].pid = p

Waiting == main \in {"waitfg", "suspended", "resumed"}

\* Every slot is initialised when main reads a command, so whatever is in the
\* foreground is what eval is adding or what waitfg waits for: there is at
\* most one such job (header comment of tsh.c), there is none when a child
\* copies the list at fork, and none that nobody waits for.
ForegroundIsAwaited ==
  \A i \in Slots : jobs[i].state = FG =>
    \/ main = "addjob" /\ add.slot = i /\ add.state = FG
    \/ Waiting /\ jobs[i].pid = cur

\* The list and the children agree: no child has two jobs, and the pids listed
\* are those of the children eval has added and the SIGCHLD handler has not
\* deleted.  Blocking SIGCHLD from before fork until after addjob is for this.
JobsTrackChildren ==
  /\ \A i, k \in Slots :
       jobs[i].pid = jobs[k].pid => i = k \/ jobs[i].pid = NoPid
  /\ \A p \in Pids :
       (\E i \in Slots : jobs[i].pid = p)
         <=> \/ /\ proc[p] # "free"
                /\ ~(main = "addjob" /\ cur = p /\ "pid" \in add.todo)
             \/ Handling(p, "dead")

\* SIGCHLDs coalesce: one signal may stand for several children.  A child
\* whose end or stop has not been reported has a SIGCHLD coming, or the handler
\* is in its loop and will still ask.
NoNoticeIsLost ==
  Waitable # {} => chld \/ \E i \in 1 .. Len(stack) : stack[i].sig = "CHLD"

\* A stop that waitpid has reported reaches the list, and nothing but fg and bg
\* on that job takes it out again: a child at rest is never listed as running.
StopIsRecorded ==
  \A p \in Pids : proc[p] = "held" =>
    \/ Handling(p, "stop")
    \/ \E i \in Slots : jobs[i].pid = p /\ jobs[i].state = ST

\* Two jobs never share a job ID, and the next one to be given out is free, so
\* that fg and bg reach the job they name.
JidsDistinct ==
  \A i, k \in Slots : jobs[i].jid # 0 =>
    /\ jobs[i].jid = jobs[k].jid => i = k
    /\ jobs[i].jid < nextjid

\* However a command ended and whatever interrupted it, no signal is left
\* blocked when the shell reads the next one.
NothingLeftBlocked == MainAt("prompt") => mask = {}

\* The SIGCHLD handler finds the job of every stopped child.  (Not with more children
\* than slots: getjobpid then returns NULL for one that addjob refused.)
NoNullJob == shell # "crashed"

\* A keyboard signal goes to the child the shell waits for and to no other
\* (comment of eval: background children do not receive them).
KeyboardOnlyForeground ==
  [][\A p \in Pids : sent'[p] \ sent[p] # {} =>
       cur = p /\ (main = "addjob" \/ Waiting)]_vars

\* eval's comment: a foreground job is waited for.  waitfg gives up only on a
\* job that is gone or listed as stopped.
WaitsForForeground ==
  [][Waiting /\ main' = "prompt" =>
       \/ proc[cur] \in {"free", "zombie"}
       \/ \E i \in Slots : jobs[i].pid = cur /\ jobs[i].state = ST]_vars

\* The job of a process, as jobs lists it: a slot half filled is none yet.
JobOf(p) ==
  LET i == getjobpid(jobs, p)
  IN  IF i = NoSlot \/ jobs[i].state = UNDEF THEN "none" ELSE jobs[i].state

JC == INSTANCE JobControl WITH job <- [p \in Pids |-> JobOf(p)]

\* The list goes through the transitions job control promises and no others.
ImplementsJobControl == JC!Spec

\* Comment of sigtstp_handler: it suspends the foreground job.  A job listed as
\* stopped would then be at rest, gone, or about to take its SIGTSTP.
ListedStopsAreReal ==
  \A p \in Pids : JobOf(p) = ST =>
    proc[p] \in {"stopped", "held", "zombie", "free"} \/ "TSTP" \in sent[p]

\* tsh.c calls MAXJID the largest job ID.
JidsStayBelowMax == \A i \in Slots : jobs[i].jid <= MAXJID

\* Every child that ends is reaped.
ZombiesAreReaped ==
  \A p \in Pids :
    proc[p] = "zombie" ~> proc[p] # "zombie" \/ ~Alive

\* No wakeup is lost: once the foreground job has ended or stopped, or ctrl-z
\* has marked it, the shell reads commands again.
PromptComesBack ==
  (Waiting /\ (fgpid(jobs) # cur \/ proc[cur] \in {"zombie", "stopped", "held"}))
    ~> (main = "prompt" \/ ~Alive)

-----------------------------------------------------------------------------
(* The inductive invariant behind the safety claims.                       *)

\* eval and do_bgfg are called with nothing blocked.  From the block of SIGCHLD
\* until addjob is done no SIGCHLD handler runs, none can start, and no handler
\* opens the mask when it returns.  At the prompt nothing is blocked, or will
\* be once the outermost handler has returned.
MaskInv ==
  /\ prevMask = {}
  /\ main \in {"fork", "addjob"} =>
       /\ "CHLD" \in mask
       /\ \A i \in 1 .. Len(stack) :
            stack[i].sig # "CHLD" /\ "CHLD" \in stack[i].ret
  /\ main = "prompt" =>
       IF stack = <<>> THEN mask = {} ELSE stack[Len(stack)].ret = {}

\* The slot addjob fills stays its own: free until the pid is stored.
AddInv ==
  main = "addjob" /\ add.slot \in Slots =>
    jobs[add.slot].pid = IF "pid" \in add.todo THEN NoPid ELSE cur

IInv == TypeOK /\ MaskInv /\ AddInv /\ ForegroundIsAwaited

=============================================================================
