----------------------------- MODULE TshProofs -----------------------------
(***************************************************************************)
(* Proofs about the shell, for any number of processes, slots and job IDs. *)
(***************************************************************************)
EXTENDS Tsh, JobListProofs, SequenceTheorems

-----------------------------------------------------------------------------
(* The stack of handlers.                                                  *)

\* Pushing a frame.
LEMMA PushFrame ==
  ASSUME NEW f \in Frame, NEW t \in Seq(Frame)
  PROVE  /\ <<f>> \o t \in Seq(Frame)
         /\ <<f>> \o t # <<>>
         /\ Len(<<f>> \o t) = Len(t) + 1
         /\ \A i \in 1 .. Len(t) + 1 :
              (<<f>> \o t)[i] = IF i = 1 THEN f ELSE t[i - 1]
<1>1. <<f>> \in Seq(Frame) /\ Len(<<f>>) = 1 /\ <<f>>[1] = f
  OBVIOUS
<1>2. Len(t) \in Nat
  BY LenProperties
<1>3. /\ <<f>> \o t \in Seq(Frame)
      /\ Len(<<f>> \o t) = 1 + Len(t)
      /\ \A i \in 1 .. 1 + Len(t) :
           (<<f>> \o t)[i] = IF i <= 1 THEN <<f>>[i] ELSE t[i - 1]
  BY <1>1, ConcatProperties
<1>4. <<f>> \o t # <<>>
  BY <1>2, <1>3, EmptySeq
<1> QED BY <1>1, <1>2, <1>3, <1>4

\* The frames below the top one.
LEMMA PopFrame ==
  ASSUME NEW s \in Seq(Frame), s # <<>>
  PROVE  /\ Head(s) \in Frame
         /\ Head(s) = s[1]
         /\ Tail(s) \in Seq(Frame)
         /\ Len(s) \in Nat \ {0}
         /\ Len(Tail(s)) = Len(s) - 1
         /\ \A i \in 1 .. Len(Tail(s)) : Tail(s)[i] = s[i + 1]
         /\ Tail(s) = <<>> <=> Len(s) = 1
<1>1. /\ Head(s) \in Frame
      /\ Tail(s) \in Seq(Frame)
      /\ Len(Tail(s)) = Len(s) - 1
      /\ \A i \in 1 .. Len(Tail(s)) : Tail(s)[i] = s[i + 1]
  BY HeadTailProperties
<1>2. Len(s) \in Nat \ {0}
  BY EmptySeq
<1>3. Head(s) = s[1]
  OBVIOUS
<1>4. Tail(s) = <<>> <=> Len(Tail(s)) = 0
  BY <1>1, EmptySeq
<1> QED BY <1>1, <1>2, <1>3, <1>4

\* A handler that goes on is the same frame with another position and pid.
LEMMA GoesOnFrame ==
  ASSUME stack \in Seq(Frame), stack # <<>>,
         NEW where \in {"enter", "loop", "dead", "stop", "leave"},
         NEW p \in Pids \cup {NoPid}, GoesOn(where, p)
  PROVE  /\ stack' \in Seq(Frame)
         /\ stack' # <<>>
         /\ Len(stack') = Len(stack)
         /\ Len(stack) \in Nat \ {0}
         /\ \A i \in 1 .. Len(stack) :
              /\ stack'[i].sig = stack[i].sig
              /\ stack'[i].ret = stack[i].ret
<1> DEFINE f == [Head(stack) EXCEPT !.at = where, !.pid = p]
<1>1. f \in Frame /\ f.sig = stack[1].sig /\ f.ret = stack[1].ret
  BY PopFrame DEF Frame
<1>2. stack' = <<f>> \o Tail(stack)
  BY DEF GoesOn
<1>3. /\ Tail(stack) \in Seq(Frame)
      /\ Len(stack) \in Nat \ {0}
      /\ Len(Tail(stack)) = Len(stack) - 1
      /\ \A i \in 1 .. Len(Tail(stack)) : Tail(stack)[i] = stack[i + 1]
  BY PopFrame
<1>4. /\ stack' \in Seq(Frame)
      /\ stack' # <<>>
      /\ Len(stack') = Len(Tail(stack)) + 1
      /\ \A i \in 1 .. Len(Tail(stack)) + 1 :
           stack'[i] = IF i = 1 THEN f ELSE Tail(stack)[i - 1]
  BY <1>1, <1>2, <1>3, PushFrame
<1>5. ASSUME NEW i \in 1 .. Len(stack)
      PROVE  stack'[i].sig = stack[i].sig /\ stack'[i].ret = stack[i].ret
  <2>1. CASE i = 1
    <3>1. 1 \in 1 .. Len(Tail(stack)) + 1
      BY <1>3
    <3>2. stack'[i] = f
      BY <1>4, <2>1, <3>1
    <3>3. f.sig = stack[i].sig /\ f.ret = stack[i].ret
      BY <1>1, <2>1
    <3> HIDE DEF f
    <3> QED BY <3>2, <3>3
  <2>2. CASE i # 1
    <3>1. i - 1 \in 1 .. Len(Tail(stack)) /\ (i - 1) + 1 = i
      BY <1>3, <2>2
    <3> QED BY <1>3, <1>4, <2>2, <3>1
  <2> QED BY <2>1, <2>2
<1> QED BY <1>3, <1>4, <1>5

-----------------------------------------------------------------------------
(* Type correctness.                                                       *)

LEMMA InitTypeOK == Init => TypeOK
  BY SizeAssumption, EmptySeq
     DEF Init, TypeOK, initjobs, clearjob, Job, JobState, MainState, ProcState,
         Adding, NoAdd, Slots, NoSlot, BG, FG, UNDEF, ST

\* The main flow keeps the types.
LEMMA MainTypeOK == TypeOK /\ MainStep => TypeOK'
<1> SUFFICES ASSUME TypeOK, MainStep PROVE TypeOK'
  OBVIOUS
<1> USE DEF TypeOK, shellVars, childVars
<1>1. ASSUME NEW p \in Pids, EvalFork(p) PROVE TypeOK'
  <2>1. FreeSlot(jobs) \in Slots \cup {NoSlot}
    BY FreeSlotFact
  <2>2. add' \in Adding
    BY <1>1, <2>1 DEF EvalFork, Adding, Fields
  <2> QED BY <1>1, <2>2 DEF EvalFork, MainState, ProcState
<1>2. CASE EvalForkFails
  BY <1>2 DEF EvalForkFails
<1>3. ASSUME NEW f \in Fields, AddjobStore(f) PROVE TypeOK'
  <2>1. add' \in Adding /\ nextjid' \in Nat
    <3>1. add' \in Adding
      BY <1>3 DEF AddjobStore, Adding
    <3>2. nextjid' = nextjid \/ nextjid' = 1 \/ nextjid' = nextjid + 1
      BY <1>3 DEF AddjobStore, JidAfter
    <3> QED BY <3>1, <3>2
  <2>2. add.state \in JobState
    BY DEF Adding, JobState
  <2>3. jobs' \in [Slots -> Job]
    <3>1. CASE f = "pid"
      BY <1>3, <3>1 DEF AddjobStore, Job
    <3>2. CASE f = "state"
      BY <1>3, <2>2, <3>2 DEF AddjobStore, Job
    <3>3. CASE f = "jid"
      BY <1>3, <3>3 DEF AddjobStore, Job
    <3> QED BY <3>1, <3>2, <3>3 DEF Fields
  <2> QED BY <1>3, <2>1, <2>3 DEF AddjobStore
<1>4. CASE EvalUnblock
  <2>1. NoAdd \in Adding
    BY DEF NoAdd, Adding
  <2> QED BY <1>4, <2>1 DEF EvalUnblock, MainState
<1>5. CASE WaitfgSuspend
  BY <1>5 DEF WaitfgSuspend, MainState
<1>6. CASE WaitfgResume
  BY <1>6 DEF WaitfgResume, MainState
<1>7. CASE WaitfgReturn
  BY <1>7 DEF WaitfgReturn, MainState
<1> QED BY <1>1, <1>2, <1>3, <1>4, <1>5, <1>6, <1>7 DEF MainStep

\* A handler that returns leaves a mask and a stack of the right type.
LEMMA ReturnTypeOK ==
  ASSUME TypeOK, stack # <<>>, HandlerReturn
  PROVE  /\ mask' \in SUBSET Signals
         /\ stack' \in Seq(Frame)
         /\ main' \in MainState
  BY PopFrame DEF TypeOK, HandlerReturn, Frame, MainState

\* Signal delivery keeps the types.
LEMMA DeliverTypeOK ==
  ASSUME TypeOK, NEW s \in {"CHLD", "INT", "TSTP"}, NEW where \in {"enter", "loop"},
         Deliver(s, where), chld' \in BOOLEAN
  PROVE  TypeOK'
<1> DEFINE saved == IF main = "suspended" /\ stack = <<>> THEN Signals ELSE mask
           f == [sig |-> s, at |-> where, pid |-> NoPid, ret |-> saved]
<1>1. f \in Frame
  BY DEF Frame, TypeOK
<1>2. stack' = <<f>> \o stack
  BY DEF Deliver
<1>3. stack' \in Seq(Frame)
  BY <1>1, <1>2, PushFrame DEF TypeOK
<1>4. mask' \in SUBSET Signals
  BY DEF Deliver, TypeOK, Signals
<1> QED BY <1>3, <1>4 DEF Deliver, TypeOK, childVars

\* The handlers keep the types.
LEMMA HandlerTypeOK ==
  TypeOK /\ (SigchldStep \/ SigintStep \/ SigtstpStep) => TypeOK'
<1> SUFFICES ASSUME TypeOK, SigchldStep \/ SigintStep \/ SigtstpStep PROVE TypeOK'
  OBVIOUS
<1>1. ASSUME NEW p \in Pids, SigchldWait(p) PROVE TypeOK'
  <2>1. stack' \in Seq(Frame)
    BY <1>1, GoesOnFrame DEF SigchldWait, HandlerAt, TypeOK
  <2> QED BY <1>1, <2>1 DEF SigchldWait, TypeOK, shellVars, ProcState
<1>2. CASE SigchldDelete
  <2>1. stack' \in Seq(Frame)
    BY <1>2, GoesOnFrame DEF SigchldDelete, HandlerAt, TypeOK
  <2>2. jobs' \in [Slots -> Job] /\ nextjid' \in Nat
    BY <1>2, DeleteJob DEF SigchldDelete, TypeOK
  <2> QED BY <1>2, <2>1, <2>2 DEF SigchldDelete, TypeOK, childVars
<1>3. CASE SigchldStop
  <2>1. stack' \in Seq(Frame)
    BY <1>3, GoesOnFrame DEF SigchldStop, HandlerAt, TypeOK
  <2>2. jobs' \in [Slots -> Job]
    BY <1>3 DEF SigchldStop, TypeOK, Job, JobState
  <2> QED BY <1>3, <2>1, <2>2 DEF SigchldStop, TypeOK, childVars
<1>4. CASE SigchldReturn
  BY <1>4, ReturnTypeOK DEF SigchldReturn, HandlerAt, TypeOK, childVars
<1>5. ASSUME NEW p, NEW s \in {"INT", "TSTP"}
      PROVE  SentAfterKill(p, s) \in [Pids -> SUBSET {"INT", "TSTP"}]
  BY DEF SentAfterKill, TypeOK
<1>6. CASE SigintForward
  <2>1. stack' \in Seq(Frame)
    BY <1>6, GoesOnFrame DEF SigintForward, HandlerAt, TypeOK
  <2> QED BY <1>5, <1>6, <2>1 DEF SigintForward, TypeOK, shellVars
<1>7. CASE SigtstpForward
  <2>1. stack' \in Seq(Frame)
    BY <1>7, GoesOnFrame DEF SigtstpForward, HandlerAt, TypeOK
  <2>2. jobs' \in [Slots -> Job]
    BY <1>7 DEF SigtstpForward, TypeOK, Job, JobState
  <2> QED BY <1>5, <1>7, <2>1, <2>2 DEF SigtstpForward, TypeOK
<1>8. ASSUME NEW s \in {"INT", "TSTP"}, KeyboardReturn(s) PROVE TypeOK'
  BY <1>8, ReturnTypeOK DEF KeyboardReturn, HandlerAt, TypeOK, childVars
<1> QED BY <1>1, <1>2, <1>3, <1>4, <1>6, <1>7, <1>8
        DEF SigchldStep, SigintStep, SigtstpStep

\* What the user does keeps the types.
LEMMA UserTypeOK == TypeOK /\ UserStep => TypeOK'
<1> SUFFICES ASSUME TypeOK, UserStep PROVE TypeOK'
  OBVIOUS
<1>1. CASE Quit
  BY <1>1 DEF Quit, TypeOK, childVars
<1>2. ASSUME NEW s \in {FG, BG}, EvalBlock(s) PROVE TypeOK'
  <2>1. add' \in Adding
    BY <1>2 DEF EvalBlock, NoAdd, Adding
  <2>2. mask' \in SUBSET Signals
    BY <1>2 DEF EvalBlock, Signals, TypeOK
  <2> QED BY <1>2, <2>1, <2>2 DEF EvalBlock, TypeOK, childVars, MainState
<1>3. ASSUME NEW cmd \in {FG, BG}, NEW k \in Slots, DoBgfg(cmd, jobs[k].jid)
      PROVE  TypeOK'
  <2> DEFINE i == getjobjid(jobs, jobs[k].jid)
  <2>1. i \in Slots
    BY <1>3, GetJobJid DEF DoBgfg
  <2>2. jobs' \in [Slots -> Job]
    BY <1>3 DEF DoBgfg, TypeOK, Job, JobState
  <2>3. /\ proc' \in [Pids -> ProcState]
        /\ sent' \in [Pids -> SUBSET {"INT", "TSTP"}]
        /\ chld' \in BOOLEAN
    <3>1. CASE jobs[i].state = ST
      BY <1>3, <3>1 DEF DoBgfg, Continue, TypeOK, ProcState
    <3>2. CASE jobs[i].state # ST
      BY <1>3, <3>2 DEF DoBgfg, TypeOK, childVars
    <3> QED BY <3>1, <3>2
  <2>4. jobs[i].pid \in Pids \cup {NoPid}
    BY <2>1 DEF TypeOK, Job
  <2>5. /\ main' \in MainState
        /\ cur' \in Pids \cup {NoPid}
        /\ prevMask' \in SUBSET Signals
        /\ mask' \in SUBSET Signals
    BY <1>3, <2>4 DEF DoBgfg, TypeOK, MainState
  <2> QED BY <1>3, <2>2, <2>3, <2>5 DEF DoBgfg, TypeOK
<1>4. ASSUME NEW s \in {"INT", "TSTP"}, Keyboard(s) PROVE TypeOK'
  <2>1. Deliver(s, "enter") /\ chld' \in BOOLEAN
    BY <1>4 DEF Keyboard, TypeOK
  <2> QED BY <2>1, DeliverTypeOK
<1>5. CASE Sigquit
  BY <1>5 DEF Sigquit, TypeOK, childVars
<1> QED BY <1>1, <1>2, <1>3, <1>4, <1>5 DEF UserStep

\* The children keep the types.
LEMMA ChildTypeOK ==
  ASSUME TypeOK, NEW p \in Pids, ChildStep(p)
  PROVE  TypeOK'
<1> USE DEF TypeOK, shellVars, ProcState
<1>1. CASE ChildSetpgid(p) \/ ChildExec(p)
  BY <1>1 DEF ChildSetpgid, ChildExec
<1>2. CASE \E s \in {"INT", "TSTP"} : ChildIgnores(p, s)
  BY <1>2 DEF ChildIgnores
<1>3. CASE ChildInterrupted(p) \/ ChildEnds(p)
  BY <1>3 DEF ChildInterrupted, ChildEnds, Becomes
<1>4. CASE ChildSuspended(p) \/ ChildStops(p)
  BY <1>4 DEF ChildSuspended, ChildStops, Becomes
<1> QED BY <1>1, <1>2, <1>3, <1>4 DEF ChildStep

LEMMA NextTypeOK == TypeOK /\ [Next]_vars => TypeOK'
<1> SUFFICES ASSUME TypeOK, [Next]_vars PROVE TypeOK'
  OBVIOUS
<1>1. CASE MainStep
  BY <1>1, MainTypeOK
<1>2. CASE DeliverChld
  <2>1. Deliver("CHLD", "loop") /\ chld' \in BOOLEAN
    BY <1>2 DEF DeliverChld
  <2> QED BY <2>1, DeliverTypeOK
<1>3. CASE SigchldStep \/ SigintStep \/ SigtstpStep
  BY <1>3, HandlerTypeOK
<1>4. CASE UserStep
  BY <1>4, UserTypeOK
<1>5. ASSUME NEW p \in Pids, ChildStep(p) PROVE TypeOK'
  BY <1>5, ChildTypeOK
<1>6. CASE Gone \/ UNCHANGED vars
  BY <1>6 DEF Gone, vars, shellVars, childVars, TypeOK
<1> QED BY <1>1, <1>2, <1>3, <1>4, <1>5, <1>6 DEF Next

\* Every variable keeps its type, whatever the numbers of processes, slots and
\* job IDs.
THEOREM TypeCorrect == Spec => []TypeOK
<1>1. Init => TypeOK
  BY InitTypeOK
<1>2. TypeOK /\ [Next]_vars => TypeOK'
  BY NextTypeOK
<1> QED BY <1>1, <1>2, PTL DEF Spec

-----------------------------------------------------------------------------
(* The inductive invariant, one part at a time.                            *)

\* Delivering a signal keeps the mask discipline: none reaches a shell that
\* blocks it, and a new outermost handler restores what it found.
LEMMA DeliverMask ==
  ASSUME TypeOK, MaskInv, NEW s \in {"CHLD", "INT", "TSTP"},
         NEW where \in {"enter", "loop"}, Deliver(s, where)
  PROVE  MaskInv'
<1> DEFINE saved == IF main = "suspended" /\ stack = <<>> THEN Signals ELSE mask
           f == [sig |-> s, at |-> where, pid |-> NoPid, ret |-> saved]
<1>1. f \in Frame /\ f.sig = s /\ f.ret = saved
  BY DEF Frame, TypeOK
<1>2. stack' = <<f>> \o stack
  BY DEF Deliver
<1>3. stack \in Seq(Frame) /\ Len(stack) \in Nat
  BY LenProperties DEF TypeOK
<1>4. /\ stack' # <<>>
      /\ Len(stack') = Len(stack) + 1
      /\ \A i \in 1 .. Len(stack) + 1 :
           stack'[i] = IF i = 1 THEN f ELSE stack[i - 1]
  BY <1>1, <1>2, <1>3, PushFrame
<1>5. main' = main /\ prevMask' = prevMask /\ mask' = mask \cup {s} /\ s \notin mask
  BY DEF Deliver
<1> HIDE DEF f
<1>6. ASSUME main \in {"fork", "addjob"}
      PROVE  /\ "CHLD" \in mask'
             /\ \A i \in 1 .. Len(stack') :
                  stack'[i].sig # "CHLD" /\ "CHLD" \in stack'[i].ret
  <2>1. "CHLD" \in mask /\ s # "CHLD" /\ saved = mask
    BY <1>5, <1>6 DEF MaskInv
  <2>2. ASSUME NEW i \in 1 .. Len(stack')
        PROVE  stack'[i].sig # "CHLD" /\ "CHLD" \in stack'[i].ret
    <3>1. CASE i = 1
      BY <1>1, <1>3, <1>4, <2>1, <3>1
    <3>2. CASE i # 1
      <4>1. i - 1 \in 1 .. Len(stack) /\ stack'[i] = stack[i - 1]
        BY <1>3, <1>4, <3>2
      <4> QED BY <1>6, <4>1 DEF MaskInv
    <3> QED BY <3>1, <3>2
  <2> QED BY <1>5, <2>1, <2>2
<1>7. ASSUME main = "prompt"
      PROVE  stack'[Len(stack')].ret = {}
  <2>1. CASE stack = <<>>
    <3>1. Len(stack) = 0 /\ saved = {}
      BY <1>7, <2>1, EmptySeq DEF MaskInv
    <3>2. stack'[Len(stack')] = f
      BY <1>4, <3>1
    <3> QED BY <1>1, <3>1, <3>2
  <2>2. CASE stack # <<>>
    <3>1. Len(stack) \in Nat \ {0}
      BY <1>3, <2>2, EmptySeq
    <3>2. stack'[Len(stack')] = stack[Len(stack)]
      BY <1>4, <3>1
    <3> QED BY <1>7, <2>2, <3>2 DEF MaskInv
  <2> QED BY <2>1, <2>2
<1> QED BY <1>4, <1>5, <1>6, <1>7 DEF MaskInv

\* A handler that goes on changes nothing the mask discipline looks at.
LEMMA GoesOnMask ==
  ASSUME TypeOK, MaskInv, stack # <<>>,
         NEW where \in {"enter", "loop", "dead", "stop", "leave"},
         NEW p \in Pids \cup {NoPid}, GoesOn(where, p),
         main' = main, mask' = mask, prevMask' = prevMask
  PROVE  MaskInv'
<1>1. /\ stack' # <<>>
      /\ Len(stack') = Len(stack)
      /\ Len(stack) \in Nat \ {0}
      /\ \A i \in 1 .. Len(stack) :
           stack'[i].sig = stack[i].sig /\ stack'[i].ret = stack[i].ret
  BY GoesOnFrame DEF TypeOK
<1>2. stack'[Len(stack')].ret = stack[Len(stack)].ret
  BY <1>1
<1> QED BY <1>1, <1>2 DEF MaskInv

\* Nor does a handler that returns break it.
LEMMA ReturnMask ==
  ASSUME TypeOK, MaskInv, stack # <<>>, HandlerReturn, prevMask' = prevMask
  PROVE  MaskInv'
<1>1. /\ Head(stack) = stack[1]
      /\ Tail(stack) \in Seq(Frame)
      /\ Len(stack) \in Nat \ {0}
      /\ Len(Tail(stack)) = Len(stack) - 1
      /\ \A i \in 1 .. Len(Tail(stack)) : Tail(stack)[i] = stack[i + 1]
      /\ Tail(stack) = <<>> <=> Len(stack) = 1
  BY PopFrame DEF TypeOK
<1>2. mask' = stack[1].ret /\ stack' = Tail(stack)
  BY <1>1 DEF HandlerReturn
<1>3. main' \in {"fork", "addjob", "prompt"} => main' = main
  BY DEF HandlerReturn
<1>4. ASSUME main' \in {"fork", "addjob"}
      PROVE  /\ "CHLD" \in mask'
             /\ \A i \in 1 .. Len(stack') :
                  stack'[i].sig # "CHLD" /\ "CHLD" \in stack'[i].ret
  <2>1. \A i \in 1 .. Len(stack) : stack[i].sig # "CHLD" /\ "CHLD" \in stack[i].ret
    BY <1>3, <1>4 DEF MaskInv
  <2>2. ASSUME NEW i \in 1 .. Len(stack')
        PROVE  i + 1 \in 1 .. Len(stack) /\ stack'[i] = stack[i + 1]
    BY <1>1, <1>2
  <2> QED BY <1>1, <1>2, <2>1, <2>2
<1>5. ASSUME main' = "prompt"
      PROVE  IF stack' = <<>> THEN mask' = {} ELSE stack'[Len(stack')].ret = {}
  <2>1. stack[Len(stack)].ret = {}
    BY <1>3, <1>5 DEF MaskInv
  <2>2. CASE stack' = <<>>
    BY <1>1, <1>2, <2>1, <2>2
  <2>3. CASE stack' # <<>>
    <3>1. Len(stack') \in 1 .. Len(Tail(stack)) /\ Len(stack') + 1 = Len(stack)
      BY <1>1, <1>2, <2>3
    <3> QED BY <1>1, <1>2, <2>1, <2>3, <3>1
  <2> QED BY <2>2, <2>3
<1> QED BY <1>4, <1>5 DEF MaskInv

\* Steps that leave masks, stack and the main flow alone.
LEMMA SameMask ==
  ASSUME MaskInv, UNCHANGED <<main, mask, prevMask, stack>>
  PROVE  MaskInv'
  BY DEF MaskInv

LEMMA MaskStep == TypeOK /\ MaskInv /\ [Next]_vars => MaskInv'
<1> SUFFICES ASSUME TypeOK, MaskInv, [Next]_vars PROVE MaskInv'
  OBVIOUS
<1>0. Len(<<>>) = 0
  OBVIOUS
<1>1. CASE MainStep
  <2>1. ASSUME NEW p \in Pids, EvalFork(p) PROVE MaskInv'
    BY <2>1 DEF EvalFork, MainAt, MaskInv
  <2>2. CASE EvalForkFails \/ \E f \in Fields : AddjobStore(f)
    BY <2>2, SameMask DEF EvalForkFails, AddjobStore
  <2>3. CASE EvalUnblock
    BY <2>3 DEF EvalUnblock, MainAt, MaskInv
  <2>4. CASE WaitfgSuspend \/ WaitfgResume \/ WaitfgReturn
    BY <2>4 DEF WaitfgSuspend, WaitfgResume, WaitfgReturn, MainAt, MaskInv
  <2> QED BY <1>1, <2>1, <2>2, <2>3, <2>4 DEF MainStep
<1>2. CASE DeliverChld
  BY <1>2, DeliverMask DEF DeliverChld
<1>3. CASE SigchldStep \/ SigintStep \/ SigtstpStep
  <2>1. ASSUME NEW p \in Pids, SigchldWait(p) PROVE MaskInv'
    BY <2>1, GoesOnMask DEF SigchldWait, HandlerAt, shellVars
  <2>2. CASE SigchldDelete
    BY <2>2, GoesOnMask DEF SigchldDelete, HandlerAt
  <2>3. CASE SigchldStop
    <3>1. CASE UNCHANGED stack
      BY <2>3, <3>1, SameMask DEF SigchldStop
    <3>2. CASE GoesOn("loop", NoPid)
      BY <2>3, <3>2, GoesOnMask DEF SigchldStop, HandlerAt
    <3> QED BY <2>3, <3>1, <3>2 DEF SigchldStop
  <2>4. CASE SigintForward
    BY <2>4, GoesOnMask DEF SigintForward, HandlerAt, shellVars
  <2>5. CASE SigtstpForward
    BY <2>5, GoesOnMask DEF SigtstpForward, HandlerAt
  <2>6. CASE SigchldReturn \/ \E s \in {"INT", "TSTP"} : KeyboardReturn(s)
    BY <2>6, ReturnMask DEF SigchldReturn, KeyboardReturn, HandlerAt
  <2> QED BY <1>3, <2>1, <2>2, <2>3, <2>4, <2>5, <2>6
          DEF SigchldStep, SigintStep, SigtstpStep
<1>4. CASE UserStep
  <2>1. CASE Quit \/ Sigquit
    BY <2>1, SameMask DEF Quit, Sigquit
  <2>2. ASSUME NEW s \in {FG, BG}, EvalBlock(s) PROVE MaskInv'
    BY <1>0, <2>2 DEF EvalBlock, MainAt, MaskInv
  <2>3. ASSUME NEW cmd \in {FG, BG}, NEW k \in Slots, DoBgfg(cmd, jobs[k].jid)
        PROVE  MaskInv'
    BY <2>3 DEF DoBgfg, MainAt, MaskInv
  <2>4. ASSUME NEW s \in {"INT", "TSTP"}, Keyboard(s) PROVE MaskInv'
    BY <2>4, DeliverMask DEF Keyboard
  <2> QED BY <1>4, <2>1, <2>2, <2>3, <2>4 DEF UserStep
<1>5. ASSUME NEW p \in Pids, ChildStep(p) PROVE MaskInv'
  BY <1>5, SameMask
     DEF ChildStep, ChildSetpgid, ChildExec, ChildIgnores, ChildInterrupted,
         ChildSuspended, ChildStops, ChildEnds, Becomes, shellVars
<1>6. CASE Gone \/ UNCHANGED vars
  BY <1>6, SameMask DEF Gone, vars, shellVars
<1> QED BY <1>1, <1>2, <1>3, <1>4, <1>5, <1>6 DEF Next

\* The slot addjob fills: nobody else gives it a pid or takes it away.  A
\* handler of a keyboard signal only changes states, and the SIGCHLD handler
\* does not run.
LEMMA AddStep == TypeOK /\ MaskInv /\ AddInv /\ [Next]_vars => AddInv'
<1> SUFFICES ASSUME TypeOK, MaskInv, AddInv, [Next]_vars PROVE AddInv'
  OBVIOUS
<1>1. CASE MainStep
  <2>1. ASSUME NEW p \in Pids, EvalFork(p) PROVE AddInv'
    <3>1. FreeSlot(jobs) \in Slots => jobs[FreeSlot(jobs)].pid = NoPid
      BY FreeSlotFact, NoSlotFact
    <3>2. FreeSlot(jobs) \in Slots => FreeSlot(jobs) # NoSlot
      BY NoSlotFact
    <3>3. /\ add'.slot = FreeSlot(jobs)
          /\ add'.todo = IF FreeSlot(jobs) = NoSlot THEN {} ELSE Fields
      BY <2>1 DEF EvalFork, TypeOK, Adding
    <3>4. jobs' = jobs
      BY <2>1 DEF EvalFork
    <3> QED BY <3>1, <3>2, <3>3, <3>4 DEF AddInv, Fields
  <2>2. CASE EvalForkFails
    BY <2>2 DEF EvalForkFails, AddInv
  <2>3. ASSUME NEW f \in Fields, AddjobStore(f) PROVE AddInv'
    <3>1. /\ add'.slot = add.slot
          /\ add'.todo = add.todo \ {f}
          /\ main = "addjob"
          /\ cur' = cur
      BY <2>3 DEF AddjobStore, MainAt, TypeOK, Adding
    <3> SUFFICES ASSUME add.slot \in Slots
                 PROVE  jobs'[add.slot].pid =
                          IF "pid" \in add'.todo THEN NoPid ELSE cur
      BY <3>1 DEF AddInv
    <3>2. jobs[add.slot].pid = IF "pid" \in add.todo THEN NoPid ELSE cur
      BY <3>1 DEF AddInv
    <3>3. CASE f = "pid"
      BY <2>3, <3>1, <3>3 DEF AddjobStore, TypeOK, Job
    <3>4. CASE f = "state"
      BY <2>3, <3>1, <3>2, <3>4 DEF AddjobStore, TypeOK, Job
    <3>5. CASE f = "jid"
      BY <2>3, <3>1, <3>2, <3>5 DEF AddjobStore, TypeOK, Job
    <3> QED BY <3>3, <3>4, <3>5 DEF Fields
  <2>4. CASE EvalUnblock \/ WaitfgSuspend \/ WaitfgResume \/ WaitfgReturn
    BY <2>4 DEF EvalUnblock, WaitfgSuspend, WaitfgResume, WaitfgReturn, AddInv
  <2> QED BY <1>1, <2>1, <2>2, <2>3, <2>4 DEF MainStep
<1>2. CASE DeliverChld
  BY <1>2 DEF DeliverChld, Deliver, AddInv
<1>3. CASE SigchldStep \/ SigintStep \/ SigtstpStep
  <2>1. CASE \E p \in Pids : SigchldWait(p)
    BY <2>1 DEF SigchldWait, shellVars, AddInv
  <2>2. CASE SigchldDelete \/ SigchldStop
    <3>1. stack # <<>> /\ stack[1].sig = "CHLD" /\ Len(stack) \in Nat \ {0}
      BY <2>2, PopFrame DEF SigchldDelete, SigchldStop, HandlerAt, TypeOK
    <3>2. main # "addjob"
      BY <3>1 DEF MaskInv
    <3> QED BY <2>2, <3>2 DEF SigchldDelete, SigchldStop, AddInv
  <2>3. CASE SigchldReturn \/ \E s \in {"INT", "TSTP"} : KeyboardReturn(s)
    BY <2>3 DEF SigchldReturn, KeyboardReturn, HandlerReturn, AddInv
  <2>4. CASE SigintForward
    BY <2>4 DEF SigintForward, shellVars, AddInv
  <2>5. CASE SigtstpForward
    <3>1. \A i \in Slots : jobs'[i].pid = jobs[i].pid
      BY <2>5 DEF SigtstpForward, TypeOK, Job
    <3> QED BY <2>5, <3>1 DEF SigtstpForward, AddInv
  <2> QED BY <1>3, <2>1, <2>2, <2>3, <2>4, <2>5
          DEF SigchldStep, SigintStep, SigtstpStep
<1>4. CASE UserStep
  BY <1>4 DEF UserStep, Quit, EvalBlock, DoBgfg, Keyboard, Deliver, Sigquit,
              MainAt, AddInv
<1>5. ASSUME NEW p \in Pids, ChildStep(p) PROVE AddInv'
  BY <1>5
     DEF ChildStep, ChildSetpgid, ChildExec, ChildIgnores, ChildInterrupted,
         ChildSuspended, ChildStops, ChildEnds, Becomes, shellVars, AddInv
<1>6. CASE Gone \/ UNCHANGED vars
  BY <1>6 DEF Gone, vars, shellVars, AddInv
<1> QED BY <1>1, <1>2, <1>3, <1>4, <1>5, <1>6 DEF Next

\* A step that puts no job in the foreground and leaves the main flow and the
\* pids of foreground jobs alone cannot break the claim.
LEMMA SameForeground ==
  ASSUME ForegroundIsAwaited,
         \A i \in Slots : jobs'[i].state = FG =>
           jobs[i].state = FG /\ jobs'[i].pid = jobs[i].pid,
         cur' = cur, add' = add,
         main' = main \/ (main = "suspended" /\ main' = "resumed")
  PROVE  ForegroundIsAwaited'
  BY DEF ForegroundIsAwaited, Waiting

LEMMA ForegroundStep == IInv /\ [Next]_vars => ForegroundIsAwaited'
<1> SUFFICES ASSUME IInv, [Next]_vars PROVE ForegroundIsAwaited'
  OBVIOUS
<1>0. TypeOK /\ MaskInv /\ AddInv /\ ForegroundIsAwaited
  BY DEF IInv
<1>1. CASE MainStep
  <2>1. ASSUME NEW p \in Pids, EvalFork(p) PROVE ForegroundIsAwaited'
    <3>1. \A i \in Slots : jobs[i].state # FG
      BY <1>0, <2>1 DEF EvalFork, MainAt, ForegroundIsAwaited, Waiting
    <3> QED BY <2>1, <3>1 DEF EvalFork, ForegroundIsAwaited
  <2>2. CASE EvalForkFails
    BY <1>0, <2>2, SameForeground DEF EvalForkFails
  <2>3. ASSUME NEW f \in Fields, AddjobStore(f) PROVE ForegroundIsAwaited'
    <3>1. /\ main = "addjob" /\ main' = main
          /\ add'.slot = add.slot /\ add'.state = add.state
      BY <1>0, <2>3 DEF AddjobStore, MainAt, TypeOK, Adding
    <3>2. ASSUME NEW i \in Slots, jobs'[i].state = FG
          PROVE  add.slot = i /\ add.state = FG
      <4>1. CASE jobs[i].state = FG
        BY <1>0, <3>1, <4>1 DEF ForegroundIsAwaited, Waiting
      <4>2. CASE jobs[i].state # FG
        <5>1. CASE f = "state"
          BY <1>0, <2>3, <3>2, <4>2, <5>1 DEF AddjobStore, TypeOK, Job
        <5>2. CASE f # "state"
          <6>1. jobs'[i].state = jobs[i].state
            <7>1. CASE f = "pid"
              BY <1>0, <2>3, <7>1 DEF AddjobStore, TypeOK, Job
            <7>2. CASE f = "jid"
              BY <1>0, <2>3, <7>2 DEF AddjobStore, TypeOK, Job
            <7> QED BY <5>2, <7>1, <7>2 DEF Fields
          <6> QED BY <3>2, <4>2, <6>1
        <5> QED BY <5>1, <5>2
      <4> QED BY <4>1, <4>2
    <3> QED BY <3>1, <3>2 DEF ForegroundIsAwaited
  <2>4. CASE EvalUnblock
    <3>1. main = "addjob" /\ add.todo = {} /\ jobs' = jobs
      BY <2>4 DEF EvalUnblock, MainAt
    <3>2. ASSUME NEW i \in Slots, jobs[i].state = FG
          PROVE  add.slot = i /\ add.state = FG /\ jobs[i].pid = cur
      BY <1>0, <3>1, <3>2 DEF ForegroundIsAwaited, Waiting, AddInv
    <3>3. add.state = FG => main' = "waitfg" /\ cur' = cur
      BY <2>4 DEF EvalUnblock
    <3> QED BY <3>1, <3>2, <3>3 DEF ForegroundIsAwaited, Waiting
  <2>5. CASE WaitfgSuspend \/ WaitfgResume
    BY <1>0, <2>5 DEF WaitfgSuspend, WaitfgResume, MainAt, ForegroundIsAwaited,
                      Waiting
  <2>6. CASE WaitfgReturn
    <3>1. \A i \in Slots : jobs[i].state = FG => jobs[i].pid = cur
      BY <1>0, <2>6 DEF WaitfgReturn, MainAt, ForegroundIsAwaited, Waiting
    <3>2. \A i \in Slots : jobs[i].state # FG
      BY <2>6, <3>1, FgPid DEF WaitfgReturn
    <3> QED BY <2>6, <3>2 DEF WaitfgReturn, ForegroundIsAwaited
  <2> QED BY <1>1, <2>1, <2>2, <2>3, <2>4, <2>5, <2>6 DEF MainStep
<1>2. CASE DeliverChld
  BY <1>0, <1>2, SameForeground DEF DeliverChld, Deliver
<1>3. CASE SigchldStep \/ SigintStep \/ SigtstpStep
  <2>1. CASE (\E p \in Pids : SigchldWait(p)) \/ SigintForward
    BY <1>0, <2>1, SameForeground DEF SigchldWait, SigintForward, shellVars
  <2>2. CASE SigchldDelete
    <3>1. \A i \in Slots : jobs'[i] = clearjob \/ jobs'[i] = jobs[i]
      BY <1>0, <2>2, DeleteJob DEF SigchldDelete, TypeOK
    <3>2. clearjob.state # FG
      BY DEF clearjob, UNDEF, FG
    <3> QED BY <1>0, <2>2, <3>1, <3>2, SameForeground DEF SigchldDelete
  <2>3. CASE SigchldStop
    <3>1. \A i \in Slots : jobs'[i] = jobs[i] \/ jobs'[i].state = ST
      BY <1>0, <2>3 DEF SigchldStop, TypeOK, Job
    <3>2. ST # FG
      BY DEF ST, FG
    <3> QED BY <1>0, <2>3, <3>1, <3>2, SameForeground DEF SigchldStop
  <2>4. CASE SigtstpForward
    <3>1. \A i \in Slots : jobs'[i] = jobs[i] \/ jobs'[i].state = ST
      BY <1>0, <2>4 DEF SigtstpForward, TypeOK, Job
    <3>2. ST # FG
      BY DEF ST, FG
    <3> QED BY <1>0, <2>4, <3>1, <3>2, SameForeground DEF SigtstpForward
  <2>5. CASE SigchldReturn \/ \E s \in {"INT", "TSTP"} : KeyboardReturn(s)
    BY <1>0, <2>5, SameForeground DEF SigchldReturn, KeyboardReturn, HandlerReturn
  <2> QED BY <1>3, <2>1, <2>2, <2>3, <2>4, <2>5
          DEF SigchldStep, SigintStep, SigtstpStep
<1>4. CASE UserStep
  <2>1. CASE Quit \/ Sigquit
    BY <1>0, <2>1, SameForeground DEF Quit, Sigquit
  <2>2. ASSUME NEW s \in {FG, BG}, EvalBlock(s) PROVE ForegroundIsAwaited'
    <3>1. \A i \in Slots : jobs[i].state # FG
      BY <1>0, <2>2 DEF EvalBlock, MainAt, ForegroundIsAwaited, Waiting
    <3> QED BY <2>2, <3>1 DEF EvalBlock, ForegroundIsAwaited
  <2>3. ASSUME NEW cmd \in {FG, BG}, NEW k \in Slots, DoBgfg(cmd, jobs[k].jid)
        PROVE  ForegroundIsAwaited'
    <3> DEFINE i == getjobjid(jobs, jobs[k].jid)
    <3>1. \A l \in Slots : jobs[l].state # FG
      BY <1>0, <2>3 DEF DoBgfg, MainAt, ForegroundIsAwaited, Waiting
    <3>2. \A l \in Slots : jobs'[l] = IF l = i THEN [jobs[l] EXCEPT !.state = cmd]
                                      ELSE jobs[l]
      BY <1>0, <2>3 DEF DoBgfg, TypeOK
    <3>3. i \in Slots /\ jobs'[i].pid = jobs[i].pid
      BY <1>0, <2>3, <3>2, GetJobJid DEF DoBgfg, TypeOK, Job
    <3>4. CASE cmd = FG
      BY <2>3, <3>1, <3>2, <3>3, <3>4 DEF DoBgfg, ForegroundIsAwaited, Waiting
    <3>5. CASE cmd = BG
      <4>1. jobs'[i].state # FG
        <5>1. jobs[i] \in Job
          BY <1>0, <3>3 DEF TypeOK
        <5>2. jobs'[i] = [jobs[i] EXCEPT !.state = cmd]
          BY <3>2, <3>3
        <5> HIDE DEF i
        <5>3. jobs'[i].state = cmd
          BY <5>1, <5>2 DEF Job
        <5> QED BY <3>5, <5>3 DEF BG, FG
      <4> QED BY <3>1, <3>2, <4>1 DEF ForegroundIsAwaited
    <3> QED BY <3>4, <3>5
  <2>4. ASSUME NEW s \in {"INT", "TSTP"}, Keyboard(s) PROVE ForegroundIsAwaited'
    BY <1>0, <2>4, SameForeground DEF Keyboard, Deliver
  <2> QED BY <1>4, <2>1, <2>2, <2>3, <2>4 DEF UserStep
<1>5. ASSUME NEW p \in Pids, ChildStep(p) PROVE ForegroundIsAwaited'
  BY <1>0, <1>5, SameForeground
     DEF ChildStep, ChildSetpgid, ChildExec, ChildIgnores, ChildInterrupted,
         ChildSuspended, ChildStops, ChildEnds, Becomes, shellVars
<1>6. CASE Gone \/ UNCHANGED vars
  BY <1>0, <1>6, SameForeground DEF Gone, vars, shellVars
<1> QED BY <1>1, <1>2, <1>3, <1>4, <1>5, <1>6 DEF Next

-----------------------------------------------------------------------------
(* The theorems.                                                           *)

LEMMA InitIInv == Init => IInv
<1>1. Init => MaskInv /\ AddInv
  BY DEF Init, MaskInv, AddInv
<1>2. Init => ForegroundIsAwaited
  BY DEF Init, ForegroundIsAwaited, initjobs, clearjob, UNDEF, FG
<1> QED BY <1>1, <1>2, InitTypeOK DEF IInv

LEMMA NextIInv == IInv /\ [Next]_vars => IInv'
  BY NextTypeOK, MaskStep, AddStep, ForegroundStep DEF IInv

\* The inductive invariant holds of every behaviour of the shell.
THEOREM Invariant == Spec => []IInv
  BY InitIInv, NextIInv, PTL DEF Spec

\* A job in the foreground is the one eval is adding or waitfg waits for: at
\* any time there is at most one, and none when a child copies the job list.
THEOREM ForegroundAwaited == Spec => []ForegroundIsAwaited
<1>1. IInv => ForegroundIsAwaited
  BY DEF IInv
<1> QED BY <1>1, Invariant, PTL

\* Whatever command ran before and whatever interrupted it, the shell reads a
\* command with no signal blocked.
THEOREM PromptUnblocked == Spec => []NothingLeftBlocked
<1>1. IInv => NothingLeftBlocked
  BY DEF IInv, MaskInv, NothingLeftBlocked, MainAt
<1> QED BY <1>1, Invariant, PTL

\* ctrl-c and ctrl-z reach the child the shell waits for and no other.
THEOREM KeyboardToForeground == Spec => KeyboardOnlyForeground
<1> DEFINE A == \A p \in Pids : sent'[p] \ sent[p] # {} =>
                  cur = p /\ (main = "addjob" \/ Waiting)
<1>1. IInv /\ [Next]_vars => [A]_vars
  <2> SUFFICES ASSUME IInv, Next, NEW p \in Pids, sent'[p] \ sent[p] # {}
               PROVE  cur = p /\ (main = "addjob" \/ Waiting)
    OBVIOUS
  <2>0. TypeOK /\ AddInv /\ ForegroundIsAwaited
    BY DEF IInv
  <2>1. CASE SigintForward \/ SigtstpForward
    <3>1. fgpid(jobs) = p
      BY <2>0, <2>1 DEF SigintForward, SigtstpForward, SentAfterKill, TypeOK
    <3>2. p # NoPid
      BY PidAssumption
    <3>3. PICK i \in Slots : jobs[i].state = FG /\ jobs[i].pid = p
      BY <3>1, <3>2, FgPid
    <3>4. CASE Waiting
      BY <2>0, <3>3, <3>4 DEF ForegroundIsAwaited, Waiting
    <3>5. CASE main = "addjob"
      <4>1. add.slot = i
        BY <2>0, <3>3, <3>5 DEF ForegroundIsAwaited, Waiting
      <4> QED BY <2>0, <3>2, <3>3, <3>5, <4>1 DEF AddInv
    <3> QED BY <2>0, <3>3, <3>4, <3>5 DEF ForegroundIsAwaited
  <2>2. ASSUME ~(SigintForward \/ SigtstpForward)
        PROVE  sent'[p] \subseteq sent[p]
    <3>1. CASE MainStep
      BY <2>0, <3>1 DEF MainStep, EvalFork, EvalForkFails, AddjobStore, EvalUnblock,
           WaitfgSuspend, WaitfgResume, WaitfgReturn, childVars, TypeOK
    <3>2. CASE DeliverChld
      BY <3>2 DEF DeliverChld, Deliver, childVars
    <3>3. CASE SigchldStep \/ SigintStep \/ SigtstpStep
      BY <2>2, <3>3 DEF SigchldStep, SigintStep, SigtstpStep, SigchldWait,
           SigchldDelete, SigchldStop, SigchldReturn, KeyboardReturn, childVars
    <3>4. CASE UserStep
      <4>1. ASSUME NEW cmd \in {FG, BG}, NEW n, DoBgfg(cmd, n)
            PROVE  sent'[p] \subseteq sent[p]
        BY <2>0, <4>1 DEF DoBgfg, Continue, childVars, TypeOK
      <4>2. CASE ~ \E cmd \in {FG, BG}, i \in Slots : DoBgfg(cmd, jobs[i].jid)
        BY <3>4, <4>2 DEF UserStep, Quit, EvalBlock, Keyboard, Deliver, Sigquit,
                          childVars
      <4> QED BY <4>1, <4>2
    <3>5. ASSUME NEW q \in Pids, ChildStep(q)
          PROVE  sent'[p] \subseteq sent[p]
      BY <2>0, <3>5
         DEF ChildStep, ChildSetpgid, ChildExec, ChildIgnores, ChildInterrupted,
             ChildSuspended, ChildStops, ChildEnds, Becomes, TypeOK
    <3>6. CASE Gone
      BY <3>6 DEF Gone, vars, childVars
    <3> QED BY <3>1, <3>2, <3>3, <3>4, <3>5, <3>6 DEF Next
  <2> QED BY <2>1, <2>2
<1> QED BY <1>1, Invariant, PTL DEF Spec, KeyboardOnlyForeground

-----------------------------------------------------------------------------
(* Job IDs are distinct as long as nextjid does not start again at 1.      *)

\* The strengthening of JidsDistinct: the next ID is above all that are listed,
\* and within the bound from the test in eval until addjob has stored it.
JidInv ==
  /\ JidsDistinct
  /\ nextjid \in 1 .. JidCap + 1
  /\ main = "fork" \/ (main = "addjob" /\ "jid" \in add.todo) => nextjid <= JidCap

LEMMA InitJidInv == Init => JidInv
  BY JidCapAssumption DEF Init, JidInv, JidsDistinct, initjobs, clearjob

\* A step that changes no job ID, nor nextjid, and starts no job.
LEMMA SameJids ==
  ASSUME JidInv,
         \A i \in Slots : jobs'[i].jid = jobs[i].jid,
         nextjid' = nextjid,
         main' = "fork" => main = "fork",
         main' = "addjob" /\ "jid" \in add'.todo =>
           main = "fork" \/ (main = "addjob" /\ "jid" \in add.todo)
  PROVE  JidInv'
  BY DEF JidInv, JidsDistinct

\* addjob stores the next ID and moves on to the one behind it.
LEMMA StoreJid ==
  ASSUME JidCap < MAXJID, TypeOK, JidInv, AddjobStore("jid")
  PROVE  JidInv'
<1>1. /\ nextjid \in Nat /\ 1 <= nextjid /\ nextjid <= JidCap
      /\ nextjid' = nextjid + 1
  BY JidCapAssumption, SizeAssumption DEF JidInv, AddjobStore, MainAt, JidAfter
<1>2. \A i \in Slots :
        /\ jobs[i].jid \in Nat
        /\ jobs'[i].jid = IF i = add.slot THEN nextjid ELSE jobs[i].jid
  BY DEF AddjobStore, TypeOK, Job
<1>3. JidsDistinct'
  BY <1>1, <1>2 DEF JidInv, JidsDistinct
<1>4. main' = "addjob" /\ "jid" \notin add'.todo
  BY DEF AddjobStore, MainAt, TypeOK, Adding
<1> QED BY <1>1, <1>3, <1>4, JidCapAssumption DEF JidInv

\* The SIGCHLD handler deletes a job; the next ID is then the one behind the
\* largest that is left.
LEMMA DeleteJid ==
  ASSUME TypeOK, MaskInv, JidInv, SigchldDelete
  PROVE  JidInv'
<1> DEFINE p == Head(stack).pid
<1>1. jobs \in [Slots -> Job] /\ nextjid \in Nat
  BY DEF TypeOK
<1>2. main' \notin {"fork", "addjob"}
  <2>1. stack # <<>> /\ stack[1].sig = "CHLD" /\ Len(stack) \in Nat \ {0}
    BY PopFrame DEF SigchldDelete, HandlerAt, TypeOK
  <2> QED BY <2>1 DEF MaskInv, SigchldDelete
<1>3. CASE getjobpid(jobs, p) = NoSlot
  <2>1. jobs' = jobs /\ nextjid' = nextjid
    BY <1>3 DEF SigchldDelete, deletejob, JidAfterDelete
  <2> QED BY <1>2, <2>1, SameJids
<1>4. CASE getjobpid(jobs, p) # NoSlot
  <2>1. /\ jobs' \in [Slots -> Job]
        /\ \A i \in Slots : jobs'[i] = IF i = getjobpid(jobs, p) THEN clearjob
                                       ELSE jobs[i]
    BY <1>1, DeleteJob DEF SigchldDelete
  <2>2. nextjid' = maxjid(jobs') + 1
    BY <1>4 DEF SigchldDelete, JidAfterDelete
  <2>3. /\ maxjid(jobs') \in Nat
        /\ \A i \in Slots : jobs'[i].jid <= maxjid(jobs')
        /\ \E i \in Slots : jobs'[i].jid = maxjid(jobs')
    BY <2>1, MaxJid
  <2>4. \A i \in Slots : /\ jobs'[i].jid \in Nat /\ jobs[i].jid \in Nat
                         /\ jobs'[i].jid # 0 => jobs'[i].jid = jobs[i].jid
    BY <1>1, <2>1 DEF Job, clearjob
  <2>5. JidsDistinct'
    BY <2>2, <2>3, <2>4 DEF JidInv, JidsDistinct
  <2>6. nextjid' \in 1 .. JidCap + 1
    BY <1>1, <2>2, <2>3, <2>4, JidCapAssumption DEF JidInv, JidsDistinct
  <2> QED BY <1>2, <2>5, <2>6 DEF JidInv
<1> QED BY <1>3, <1>4

LEMMA NextJidInv ==
  ASSUME JidCap < MAXJID, TypeOK, MaskInv, JidInv, [Next]_vars
  PROVE  JidInv'
<1>1. CASE MainStep
  <2>1. ASSUME NEW p \in Pids, EvalFork(p) PROVE JidInv'
    BY <2>1, SameJids DEF EvalFork, MainAt
  <2>2. ASSUME NEW f \in Fields \ {"jid"}, AddjobStore(f) PROVE JidInv'
    <3>1. /\ nextjid' = nextjid /\ main' = main
          /\ add'.todo \subseteq add.todo
          /\ \A i \in Slots : jobs'[i].jid = jobs[i].jid
      BY <2>2 DEF AddjobStore, TypeOK, Job, Adding, Fields
    <3> QED BY <3>1, SameJids
  <2>3. CASE AddjobStore("jid")
    BY <2>3, StoreJid
  <2>4. CASE EvalForkFails \/ EvalUnblock \/ WaitfgSuspend \/ WaitfgResume \/ WaitfgReturn
    BY <2>4, SameJids
       DEF EvalForkFails, EvalUnblock, WaitfgSuspend, WaitfgResume, WaitfgReturn
  <2> QED BY <1>1, <2>1, <2>2, <2>3, <2>4 DEF MainStep
<1>2. CASE DeliverChld
  BY <1>2, SameJids DEF DeliverChld, Deliver
<1>3. CASE SigchldStep \/ SigintStep \/ SigtstpStep
  <2>1. CASE \E p \in Pids : SigchldWait(p)
    BY <2>1, SameJids DEF SigchldWait, shellVars
  <2>2. CASE SigchldDelete
    BY <2>2, DeleteJid
  <2>3. CASE SigchldStop \/ SigtstpForward
    <3>1. \A i \in Slots : jobs'[i].jid = jobs[i].jid
      BY <2>3 DEF SigchldStop, SigtstpForward, TypeOK, Job
    <3> QED BY <2>3, <3>1, SameJids DEF SigchldStop, SigtstpForward
  <2>4. CASE SigchldReturn \/ \E s \in {"INT", "TSTP"} : KeyboardReturn(s)
    BY <2>4, SameJids DEF SigchldReturn, KeyboardReturn, HandlerReturn
  <2>5. CASE SigintForward
    BY <2>5, SameJids DEF SigintForward, shellVars
  <2> QED BY <1>3, <2>1, <2>2, <2>3, <2>4, <2>5
          DEF SigchldStep, SigintStep, SigtstpStep
<1>4. CASE UserStep
  <2>1. ASSUME NEW s \in {FG, BG}, EvalBlock(s) PROVE JidInv'
    <3>1. main' = "fork" /\ nextjid' = nextjid /\ jobs' = jobs /\ nextjid <= JidCap
      BY <2>1 DEF EvalBlock
    <3> QED BY <3>1 DEF JidInv, JidsDistinct
  <2>2. ASSUME NEW cmd \in {FG, BG}, NEW n, DoBgfg(cmd, n) PROVE JidInv'
    <3>1. \A i \in Slots : jobs'[i].jid = jobs[i].jid
      BY <2>2 DEF DoBgfg, TypeOK, Job
    <3> QED BY <2>2, <3>1, SameJids DEF DoBgfg
  <2>3. CASE Quit \/ Sigquit \/ \E s \in {"INT", "TSTP"} : Keyboard(s)
    BY <2>3, SameJids DEF Quit, Sigquit, Keyboard, Deliver
  <2> QED BY <1>4, <2>1, <2>2, <2>3 DEF UserStep
<1>5. ASSUME NEW p \in Pids, ChildStep(p) PROVE JidInv'
  BY <1>5, SameJids
     DEF ChildStep, ChildSetpgid, ChildExec, ChildIgnores, ChildInterrupted,
         ChildSuspended, ChildStops, ChildEnds, Becomes, shellVars
<1>6. CASE Gone \/ UNCHANGED vars
  BY <1>6, SameJids DEF Gone, vars, shellVars
<1> QED BY <1>1, <1>2, <1>3, <1>4, <1>5, <1>6 DEF Next

\* As long as IDs below MAXJID are given out, which the bound on nextjid makes
\* sure of, no two jobs share an ID and the next one is free, in whatever order
\* jobs are added and deleted: fg and bg reach the job they name.
THEOREM JidsStayDistinct ==
  ASSUME JidCap < MAXJID
  PROVE  Spec => []JidsDistinct
<1>1. IInv /\ JidInv /\ [Next]_vars => JidInv'
  BY NextJidInv DEF IInv
<1>2. JidInv => JidsDistinct
  BY DEF JidInv
<1> QED BY <1>1, <1>2, InitJidInv, Invariant, PTL DEF Spec

=============================================================================
