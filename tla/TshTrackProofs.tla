--------------------------- MODULE TshTrackProofs ---------------------------
(***************************************************************************)
(* The job list and the children agree, and no notice of the kernel is lost,*)
(* for any number of processes, slots and job IDs; and, as long as the list *)
(* has a slot for each process, the shell implements JobControl.            *)
(***************************************************************************)
EXTENDS TshProofs, FiniteSetTheorems

-----------------------------------------------------------------------------
(* The handlers on the stack.                                              *)

\* While a SIGCHLD handler is active SIGCHLD is blocked, and a handler that has
\* interrupted it will not open the mask: there is one at most.  It has a pid
\* between waitpid and the list, and the others have none.
ChldInv ==
  \A i \in 1 .. Len(stack) :
    IF stack[i].sig = "CHLD"
    THEN /\ "CHLD" \in mask
         /\ stack[i].at \in {"dead", "stop"} => stack[i].pid \in Pids
         /\ \A k \in 1 .. i - 1 : stack[k].sig # "CHLD" /\ "CHLD" \in stack[k].ret
    ELSE stack[i].at \in {"enter", "leave"}

\* A handler is pushed on the stack.
LEMMA Pushed ==
  ASSUME TypeOK, NEW s \in {"CHLD", "INT", "TSTP"}, NEW where \in {"enter", "loop"},
         Deliver(s, where)
  PROVE  /\ stack' \in Seq(Frame) /\ Len(stack) \in Nat
         /\ Len(stack') = Len(stack) + 1
         /\ stack'[1].sig = s /\ stack'[1].at = where
         /\ stack'[1].ret = IF main = "suspended" /\ stack = <<>> THEN Signals ELSE mask
         /\ \A i \in 2 .. Len(stack) + 1 : stack'[i] = stack[i - 1]
<1> DEFINE saved == IF main = "suspended" /\ stack = <<>> THEN Signals ELSE mask
           f == [sig |-> s, at |-> where, pid |-> NoPid, ret |-> saved]
<1>1. f \in Frame /\ f.sig = s /\ f.at = where /\ f.ret = saved
  BY DEF Frame, TypeOK
<1>2. stack' = <<f>> \o stack
  BY DEF Deliver
<1>3. stack \in Seq(Frame) /\ Len(stack) \in Nat
  BY LenProperties DEF TypeOK
<1> HIDE DEF f
<1>4. /\ stack' \in Seq(Frame)
      /\ Len(stack') = Len(stack) + 1
      /\ \A i \in 1 .. Len(stack) + 1 :
           stack'[i] = IF i = 1 THEN f ELSE stack[i - 1]
  BY <1>1, <1>2, <1>3, PushFrame
<1>5. stack'[1] = f
  BY <1>3, <1>4
<1>6. \A i \in 2 .. Len(stack) + 1 : stack'[i] = stack[i - 1]
  BY <1>3, <1>4
<1> QED BY <1>1, <1>3, <1>4, <1>5, <1>6

\* The innermost handler goes on, and nothing else on the stack changes.
LEMMA WentOn ==
  ASSUME TypeOK, stack # <<>>,
         NEW where \in {"enter", "loop", "dead", "stop", "leave"},
         NEW p \in Pids \cup {NoPid}, GoesOn(where, p)
  PROVE  /\ stack' \in Seq(Frame) /\ Len(stack) \in Nat \ {0} /\ Len(stack') = Len(stack)
         /\ stack'[1] = [stack[1] EXCEPT !.at = where, !.pid = p]
         /\ stack[1] \in Frame
         /\ \A i \in 2 .. Len(stack) : stack'[i] = stack[i]
<1> DEFINE f == [Head(stack) EXCEPT !.at = where, !.pid = p]
<1>1. /\ Head(stack) \in Frame /\ Head(stack) = stack[1]
      /\ Tail(stack) \in Seq(Frame)
      /\ Len(stack) \in Nat \ {0}
      /\ Len(Tail(stack)) = Len(stack) - 1
      /\ \A i \in 1 .. Len(Tail(stack)) : Tail(stack)[i] = stack[i + 1]
  BY PopFrame DEF TypeOK
<1>2. f \in Frame /\ f = [stack[1] EXCEPT !.at = where, !.pid = p]
  BY <1>1 DEF Frame
<1>3. stack' = <<f>> \o Tail(stack)
  BY DEF GoesOn
<1> HIDE DEF f
<1>4. /\ stack' \in Seq(Frame)
      /\ Len(stack') = Len(Tail(stack)) + 1
      /\ \A i \in 1 .. Len(Tail(stack)) + 1 :
           stack'[i] = IF i = 1 THEN f ELSE Tail(stack)[i - 1]
  BY <1>1, <1>2, <1>3, PushFrame
<1>5. ASSUME NEW i \in 2 .. Len(stack) PROVE stack'[i] = stack[i]
  <2>1. i - 1 \in 1 .. Len(Tail(stack)) /\ (i - 1) + 1 = i /\ i # 1
        /\ i \in 1 .. Len(Tail(stack)) + 1
    BY <1>1
  <2> QED BY <1>1, <1>4, <2>1
<1>6. 1 \in 1 .. Len(Tail(stack)) + 1
  BY <1>1
<1>7. stack'[1] = f
  BY <1>4, <1>6
<1>8. Len(stack') = Len(stack)
  BY <1>1, <1>4
<1> QED BY <1>1, <1>2, <1>4, <1>5, <1>7, <1>8

LEMMA ChldStep == TypeOK /\ ChldInv /\ [Next]_vars => ChldInv'
<1> SUFFICES ASSUME TypeOK, ChldInv, [Next]_vars PROVE ChldInv'
  OBVIOUS
<1>1. ASSUME NEW s \in {"CHLD", "INT", "TSTP"}, NEW where \in {"enter", "loop"},
             Deliver(s, where), where = "loop" => s = "CHLD"
      PROVE  ChldInv'
  <2>1. mask' = mask \cup {s} /\ s \notin mask
    BY <1>1 DEF Deliver
  <2>2. /\ Len(stack) \in Nat /\ Len(stack') = Len(stack) + 1
        /\ stack'[1].sig = s /\ stack'[1].at = where
        /\ "CHLD" \in mask => "CHLD" \in stack'[1].ret
        /\ \A i \in 2 .. Len(stack) + 1 : stack'[i] = stack[i - 1]
    BY <1>1, Pushed DEF Signals
  <2>3. ASSUME NEW i \in 1 .. Len(stack'), stack'[i].sig # "CHLD"
        PROVE  stack'[i].at \in {"enter", "leave"}
    <3>1. CASE i = 1
      BY <1>1, <2>2, <2>3, <3>1
    <3>2. CASE i # 1
      <4>1. i - 1 \in 1 .. Len(stack) /\ stack'[i] = stack[i - 1]
        BY <2>2, <3>2
      <4> QED BY <2>3, <4>1 DEF ChldInv
    <3> QED BY <3>1, <3>2
  <2>4. ASSUME NEW i \in 1 .. Len(stack'), stack'[i].sig = "CHLD"
        PROVE  /\ "CHLD" \in mask'
               /\ stack'[i].at \in {"dead", "stop"} => stack'[i].pid \in Pids
               /\ \A k \in 1 .. i - 1 :
                    stack'[k].sig # "CHLD" /\ "CHLD" \in stack'[k].ret
    <3>1. CASE i = 1
      BY <1>1, <2>1, <2>2, <2>4, <3>1
    <3>2. CASE i # 1
      <4>1. i - 1 \in 1 .. Len(stack) /\ stack'[i] = stack[i - 1]
        BY <2>2, <3>2
      <4>2. /\ "CHLD" \in mask
            /\ stack[i - 1].at \in {"dead", "stop"} => stack[i - 1].pid \in Pids
            /\ \A k \in 1 .. (i - 1) - 1 : stack[k].sig # "CHLD" /\ "CHLD" \in stack[k].ret
        BY <2>4, <4>1 DEF ChldInv
      <4>3. s # "CHLD"
        BY <2>1, <4>2
      <4>4. ASSUME NEW k \in 1 .. i - 1
            PROVE  stack'[k].sig # "CHLD" /\ "CHLD" \in stack'[k].ret
        <5>1. CASE k = 1
          BY <2>2, <4>2, <4>3, <5>1
        <5>2. CASE k # 1
          <6>1. k - 1 \in 1 .. (i - 1) - 1 /\ k \in 2 .. Len(stack) + 1
            BY <2>2, <5>2
          <6> QED BY <2>2, <4>2, <6>1
        <5> QED BY <5>1, <5>2
      <4> QED BY <2>1, <4>1, <4>2, <4>4
    <3> QED BY <3>1, <3>2
  <2> QED BY <2>3, <2>4 DEF ChldInv
<1>2. ASSUME stack # <<>>, NEW where \in {"loop", "dead", "stop", "leave"},
             NEW p \in Pids \cup {NoPid}, GoesOn(where, p), mask' = mask,
             where = "leave" \/ stack[1].sig = "CHLD",
             where \in {"dead", "stop"} => p \in Pids
      PROVE  ChldInv'
  <2>1. /\ Len(stack) \in Nat \ {0} /\ Len(stack') = Len(stack)
        /\ stack'[1] = [stack[1] EXCEPT !.at = where, !.pid = p]
        /\ stack[1] \in Frame
        /\ \A i \in 2 .. Len(stack) : stack'[i] = stack[i]
    BY <1>2, WentOn
  <2>2. /\ stack'[1].sig = stack[1].sig /\ stack'[1].ret = stack[1].ret
        /\ stack'[1].at = where /\ stack'[1].pid = p
    BY <2>1 DEF Frame
  <2>3. ASSUME NEW i \in 1 .. Len(stack)
        PROVE  /\ stack'[i].sig = stack[i].sig
               /\ stack'[i].ret = stack[i].ret
               /\ i # 1 => stack'[i] = stack[i]
    <3>1. CASE i = 1
      BY <2>2, <3>1
    <3>2. CASE i # 1
      <4>1. i \in 2 .. Len(stack)
        BY <2>1, <3>2
      <4> QED BY <2>1, <3>2, <4>1
    <3> QED BY <3>1, <3>2
  <2>4. ASSUME NEW i \in 1 .. Len(stack'), stack'[i].sig # "CHLD"
        PROVE  stack'[i].at \in {"enter", "leave"}
    <3>1. CASE i = 1
      BY <1>2, <2>2, <2>4, <3>1
    <3>2. CASE i # 1
      BY <2>1, <2>3, <2>4, <3>2 DEF ChldInv
    <3> QED BY <3>1, <3>2
  <2>5. ASSUME NEW i \in 1 .. Len(stack'), stack'[i].sig = "CHLD"
        PROVE  /\ "CHLD" \in mask'
               /\ stack'[i].at \in {"dead", "stop"} => stack'[i].pid \in Pids
               /\ \A k \in 1 .. i - 1 :
                    stack'[k].sig # "CHLD" /\ "CHLD" \in stack'[k].ret
    <3>1. i \in 1 .. Len(stack) /\ stack[i].sig = "CHLD"
      BY <2>1, <2>3, <2>5
    <3>2. /\ "CHLD" \in mask
          /\ stack[i].at \in {"dead", "stop"} => stack[i].pid \in Pids
          /\ \A k \in 1 .. i - 1 : stack[k].sig # "CHLD" /\ "CHLD" \in stack[k].ret
      BY <3>1 DEF ChldInv
    <3>3. \A k \in 1 .. i - 1 : k \in 1 .. Len(stack)
      BY <2>1, <3>1
    <3>4. stack'[i].at \in {"dead", "stop"} => stack'[i].pid \in Pids
      <4>1. CASE i = 1
        BY <1>2, <2>2, <4>1
      <4>2. CASE i # 1
        BY <2>3, <3>1, <3>2, <4>2
      <4> QED BY <4>1, <4>2
    <3> QED BY <1>2, <2>3, <3>2, <3>3, <3>4
  <2> QED BY <2>4, <2>5 DEF ChldInv
<1>3. ASSUME stack # <<>>, HandlerReturn
      PROVE  ChldInv'
  <2>1. /\ Head(stack) = stack[1]
        /\ Len(stack) \in Nat \ {0}
        /\ Len(Tail(stack)) = Len(stack) - 1
        /\ \A i \in 1 .. Len(Tail(stack)) : Tail(stack)[i] = stack[i + 1]
    BY <1>3, PopFrame DEF TypeOK
  <2>2. mask' = stack[1].ret /\ stack' = Tail(stack)
    BY <1>3, <2>1 DEF HandlerReturn
  <2>3. ASSUME NEW i \in 1 .. Len(stack')
        PROVE  i + 1 \in 2 .. Len(stack) /\ stack'[i] = stack[i + 1]
    BY <2>1, <2>2
  <2>4. ASSUME NEW i \in 1 .. Len(stack'), stack'[i].sig = "CHLD"
        PROVE  /\ "CHLD" \in mask'
               /\ stack'[i].at \in {"dead", "stop"} => stack'[i].pid \in Pids
               /\ \A k \in 1 .. i - 1 :
                    stack'[k].sig # "CHLD" /\ "CHLD" \in stack'[k].ret
    <3>1. /\ i + 1 \in 1 .. Len(stack)
          /\ stack[i + 1].at \in {"dead", "stop"} => stack[i + 1].pid \in Pids
          /\ \A k \in 1 .. (i + 1) - 1 : stack[k].sig # "CHLD" /\ "CHLD" \in stack[k].ret
      BY <2>1, <2>3, <2>4 DEF ChldInv
    <3>2. 1 \in 1 .. (i + 1) - 1
      BY <2>1, <2>2
    <3>3. ASSUME NEW k \in 1 .. i - 1
          PROVE  k + 1 \in 1 .. (i + 1) - 1 /\ stack'[k] = stack[k + 1]
      BY <2>1, <2>2
    <3> QED BY <2>2, <2>3, <3>1, <3>2, <3>3
  <2>5. ASSUME NEW i \in 1 .. Len(stack'), stack'[i].sig # "CHLD"
        PROVE  stack'[i].at \in {"enter", "leave"}
    BY <2>1, <2>3, <2>5 DEF ChldInv
  <2> QED BY <2>4, <2>5 DEF ChldInv
<1>4. ASSUME UNCHANGED <<stack, mask>> PROVE ChldInv'
  BY <1>4 DEF ChldInv
<1>5. ASSUME stack = <<>>, UNCHANGED stack PROVE ChldInv'
  BY <1>5, EmptySeq DEF ChldInv
<1>6. CASE MainStep
  BY <1>5, <1>6 DEF MainStep, EvalFork, EvalForkFails, AddjobStore, EvalUnblock,
                    WaitfgSuspend, WaitfgResume, WaitfgReturn, MainAt
<1>7. CASE DeliverChld
  BY <1>1, <1>7 DEF DeliverChld
<1>8. CASE SigchldStep \/ SigintStep \/ SigtstpStep
  <2>1. ASSUME stack # <<>> PROVE Head(stack) = stack[1]
    BY <2>1, PopFrame DEF TypeOK
  <2>2. CASE (\E p \in Pids : SigchldWait(p)) \/ SigchldDelete
    BY <1>2, <2>1, <2>2 DEF SigchldWait, SigchldDelete, HandlerAt, shellVars
  <2>3. CASE SigchldStop
    BY <1>2, <1>4, <2>1, <2>3 DEF SigchldStop, HandlerAt
  <2>4. CASE SigintForward \/ SigtstpForward
    BY <1>2, <2>4 DEF SigintForward, SigtstpForward, HandlerAt, shellVars
  <2>5. CASE SigchldReturn \/ \E s \in {"INT", "TSTP"} : KeyboardReturn(s)
    BY <1>3, <2>5 DEF SigchldReturn, KeyboardReturn, HandlerAt
  <2> QED BY <1>8, <2>2, <2>3, <2>4, <2>5 DEF SigchldStep, SigintStep, SigtstpStep
<1>9. CASE UserStep
  <2>1. CASE Quit \/ Sigquit
    BY <1>4, <2>1 DEF Quit, Sigquit
  <2>2. CASE \/ \E s \in {FG, BG} : EvalBlock(s)
             \/ \E cmd \in {FG, BG}, i \in Slots : DoBgfg(cmd, jobs[i].jid)
    BY <1>5, <2>2 DEF EvalBlock, DoBgfg, MainAt
  <2>3. CASE \E s \in {"INT", "TSTP"} : Keyboard(s)
    BY <1>1, <2>3 DEF Keyboard
  <2> QED BY <1>9, <2>1, <2>2, <2>3 DEF UserStep
<1>10. ASSUME NEW p \in Pids, ChildStep(p) PROVE ChldInv'
  BY <1>4, <1>10
     DEF ChildStep, ChildSetpgid, ChildExec, ChildIgnores, ChildInterrupted,
         ChildSuspended, ChildStops, ChildEnds, Becomes, shellVars
<1>11. CASE Gone \/ UNCHANGED vars
  BY <1>4, <1>11 DEF Gone, vars, shellVars
<1> QED BY <1>6, <1>7, <1>8, <1>9, <1>10, <1>11 DEF Next

\* A SIGCHLD handler is active.
Reaping == \E i \in 1 .. Len(stack) : stack[i].sig = "CHLD"

\* What the handlers have in hand, after each kind of step on the stack.
LEMMA PushHandling ==
  ASSUME TypeOK, NEW s \in {"CHLD", "INT", "TSTP"}, NEW where \in {"enter", "loop"},
         Deliver(s, where), NEW p, NEW w \in {"dead", "stop"}
  PROVE  /\ Handling(p, w)' <=> Handling(p, w)
         /\ s = "CHLD" \/ Reaping => Reaping'
<1>1. /\ Len(stack) \in Nat /\ Len(stack') = Len(stack) + 1
      /\ stack'[1].sig = s /\ stack'[1].at = where
      /\ \A i \in 2 .. Len(stack) + 1 : stack'[i] = stack[i - 1]
  BY Pushed
<1>2. ASSUME NEW i \in 1 .. Len(stack)
      PROVE  i + 1 \in 1 .. Len(stack') /\ stack'[i + 1] = stack[i]
  <2>1. i + 1 \in 2 .. Len(stack) + 1 /\ (i + 1) - 1 = i
    BY <1>1
  <2> QED BY <1>1, <2>1
<1>3. ASSUME NEW i \in 1 .. Len(stack'), i # 1
      PROVE  i - 1 \in 1 .. Len(stack) /\ stack'[i] = stack[i - 1]
  BY <1>1, <1>3
<1>4. 1 \in 1 .. Len(stack')
  BY <1>1
<1>5. stack'[1].at # w
  BY <1>1
<1>6. Handling(p, w)' => Handling(p, w)
  BY <1>3, <1>5 DEF Handling
<1>7. Handling(p, w) => Handling(p, w)'
  BY <1>2 DEF Handling
<1>8. s = "CHLD" \/ Reaping => Reaping'
  BY <1>1, <1>2, <1>4 DEF Reaping
<1> QED BY <1>6, <1>7, <1>8

LEMMA TopHandling ==
  ASSUME TypeOK, ChldInv, stack # <<>>, stack[1].sig = "CHLD", NEW p,
         NEW w \in {"dead", "stop"}
  PROVE  /\ Handling(p, w) <=> stack[1].at = w /\ stack[1].pid = p
         /\ Reaping
<1>1. Len(stack) \in Nat \ {0}
  BY PopFrame DEF TypeOK
<1>2. ASSUME NEW i \in 1 .. Len(stack), stack[i].at = w
      PROVE  i = 1
  <2> SUFFICES ASSUME i # 1 PROVE FALSE
    OBVIOUS
  <2>1. stack[i].sig = "CHLD"
    BY <1>2 DEF ChldInv
  <2>2. 1 \in 1 .. i - 1
    BY <1>1
  <2> QED BY <2>1, <2>2 DEF ChldInv
<1>3. 1 \in 1 .. Len(stack)
  BY <1>1
<1> QED BY <1>2, <1>3 DEF Handling, Reaping

LEMMA GoesOnHandling ==
  ASSUME TypeOK, stack # <<>>,
         NEW where \in {"loop", "dead", "stop", "leave"},
         NEW q \in Pids \cup {NoPid}, GoesOn(where, q)
  PROVE  /\ stack' # <<>>
         /\ stack'[1].sig = stack[1].sig /\ stack'[1].at = where /\ stack'[1].pid = q
         /\ Reaping' <=> Reaping
         /\ stack[1].at = "enter" /\ where = "leave" =>
              \A p, w : w \in {"dead", "stop"} => (Handling(p, w)' <=> Handling(p, w))
<1>1. /\ Len(stack) \in Nat \ {0} /\ Len(stack') = Len(stack)
      /\ stack'[1] = [stack[1] EXCEPT !.at = where, !.pid = q]
      /\ stack[1] \in Frame
      /\ \A i \in 2 .. Len(stack) : stack'[i] = stack[i]
  BY WentOn
<1>2. stack'[1].sig = stack[1].sig /\ stack'[1].at = where /\ stack'[1].pid = q
  BY <1>1 DEF Frame
<1>3. stack' # <<>>
  BY GoesOnFrame DEF TypeOK
<1>4. ASSUME NEW i \in 1 .. Len(stack), i # 1
      PROVE  stack'[i] = stack[i]
  <2>1. i \in 2 .. Len(stack)
    BY <1>1, <1>4
  <2> QED BY <1>1, <2>1
<1>5. \A i \in 1 .. Len(stack) : stack'[i].sig = stack[i].sig
  BY <1>2, <1>4
<1>6. Reaping' <=> Reaping
  BY <1>1, <1>5 DEF Reaping
<1>7. ASSUME stack[1].at = "enter", where = "leave",
             NEW p, NEW w, w \in {"dead", "stop"}
      PROVE  Handling(p, w)' <=> Handling(p, w)
  <2>1. stack[1].at # w /\ stack'[1].at # w
    BY <1>2, <1>7
  <2>2. \A i \in 1 .. Len(stack) :
          (stack'[i].at = w /\ stack'[i].pid = p) <=> (stack[i].at = w /\ stack[i].pid = p)
    BY <1>4, <2>1
  <2>3. Len(stack') = Len(stack)
    BY <1>1
  <2> QED BY <2>2, <2>3 DEF Handling
<1> QED BY <1>2, <1>3, <1>6, <1>7

LEMMA ReturnHandling ==
  ASSUME TypeOK, stack # <<>>, HandlerReturn, stack[1].at \in {"loop", "leave"}
  PROVE  /\ \A p, w : w \in {"dead", "stop"} => (Handling(p, w)' <=> Handling(p, w))
         /\ stack[1].sig # "CHLD" /\ Reaping => Reaping'
<1>1. /\ Len(stack) \in Nat \ {0}
      /\ Len(Tail(stack)) = Len(stack) - 1
      /\ \A i \in 1 .. Len(Tail(stack)) : Tail(stack)[i] = stack[i + 1]
  BY PopFrame DEF TypeOK
<1>2. stack' = Tail(stack)
  BY DEF HandlerReturn
<1>3. ASSUME NEW i \in 1 .. Len(stack')
      PROVE  i + 1 \in 1 .. Len(stack) /\ stack'[i] = stack[i + 1]
  BY <1>1, <1>2
<1>4. ASSUME NEW i \in 1 .. Len(stack), i # 1
      PROVE  i - 1 \in 1 .. Len(stack') /\ stack'[i - 1] = stack[i]
  <2>1. i - 1 \in 1 .. Len(Tail(stack)) /\ (i - 1) + 1 = i
    BY <1>1, <1>4
  <2> QED BY <1>1, <1>2, <2>1
<1>5. ASSUME NEW p, NEW w, w \in {"dead", "stop"}
      PROVE  Handling(p, w)' <=> Handling(p, w)
  BY <1>3, <1>4, <1>5 DEF Handling
<1>6. ASSUME stack[1].sig # "CHLD", Reaping PROVE Reaping'
  BY <1>4, <1>6 DEF Reaping
<1> QED BY <1>5, <1>6

LEMMA NoHandling ==
  stack = <<>> => ~Reaping /\ \A p, w : ~Handling(p, w)
  BY EmptySeq DEF Reaping, Handling

-----------------------------------------------------------------------------
(* No notice is lost.                                                      *)

NoticeInv == Waitable # {} => chld \/ Reaping

LEMMA NoticeStep == TypeOK /\ NoticeInv /\ [Next]_vars => NoticeInv'
<1> SUFFICES ASSUME TypeOK, NoticeInv, [Next]_vars PROVE NoticeInv'
  OBVIOUS
<1>1. ASSUME Waitable' \subseteq Waitable, chld => chld', Reaping => Reaping'
      PROVE  NoticeInv'
  BY <1>1 DEF NoticeInv
<1>2. ASSUME UNCHANGED stack PROVE Reaping' <=> Reaping
  BY <1>2 DEF Reaping
<1>3. ASSUME UNCHANGED proc PROVE Waitable' = Waitable
  BY <1>3 DEF Waitable
<1>4. CASE MainStep
  <2>1. ASSUME NEW p \in Pids, EvalFork(p) PROVE NoticeInv'
    <3>1. Waitable' \subseteq Waitable
      BY <2>1 DEF EvalFork, Waitable, TypeOK
    <3> QED BY <1>1, <1>2, <2>1, <3>1 DEF EvalFork
  <2>2. CASE \/ EvalForkFails \/ (\E f \in Fields : AddjobStore(f)) \/ EvalUnblock
             \/ WaitfgSuspend \/ WaitfgResume \/ WaitfgReturn
    BY <1>1, <1>2, <1>3, <2>2
       DEF EvalForkFails, AddjobStore, EvalUnblock, WaitfgSuspend, WaitfgResume,
           WaitfgReturn, childVars
  <2> QED BY <1>4, <2>1, <2>2 DEF MainStep
<1>5. CASE DeliverChld
  <2>1. Reaping'
    BY <1>5, PushHandling DEF DeliverChld
  <2> QED BY <2>1 DEF NoticeInv
<1>6. CASE SigchldStep \/ SigintStep \/ SigtstpStep
  <2>1. ASSUME NEW p \in Pids, SigchldWait(p) PROVE NoticeInv'
    <3>1. Waitable' \subseteq Waitable
      BY <2>1 DEF SigchldWait, Waitable, TypeOK
    <3>2. Reaping' <=> Reaping
      BY <2>1, GoesOnHandling DEF SigchldWait, HandlerAt
    <3> QED BY <1>1, <2>1, <3>1, <3>2 DEF SigchldWait
  <2>2. CASE SigchldDelete \/ SigchldStop \/ SigintForward \/ SigtstpForward
    <3>1. Reaping' <=> Reaping
      BY <1>2, <2>2, GoesOnHandling
         DEF SigchldDelete, SigchldStop, SigintForward, SigtstpForward, HandlerAt
    <3>2. UNCHANGED <<chld, proc>>
      BY <2>2 DEF SigchldDelete, SigchldStop, SigintForward, SigtstpForward, childVars
    <3> QED BY <1>1, <1>3, <3>1, <3>2
  <2>3. CASE SigchldReturn
    <3>1. Waitable' = {}
      BY <1>3, <2>3 DEF SigchldReturn, childVars
    <3> QED BY <3>1 DEF NoticeInv
  <2>4. ASSUME NEW s \in {"INT", "TSTP"}, KeyboardReturn(s) PROVE NoticeInv'
    <3>1. stack # <<>> /\ stack[1].sig # "CHLD" /\ stack[1].at = "leave"
      BY <2>4, PopFrame DEF KeyboardReturn, HandlerAt, TypeOK
    <3>2. Reaping => Reaping'
      BY <2>4, <3>1, ReturnHandling DEF KeyboardReturn
    <3> QED BY <1>1, <1>3, <2>4, <3>2 DEF KeyboardReturn, childVars
  <2> QED BY <1>6, <2>1, <2>2, <2>3, <2>4 DEF SigchldStep, SigintStep, SigtstpStep
<1>7. CASE UserStep
  <2>1. CASE Quit \/ Sigquit \/ \E s \in {FG, BG} : EvalBlock(s)
    BY <1>1, <1>2, <1>3, <2>1 DEF Quit, Sigquit, EvalBlock, childVars
  <2>2. ASSUME NEW cmd \in {FG, BG}, NEW k \in Slots, DoBgfg(cmd, jobs[k].jid)
        PROVE  NoticeInv'
    <3>1. Waitable' \subseteq Waitable /\ (chld => chld')
      BY <2>2 DEF DoBgfg, Continue, Waitable, TypeOK, childVars
    <3> QED BY <1>1, <1>2, <2>2, <3>1 DEF DoBgfg
  <2>3. ASSUME NEW s \in {"INT", "TSTP"}, Keyboard(s) PROVE NoticeInv'
    <3>1. Reaping => Reaping'
      BY <2>3, PushHandling DEF Keyboard
    <3> QED BY <1>1, <1>3, <2>3, <3>1 DEF Keyboard, Deliver, childVars
  <2> QED BY <1>7, <2>1, <2>2, <2>3 DEF UserStep
<1>8. ASSUME NEW p \in Pids, ChildStep(p) PROVE NoticeInv'
  <2>1. CASE ChildSetpgid(p) \/ ChildExec(p)
    <3>1. Waitable' \subseteq Waitable
      BY <2>1 DEF ChildSetpgid, ChildExec, Waitable, TypeOK
    <3> QED BY <1>1, <1>2, <2>1, <3>1 DEF ChildSetpgid, ChildExec
  <2>2. CASE \E s \in {"INT", "TSTP"} : ChildIgnores(p, s)
    BY <1>1, <1>2, <1>3, <2>2 DEF ChildIgnores
  <2>3. CASE ChildInterrupted(p) \/ ChildSuspended(p) \/ ChildStops(p) \/ ChildEnds(p)
    <3>1. chld' = TRUE
      BY <2>3 DEF ChildInterrupted, ChildSuspended, ChildStops, ChildEnds, Becomes
    <3> QED BY <3>1 DEF NoticeInv
  <2> QED BY <1>8, <2>1, <2>2, <2>3 DEF ChildStep
<1>9. CASE Gone \/ UNCHANGED vars
  BY <1>1, <1>2, <1>3, <1>9 DEF Gone, vars, childVars
<1> QED BY <1>4, <1>5, <1>6, <1>7, <1>8, <1>9 DEF Next

\* However many children share one SIGCHLD and whatever interrupts the handler, a
\* child whose end or stop has not been reported has a SIGCHLD coming or a handler
\* that will still ask.
THEOREM NoticesReachTheShell == Spec => []NoNoticeIsLost
<1>1. Init => NoticeInv
  BY DEF Init, NoticeInv, Waitable
<1>2. NoticeInv <=> NoNoticeIsLost
  BY DEF NoticeInv, NoNoticeIsLost, Reaping
<1>3. TypeOK /\ NoNoticeIsLost /\ [Next]_vars => NoNoticeIsLost'
  BY NoticeStep DEF NoticeInv, NoNoticeIsLost, Reaping
<1> QED BY <1>1, <1>2, <1>3, TypeCorrect, PTL DEF Spec

-----------------------------------------------------------------------------
(* The list and the children agree.                                        *)

\* The child eval is adding: forked, and not yet in the list.
Unlisted(p) == main = "addjob" /\ cur = p /\ "pid" \in add.todo

Listed(p) == \E i \in Slots : jobs[i].pid = p

\* A pid has one slot.
SlotsDistinct ==
  \A i, k \in Slots : jobs[i].pid = jobs[k].pid => i = k \/ jobs[i].pid = NoPid

\* What the SIGCHLD handler has in hand is a child it has reaped, or one that is
\* still there; the child eval adds has a slot and has not been waited for.
TrackInv ==
  /\ SlotsDistinct
  /\ \A p \in Pids :
       /\ Listed(p) <=> (proc[p] # "free" /\ ~Unlisted(p)) \/ Handling(p, "dead")
       /\ Handling(p, "dead") => proc[p] = "free"
       /\ Handling(p, "stop") => proc[p] # "free"
  /\ main = "addjob" =>
       cur \in Pids /\ add.slot \in Slots /\ proc[cur] \notin {"free", "held"}
  /\ StopIsRecorded
  /\ NoNullJob

\* With as many slots as processes, addjob finds a free one.
LEMMA RoomForOne ==
  ASSUME IsFiniteSet(Pids), Cardinality(Pids) <= MAXJOBS,
         TypeOK, TrackInv, stack = <<>>, main # "addjob",
         NEW p \in Pids, proc[p] = "free"
  PROVE  FreeSlot(jobs) \in Slots
<1> SUFFICES ASSUME \A i \in Slots : jobs[i].pid # NoPid PROVE FALSE
  BY FreeSlotFact
<1> DEFINE f == [i \in Slots |-> jobs[i].pid]
<1>1. ~Listed(p)
  BY NoHandling DEF TrackInv
<1>2. f \in [Slots -> Pids \ {p}]
  BY <1>1 DEF Listed, TypeOK, Job
<1>3. IsFiniteSet(Pids \ {p}) /\ Cardinality(Pids \ {p}) = Cardinality(Pids) - 1
  BY FS_RemoveElement
<1>4. IsFiniteSet(Slots) /\ Cardinality(Slots) = MAXJOBS
  <2>1. 0 \in Int /\ MAXJOBS - 1 \in Int /\ ~ (0 > MAXJOBS - 1) /\ (MAXJOBS - 1) - 0 + 1 = MAXJOBS
    BY SizeAssumption
  <2> QED BY <2>1, FS_Interval DEF Slots
<1>5. Cardinality(Pids) \in Nat /\ MAXJOBS \in Nat
  BY FS_CardinalityType, SizeAssumption
<1>6. Cardinality(Pids \ {p}) < Cardinality(Slots)
  BY <1>3, <1>4, <1>5
<1>7. PICK i, k \in Slots : i # k /\ f[i] = f[k]
  <2> HIDE DEF f
  <2> QED BY <1>2, <1>3, <1>4, <1>6, FS_PigeonHole
<1>8. jobs[i].pid = jobs[k].pid
  BY <1>7
<1> QED BY <1>7, <1>8 DEF TrackInv, SlotsDistinct

\* A step that lists no other pids, takes no stop out of the list, creates and
\* reaps no process, reports no stop, and leaves what the handlers have in hand.
LEMMA SameTrack ==
  ASSUME TrackInv,
         \A i \in Slots : /\ jobs'[i].pid = jobs[i].pid
                          /\ jobs[i].state = ST => jobs'[i].state = ST,
         \A p, w : w \in {"dead", "stop"} => (Handling(p, w)' <=> Handling(p, w)),
         \A p \in Pids : /\ proc'[p] = "free" <=> proc[p] = "free"
                         /\ proc'[p] = "held" => proc[p] = "held",
         \A p \in Pids : Unlisted(p)' <=> Unlisted(p),
         main' = "addjob" =>
           main = "addjob" /\ cur' = cur /\ add'.slot = add.slot,
         shell' # "crashed"
  PROVE  TrackInv'
<1>1. SlotsDistinct'
  BY DEF TrackInv, SlotsDistinct
<1>2. ASSUME NEW p \in Pids
      PROVE  /\ Listed(p)' <=> (proc'[p] # "free" /\ ~Unlisted(p)') \/ Handling(p, "dead")'
             /\ Handling(p, "dead")' => proc'[p] = "free"
             /\ Handling(p, "stop")' => proc'[p] # "free"
  <2>1. Listed(p)' <=> Listed(p)
    BY DEF Listed
  <2>2. /\ Handling(p, "dead")' <=> Handling(p, "dead")
        /\ Handling(p, "stop")' <=> Handling(p, "stop")
        /\ Unlisted(p)' <=> Unlisted(p)
    OBVIOUS
  <2>3. /\ Listed(p) <=> (proc[p] # "free" /\ ~Unlisted(p)) \/ Handling(p, "dead")
        /\ Handling(p, "dead") => proc[p] = "free"
        /\ Handling(p, "stop") => proc[p] # "free"
    BY DEF TrackInv
  <2>4. proc'[p] = "free" <=> proc[p] = "free"
    OBVIOUS
  <2> QED BY <2>1, <2>2, <2>3, <2>4
<1>3. main' = "addjob" =>
        cur' \in Pids /\ add'.slot \in Slots /\ proc'[cur'] \notin {"free", "held"}
  BY DEF TrackInv
<1>4. ASSUME NEW p \in Pids, proc'[p] = "held"
      PROVE  Handling(p, "stop")' \/ \E i \in Slots : jobs'[i].pid = p /\ jobs'[i].state = ST
  <2>1. Handling(p, "stop") \/ \E i \in Slots : jobs[i].pid = p /\ jobs[i].state = ST
    BY <1>4 DEF TrackInv, StopIsRecorded
  <2>2. Handling(p, "stop")' <=> Handling(p, "stop")
    OBVIOUS
  <2> QED BY <2>1, <2>2
<1> QED BY <1>1, <1>2, <1>3, <1>4 DEF TrackInv, StopIsRecorded, NoNullJob

\* fork: the child is there, and addjob has a slot for it but has stored nothing.
LEMMA ForkTrack ==
  ASSUME IsFiniteSet(Pids), Cardinality(Pids) <= MAXJOBS, TypeOK, TrackInv,
         NEW p \in Pids, EvalFork(p)
  PROVE  TrackInv'
<1>1. /\ stack = <<>> /\ stack' = stack /\ main = "fork" /\ main' = "addjob"
      /\ proc[p] = "free" /\ jobs' = jobs /\ cur' = p /\ shell' = shell
      /\ shell = "running"
  BY DEF EvalFork, MainAt, Alive
<1>2. \A q \in Pids : proc'[q] = IF q = p THEN "forked" ELSE proc[q]
  BY DEF EvalFork, TypeOK
<1>3. FreeSlot(jobs) \in Slots
  BY <1>1, RoomForOne
<1>4. add'.slot \in Slots /\ add'.todo = Fields
  BY <1>3, NoSlotFact DEF EvalFork, TypeOK, Adding
<1>5. \A q, w : ~Handling(q, w) /\ ~Handling(q, w)'
  BY <1>1, NoHandling DEF Handling
<1>6. ASSUME NEW q \in Pids
      PROVE  Listed(q)' <=> (proc'[q] # "free" /\ ~Unlisted(q)')
  <2>1. Listed(q)' <=> Listed(q)
    BY <1>1 DEF Listed
  <2>2. Unlisted(q)' <=> q = p
    BY <1>1, <1>4 DEF Unlisted, Fields
  <2>3. Listed(q) <=> proc[q] # "free"
    BY <1>1, <1>5 DEF TrackInv, Unlisted
  <2> QED BY <1>1, <1>2, <2>1, <2>2, <2>3
<1>7. StopIsRecorded'
  BY <1>1, <1>2, <1>5 DEF TrackInv, StopIsRecorded
<1>8. SlotsDistinct' /\ NoNullJob'
  BY <1>1 DEF TrackInv, SlotsDistinct, NoNullJob
<1> QED BY <1>1, <1>2, <1>4, <1>5, <1>6, <1>7, <1>8 DEF TrackInv

\* A store of addjob: with the pid the child is listed.
LEMMA StoreTrack ==
  ASSUME TypeOK, AddInv, TrackInv, NEW f \in Fields, AddjobStore(f)
  PROVE  TrackInv'
<1>1. /\ stack = <<>> /\ stack' = stack /\ main = "addjob" /\ main' = "addjob"
      /\ cur' = cur /\ proc' = proc /\ shell' = shell
      /\ add'.slot = add.slot /\ add'.todo = add.todo \ {f} /\ f \in add.todo
  BY DEF AddjobStore, MainAt, childVars, TypeOK, Adding
<1>2. /\ cur \in Pids /\ add.slot \in Slots /\ proc[cur] \notin {"free", "held"}
      /\ jobs[add.slot].pid = IF "pid" \in add.todo THEN NoPid ELSE cur
  BY <1>1 DEF TrackInv, AddInv
<1>3. \A i \in Slots : i # add.slot => jobs'[i] = jobs[i]
  BY <1>2 DEF AddjobStore, TypeOK, Fields
<1>4. jobs'[add.slot].pid = IF f = "pid" THEN cur ELSE jobs[add.slot].pid
  <2>1. CASE f = "pid"
    BY <1>2, <2>1 DEF AddjobStore, TypeOK, Job
  <2>2. CASE f = "state"
    BY <1>2, <2>2 DEF AddjobStore, TypeOK, Job
  <2>3. CASE f = "jid"
    BY <1>2, <2>3 DEF AddjobStore, TypeOK, Job
  <2> QED BY <2>1, <2>2, <2>3 DEF Fields
<1>5. \A q, w : ~Handling(q, w) /\ ~Handling(q, w)'
  BY <1>1, NoHandling DEF Handling
<1>6. cur # NoPid
  BY <1>2, PidAssumption
<1>7. ASSUME NEW q \in Pids, q # cur
      PROVE  \A i \in Slots : jobs[i].pid = q => i # add.slot /\ jobs'[i] = jobs[i]
  BY <1>2, <1>3, <1>7, PidAssumption
<1>8. "pid" \in add.todo => \A i \in Slots : jobs[i].pid # cur
  BY <1>1, <1>2, <1>5 DEF TrackInv, Listed, Unlisted
<1>9. SlotsDistinct'
  <2>1. CASE f = "pid"
    BY <1>1, <1>3, <1>4, <1>8, <2>1 DEF TrackInv, SlotsDistinct
  <2>2. CASE f # "pid"
    <3>1. \A i \in Slots : jobs'[i].pid = jobs[i].pid
      BY <1>3, <1>4, <2>2
    <3> QED BY <3>1 DEF TrackInv, SlotsDistinct
  <2> QED BY <2>1, <2>2
<1>10. ASSUME NEW q \in Pids
       PROVE  Listed(q)' <=> (proc'[q] # "free" /\ ~Unlisted(q)')
  <2>1. Listed(q) <=> (proc[q] # "free" /\ ~Unlisted(q))
    BY <1>5 DEF TrackInv
  <2>2. CASE q = cur
    <3>1. Unlisted(q)' <=> "pid" \in add.todo /\ f # "pid"
      BY <1>1, <2>2 DEF Unlisted
    <3>2. CASE f = "pid"
      BY <1>1, <1>2, <1>4, <2>2, <3>1, <3>2 DEF Listed
    <3>3. CASE f # "pid"
      <4>1. \A i \in Slots : jobs'[i].pid = jobs[i].pid
        BY <1>3, <1>4, <3>3
      <4> QED BY <1>1, <2>1, <2>2, <3>1, <3>3, <4>1 DEF Listed, Unlisted
    <3> QED BY <3>2, <3>3
  <2>3. CASE q # cur
    <3>1. ~Unlisted(q) /\ ~Unlisted(q)'
      BY <1>1, <2>3 DEF Unlisted
    <3>2. Listed(q)' <=> Listed(q)
      <4>1. jobs'[add.slot].pid # q /\ jobs[add.slot].pid # q
        BY <1>2, <1>4, <2>3, PidAssumption
      <4> QED BY <1>3, <4>1 DEF Listed
    <3> QED BY <1>1, <2>1, <3>1, <3>2
  <2> QED BY <2>2, <2>3
<1>11. StopIsRecorded'
  <2>1. ASSUME NEW q \in Pids, proc'[q] = "held"
        PROVE  \E i \in Slots : jobs'[i].pid = q /\ jobs'[i].state = ST
    <3>1. PICK i \in Slots : jobs[i].pid = q /\ jobs[i].state = ST
      BY <1>1, <1>5, <2>1 DEF TrackInv, StopIsRecorded
    <3>2. q # cur
      BY <1>1, <1>2, <2>1
    <3> QED BY <1>7, <3>1, <3>2
  <2> QED BY <2>1 DEF StopIsRecorded
<1>12. NoNullJob'
  BY <1>1 DEF TrackInv, NoNullJob
<1> QED BY <1>1, <1>2, <1>5, <1>9, <1>10, <1>11, <1>12 DEF TrackInv

\* The main flow is not in addjob while a SIGCHLD handler is active.
LEMMA ChldHandler ==
  ASSUME TypeOK, MaskInv, NEW where, HandlerAt("CHLD", where)
  PROVE  /\ stack # <<>> /\ stack[1] = Head(stack) /\ stack[1] \in Frame
         /\ stack[1].sig = "CHLD" /\ stack[1].at = where
         /\ main \notin {"fork", "addjob"}
         /\ shell = "running"
<1>1. /\ stack # <<>> /\ stack[1] = Head(stack) /\ stack[1] \in Frame
      /\ stack[1].sig = "CHLD" /\ stack[1].at = where /\ Len(stack) \in Nat \ {0}
  BY PopFrame DEF HandlerAt, TypeOK
<1>2. 1 \in 1 .. Len(stack)
  BY <1>1
<1>3. main \notin {"fork", "addjob"}
  BY <1>1, <1>2 DEF MaskInv
<1> QED BY <1>1, <1>3 DEF HandlerAt, Alive

\* waitpid: what it reports is in the handler's hands.
LEMMA WaitTrack ==
  ASSUME TypeOK, MaskInv, ChldInv, ChldInv', TypeOK', TrackInv,
         NEW p \in Pids, SigchldWait(p)
  PROVE  TrackInv'
<1> DEFINE where == IF proc[p] = "zombie" THEN "dead" ELSE "stop"
<1>1. /\ stack # <<>> /\ stack[1].sig = "CHLD" /\ stack[1].at = "loop"
      /\ main \notin {"fork", "addjob"} /\ shell = "running"
  BY ChldHandler DEF SigchldWait
<1>2. /\ stack' # <<>> /\ stack'[1].sig = "CHLD"
      /\ stack'[1].at = where /\ stack'[1].pid = p
  BY <1>1, GoesOnHandling DEF SigchldWait
<1>3. ASSUME NEW q, NEW w \in {"dead", "stop"}
      PROVE  /\ ~Handling(q, w)
             /\ Handling(q, w)' <=> w = where /\ q = p
  <2>1. ~Handling(q, w)
    BY <1>1, TopHandling
  <2>2. stack \in Seq(Frame) /\ stack' \in Seq(Frame)
    BY DEF TypeOK
  <2>3. Handling(q, w)' <=> stack'[1].at = w /\ stack'[1].pid = q
    <3>1. /\ Len(stack') \in Nat \ {0}
      BY <1>2, <2>2, PopFrame
    <3>2. ASSUME NEW i \in 1 .. Len(stack'), stack'[i].at = w
          PROVE  i = 1
      <4> SUFFICES ASSUME i # 1 PROVE FALSE
        OBVIOUS
      <4>1. stack'[i].sig = "CHLD"
        BY <3>2 DEF ChldInv
      <4>2. 1 \in 1 .. i - 1
        BY <3>1
      <4> QED BY <1>2, <4>1, <4>2 DEF ChldInv
    <3>3. 1 \in 1 .. Len(stack')
      BY <3>1
    <3> QED BY <3>2, <3>3 DEF Handling
  <2> QED BY <1>2, <2>1, <2>3
<1>4. /\ proc[p] \in {"zombie", "stopped"}
      /\ \A q \in Pids : proc'[q] = IF q # p THEN proc[q]
                                    ELSE IF proc[p] = "zombie" THEN "free" ELSE "held"
      /\ jobs' = jobs /\ main' = main /\ shell' = shell /\ cur' = cur
  BY DEF SigchldWait, Waitable, TypeOK, shellVars
<1>5. ASSUME NEW q \in Pids
      PROVE  /\ Listed(q)' <=> (proc'[q] # "free" /\ ~Unlisted(q)') \/ Handling(q, "dead")'
             /\ Handling(q, "dead")' => proc'[q] = "free"
             /\ Handling(q, "stop")' => proc'[q] # "free"
  <2>1. Listed(q)' <=> Listed(q)
    BY <1>4 DEF Listed
  <2>2. ~Unlisted(q) /\ ~Unlisted(q)'
    BY <1>1, <1>4 DEF Unlisted
  <2>3. Listed(q) <=> proc[q] # "free"
    BY <1>3, <2>2 DEF TrackInv
  <2>4. CASE q = p
    BY <1>3, <1>4, <2>1, <2>2, <2>3, <2>4
  <2>5. CASE q # p
    BY <1>3, <1>4, <2>1, <2>2, <2>3, <2>5
  <2> QED BY <2>4, <2>5
<1>6. StopIsRecorded'
  <2>1. ASSUME NEW q \in Pids, proc'[q] = "held"
        PROVE  Handling(q, "stop")' \/ \E i \in Slots : jobs'[i].pid = q /\ jobs'[i].state = ST
    <3>1. CASE q = p
      BY <1>3, <1>4, <2>1, <3>1
    <3>2. CASE q # p
      BY <1>3, <1>4, <2>1, <3>2 DEF TrackInv, StopIsRecorded
    <3> QED BY <3>1, <3>2
  <2> QED BY <2>1 DEF StopIsRecorded
<1>7. SlotsDistinct' /\ NoNullJob'
  BY <1>4 DEF TrackInv, SlotsDistinct, NoNullJob
<1> QED BY <1>1, <1>4, <1>5, <1>6, <1>7 DEF TrackInv

\* The handler has deleted the job of a child, or marked it stopped, and has
\* nothing in hand any more.
LEMMA HandsEmpty ==
  ASSUME TypeOK, TypeOK', ChldInv', stack # <<>>, stack[1].sig = "CHLD",
         GoesOn("loop", NoPid)
  PROVE  \A q, w : w \in {"dead", "stop"} => ~Handling(q, w)'
<1>1. stack' # <<>> /\ stack'[1].sig = "CHLD" /\ stack'[1].at = "loop"
  BY GoesOnHandling
<1>2. Len(stack') \in Nat \ {0}
  BY <1>1, PopFrame DEF TypeOK
<1>3. ASSUME NEW w \in {"dead", "stop"}, NEW i \in 1 .. Len(stack'), stack'[i].at = w
      PROVE  FALSE
  <2>1. i # 1
    BY <1>1, <1>3
  <2>2. stack'[i].sig = "CHLD"
    BY <1>3 DEF ChldInv
  <2>3. 1 \in 1 .. i - 1
    BY <1>2, <2>1
  <2> QED BY <1>1, <2>2, <2>3 DEF ChldInv
<1> QED BY <1>3 DEF Handling

LEMMA DeleteTrack ==
  ASSUME TypeOK, TypeOK', MaskInv, ChldInv, ChldInv', TrackInv, SigchldDelete
  PROVE  TrackInv'
<1> DEFINE p == stack[1].pid
           i == getjobpid(jobs, p)
<1>1. /\ stack # <<>> /\ stack[1] = Head(stack) /\ stack[1].sig = "CHLD"
      /\ stack[1].at = "dead" /\ main \notin {"fork", "addjob"} /\ shell = "running"
  BY ChldHandler DEF SigchldDelete
<1>2. p \in Pids
  <2>1. 1 \in 1 .. Len(stack)
    BY <1>1, PopFrame DEF TypeOK
  <2> QED BY <1>1, <2>1 DEF ChldInv
<1>3. \A q, w : w \in {"dead", "stop"} =>
        /\ Handling(q, w) <=> w = "dead" /\ q = p
        /\ ~Handling(q, w)'
  BY <1>1, TopHandling, HandsEmpty DEF SigchldDelete
<1>4. /\ proc' = proc /\ main' = main /\ shell' = shell
      /\ jobs' = deletejob(jobs, p)
  BY <1>1 DEF SigchldDelete, childVars
<1>5. proc[p] = "free" /\ Listed(p)
  BY <1>2, <1>3 DEF TrackInv
<1>6. i \in Slots /\ jobs[i].pid = p
  BY <1>2, <1>5, GetJobPid, PidAssumption DEF Listed
<1>7. \A k \in Slots : jobs'[k] = IF k = i THEN clearjob ELSE jobs[k]
  BY <1>4, DeleteJob DEF TypeOK
<1>8. \A k \in Slots : jobs[k].pid = p => k = i
  BY <1>2, <1>6, PidAssumption DEF TrackInv, SlotsDistinct
<1>9. \A k \in Slots : /\ jobs'[k].pid = IF k = i THEN NoPid ELSE jobs[k].pid
                       /\ jobs[k].pid # p => jobs'[k] = jobs[k]
  BY <1>6, <1>7 DEF clearjob
<1> HIDE DEF i, p
<1>10. SlotsDistinct'
  BY <1>9 DEF TrackInv, SlotsDistinct
<1>11. ASSUME NEW q \in Pids
       PROVE  Listed(q)' <=> proc'[q] # "free" /\ ~Unlisted(q)'
  <2>1. ~Unlisted(q) /\ ~Unlisted(q)'
    BY <1>1, <1>4 DEF Unlisted
  <2>2. CASE q = p
    <3>1. ~Listed(q)'
      BY <1>2, <1>8, <1>9, <2>2, PidAssumption DEF Listed
    <3> QED BY <1>4, <1>5, <2>2, <3>1
  <2>3. CASE q # p
    <3>1. Listed(q)' <=> Listed(q)
      BY <1>6, <1>9, <2>3, PidAssumption DEF Listed
    <3>2. Listed(q) <=> proc[q] # "free"
      BY <1>3, <2>1, <2>3 DEF TrackInv
    <3> QED BY <1>4, <2>1, <3>1, <3>2
  <2> QED BY <2>2, <2>3
<1>12. StopIsRecorded'
  <2>1. ASSUME NEW q \in Pids, proc'[q] = "held"
        PROVE  \E k \in Slots : jobs'[k].pid = q /\ jobs'[k].state = ST
    <3>1. PICK k \in Slots : jobs[k].pid = q /\ jobs[k].state = ST
      BY <1>3, <1>4, <2>1 DEF TrackInv, StopIsRecorded
    <3>2. q # p
      BY <1>4, <1>5, <2>1
    <3> QED BY <1>9, <3>1, <3>2
  <2> QED BY <2>1 DEF StopIsRecorded
<1> QED BY <1>1, <1>3, <1>4, <1>10, <1>11, <1>12 DEF TrackInv, NoNullJob

LEMMA StopTrack ==
  ASSUME TypeOK, TypeOK', MaskInv, ChldInv, ChldInv', TrackInv, SigchldStop
  PROVE  TrackInv'
<1> DEFINE p == stack[1].pid
           i == getjobpid(jobs, p)
<1>1. /\ stack # <<>> /\ stack[1] = Head(stack) /\ stack[1].sig = "CHLD"
      /\ stack[1].at = "stop" /\ main \notin {"fork", "addjob"} /\ shell = "running"
  BY ChldHandler DEF SigchldStop
<1>2. p \in Pids
  <2>1. 1 \in 1 .. Len(stack)
    BY <1>1, PopFrame DEF TypeOK
  <2> QED BY <1>1, <2>1 DEF ChldInv
<1>3. \A q, w : w \in {"dead", "stop"} => (Handling(q, w) <=> w = "stop" /\ q = p)
  BY <1>1, TopHandling
<1>4. proc[p] # "free" /\ Listed(p)
  BY <1>1, <1>2, <1>3 DEF TrackInv, Unlisted
<1>5. i \in Slots /\ jobs[i].pid = p
  BY <1>2, <1>4, GetJobPid, PidAssumption DEF Listed
<1>6. /\ jobs' = [jobs EXCEPT ![i].state = ST] /\ GoesOn("loop", NoPid)
      /\ shell' = shell /\ main' = main /\ proc' = proc
  BY <1>1, <1>5, NoSlotFact DEF SigchldStop, childVars
<1>7. \A q, w : w \in {"dead", "stop"} => ~Handling(q, w)'
  BY <1>1, <1>6, HandsEmpty
<1>8. \A k \in Slots : /\ jobs'[k].pid = jobs[k].pid
                       /\ jobs'[k].state = IF k = i THEN ST ELSE jobs[k].state
  BY <1>5, <1>6 DEF TypeOK, Job
<1> HIDE DEF i, p
<1>9. SlotsDistinct'
  BY <1>8 DEF TrackInv, SlotsDistinct
<1>10. ASSUME NEW q \in Pids
       PROVE  Listed(q)' <=> proc'[q] # "free" /\ ~Unlisted(q)'
  <2>1. ~Unlisted(q) /\ ~Unlisted(q)'
    BY <1>1, <1>6 DEF Unlisted
  <2>2. Listed(q)' <=> Listed(q)
    BY <1>8 DEF Listed
  <2> QED BY <1>3, <1>6, <2>1, <2>2 DEF TrackInv
<1>11. StopIsRecorded'
  <2>1. ASSUME NEW q \in Pids, proc'[q] = "held"
        PROVE  \E k \in Slots : jobs'[k].pid = q /\ jobs'[k].state = ST
    <3>1. CASE q = p
      BY <1>5, <1>8, <3>1
    <3>2. CASE q # p
      <4>1. \E k \in Slots : jobs[k].pid = q /\ jobs[k].state = ST
        BY <1>3, <1>6, <2>1, <3>2 DEF TrackInv, StopIsRecorded
      <4> QED BY <1>8, <4>1
    <3> QED BY <3>1, <3>2
  <2> QED BY <2>1 DEF StopIsRecorded
<1> QED BY <1>1, <1>6, <1>7, <1>9, <1>10, <1>11 DEF TrackInv, NoNullJob

\* fg and bg: the job they take out of "ST" is continued.
LEMMA BgfgTrack ==
  ASSUME TypeOK, TrackInv, NEW cmd \in {FG, BG}, NEW n \in Slots,
         DoBgfg(cmd, jobs[n].jid)
  PROVE  TrackInv'
<1> DEFINE i == getjobjid(jobs, jobs[n].jid)
<1>1. /\ stack = <<>> /\ stack' = stack /\ main = "prompt" /\ main' # "addjob"
      /\ shell = "running" /\ shell' = shell /\ i \in Slots
      /\ jobs' = [jobs EXCEPT ![i].state = cmd]
  BY GetJobJid DEF DoBgfg, MainAt, Alive
<1>2. \A k \in Slots : /\ jobs'[k].pid = jobs[k].pid
                       /\ k # i => jobs'[k] = jobs[k]
  BY <1>1 DEF TypeOK, Job
<1>3. \A q \in Pids : /\ proc'[q] = "free" <=> proc[q] = "free"
                      /\ proc'[q] = "held" => proc[q] = "held"
                      /\ jobs[i].state = ST /\ jobs[i].pid = q => proc'[q] # "held"
  <2>1. CASE jobs[i].state = ST
    BY <2>1 DEF DoBgfg, Continue, TypeOK
  <2>2. CASE jobs[i].state # ST
    BY <2>2 DEF DoBgfg, childVars
  <2> QED BY <2>1, <2>2
<1>4. \A q, w : ~Handling(q, w) /\ ~Handling(q, w)'
  BY <1>1, NoHandling DEF Handling
<1> HIDE DEF i
<1>5. SlotsDistinct'
  BY <1>2 DEF TrackInv, SlotsDistinct
<1>6. ASSUME NEW q \in Pids
      PROVE  Listed(q)' <=> proc'[q] # "free" /\ ~Unlisted(q)'
  <2>1. ~Unlisted(q) /\ ~Unlisted(q)'
    BY <1>1 DEF Unlisted
  <2>2. Listed(q)' <=> Listed(q)
    BY <1>2 DEF Listed
  <2> QED BY <1>3, <1>4, <2>1, <2>2 DEF TrackInv
<1>7. StopIsRecorded'
  <2>1. ASSUME NEW q \in Pids, proc'[q] = "held"
        PROVE  \E k \in Slots : jobs'[k].pid = q /\ jobs'[k].state = ST
    <3>1. PICK k \in Slots : jobs[k].pid = q /\ jobs[k].state = ST
      BY <1>3, <1>4, <2>1 DEF TrackInv, StopIsRecorded
    <3>2. k # i
      BY <1>3, <2>1, <3>1
    <3> QED BY <1>2, <3>1, <3>2
  <2> QED BY <2>1 DEF StopIsRecorded
<1> QED BY <1>1, <1>4, <1>5, <1>6, <1>7 DEF TrackInv, NoNullJob

\* The inductive invariant.
AgreeInv == TypeOK /\ MaskInv /\ AddInv /\ ChldInv /\ TrackInv

LEMMA TrackStep ==
  ASSUME IsFiniteSet(Pids), Cardinality(Pids) <= MAXJOBS, AgreeInv, TypeOK', ChldInv',
         [Next]_vars
  PROVE  TrackInv'
<1>0. TypeOK /\ MaskInv /\ AddInv /\ ChldInv /\ TrackInv
  BY DEF AgreeInv
<1>1. ASSUME UNCHANGED <<jobs, proc, shell>>,
             \A p, w : w \in {"dead", "stop"} => (Handling(p, w)' <=> Handling(p, w)),
             UNCHANGED <<cur, add>>, main' = "addjob" <=> main = "addjob"
      PROVE  TrackInv'
  BY <1>0, <1>1, SameTrack DEF Unlisted, TrackInv, NoNullJob
<1>2. ASSUME UNCHANGED stack
      PROVE  \A p, w : w \in {"dead", "stop"} => (Handling(p, w)' <=> Handling(p, w))
  BY <1>2 DEF Handling
<1>3. CASE MainStep
  <2>1. CASE \E p \in Pids : EvalFork(p)
    BY <1>0, <2>1, ForkTrack
  <2>2. CASE \E f \in Fields : AddjobStore(f)
    BY <1>0, <2>2, StoreTrack
  <2>3. CASE EvalForkFails \/ EvalUnblock
    <3>1. \A p \in Pids : ~Unlisted(p) /\ ~Unlisted(p)'
      BY <2>3 DEF EvalForkFails, EvalUnblock, MainAt, Unlisted
    <3>2. main' # "addjob" /\ shell' # "crashed" /\ UNCHANGED <<jobs, proc, stack>>
      BY <2>3 DEF EvalForkFails, EvalUnblock, MainAt, Alive, childVars
    <3> QED BY <1>0, <1>2, <3>1, <3>2, SameTrack
  <2>4. CASE WaitfgSuspend \/ WaitfgResume \/ WaitfgReturn
    <3>1. \A p \in Pids : ~Unlisted(p) /\ ~Unlisted(p)'
      BY <2>4 DEF WaitfgSuspend, WaitfgResume, WaitfgReturn, MainAt, Unlisted
    <3>2. main' # "addjob" /\ shell' # "crashed" /\ UNCHANGED <<jobs, proc, stack>>
      BY <2>4 DEF WaitfgSuspend, WaitfgResume, WaitfgReturn, MainAt, Alive, childVars
    <3> QED BY <1>0, <1>2, <3>1, <3>2, SameTrack
  <2> QED BY <1>3, <2>1, <2>2, <2>3, <2>4 DEF MainStep
<1>4. ASSUME NEW s \in {"CHLD", "INT", "TSTP"}, NEW where \in {"enter", "loop"},
             Deliver(s, where)
      PROVE  TrackInv'
  <2>1. \A p, w : w \in {"dead", "stop"} => (Handling(p, w)' <=> Handling(p, w))
    BY <1>0, <1>4, PushHandling
  <2> QED BY <1>1, <1>4, <2>1 DEF Deliver, childVars
<1>5. CASE SigchldStep \/ SigintStep \/ SigtstpStep
  <2>1. CASE \E p \in Pids : SigchldWait(p)
    BY <1>0, <2>1, WaitTrack
  <2>2. CASE SigchldDelete \/ SigchldStop
    BY <1>0, <2>2, DeleteTrack, StopTrack
  <2>3. CASE SigintForward \/ SigtstpForward
    <3>1. stack # <<>> /\ stack[1].at = "enter" /\ GoesOn("leave", NoPid)
      BY <1>0, <2>3, PopFrame DEF SigintForward, SigtstpForward, HandlerAt, TypeOK
    <3>2. \A p, w : w \in {"dead", "stop"} => (Handling(p, w)' <=> Handling(p, w))
      BY <1>0, <3>1, GoesOnHandling
    <3>3. \A i \in Slots : /\ jobs'[i].pid = jobs[i].pid
                           /\ jobs[i].state = ST => jobs'[i].state = ST
      <4>1. jobs' = jobs \/ \E k : jobs' = [jobs EXCEPT ![k].state = ST]
        BY <2>3 DEF SigintForward, SigtstpForward, shellVars
      <4>2. jobs \in [Slots -> Job]
        BY <1>0 DEF TypeOK
      <4>3. CASE jobs' = jobs
        BY <4>3
      <4>4. ASSUME NEW k, jobs' = [jobs EXCEPT ![k].state = ST], NEW i \in Slots
            PROVE  /\ jobs'[i].pid = jobs[i].pid
                   /\ jobs[i].state = ST => jobs'[i].state = ST
        <5>1. jobs'[i] = IF i = k THEN [jobs[i] EXCEPT !.state = ST] ELSE jobs[i]
          BY <4>2, <4>4
        <5>2. jobs[i] \in Job
          BY <4>2
        <5> QED BY <5>1, <5>2 DEF Job
      <4> QED BY <4>1, <4>3, <4>4
    <3>4. UNCHANGED <<main, cur, add, proc>> /\ shell' # "crashed"
      BY <2>3 DEF SigintForward, SigtstpForward, HandlerAt, Alive, shellVars
    <3> QED BY <1>0, <3>2, <3>3, <3>4, SameTrack DEF Unlisted
  <2>4. CASE SigchldReturn \/ \E s \in {"INT", "TSTP"} : KeyboardReturn(s)
    <3>1. stack # <<>> /\ stack[1].at \in {"loop", "leave"} /\ HandlerReturn
      BY <1>0, <2>4, PopFrame DEF SigchldReturn, KeyboardReturn, HandlerAt, TypeOK
    <3>2. \A p, w : w \in {"dead", "stop"} => (Handling(p, w)' <=> Handling(p, w))
      BY <1>0, <3>1, ReturnHandling
    <3> QED BY <1>1, <2>4, <3>1, <3>2
            DEF SigchldReturn, KeyboardReturn, HandlerReturn, childVars
  <2> QED BY <1>5, <2>1, <2>2, <2>3, <2>4 DEF SigchldStep, SigintStep, SigtstpStep
<1>6. CASE DeliverChld
  BY <1>4, <1>6 DEF DeliverChld
<1>7. CASE UserStep
  <2>1. CASE \/ Quit \/ Sigquit \/ \E s \in {FG, BG} : EvalBlock(s)
    <3>1. CASE main = "addjob"
      <4>1. Sigquit
        BY <2>1, <3>1 DEF Quit, EvalBlock, MainAt
      <4> QED BY <1>0, <1>2, <4>1, SameTrack DEF Sigquit, childVars, Unlisted
    <3>2. CASE main # "addjob"
      <4>1. main' # "addjob" /\ shell' # "crashed" /\ UNCHANGED <<jobs, proc, stack>>
        BY <2>1, <3>2 DEF Quit, Sigquit, EvalBlock, MainAt, Alive, childVars
      <4> QED BY <1>0, <1>2, <3>2, <4>1, SameTrack DEF Unlisted
    <3> QED BY <3>1, <3>2
  <2>2. CASE \E cmd \in {FG, BG}, i \in Slots : DoBgfg(cmd, jobs[i].jid)
    BY <1>0, <2>2, BgfgTrack
  <2>3. CASE \E s \in {"INT", "TSTP"} : Keyboard(s)
    BY <1>4, <2>3 DEF Keyboard
  <2> QED BY <1>7, <2>1, <2>2, <2>3 DEF UserStep
<1>8. ASSUME NEW p \in Pids, ChildStep(p) PROVE TrackInv'
  <2>1. UNCHANGED <<shellVars, stack>> /\ shell = "running"
    BY <1>8 DEF ChildStep, ChildSetpgid, ChildExec, ChildIgnores, ChildInterrupted,
                ChildSuspended, ChildStops, ChildEnds, Becomes, Child, Alive
  <2>2. \A q \in Pids : /\ proc'[q] = "free" <=> proc[q] = "free"
                        /\ proc'[q] = "held" => proc[q] = "held"
    BY <1>0, <1>8
       DEF ChildStep, ChildSetpgid, ChildExec, ChildIgnores, ChildInterrupted,
           ChildSuspended, ChildStops, ChildEnds, Becomes, Child, TypeOK
  <2> QED BY <1>0, <1>2, <2>1, <2>2, SameTrack DEF shellVars, Unlisted
<1>9. CASE Gone \/ UNCHANGED vars
  BY <1>1, <1>2, <1>9 DEF Gone, vars, shellVars, childVars
<1> QED BY <1>3, <1>5, <1>6, <1>7, <1>8, <1>9 DEF Next

LEMMA InitAgreeInv == Init => AgreeInv
<1> SUFFICES ASSUME Init PROVE AgreeInv
  OBVIOUS
<1>1. MaskInv /\ AddInv
  BY DEF Init, MaskInv, AddInv
<1>2. stack = <<>> /\ \A p, w : ~Handling(p, w)
  BY NoHandling DEF Init
<1>3. ChldInv
  BY <1>2, EmptySeq DEF ChldInv
<1>4. \A i \in Slots : jobs[i].pid = NoPid
  BY DEF Init, initjobs, clearjob
<1>5. TrackInv
  BY <1>2, <1>4, PidAssumption
     DEF Init, TrackInv, SlotsDistinct, Listed, Unlisted, StopIsRecorded, NoNullJob
<1> QED BY <1>1, <1>3, <1>5, InitTypeOK DEF AgreeInv

LEMMA AgreeInvariant ==
  ASSUME IsFiniteSet(Pids), Cardinality(Pids) <= MAXJOBS
  PROVE  Spec => []AgreeInv
<1>1. Init => AgreeInv
  BY InitAgreeInv
<1>2. AgreeInv /\ [Next]_vars => AgreeInv'
  <2> SUFFICES ASSUME AgreeInv, [Next]_vars PROVE AgreeInv'
    OBVIOUS
  <2>1. TypeOK /\ MaskInv /\ AddInv /\ ChldInv
    BY DEF AgreeInv
  <2>2. TypeOK' /\ MaskInv' /\ AddInv' /\ ChldInv'
    BY <2>1, NextTypeOK, MaskStep, AddStep, ChldStep
  <2>3. TrackInv'
    BY <2>2, TrackStep
  <2> QED BY <2>2, <2>3 DEF AgreeInv
<1> QED BY <1>1, <1>2, PTL DEF Spec

\* When the list is long enough for every process, a child is listed from addjob
\* until the SIGCHLD handler deletes it, in one slot, whatever interrupts eval and
\* the handlers.
THEOREM ListAgrees ==
  ASSUME IsFiniteSet(Pids), Cardinality(Pids) <= MAXJOBS
  PROVE  Spec => []JobsTrackChildren
<1>1. AgreeInv => JobsTrackChildren
  BY DEF AgreeInv, TrackInv, SlotsDistinct, Listed, Unlisted, JobsTrackChildren
<1> QED BY <1>1, AgreeInvariant, PTL

\* Then a child at rest is listed as stopped, from the moment the handler has its
\* stop in hand until fg or bg continues it.
THEOREM StopsAreListed ==
  ASSUME IsFiniteSet(Pids), Cardinality(Pids) <= MAXJOBS
  PROVE  Spec => []StopIsRecorded
<1>1. AgreeInv => StopIsRecorded
  BY DEF AgreeInv, TrackInv
<1> QED BY <1>1, AgreeInvariant, PTL

\* And sigchld_handler never dereferences NULL.
THEOREM HandlerFindsJob ==
  ASSUME IsFiniteSet(Pids), Cardinality(Pids) <= MAXJOBS
  PROVE  Spec => []NoNullJob
<1>1. AgreeInv => NoNullJob
  BY DEF AgreeInv, TrackInv
<1> QED BY <1>1, AgreeInvariant, PTL

-----------------------------------------------------------------------------
(* The refinement: every step changes at most one job, and in a way job     *)
(* control allows.  And waitfg waits for the job it was given.              *)

\* The job of p in list l.
JobIn(l, p) ==
  LET i == getjobpid(l, p)
  IN  IF i = NoSlot \/ l[i].state = UNDEF THEN "none" ELSE l[i].state

Distinct(l) ==
  \A i, k \in Slots : l[i].pid = l[k].pid => i = k \/ l[i].pid = NoPid

LEMMA JobListed ==
  ASSUME NEW l, Distinct(l), NEW p \in Pids, NEW i \in Slots, l[i].pid = p
  PROVE  /\ getjobpid(l, p) = i
         /\ JobIn(l, p) = IF l[i].state = UNDEF THEN "none" ELSE l[i].state
<1>1. p # NoPid
  BY PidAssumption
<1>2. getjobpid(l, p) = i
  BY <1>1, GetJobPid DEF Distinct
<1> QED BY <1>2, NoSlotFact DEF JobIn

LEMMA JobUnlisted ==
  ASSUME NEW l, NEW p \in Pids, \A i \in Slots : l[i].pid # p
  PROVE  JobIn(l, p) = "none"
  BY GetJobPid DEF JobIn

\* A job that is not "none" is in a slot.
LEMMA JobSlot ==
  ASSUME NEW l, NEW p \in Pids, JobIn(l, p) # "none"
  PROVE  \E i \in Slots : l[i].pid = p /\ l[i].state = JobIn(l, p)
  BY GetJobPid DEF JobIn

\* Lists that agree on the slots of p give it the same job.
LEMMA SameJob ==
  ASSUME NEW l, NEW m, NEW p \in Pids,
         \A i \in Slots : l[i].pid = p \/ m[i].pid = p =>
           m[i].pid = l[i].pid /\ m[i].state = l[i].state
  PROVE  JobIn(m, p) = JobIn(l, p)
<1>1. {i \in Slots : p # NoPid /\ l[i].pid = p} = {i \in Slots : p # NoPid /\ m[i].pid = p}
  OBVIOUS
<1>2. getjobpid(m, p) = getjobpid(l, p)
  BY <1>1 DEF getjobpid
<1>3. getjobpid(l, p) = NoSlot \/ m[getjobpid(l, p)].state = l[getjobpid(l, p)].state
  BY GetJobPid
<1> QED BY <1>2, <1>3 DEF JobIn

-----------------------------------------------------------------------------
(* The slots.                                                              *)

\* A slot without pid is clear and one with a pid has a state, but for the slot
\* addjob is filling; and that is not marked stopped before it has its pid.
SlotInv ==
  \A i \in Slots :
    IF main = "addjob" /\ add.slot = i
    THEN /\ jobs[i].state = UNDEF <=> "state" \in add.todo
         /\ jobs[i].pid = NoPid => jobs[i].state # ST
    ELSE IF jobs[i].pid = NoPid THEN jobs[i].state = UNDEF /\ jobs[i].jid = 0
    ELSE jobs[i].state # UNDEF

RefInv == AgreeInv /\ ForegroundIsAwaited /\ SlotInv

\* What the invariant says of the list.
LEMMA RefFacts ==
  ASSUME RefInv
  PROVE  /\ TypeOK /\ MaskInv /\ AddInv /\ ChldInv /\ TrackInv /\ IInv
         /\ Distinct(jobs)
  BY DEF RefInv, AgreeInv, IInv, TrackInv, SlotsDistinct, Distinct

\* The slot sigtstp_handler marks is the one in the foreground.
LEMMA TstpSlot ==
  ASSUME RefInv, SigtstpForward
  PROVE  \/ jobs' = jobs
         \/ \E i \in Slots : /\ jobs[i].state = FG /\ jobs[i].pid # NoPid
                             /\ jobs' = [jobs EXCEPT ![i].state = ST]
<1> DEFINE p == fgpid(jobs)
           i == getjobpid(jobs, p)
<1>1. CASE i = NoSlot
  BY <1>1 DEF SigtstpForward
<1>2. CASE i # NoSlot
  <2>1. i \in Slots /\ p # NoPid /\ jobs[i].pid = p
    BY <1>2, GetJobPid
  <2>2. PICK k \in Slots : jobs[k].state = FG /\ p = jobs[k].pid
    BY <2>1, FgPid
  <2>3. k = i
    BY <2>1, <2>2, RefFacts DEF Distinct
  <2>4. jobs' = [jobs EXCEPT ![i].state = ST]
    BY <1>2 DEF SigtstpForward
  <2> HIDE DEF i, p
  <2> QED BY <2>1, <2>2, <2>3, <2>4
<1> QED BY <1>1, <1>2

\* The slot sigchld_handler marks or clears is that of the pid in hand, and eval
\* is not adding a job.
LEMMA ChldSlot ==
  ASSUME RefInv, NEW where \in {"dead", "stop"}, HandlerAt("CHLD", where)
  PROVE  /\ Head(stack).pid \in Pids
         /\ getjobpid(jobs, Head(stack).pid) \in Slots
         /\ jobs[getjobpid(jobs, Head(stack).pid)].pid = Head(stack).pid
         /\ main # "addjob"
<1>0. TypeOK /\ MaskInv /\ ChldInv /\ TrackInv
  BY RefFacts
<1> DEFINE p == stack[1].pid
<1>1. /\ stack # <<>> /\ stack[1] = Head(stack) /\ stack[1].sig = "CHLD"
      /\ stack[1].at = where /\ main \notin {"fork", "addjob"}
  BY <1>0, ChldHandler
<1>2. p \in Pids
  <2>1. 1 \in 1 .. Len(stack)
    BY <1>0, <1>1, PopFrame DEF TypeOK
  <2> QED BY <1>0, <1>1, <2>1 DEF ChldInv
<1>3. Handling(p, where)
  BY <1>0, <1>1, TopHandling
<1>4. Listed(p)
  BY <1>0, <1>1, <1>2, <1>3 DEF TrackInv, Unlisted
<1> QED BY <1>1, <1>2, <1>4, GetJobPid, PidAssumption DEF Listed

\* The slot fg and bg select holds a job.
LEMMA BgfgSlot ==
  ASSUME RefInv, NEW cmd \in {FG, BG}, NEW n, DoBgfg(cmd, n)
  PROVE  /\ main = "prompt"
         /\ \E i \in Slots : /\ jobs[i].pid \in Pids /\ jobs[i].state # UNDEF
                             /\ jobs' = [jobs EXCEPT ![i].state = cmd]
<1> DEFINE i == getjobjid(jobs, n)
<1>1. main = "prompt" /\ i \in Slots /\ n >= 1 /\ jobs[i].jid = n
      /\ jobs' = [jobs EXCEPT ![i].state = cmd]
  BY GetJobJid DEF DoBgfg, MainAt
<1>2. jobs[i].jid # 0
  BY <1>1
<1>3. jobs[i].pid # NoPid /\ jobs[i].state # UNDEF
  BY <1>1, <1>2 DEF RefInv, SlotInv
<1>4. jobs[i].pid \in Pids
  BY <1>1, <1>3, RefFacts DEF TypeOK, Job
<1> HIDE DEF i
<1> QED BY <1>1, <1>3, <1>4

\* What a store of addjob does to its slot, and that it leaves the others alone.
LEMMA StoreSlot ==
  ASSUME RefInv, NEW f \in Fields, AddjobStore(f)
  PROVE  /\ stack = <<>> /\ main = "addjob" /\ main' = "addjob" /\ f \in add.todo
         /\ cur \in Pids /\ cur' = cur
         /\ add.slot \in Slots /\ add'.slot = add.slot /\ add'.todo = add.todo \ {f}
         /\ add.state \in {FG, BG}
         /\ \A i \in Slots : i # add.slot => jobs'[i] = jobs[i]
         /\ jobs'[add.slot].pid = IF f = "pid" THEN cur ELSE jobs[add.slot].pid
         /\ jobs'[add.slot].state = IF f = "state" THEN add.state ELSE jobs[add.slot].state
         /\ jobs[add.slot].pid = IF "pid" \in add.todo THEN NoPid ELSE cur
<1>0. TypeOK /\ AddInv /\ TrackInv
  BY RefFacts
<1>1. /\ stack = <<>> /\ main = "addjob" /\ main' = "addjob" /\ f \in add.todo
      /\ cur' = cur /\ add'.slot = add.slot /\ add'.todo = add.todo \ {f}
      /\ add.state \in {FG, BG}
  BY <1>0 DEF AddjobStore, MainAt, TypeOK, Adding
<1>2. cur \in Pids /\ add.slot \in Slots
  BY <1>0, <1>1 DEF TrackInv
<1>3. jobs[add.slot].pid = IF "pid" \in add.todo THEN NoPid ELSE cur
  BY <1>0, <1>1, <1>2 DEF AddInv
<1>4. CASE f = "pid"
  BY <1>0, <1>1, <1>2, <1>3, <1>4 DEF AddjobStore, TypeOK, Job
<1>5. CASE f = "state"
  BY <1>0, <1>1, <1>2, <1>3, <1>5 DEF AddjobStore, TypeOK, Job
<1>6. CASE f = "jid"
  BY <1>0, <1>1, <1>2, <1>3, <1>6 DEF AddjobStore, TypeOK, Job
<1> QED BY <1>4, <1>5, <1>6 DEF Fields

\* A step that changes neither the list nor what addjob has to do.
LEMMA SameSlots ==
  ASSUME SlotInv, jobs' = jobs, main' = "addjob" <=> main = "addjob",
         main = "addjob" => add' = add
  PROVE  SlotInv'
  BY DEF SlotInv

LEMMA SlotStep == RefInv /\ [Next]_vars => SlotInv'
<1> SUFFICES ASSUME RefInv, [Next]_vars PROVE SlotInv'
  OBVIOUS
<1>0. TypeOK /\ MaskInv /\ AddInv /\ ChldInv /\ TrackInv /\ SlotInv
  BY RefFacts DEF RefInv
<1>1. CASE MainStep
  <2>1. ASSUME NEW p \in Pids, EvalFork(p) PROVE SlotInv'
    <3>1. /\ main = "fork" /\ main' = "addjob" /\ jobs' = jobs
          /\ add'.slot = FreeSlot(jobs)
          /\ FreeSlot(jobs) \in Slots => "state" \in add'.todo
      BY <1>0, <2>1, NoSlotFact DEF EvalFork, MainAt, TypeOK, Adding, Fields
    <3>2. FreeSlot(jobs) \in Slots => jobs[FreeSlot(jobs)].pid = NoPid
      BY FreeSlotFact, NoSlotFact
    <3>3. UNDEF # ST
      BY DEF UNDEF, ST
    <3> QED BY <1>0, <3>1, <3>2, <3>3 DEF SlotInv
  <2>2. ASSUME NEW f \in Fields, AddjobStore(f) PROVE SlotInv'
    <3>1. BG # UNDEF /\ FG # UNDEF /\ BG # ST /\ FG # ST
      BY DEF BG, FG, UNDEF, ST
    <3> QED BY <1>0, <2>2, <3>1, StoreSlot DEF SlotInv
  <2>3. CASE EvalUnblock
    <3>1. /\ main = "addjob" /\ main' # "addjob" /\ jobs' = jobs /\ add.todo = {}
          /\ add.slot \in Slots /\ cur \in Pids
          /\ jobs[add.slot].pid = cur
      BY <1>0, <2>3 DEF EvalUnblock, MainAt, TrackInv, AddInv
    <3> QED BY <1>0, <3>1, PidAssumption DEF SlotInv
  <2>4. CASE EvalForkFails \/ WaitfgSuspend \/ WaitfgResume \/ WaitfgReturn
    BY <1>0, <2>4, SameSlots
       DEF EvalForkFails, WaitfgSuspend, WaitfgResume, WaitfgReturn, MainAt
  <2> QED BY <1>1, <2>1, <2>2, <2>3, <2>4 DEF MainStep
<1>2. CASE DeliverChld
  BY <1>0, <1>2, SameSlots DEF DeliverChld, Deliver
<1>3. CASE SigchldStep \/ SigintStep \/ SigtstpStep
  <2>1. CASE (\E p \in Pids : SigchldWait(p)) \/ SigintForward
    BY <1>0, <2>1, SameSlots DEF SigchldWait, SigintForward, shellVars
  <2>2. CASE SigchldReturn \/ \E s \in {"INT", "TSTP"} : KeyboardReturn(s)
    BY <1>0, <2>2, SameSlots DEF SigchldReturn, KeyboardReturn, HandlerReturn
  <2>3. CASE SigchldDelete
    <3>1. main # "addjob" /\ main' # "addjob"
      BY <2>3, ChldSlot DEF SigchldDelete
    <3>2. \A i \in Slots : jobs'[i] = clearjob \/ jobs'[i] = jobs[i]
      BY <1>0, <2>3, DeleteJob DEF SigchldDelete, TypeOK
    <3>3. clearjob.pid = NoPid /\ clearjob.state = UNDEF /\ clearjob.jid = 0
      BY DEF clearjob
    <3> QED BY <1>0, <3>1, <3>2, <3>3 DEF SlotInv
  <2>4. CASE SigchldStop
    <3> DEFINE k == getjobpid(jobs, Head(stack).pid)
    <3>1. /\ main # "addjob" /\ main' # "addjob" /\ k \in Slots /\ k # NoSlot
          /\ jobs[k].pid # NoPid
      BY <2>4, ChldSlot, NoSlotFact, PidAssumption DEF SigchldStop
    <3>2. \A i \in Slots : jobs'[i] = IF i = k THEN [jobs[i] EXCEPT !.state = ST] ELSE jobs[i]
      BY <1>0, <2>4, <3>1 DEF SigchldStop, TypeOK
    <3>3. jobs'[k].pid = jobs[k].pid /\ jobs'[k].state = ST /\ ST # UNDEF
      BY <1>0, <3>1, <3>2 DEF TypeOK, Job, ST, UNDEF
    <3> HIDE DEF k
    <3> QED BY <1>0, <3>1, <3>2, <3>3 DEF SlotInv
  <2>5. CASE SigtstpForward
    <3>1. UNCHANGED <<main, add>>
      BY <2>5 DEF SigtstpForward
    <3>2. CASE jobs' = jobs
      BY <1>0, <3>1, <3>2, SameSlots
    <3>3. CASE jobs' # jobs
      <4>1. PICK k \in Slots : /\ jobs[k].state = FG /\ jobs[k].pid # NoPid
                               /\ jobs' = [jobs EXCEPT ![k].state = ST]
        BY <2>5, <3>3, TstpSlot
      <4>2. /\ jobs'[k].pid = jobs[k].pid /\ jobs'[k].state = ST
            /\ \A i \in Slots : i # k => jobs'[i] = jobs[i]
        BY <1>0, <4>1 DEF TypeOK, Job
      <4>3. ST # UNDEF /\ FG # UNDEF
        BY DEF ST, FG, UNDEF
      <4> QED BY <1>0, <3>1, <4>1, <4>2, <4>3 DEF SlotInv
    <3> QED BY <3>2, <3>3
  <2> QED BY <1>3, <2>1, <2>2, <2>3, <2>4, <2>5
          DEF SigchldStep, SigintStep, SigtstpStep
<1>4. CASE UserStep
  <2>1. CASE \/ Quit \/ Sigquit \/ (\E s \in {FG, BG} : EvalBlock(s))
             \/ \E s \in {"INT", "TSTP"} : Keyboard(s)
    BY <1>0, <2>1, SameSlots DEF Quit, Sigquit, EvalBlock, MainAt, Keyboard, Deliver
  <2>2. ASSUME NEW cmd \in {FG, BG}, NEW l \in Slots, DoBgfg(cmd, jobs[l].jid)
        PROVE  SlotInv'
    <3>1. PICK k \in Slots : /\ jobs[k].pid \in Pids
                             /\ jobs' = [jobs EXCEPT ![k].state = cmd]
      BY <2>2, BgfgSlot
    <3>2. main = "prompt" /\ main' # "addjob"
      BY <2>2 DEF DoBgfg, MainAt
    <3>3. /\ jobs'[k].pid = jobs[k].pid /\ jobs'[k].state = cmd
          /\ \A i \in Slots : i # k => jobs'[i] = jobs[i]
      BY <1>0, <3>1 DEF TypeOK, Job
    <3>4. cmd # UNDEF /\ jobs[k].pid # NoPid
      BY <3>1, PidAssumption DEF FG, BG, UNDEF
    <3> QED BY <1>0, <3>2, <3>3, <3>4 DEF SlotInv
  <2> QED BY <1>4, <2>1, <2>2 DEF UserStep
<1>5. ASSUME NEW p \in Pids, ChildStep(p) PROVE SlotInv'
  BY <1>0, <1>5, SameSlots
     DEF ChildStep, ChildSetpgid, ChildExec, ChildIgnores, ChildInterrupted,
         ChildSuspended, ChildStops, ChildEnds, Becomes, shellVars
<1>6. CASE Gone \/ UNCHANGED vars
  BY <1>0, <1>6, SameSlots DEF Gone, vars, shellVars
<1> QED BY <1>1, <1>2, <1>3, <1>4, <1>5, <1>6 DEF Next

LEMMA InitRefInv == Init => RefInv
<1> SUFFICES ASSUME Init PROVE RefInv
  OBVIOUS
<1>1. ForegroundIsAwaited
  BY InitIInv DEF IInv
<1>2. SlotInv
  BY DEF Init, SlotInv, initjobs, clearjob
<1> QED BY <1>1, <1>2, InitAgreeInv DEF RefInv

LEMMA RefInvariant ==
  ASSUME IsFiniteSet(Pids), Cardinality(Pids) <= MAXJOBS
  PROVE  Spec => []RefInv
<1>1. RefInv /\ AgreeInv' /\ [Next]_vars => RefInv'
  BY SlotStep, ForegroundStep, RefFacts DEF RefInv
<1> QED BY <1>1, InitRefInv, AgreeInvariant, PTL DEF Spec

-----------------------------------------------------------------------------
(* The refinement.                                                         *)

job == [p \in Pids |-> JobOf(p)]

LEMMA JobIsJobIn ==
  /\ job = [p \in Pids |-> JobIn(jobs, p)]
  /\ job' = [p \in Pids |-> JobIn(jobs', p)]
  BY DEF job, JobOf, JobIn

\* A step that changes one slot, where only p is or was listed, changes at most
\* the job of p.
LEMMA OneJob ==
  ASSUME NEW p \in Pids, NEW k \in Slots,
         jobs[k].pid \in {p, NoPid}, jobs'[k].pid \in {p, NoPid},
         \A i \in Slots : i # k =>
           jobs'[i].pid = jobs[i].pid /\ jobs'[i].state = jobs[i].state
  PROVE  job' = [job EXCEPT ![p] = JobIn(jobs', p)]
<1>1. ASSUME NEW q \in Pids, q # p
      PROVE  JobIn(jobs', q) = JobIn(jobs, q)
  <2>1. jobs[k].pid # q /\ jobs'[k].pid # q
    BY <1>1, PidAssumption
  <2>2. \A i \in Slots : jobs[i].pid = q \/ jobs'[i].pid = q =>
          jobs'[i].pid = jobs[i].pid /\ jobs'[i].state = jobs[i].state
    BY <2>1
  <2> QED BY <2>2, SameJob
<1> QED BY <1>1, JobIsJobIn

LEMMA SameJobs == ASSUME jobs' = jobs PROVE job' = job
  BY JobIsJobIn

\* A step of job control: p goes from one state to another.
Moves(p, from, to) ==
  /\ job[p] = from
  /\ job' = [job EXCEPT ![p] = to]

\* The moves job control allows.  Nothing may be in the foreground where a job is
\* brought there.
LEMMA AllowedMove ==
  ASSUME NEW p \in Pids, NEW from, NEW to, Moves(p, from, to),
         \/ from = "none" /\ to \in {FG, BG}
         \/ from \in {FG, BG} /\ to = ST
         \/ from \in {BG, ST} /\ to = FG
         \/ from = ST /\ to = BG
         \/ to = "none",
         to = FG => \A q \in Pids : job[q] # FG
  PROVE  [JC!Next]_job
<1>1. job \in [Pids -> {job[q] : q \in Pids}] /\ job[p] = from
  BY DEF job, Moves
<1>2. CASE from = to
  <2>1. job' = job
    BY <1>1, <1>2 DEF Moves
  <2> QED BY <2>1
<1>3. CASE from # to
  <2>1. job'[p] # job[p] /\ job' = [job EXCEPT ![p] = to] /\ job[p] = from
    BY <1>1, <1>3 DEF Moves
  <2>2. to = FG => JC!Foreground = {}
    BY DEF JC!Foreground, job, FG
  <2>3. \/ from = "none" /\ to \in {FG, BG} /\ JC!Start(p, to)
        \/ JC!Stop(p) \/ JC!Resume(p) \/ JC!Background(p) \/ JC!End(p)
    BY <1>3, <2>1, <2>2
       DEF JC!Start, JC!Stop, JC!Resume, JC!Background, JC!End, job, FG, BG, ST
  <2> QED BY <2>1, <2>3 DEF JC!Next, job, FG, BG
<1> QED BY <1>2, <1>3

\* A slot that is listed before and after a step and changes its state only.
LEMMA StateMoves ==
  ASSUME Distinct(jobs), Distinct(jobs'), NEW k \in Slots, jobs[k].pid \in Pids,
         jobs[k].state # UNDEF, jobs'[k].state # UNDEF, jobs'[k].pid = jobs[k].pid,
         \A i \in Slots : i # k => jobs'[i] = jobs[i]
  PROVE  Moves(jobs[k].pid, jobs[k].state, jobs'[k].state)
<1> DEFINE p == jobs[k].pid
<1>1. JobIn(jobs, p) = jobs[k].state /\ JobIn(jobs', p) = jobs'[k].state
  BY JobListed
<1>2. job' = [job EXCEPT ![p] = JobIn(jobs', p)]
  BY OneJob
<1>3. job[p] = JobIn(jobs, p)
  BY JobIsJobIn
<1> QED BY <1>1, <1>2, <1>3 DEF Moves

\* addjob makes the child a job when it has stored both its pid and its state.
LEMMA StoreRefines ==
  ASSUME RefInv, RefInv', NEW f \in Fields, AddjobStore(f)
  PROVE  [JC!Next]_job
<1> DEFINE k == add.slot
<1>0. Distinct(jobs) /\ Distinct(jobs') /\ TypeOK /\ TrackInv
  BY RefFacts DEF RefInv, AgreeInv, TrackInv, SlotsDistinct, Distinct
<1>1. /\ stack = <<>> /\ main = "addjob" /\ f \in add.todo
      /\ cur \in Pids /\ k \in Slots
      /\ add.state \in {FG, BG}
      /\ \A i \in Slots : i # k => jobs'[i] = jobs[i]
      /\ jobs'[k].pid = IF f = "pid" THEN cur ELSE jobs[k].pid
      /\ jobs'[k].state = IF f = "state" THEN add.state ELSE jobs[k].state
      /\ jobs[k].pid = IF "pid" \in add.todo THEN NoPid ELSE cur
  BY StoreSlot
<1>2. job' = [job EXCEPT ![cur] = JobIn(jobs', cur)] /\ job[cur] = JobIn(jobs, cur)
  BY <1>1, OneJob, JobIsJobIn
<1>3. "pid" \in add.todo => \A i \in Slots : jobs[i].pid # cur
  BY <1>0, <1>1, NoHandling DEF TrackInv, Listed, Unlisted
<1>4. JobIn(jobs', cur) = JobIn(jobs, cur) => [JC!Next]_job
  <2> SUFFICES ASSUME JobIn(jobs', cur) = JobIn(jobs, cur) PROVE job' = job
    OBVIOUS
  <2> QED BY <1>2, JobIsJobIn
<1>5. \A i \in Slots : jobs[i].state = FG => i = k /\ add.state = FG
  BY <1>1 DEF RefInv, ForegroundIsAwaited, Waiting
<1>6. FG # UNDEF /\ BG # UNDEF /\ UNDEF # "none" /\ FG # "none"
  BY DEF FG, BG, UNDEF
<1>7. ASSUME JobIn(jobs, cur) = "none" PROVE \A q \in Pids : job[q] # FG
  <2> SUFFICES ASSUME NEW q \in Pids, job[q] = FG PROVE FALSE
    OBVIOUS
  <2>1. JobIn(jobs, q) = FG
    BY JobIsJobIn
  <2>2. PICK i \in Slots : jobs[i].pid = q /\ jobs[i].state = FG
    BY <1>6, <2>1, JobSlot
  <2>3. q = cur
    BY <1>1, <1>5, <2>2, PidAssumption
  <2> QED BY <1>6, <1>7, <2>1, <2>3
<1>8. CASE f = "pid"
  <2>1. JobIn(jobs, cur) = "none"
    BY <1>1, <1>3, <1>8, JobUnlisted
  <2>2. jobs'[k].pid = cur /\ jobs'[k].state = jobs[k].state
    BY <1>1, <1>8
  <2>3. JobIn(jobs', cur) = IF jobs[k].state = UNDEF THEN "none" ELSE jobs[k].state
    BY <1>0, <1>1, <2>2, JobListed
  <2>4. CASE jobs[k].state = UNDEF
    BY <1>4, <2>1, <2>3, <2>4
  <2>5. CASE jobs[k].state # UNDEF
    <3>1. jobs[k].state \in {FG, BG}
      <4>1. jobs[k].state \in JobState /\ jobs[k].state # ST
        BY <1>0, <1>1, <1>8 DEF RefInv, SlotInv, TypeOK, Job
      <4> QED BY <2>5, <4>1 DEF JobState
    <3>2. Moves(cur, "none", jobs[k].state)
      BY <1>2, <2>1, <2>3, <2>5 DEF Moves
    <3> QED BY <1>1, <1>7, <2>1, <3>1, <3>2, AllowedMove
  <2> QED BY <2>4, <2>5
<1>9. CASE f = "state"
  <2>1. jobs[k].state = UNDEF
    BY <1>1, <1>9 DEF RefInv, SlotInv
  <2>2. jobs'[k].pid = jobs[k].pid /\ jobs'[k].state = add.state
    BY <1>1, <1>9
  <2>3. JobIn(jobs, cur) = "none"
    <3>1. CASE "pid" \in add.todo
      BY <1>1, <1>3, <3>1, JobUnlisted
    <3>2. CASE "pid" \notin add.todo
      BY <1>0, <1>1, <2>1, <3>2, JobListed
    <3> QED BY <3>1, <3>2
  <2>4. CASE "pid" \in add.todo
    <3>1. \A i \in Slots : jobs'[i].pid # cur
      BY <1>1, <1>3, <2>2, <2>4, PidAssumption
    <3>2. JobIn(jobs', cur) = "none"
      BY <1>1, <3>1, JobUnlisted
    <3> QED BY <1>4, <2>3, <3>2
  <2>5. CASE "pid" \notin add.todo
    <3>1. JobIn(jobs', cur) = add.state
      BY <1>0, <1>1, <1>6, <2>2, <2>5, JobListed
    <3>2. Moves(cur, "none", add.state)
      BY <1>2, <2>3, <3>1 DEF Moves
    <3> QED BY <1>1, <1>7, <2>3, <3>2, AllowedMove
  <2> QED BY <2>4, <2>5
<1>10. CASE f = "jid"
  <2>1. \A i \in Slots : jobs'[i].pid = jobs[i].pid /\ jobs'[i].state = jobs[i].state
    BY <1>1, <1>10
  <2>2. JobIn(jobs', cur) = JobIn(jobs, cur)
    BY <1>1, <2>1, SameJob
  <2> QED BY <1>4, <2>2
<1> QED BY <1>8, <1>9, <1>10 DEF Fields

\* The SIGCHLD handler ends the job of the child it has reaped.
LEMMA DeleteRefines ==
  ASSUME RefInv, RefInv', SigchldDelete
  PROVE  [JC!Next]_job
<1> DEFINE p == Head(stack).pid
           k == getjobpid(jobs, p)
<1>0. Distinct(jobs) /\ Distinct(jobs') /\ TypeOK
  BY RefFacts DEF RefInv, AgreeInv, TrackInv, SlotsDistinct, Distinct
<1>1. p \in Pids /\ k \in Slots /\ jobs[k].pid = p
  BY ChldSlot DEF SigchldDelete
<1>2. \A i \in Slots : jobs'[i] = IF i = k THEN clearjob ELSE jobs[i]
  BY <1>0, DeleteJob DEF SigchldDelete, TypeOK
<1>3. jobs'[k].pid = NoPid
  BY <1>1, <1>2 DEF clearjob
<1> HIDE DEF k, p
<1>4. job' = [job EXCEPT ![p] = JobIn(jobs', p)]
  BY <1>1, <1>2, <1>3, OneJob
<1>5. \A i \in Slots : jobs'[i].pid # p
  <2>1. \A i \in Slots : i # k => jobs[i].pid # p
    BY <1>0, <1>1, PidAssumption DEF Distinct
  <2> QED BY <1>1, <1>2, <1>3, <2>1, PidAssumption
<1>6. JobIn(jobs', p) = "none"
  BY <1>1, <1>5, JobUnlisted
<1>7. Moves(p, job[p], "none") /\ "none" # FG
  BY <1>4, <1>6 DEF Moves, FG
<1> QED BY <1>1, <1>7, AllowedMove

\* It lists as stopped the child whose stop it has in hand.
LEMMA StopRefines ==
  ASSUME RefInv, RefInv', SigchldStop
  PROVE  [JC!Next]_job
<1> DEFINE p == Head(stack).pid
           k == getjobpid(jobs, p)
<1>0. Distinct(jobs) /\ Distinct(jobs') /\ TypeOK
  BY RefFacts DEF RefInv, AgreeInv, TrackInv, SlotsDistinct, Distinct
<1>1. p \in Pids /\ k \in Slots /\ jobs[k].pid = p /\ main # "addjob"
  BY ChldSlot DEF SigchldStop
<1>2. jobs' = [jobs EXCEPT ![k].state = ST]
  BY <1>1, NoSlotFact DEF SigchldStop
<1>3. /\ jobs'[k].pid = jobs[k].pid /\ jobs'[k].state = ST
      /\ \A i \in Slots : i # k => jobs'[i] = jobs[i]
  BY <1>0, <1>1, <1>2 DEF TypeOK, Job
<1> HIDE DEF k, p
<1>4. jobs[k].state # UNDEF /\ jobs[k].state \in JobState
  BY <1>0, <1>1, PidAssumption DEF RefInv, SlotInv, TypeOK, Job
<1>5. ST # UNDEF /\ ST # FG
  BY DEF ST, UNDEF, FG
<1>6. Moves(p, jobs[k].state, ST)
  BY <1>0, <1>1, <1>3, <1>4, <1>5, StateMoves
<1>7. CASE jobs[k].state = ST
  <2>1. job' = job
    BY <1>6, <1>7 DEF Moves, job
  <2> QED BY <2>1
<1>8. CASE jobs[k].state # ST
  <2>1. jobs[k].state \in {FG, BG}
    BY <1>4, <1>8 DEF JobState
  <2> QED BY <1>1, <1>5, <1>6, <2>1, AllowedMove
<1> QED BY <1>7, <1>8

\* ctrl-z lists the foreground job as stopped.
LEMMA TstpRefines ==
  ASSUME RefInv, RefInv', SigtstpForward
  PROVE  [JC!Next]_job
<1>0. Distinct(jobs) /\ Distinct(jobs') /\ TypeOK
  BY RefFacts DEF RefInv, AgreeInv, TrackInv, SlotsDistinct, Distinct
<1>1. CASE jobs' = jobs
  BY <1>1, SameJobs
<1>2. CASE jobs' # jobs
  <2>1. PICK k \in Slots : /\ jobs[k].state = FG /\ jobs[k].pid # NoPid
                           /\ jobs' = [jobs EXCEPT ![k].state = ST]
    BY <1>2, TstpSlot
  <2>2. /\ jobs'[k].pid = jobs[k].pid /\ jobs'[k].state = ST /\ jobs[k].pid \in Pids
        /\ \A i \in Slots : i # k => jobs'[i] = jobs[i]
    BY <1>0, <2>1 DEF TypeOK, Job
  <2>3. ST # UNDEF /\ ST # FG /\ FG # UNDEF
    BY DEF ST, UNDEF, FG
  <2>4. Moves(jobs[k].pid, FG, ST)
    BY <1>0, <2>1, <2>2, <2>3, StateMoves
  <2> QED BY <2>2, <2>3, <2>4, AllowedMove
<1> QED BY <1>1, <1>2

\* fg resumes a job that is not in the foreground, when none is; bg puts a stopped
\* one in the background.
LEMMA BgfgRefines ==
  ASSUME RefInv, RefInv', NEW cmd \in {FG, BG}, NEW n, DoBgfg(cmd, n)
  PROVE  [JC!Next]_job
<1>0. Distinct(jobs) /\ Distinct(jobs') /\ TypeOK
  BY RefFacts DEF RefInv, AgreeInv, TrackInv, SlotsDistinct, Distinct
<1>1. PICK k \in Slots : /\ jobs[k].pid \in Pids /\ jobs[k].state # UNDEF
                         /\ jobs' = [jobs EXCEPT ![k].state = cmd]
  BY BgfgSlot
<1>2. main = "prompt"
  BY BgfgSlot
<1>3. /\ jobs'[k].pid = jobs[k].pid /\ jobs'[k].state = cmd
      /\ \A i \in Slots : i # k => jobs'[i] = jobs[i]
  BY <1>0, <1>1 DEF TypeOK, Job
<1>4. \A i \in Slots : jobs[i].state # FG
  BY <1>2 DEF RefInv, ForegroundIsAwaited, Waiting
<1>5. cmd # UNDEF /\ FG # "none"
  BY DEF FG, BG, UNDEF
<1>6. Moves(jobs[k].pid, jobs[k].state, cmd)
  BY <1>0, <1>1, <1>3, <1>5, StateMoves
<1>7. \A q \in Pids : job[q] # FG
  <2> SUFFICES ASSUME NEW q \in Pids, job[q] = FG PROVE FALSE
    OBVIOUS
  <2>1. JobIn(jobs, q) = FG
    BY JobIsJobIn
  <2> QED BY <1>4, <1>5, <2>1, JobSlot
<1>8. jobs[k].state \in {BG, ST}
  BY <1>0, <1>1, <1>4 DEF TypeOK, Job, JobState
<1>9. CASE jobs[k].state = cmd
  <2>1. job' = job
    BY <1>6, <1>9 DEF Moves, job
  <2> QED BY <2>1
<1>10. CASE jobs[k].state # cmd
  BY <1>1, <1>6, <1>7, <1>8, <1>10, AllowedMove
<1> QED BY <1>9, <1>10

LEMMA NextRefines == RefInv /\ RefInv' /\ [Next]_vars => [JC!Next]_job
<1> SUFFICES ASSUME RefInv, RefInv', [Next]_vars PROVE [JC!Next]_job
  OBVIOUS
<1>1. CASE MainStep
  <2>1. CASE \E f \in Fields : AddjobStore(f)
    BY <2>1, StoreRefines
  <2>2. CASE \/ (\E p \in Pids : EvalFork(p)) \/ EvalForkFails \/ EvalUnblock
             \/ WaitfgSuspend \/ WaitfgResume \/ WaitfgReturn
    BY <2>2, SameJobs DEF EvalFork, EvalForkFails, EvalUnblock, WaitfgSuspend,
                          WaitfgResume, WaitfgReturn
  <2> QED BY <1>1, <2>1, <2>2 DEF MainStep
<1>2. CASE DeliverChld
  BY <1>2, SameJobs DEF DeliverChld, Deliver
<1>3. CASE SigchldStep \/ SigintStep \/ SigtstpStep
  <2>1. CASE (\E p \in Pids : SigchldWait(p)) \/ SigintForward
    BY <2>1, SameJobs DEF SigchldWait, SigintForward, shellVars
  <2>2. CASE SigchldDelete \/ SigchldStop \/ SigtstpForward
    BY <2>2, DeleteRefines, StopRefines, TstpRefines
  <2>3. CASE SigchldReturn \/ \E s \in {"INT", "TSTP"} : KeyboardReturn(s)
    BY <2>3, SameJobs DEF SigchldReturn, KeyboardReturn
  <2> QED BY <1>3, <2>1, <2>2, <2>3 DEF SigchldStep, SigintStep, SigtstpStep
<1>4. CASE UserStep
  <2>1. CASE \/ Quit \/ Sigquit \/ (\E s \in {FG, BG} : EvalBlock(s))
             \/ \E s \in {"INT", "TSTP"} : Keyboard(s)
    BY <2>1, SameJobs DEF Quit, Sigquit, EvalBlock, Keyboard, Deliver
  <2>2. CASE \E cmd \in {FG, BG}, i \in Slots : DoBgfg(cmd, jobs[i].jid)
    BY <2>2, BgfgRefines
  <2> QED BY <1>4, <2>1, <2>2 DEF UserStep
<1>5. ASSUME NEW p \in Pids, ChildStep(p) PROVE [JC!Next]_job
  BY <1>5, SameJobs
     DEF ChildStep, ChildSetpgid, ChildExec, ChildIgnores, ChildInterrupted,
         ChildSuspended, ChildStops, ChildEnds, Becomes, shellVars
<1>6. CASE Gone \/ UNCHANGED vars
  BY <1>6, SameJobs DEF Gone, vars, shellVars
<1> QED BY <1>1, <1>2, <1>3, <1>4, <1>5, <1>6 DEF Next

\* When the list is long enough for every process, the shell does with its jobs
\* what job control promises and nothing else, whatever interrupts eval and the
\* handlers.
THEOREM RefinesJobControl ==
  ASSUME IsFiniteSet(Pids), Cardinality(Pids) <= MAXJOBS
  PROVE  Spec => ImplementsJobControl
<1>1. Init => JC!Init
  <2> SUFFICES ASSUME Init PROVE job = [p \in Pids |-> "none"]
    BY DEF JC!Init, job
  <2>1. \A i \in Slots : jobs[i].pid = NoPid
    BY DEF Init, initjobs, clearjob
  <2>2. \A p \in Pids : JobIn(jobs, p) = "none"
    BY <2>1, JobUnlisted, PidAssumption
  <2> QED BY <2>2, JobIsJobIn
<1>2. RefInv /\ RefInv' /\ [Next]_vars => [JC!Next]_[p \in Pids |-> JobOf(p)]
  BY NextRefines DEF job
<1> QED BY <1>1, <1>2, RefInvariant, PTL DEF Spec, ImplementsJobControl, JC!Spec

-----------------------------------------------------------------------------
(* What waitfg waits for.                                                  *)

\* The job waitfg is called for is listed in the foreground or as stopped, and
\* so is the one addjob adds for it once it has stored the state.
WaitInv ==
  /\ Waiting =>
       cur \in Pids /\ \A i \in Slots : jobs[i].pid = cur => jobs[i].state \in {FG, ST}
  /\ main = "addjob" /\ add.state = FG /\ "state" \notin add.todo =>
       jobs[add.slot].state \in {FG, ST}

\* A step that neither calls waitfg nor adds a job, and changes states to "ST" only.
LEMMA SameWait ==
  ASSUME RefInv, WaitInv,
         \A i \in Slots :
           \/ jobs'[i] = jobs[i]
           \/ jobs'[i] = clearjob /\ main' # "addjob"
           \/ jobs'[i].pid = jobs[i].pid /\ jobs'[i].state = ST,
         Waiting' => Waiting /\ cur' = cur,
         main' = "addjob" => main = "addjob" /\ add' = add
  PROVE  WaitInv'
<1>1. Waiting' =>
        cur' \in Pids /\ \A i \in Slots : jobs'[i].pid = cur' => jobs'[i].state \in {FG, ST}
  BY PidAssumption DEF WaitInv, clearjob
<1>2. ASSUME main' = "addjob", add'.state = FG, "state" \notin add'.todo
      PROVE  jobs'[add'.slot].state \in {FG, ST}
  <2>1. add.slot \in Slots
    BY <1>2, RefFacts DEF TrackInv
  <2>2. jobs[add.slot].state \in {FG, ST}
    BY <1>2 DEF WaitInv
  <2>3. jobs'[add.slot] = jobs[add.slot] \/ jobs'[add.slot].state = ST
    BY <1>2, <2>1
  <2> QED BY <1>2, <2>2, <2>3
<1> QED BY <1>1, <1>2 DEF WaitInv

LEMMA WaitStep == RefInv /\ RefInv' /\ WaitInv /\ [Next]_vars => WaitInv'
<1> SUFFICES ASSUME RefInv, RefInv', WaitInv, [Next]_vars PROVE WaitInv'
  OBVIOUS
<1>0. TypeOK /\ AddInv /\ TrackInv /\ Distinct(jobs)
  BY RefFacts
<1>1. CASE MainStep
  <2>1. ASSUME NEW p \in Pids, EvalFork(p) PROVE WaitInv'
    <3>1. /\ main' = "addjob" /\ ~Waiting'
          /\ FreeSlot(jobs) # NoSlot => "state" \in add'.todo
          /\ add'.slot = FreeSlot(jobs)
      BY <1>0, <2>1 DEF EvalFork, Waiting, TypeOK, Adding, Fields
    <3>2. add'.slot \in Slots
      BY <3>1 DEF RefInv, AgreeInv, TrackInv
    <3> QED BY <3>1, <3>2, NoSlotFact DEF WaitInv
  <2>2. ASSUME NEW f \in Fields, AddjobStore(f) PROVE WaitInv'
    <3>1. add'.state = add.state
      BY <1>0, <2>2 DEF AddjobStore, TypeOK, Adding
    <3> QED BY <2>2, <3>1, StoreSlot DEF WaitInv, Waiting
  <2>3. CASE EvalUnblock
    <3>1. /\ main = "addjob" /\ add.todo = {} /\ jobs' = jobs /\ main' # "addjob"
          /\ Waiting' => add.state = FG /\ cur' = cur
      BY <2>3 DEF EvalUnblock, MainAt, Waiting
    <3>2. cur \in Pids /\ add.slot \in Slots /\ jobs[add.slot].pid = cur
      BY <1>0, <3>1 DEF TrackInv, AddInv
    <3>3. \A i \in Slots : jobs[i].pid = cur => i = add.slot
      BY <1>0, <3>2, PidAssumption DEF Distinct
    <3> QED BY <3>1, <3>2, <3>3 DEF WaitInv
  <2>4. CASE EvalForkFails \/ WaitfgSuspend \/ WaitfgResume \/ WaitfgReturn
    BY <2>4, SameWait DEF EvalForkFails, WaitfgSuspend, WaitfgResume, WaitfgReturn,
                          MainAt, Waiting
  <2> QED BY <1>1, <2>1, <2>2, <2>3, <2>4 DEF MainStep
<1>2. CASE DeliverChld
  BY <1>2, SameWait DEF DeliverChld, Deliver, Waiting
<1>3. CASE SigchldStep \/ SigintStep \/ SigtstpStep
  <2>1. CASE (\E p \in Pids : SigchldWait(p)) \/ SigintForward
    BY <2>1, SameWait DEF SigchldWait, SigintForward, shellVars, Waiting
  <2>2. CASE SigchldReturn \/ \E s \in {"INT", "TSTP"} : KeyboardReturn(s)
    BY <2>2, SameWait DEF SigchldReturn, KeyboardReturn, HandlerReturn, Waiting
  <2>3. CASE SigchldDelete
    <3>1. main' = main /\ cur' = cur /\ main # "addjob"
      BY <2>3, ChldSlot DEF SigchldDelete
    <3>2. \A i \in Slots : jobs'[i] = clearjob \/ jobs'[i] = jobs[i]
      BY <1>0, <2>3, DeleteJob DEF SigchldDelete, TypeOK
    <3> QED BY <3>1, <3>2, SameWait DEF Waiting
  <2>4. CASE SigchldStop
    <3>1. UNCHANGED <<main, cur, add>>
      BY <2>4 DEF SigchldStop
    <3>2. \A i \in Slots : \/ jobs'[i] = jobs[i]
                           \/ jobs'[i].pid = jobs[i].pid /\ jobs'[i].state = ST
      <4>1. jobs' = jobs \/ \E k : jobs' = [jobs EXCEPT ![k].state = ST]
        BY <2>4 DEF SigchldStop
      <4> QED BY <1>0, <4>1 DEF TypeOK, Job
    <3> QED BY <3>1, <3>2, SameWait DEF Waiting
  <2>5. CASE SigtstpForward
    <3>1. UNCHANGED <<main, cur, add>>
      BY <2>5 DEF SigtstpForward
    <3>2. \A i \in Slots : \/ jobs'[i] = jobs[i]
                           \/ jobs'[i].pid = jobs[i].pid /\ jobs'[i].state = ST
      <4>1. jobs' = jobs \/ \E k : jobs' = [jobs EXCEPT ![k].state = ST]
        BY <2>5 DEF SigtstpForward
      <4> QED BY <1>0, <4>1 DEF TypeOK, Job
    <3> QED BY <3>1, <3>2, SameWait DEF Waiting
  <2> QED BY <1>3, <2>1, <2>2, <2>3, <2>4, <2>5
          DEF SigchldStep, SigintStep, SigtstpStep
<1>4. CASE UserStep
  <2>1. CASE \/ Quit \/ Sigquit \/ (\E s \in {FG, BG} : EvalBlock(s))
             \/ \E s \in {"INT", "TSTP"} : Keyboard(s)
    BY <2>1, SameWait DEF Quit, Sigquit, EvalBlock, MainAt, Keyboard, Deliver, Waiting
  <2>2. ASSUME NEW cmd \in {FG, BG}, NEW l \in Slots, DoBgfg(cmd, jobs[l].jid)
        PROVE  WaitInv'
    <3> DEFINE k == getjobjid(jobs, jobs[l].jid)
    <3>1. /\ main = "prompt" /\ main' # "addjob" /\ k \in Slots
          /\ jobs' = [jobs EXCEPT ![k].state = cmd]
          /\ Waiting' => cmd = FG /\ cur' = jobs[k].pid
      BY <2>2, GetJobJid DEF DoBgfg, MainAt, Waiting
    <3>2. /\ jobs'[k].pid = jobs[k].pid /\ jobs'[k].state = cmd
          /\ \A i \in Slots : i # k => jobs'[i] = jobs[i]
      BY <1>0, <3>1 DEF TypeOK, Job
    <3>3. jobs[k].pid \in Pids
      <4>1. jobs[k].jid >= 1
        BY <2>2, GetJobJid, NoSlotFact DEF DoBgfg
      <4>2. jobs[k].jid # 0
        BY <4>1
      <4> QED BY <1>0, <3>1, <4>2 DEF RefInv, SlotInv, TypeOK, Job
    <3> HIDE DEF k
    <3>4. \A i \in Slots : jobs[i].pid = jobs[k].pid => i = k
      BY <1>0, <3>1, <3>3, PidAssumption DEF Distinct
    <3> QED BY <3>1, <3>2, <3>3, <3>4 DEF WaitInv
  <2> QED BY <1>4, <2>1, <2>2 DEF UserStep
<1>5. ASSUME NEW p \in Pids, ChildStep(p) PROVE WaitInv'
  BY <1>5, SameWait
     DEF ChildStep, ChildSetpgid, ChildExec, ChildIgnores, ChildInterrupted,
         ChildSuspended, ChildStops, ChildEnds, Becomes, shellVars, Waiting
<1>6. CASE Gone \/ UNCHANGED vars
  BY <1>6, SameWait DEF Gone, vars, shellVars, Waiting
<1> QED BY <1>1, <1>2, <1>3, <1>4, <1>5, <1>6 DEF Next

\* When the list is long enough for every process, waitfg gives up only on a child
\* that is gone or listed as stopped.
THEOREM WaitfgWaits ==
  ASSUME IsFiniteSet(Pids), Cardinality(Pids) <= MAXJOBS
  PROVE  Spec => WaitsForForeground
<1> DEFINE A == Waiting /\ main' = "prompt" =>
                  \/ proc[cur] \in {"free", "zombie"}
                  \/ \E i \in Slots : jobs[i].pid = cur /\ jobs[i].state = ST
<1>1. Init => WaitInv
  BY DEF Init, WaitInv, Waiting
<1>2. RefInv /\ RefInv' /\ WaitInv /\ [Next]_vars => WaitInv'
  BY WaitStep
<1>3. RefInv /\ WaitInv /\ [Next]_vars => [A]_vars
  <2> SUFFICES ASSUME RefInv, WaitInv, Next, Waiting, main' = "prompt",
                      proc[cur] \notin {"free", "zombie"}
               PROVE  \E i \in Slots : jobs[i].pid = cur /\ jobs[i].state = ST
    OBVIOUS
  <2>1. fgpid(jobs) # cur
    <3>1. main \in {"waitfg", "suspended", "resumed"}
      BY DEF Waiting
    <3>2. CASE MainStep
      BY <3>1, <3>2 DEF MainStep, EvalFork, EvalForkFails, AddjobStore, EvalUnblock,
                        WaitfgSuspend, WaitfgResume, WaitfgReturn, MainAt
    <3>3. CASE DeliverChld \/ SigchldStep \/ SigintStep \/ SigtstpStep
      BY <3>1, <3>3 DEF DeliverChld, Deliver, SigchldStep, SigintStep, SigtstpStep,
           SigchldWait, SigchldDelete, SigchldStop, SigchldReturn, SigintForward,
           SigtstpForward, KeyboardReturn, HandlerReturn, shellVars
    <3>4. CASE UserStep
      BY <3>1, <3>4 DEF UserStep, Quit, EvalBlock, DoBgfg, Keyboard, Deliver, Sigquit,
                        MainAt
    <3>5. CASE (\E p \in Pids : ChildStep(p)) \/ Gone
      BY <3>1, <3>5
         DEF ChildStep, ChildSetpgid, ChildExec, ChildIgnores, ChildInterrupted,
             ChildSuspended, ChildStops, ChildEnds, Becomes, Gone, vars, shellVars
    <3> QED BY <3>2, <3>3, <3>4, <3>5 DEF Next
  <2>2. cur \in Pids /\ main # "addjob"
    BY DEF WaitInv, Waiting
  <2>3. PICK i \in Slots : jobs[i].pid = cur
    BY <2>2, RefFacts DEF TrackInv, Listed, Unlisted
  <2>4. jobs[i].state \in {FG, ST}
    BY <2>3 DEF WaitInv
  <2>5. jobs[i].state # FG
    <3> SUFFICES ASSUME jobs[i].state = FG PROVE FALSE
      OBVIOUS
    <3>1. PICK k \in Slots : jobs[k].state = FG /\ fgpid(jobs) = jobs[k].pid
      BY FgPid
    <3>2. jobs[k].pid = cur
      BY <2>2, <3>1 DEF RefInv, ForegroundIsAwaited
    <3> QED BY <2>1, <3>1, <3>2
  <2> QED BY <2>3, <2>4, <2>5
<1> QED BY <1>1, <1>2, <1>3, RefInvariant, PTL DEF Spec, WaitsForForeground

=============================================================================
