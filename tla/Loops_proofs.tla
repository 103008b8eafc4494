----------------------------- MODULE Loops_proofs -----------------------------
(***************************************************************************)
(* The two loops of Python over operations: the waiter, for any acceptors, *)
(* budget, delay and timeouts, and the paginator, for any token fields,    *)
(* any values and any length of the service's list.                        *)
(***************************************************************************)
EXTENDS Waiter, Paginator, TLAPS

(***************************************************************************)
(* Part 1.  The waiter.                                                    *)
(***************************************************************************)
Shape ==
    /\ now \in Nat
    /\ deadline \in Nat \cup {NoDeadline}
    /\ attempts \in Nat
    /\ cancelling \in Nat
    /\ result = "none" <=> pc # "done"

\* A poll is left wherever the loop can come back to its top.
PollsLeft == pc \in {"top", "sleeping"} => attempts < MaxAttempts

Budget == attempts <= MaxAttempts /\ PollsLeft

\* Only a deadline that has passed fires, and it stays passed.
FiredIsReal == timer = "fired" => Overdue

(***************************************************************************)
(* While the wait lasts, the task's count tells whose requests it has had: *)
(* this is what lets asyncio.timeout_at know its own cancellation.         *)
(***************************************************************************)
CountIsRequests ==
    /\ pc # "done" => cancelling = (IF timer = "fired" THEN 1 ELSE 0)
                                   + (IF callerCancelled THEN 1 ELSE 0)
    /\ "caller" \in requests => callerCancelled

\* The caller's request is on its way into the task, or has ended the wait.
CallerIsServed ==
    "caller" \in requests =>
        \/ Suspended /\ throwing
        \/ pc = "unwinding"
        \/ result = "cancelled"

WaiterInv ==
    /\ Shape /\ Budget /\ FiredIsReal /\ CountIsRequests /\ CallerIsServed
    /\ LateAnswerIsTimeout /\ DeadlineIsReal

LEMMA WaiterInit == Init => WaiterInv
<1> SUFFICES ASSUME Init PROVE WaiterInv
  OBVIOUS
<1>1. deadline \in Nat \cup {NoDeadline} /\ MaxAttempts \in Nat \ {0}
  BY WaiterAssumption DEF Init, WaiterAssumption
<1>2. Shape /\ Budget
  BY <1>1 DEF Init, Shape, Budget, PollsLeft
<1>3. FiredIsReal /\ CountIsRequests
  BY DEF Init, FiredIsReal, CountIsRequests
<1>4. CallerIsServed /\ LateAnswerIsTimeout /\ DeadlineIsReal
  BY DEF Init, CallerIsServed, LateAnswerIsTimeout, DeadlineIsReal
<1> QED
  BY <1>2, <1>3, <1>4 DEF WaiterInv

(***************************************************************************)
(* What the acceptors decide is one of the ends of a wait, and a wait that *)
(* goes on has a poll left.                                                *)
(***************************************************************************)
LEMMA EndingIsVerdict ==
    ASSUME NEW a
    PROVE  /\ Ending(a) \in {"success", "failed", "service_error", "max_attempts", "none"}
           /\ Ending(a) = "none" => attempts # MaxAttempts
BY DEF Ending

\* Leaving for any reason but the acceptors' keeps the invariant.
LEMMA LeaveKeeps ==
    ASSUME WaiterInv, pc # "done", NEW r, Leave(r),
           r \in Results \ {"none"},
           r = "deadline" => Overdue,
           r \in {"success", "failed", "service_error", "max_attempts"} => ~Overdue,
           "caller" \in requests => r = "cancelled",
           UNCHANGED <<now, deadline, attempts>>
    PROVE  WaiterInv'
<1> USE DEF WaiterInv, Leave
<1>1. Shape'
  BY DEF Shape, CountIsRequests, Results
<1>2. Budget'
  BY DEF Budget, PollsLeft
<1>3. FiredIsReal'
  BY DEF FiredIsReal, Overdue
<1>4. CountIsRequests' /\ CallerIsServed'
  BY DEF CountIsRequests, CallerIsServed
<1>5. LateAnswerIsTimeout' /\ DeadlineIsReal'
  BY DEF LateAnswerIsTimeout, DeadlineIsReal, Overdue
<1> QED
  BY <1>1, <1>2, <1>3, <1>4, <1>5

\* A CancelledError leaves as the deadline's only when the caller made none.
LEMMA CancelledLeaves ==
    ASSUME WaiterInv, pc # "done", LeaveCancelled, UNCHANGED <<now, deadline, attempts>>
    PROVE  WaiterInv'
<1> DEFINE r == IF timer = "fired" /\ cancelling = 1 THEN "deadline" ELSE "cancelled"
<1>1. r = "deadline" => Overdue
  BY DEF WaiterInv, FiredIsReal
<1>2. "caller" \in requests => r = "cancelled"
  BY DEF WaiterInv, CountIsRequests
<1>3. Leave(r)
  BY DEF LeaveCancelled
<1> QED
  BY <1>1, <1>2, <1>3, LeaveKeeps DEF Results

\* A cancellation request reaches the suspended task.
LEMMA RequestKeeps ==
    ASSUME WaiterInv, Fire \/ CallerCancel
    PROVE  WaiterInv'
<1> USE DEF WaiterInv, CancelTask, Suspended
<1>1. pc \in {"awaiting", "sleeping"} /\ throwing' = TRUE
      /\ UNCHANGED <<now, deadline, pc, attempts, result>>
  BY DEF Fire, CallerCancel, loopVars, pollVars
<1>2. Budget' /\ CallerIsServed' /\ LateAnswerIsTimeout' /\ DeadlineIsReal'
  BY <1>1 DEF Budget, PollsLeft, CallerIsServed, LateAnswerIsTimeout, DeadlineIsReal, Overdue
<1>3. Shape' /\ FiredIsReal'
  BY <1>1 DEF Fire, CallerCancel, Shape, FiredIsReal, Overdue
<1>4. CASE Fire
  <2>1. CountIsRequests'
    BY <1>1, <1>4 DEF Fire, CountIsRequests, Shape
  <2> QED
    BY <1>2, <1>3, <2>1
<1>5. CASE CallerCancel
  <2>1. CountIsRequests'
    BY <1>1, <1>5 DEF CallerCancel, CountIsRequests, Shape
  <2> QED
    BY <1>2, <1>3, <2>1
<1> QED
  BY <1>4, <1>5

\* Steps that only move the task.
LEMMA MoveKeeps ==
    ASSUME WaiterInv,
           \/ Poll \/ Suspend \/ Sleep \/ SleepOver \/ Progress \/ Deliver \/ Suppress
           \/ \E a \in Answers : Return(a)
    PROVE  WaiterInv'
<1> USE DEF WaiterInv, Shape, Budget, PollsLeft, FiredIsReal, CountIsRequests, CallerIsServed,
            LateAnswerIsTimeout, DeadlineIsReal, Overdue, Suspended, loopVars, pollVars, cancelVars
<1>1. CASE Poll
  BY <1>1, WaiterAssumption DEF Poll, WaiterAssumption
<1>2. CASE Suspend \/ \E a \in Answers : Return(a)
  BY <1>2 DEF Suspend, Return
<1>3. CASE Sleep
  <2>1. attempts # MaxAttempts
    BY <1>3, EndingIsVerdict DEF Sleep
  <2> QED
    BY <1>3, <2>1, WaiterAssumption DEF Sleep, WaiterAssumption
<1>4. CASE SleepOver \/ Progress
  BY <1>4 DEF SleepOver, Progress
<1>5. CASE Deliver \/ Suppress
  BY <1>5 DEF Deliver, Suppress
<1> QED
  BY <1>1, <1>2, <1>3, <1>4, <1>5

LEMMA WaiterStep ==
    ASSUME WaiterInv, [Next]_vars
    PROVE  WaiterInv'
<1>1. CASE UNCHANGED vars \/ Finished
  BY <1>1 DEF Finished, vars, loopVars, pollVars, cancelVars, WaiterInv, Shape, Budget, PollsLeft,
     FiredIsReal, CountIsRequests, CallerIsServed, LateAnswerIsTimeout, DeadlineIsReal, Overdue,
     Suspended
<1>2. CASE Tick
  BY <1>2 DEF Tick, pollVars, cancelVars, WaiterInv, Shape, Budget, PollsLeft, FiredIsReal,
     CountIsRequests, CallerIsServed, LateAnswerIsTimeout, DeadlineIsReal, Overdue, Suspended
<1>3. CASE Fire \/ CallerCancel
  BY <1>3, RequestKeeps
<1>4. CASE PollOverdue \/ AnswerOverdue
  <2>1. /\ pc \in {"top", "answered"} /\ Overdue /\ Leave("deadline")
        /\ UNCHANGED <<now, deadline, attempts>>
    BY <1>4 DEF PollOverdue, AnswerOverdue, loopVars, pollVars
  <2>2. "caller" \notin requests
    BY <2>1 DEF WaiterInv, Shape, CallerIsServed, Suspended
  <2> QED
    BY <2>1, <2>2, LeaveKeeps DEF Results
<1>5. CASE RaiseTimeout \/ RaiseOther
  <2>1. PICK r \in {"deadline", "raised"} :
            /\ pc = "call" /\ Leave(r)
            /\ r = "deadline" => timer = "fired"
            /\ UNCHANGED <<now, deadline, attempts>>
    BY <1>5 DEF RaiseTimeout, RaiseOther, loopVars, pollVars
  <2>2. "caller" \notin requests
    BY <2>1 DEF WaiterInv, Shape, CallerIsServed, Suspended
  <2>3. r = "deadline" => Overdue
    BY <2>1 DEF WaiterInv, FiredIsReal
  <2> QED
    BY <2>1, <2>2, <2>3, LeaveKeeps DEF Results
<1>6. CASE Decide
  <2>1. /\ pc = "answered" /\ ~Overdue /\ Leave(Ending(answer))
        /\ UNCHANGED <<now, deadline, attempts>>
    BY <1>6 DEF Decide, loopVars
  <2>2. "caller" \notin requests
    BY <2>1 DEF WaiterInv, Shape, CallerIsServed, Suspended
  <2>3. Ending(answer) \in {"success", "failed", "service_error", "max_attempts"}
    BY <1>6, EndingIsVerdict DEF Decide
  <2> QED
    BY <2>1, <2>2, <2>3, LeaveKeeps DEF Results
<1>7. CASE Unwind \/ SleepCancelled
  <2>1. pc # "done" /\ LeaveCancelled /\ UNCHANGED <<now, deadline, attempts>>
    BY <1>7 DEF Unwind, SleepCancelled, loopVars, pollVars
  <2> QED
    BY <2>1, CancelledLeaves
<1> QED
  BY <1>1, <1>2, <1>3, <1>4, <1>5, <1>6, <1>7, MoveKeeps DEF Next, RunningStep

LEMMA WaiterInvariant == Spec => []WaiterInv
<1>1. WaiterInv /\ [Next]_vars => WaiterInv'
  BY WaiterStep
<1> QED
  BY WaiterInit, <1>1, PTL DEF Spec

(***************************************************************************)
(* The assertion at the end of wait() is unreachable.                      *)
(***************************************************************************)
THEOREM NeverUnreachable == Spec => []UnreachableState
<1>1. WaiterInv => UnreachableState
  BY DEF WaiterInv, Budget, PollsLeft, UnreachableState
<1> QED
  BY WaiterInvariant, <1>1, PTL

(***************************************************************************)
(* A late answer never decides a wait.                                     *)
(***************************************************************************)
THEOREM LateMeansTimeout == Spec => []LateAnswerIsTimeout
<1>1. WaiterInv => LateAnswerIsTimeout
  BY DEF WaiterInv
<1> QED
  BY WaiterInvariant, <1>1, PTL

(***************************************************************************)
(* A deadline error is never early, and never an operation's own timeout.  *)
(***************************************************************************)
THEOREM TimeoutIsReal == Spec => []DeadlineIsReal
<1>1. WaiterInv => DeadlineIsReal
  BY DEF WaiterInv
<1> QED
  BY WaiterInvariant, <1>1, PTL

(***************************************************************************)
(* The caller's cancellation ends the wait as a cancellation, whatever the *)
(* deadline does.                                                          *)
(***************************************************************************)
THEOREM CallerWins == Spec => []CancellationWins
<1>1. WaiterInv => CancellationWins
  BY DEF WaiterInv, Shape, CallerIsServed, CancellationWins, Suspended
<1> QED
  BY WaiterInvariant, <1>1, PTL

(***************************************************************************)
(* Every variable of the waiter keeps its range.                           *)
(***************************************************************************)
LEMMA LeaveTypes ==
    ASSUME WaiterInv, TypeOK, pc # "done", NEW r \in Results \ {"none"}, Leave(r),
           UNCHANGED <<loopVars, attempts, answer, until>>, last' \in {last, attempts}
    PROVE  TypeOK'
<1>1. cancelling' \in 0..2
  <2>1. cancelling = (IF timer = "fired" THEN 1 ELSE 0) + (IF callerCancelled THEN 1 ELSE 0)
    BY DEF WaiterInv, CountIsRequests
  <2> QED
    BY <2>1 DEF Leave, TypeOK
<1> QED
  BY <1>1 DEF TypeOK, Leave, loopVars

LEMMA WaiterTypeStep ==
    ASSUME WaiterInv, TypeOK, [Next]_vars
    PROVE  TypeOK'
<1> USE WaiterAssumption DEF WaiterAssumption
<1>1. CASE UNCHANGED vars \/ Finished \/ Suspend \/ SleepOver \/ Progress \/ Deliver \/ Suppress
  BY <1>1 DEF TypeOK, vars, loopVars, pollVars, cancelVars, Finished, Suspend, SleepOver, Progress,
     Deliver, Suppress
<1>2. CASE Tick
  BY <1>2 DEF TypeOK, Tick, pollVars, cancelVars
<1>3. CASE Poll
  BY <1>3 DEF TypeOK, Poll, loopVars, cancelVars
<1>4. ASSUME NEW a \in Answers, Return(a)
      PROVE  TypeOK'
  BY <1>4 DEF TypeOK, Return, loopVars, cancelVars
<1>5. CASE Sleep
  <2>1. WakeUp \in 0..MaxTime
    BY DEF WakeUp, TypeOK
  <2> QED
    BY <1>5, <2>1 DEF TypeOK, Sleep, loopVars, cancelVars
<1>6. CASE Fire \/ CallerCancel
  <2>1. cancelling' \in 0..2
    <3>1. cancelling = (IF timer = "fired" THEN 1 ELSE 0) + (IF callerCancelled THEN 1 ELSE 0)
      BY <1>6 DEF WaiterInv, CountIsRequests, Fire, CallerCancel, CancelTask, Suspended
    <3> QED
      BY <1>6, <3>1 DEF Fire, CallerCancel, CancelTask, TypeOK
  <2> QED
    BY <1>6, <2>1 DEF TypeOK, Fire, CallerCancel, CancelTask, loopVars, pollVars
<1>7. CASE PollOverdue \/ AnswerOverdue \/ RaiseTimeout \/ RaiseOther
  BY <1>7, LeaveTypes DEF PollOverdue, AnswerOverdue, RaiseTimeout, RaiseOther, pollVars, Results
<1>8. CASE Decide
  BY <1>8, LeaveTypes, EndingIsVerdict DEF Decide, Results
<1>9. CASE Unwind \/ SleepCancelled
  <2>1. PICK r \in {"deadline", "cancelled"} : Leave(r)
    BY <1>9 DEF Unwind, SleepCancelled, LeaveCancelled
  <2> QED
    BY <1>9, <2>1, LeaveTypes DEF Unwind, SleepCancelled, pollVars, Results
<1> QED
  BY <1>1, <1>2, <1>3, <1>4, <1>5, <1>6, <1>7, <1>8, <1>9 DEF Next, RunningStep

(***************************************************************************)
(* Time, attempts, answers and cancellation requests stay in range; a wait *)
(* makes at most MaxAttempts calls, and its task's count of requests never *)
(* exceeds the two that there can be.                                      *)
(***************************************************************************)
THEOREM WaitKeepsTypes == Spec => []TypeOK
<1>1. Init => TypeOK
  <2> SUFFICES ASSUME Init PROVE TypeOK
    OBVIOUS
  <2>1. 0 \in 0..MaxTime /\ 0 \in 0..MaxAttempts /\ 0 \in 0..2
    BY WaiterAssumption DEF WaiterAssumption
  <2>2. timer \in {"off", "armed", "fired"}
    BY DEF Init
  <2> QED
    BY <2>1, <2>2 DEF Init, TypeOK, Results
<1>2. WaiterInv /\ TypeOK /\ [Next]_vars => TypeOK'
  BY WaiterTypeStep
<1> QED
  BY <1>1, <1>2, WaiterInvariant, PTL DEF Spec

(***************************************************************************)
(* What DeadlineBinds rests on: as long as a wait with a deadline lasts,   *)
(* its timer is set or has fired; and a deadline that has fired is on its  *)
(* way into the task, or has ended the wait as a deadline or as the        *)
(* caller's cancellation, unless the call suppressed it.                   *)
(***************************************************************************)
DeadlineIsServed ==
    /\ deadline # NoDeadline /\ pc # "done" => timer # "off"
    /\ "timer" \in requests =>
        \/ Suspended /\ throwing
        \/ pc = "unwinding"
        \/ result \in {"deadline", "cancelled"}

LEMMA ServedStep ==
    ASSUME WaiterInv, TypeOK, DeadlineIsServed, [Next]_vars
    PROVE  DeadlineIsServed'
<1> USE DEF DeadlineIsServed, Suspended
<1>0. result = "none" <=> pc # "done"
  BY DEF WaiterInv, Shape
<1>1. CASE UNCHANGED vars \/ Finished \/ Tick
  BY <1>1 DEF vars, loopVars, pollVars, cancelVars, Finished, Tick
<1>2. CASE Poll \/ Suspend \/ Sleep \/ SleepOver \/ Progress \/ Deliver \/ Suppress
  BY <1>0, <1>2 DEF Poll, Suspend, Sleep, SleepOver, Progress, Deliver, Suppress, loopVars, cancelVars
<1>3. ASSUME NEW a \in Answers, Return(a)
      PROVE  DeadlineIsServed'
  BY <1>0, <1>3 DEF Return, loopVars, cancelVars
<1>4. CASE Fire \/ CallerCancel
  BY <1>4 DEF Fire, CallerCancel, CancelTask, loopVars
<1>5. CASE PollOverdue \/ AnswerOverdue \/ RaiseTimeout \/ RaiseOther \/ Decide
  BY <1>0, <1>5 DEF PollOverdue, AnswerOverdue, RaiseTimeout, RaiseOther, Decide, Leave, loopVars
<1>6. CASE Unwind \/ SleepCancelled
  BY <1>6 DEF Unwind, SleepCancelled, LeaveCancelled, Leave, loopVars
<1> QED
  BY <1>1, <1>2, <1>3, <1>4, <1>5, <1>6 DEF Next, RunningStep

\* No deadline is forgotten, for any budget, delay and deadline.
THEOREM FiredDeadlineIsServed == Spec => []DeadlineIsServed
<1>1. Init => DeadlineIsServed
  BY DEF Init, DeadlineIsServed
<1>2. WaiterInv /\ TypeOK /\ DeadlineIsServed /\ [Next]_vars => DeadlineIsServed'
  BY ServedStep
<1> QED
  BY <1>1, <1>2, WaiterInvariant, WaitKeepsTypes, PTL DEF Spec

-----------------------------------------------------------------------------
(***************************************************************************)
(* Part 2.  The paginator.                                                 *)
(***************************************************************************)
Pages == 1..Last

(***************************************************************************)
(* Until a call is answered its request has exactly the tokens of the page *)
(* after the one seen last; `previous` has them until the loop has the     *)
(* answer, which is that page; while the consumer has a page, `following`  *)
(* has the tokens of the next one, and the loop is to stop exactly when    *)
(* there is none.  Objects that others may change are not mentioned beyond *)
(* that.                                                                   *)
(***************************************************************************)
LoopInv ==
    /\ phase = "new" => seen = 0
    /\ phase = "calling" =>
        /\ seen + 1 \in Pages
        /\ request = tokenOf[seen + 1]
        /\ previous = tokenOf[seen + 1]
    /\ phase = "answered" =>
        /\ served \in Pages /\ served = seen + 1
        /\ previous = tokenOf[served]
    /\ phase = "given" =>
        /\ seen \in Pages
        /\ stops <=> seen = Last
        /\ seen # Last => following = tokenOf[seen + 1]

ServiceInv == tokenOf \in Services /\ lastPage \in LastPages(tokenOf)

PagingInv == PagingTypeOK /\ ServiceInv /\ LoopInv

(***************************************************************************)
(* The service answers a request that is made in order with the next page. *)
(***************************************************************************)
LEMMA AnswersInOrder ==
    ASSUME PagingInv, NEW p \in Pages, Answer(p)
    PROVE  p = seen + 1 /\ previous = tokenOf[p]
<1> USE TokensAssumption DEF TokensAssumption, Pages
<1>1. /\ phase = "calling" /\ seen + 1 \in Pages
      /\ request = tokenOf[seen + 1] /\ previous = tokenOf[seen + 1]
      /\ tokenOf \in Services
  BY DEF PagingInv, LoopInv, Answer, ServiceInv
<1>2. tokenOf[p] = tokenOf[seen + 1]
  BY <1>1 DEF Answer, Asked
<1>3. p = seen + 1
  BY <1>1, <1>2 DEF Services
<1> QED
  BY <1>1, <1>3

(***************************************************************************)
(* What the loop reads of an answer: the tokens of the next page, or that  *)
(* there is none.                                                          *)
(***************************************************************************)
LEMMA YieldReads ==
    ASSUME PagingInv, Yield
    PROVE  /\ served = seen + 1 /\ seen' = served /\ phase' = "given"
           /\ stops' <=> served = Last
           /\ served # Last => following' = tokenOf[served + 1]
<1> USE TokensAssumption DEF TokensAssumption, Pages
<1>1. /\ phase = "answered" /\ served \in Pages /\ served = seen + 1
      /\ previous = tokenOf[served]
      /\ tokenOf \in Services /\ lastPage \in LastPages(tokenOf)
  BY DEF PagingInv, LoopInv, Yield, Give, ServiceInv
<1>2. CASE served = Last
  <2>1. ~lastPage.more \/ lastPage.tokens \in {Absent, tokenOf[Last]}
    BY <1>1 DEF LastPages
  <2> QED
    BY <1>1, <1>2, <2>1 DEF Yield, Give, Page
<1>3. CASE served # Last
  <2>1. served + 1 \in 2..Last /\ served + 1 \in Pages
    BY <1>1, <1>3
  <2>2. tokenOf[served + 1] # Absent /\ tokenOf[served + 1] # tokenOf[served]
    BY <1>1, <2>1 DEF Services
  <2>3. Page(served).more /\ Page(served).tokens = tokenOf[served + 1]
    BY <1>3 DEF Page
  <2> QED
    BY <1>1, <1>3, <2>2, <2>3 DEF Yield, Give
<1> QED
  BY <1>2, <1>3

LEMMA PagingInitInv == PagingInit => PagingInv
<1> SUFFICES ASSUME PagingInit PROVE PagingInv
  OBVIOUS
<1> USE TokensAssumption DEF TokensAssumption, PagingInit
<1>1. Absent \in Tuples /\ Absent \in Mutable
  BY DEF Absent, Tuples, Mutable
<1>2. tokenOf \in [Pages -> Tuples] /\ lastPage \in [tokens : Tuples, more : BOOLEAN]
  BY DEF Services, LastPages, Pages
<1>3. stops \in BOOLEAN
  BY Zenon
<1>4. PagingTypeOK
  BY <1>1, <1>2, <1>3 DEF PagingTypeOK, Pages
<1> QED
  BY <1>4 DEF PagingInv, ServiceInv, LoopInv

LEMMA PagingStep == PagingInv /\ [PagingNext]_pagingVars => PagingInv'
<1> SUFFICES ASSUME PagingInv, [PagingNext]_pagingVars PROVE PagingInv'
  OBVIOUS
<1> USE TokensAssumption DEF TokensAssumption, Pages, PagingInv, PagingTypeOK, ServiceInv, LoopInv
<1>1. Tuples \subseteq Mutable
  BY DEF Tuples, Mutable
<1>2. CASE UNCHANGED pagingVars \/ PagingFinished
  BY <1>2 DEF pagingVars, serviceVars, PagingFinished
<1>3. CASE Start
  BY <1>1, <1>3 DEF Start, serviceVars
<1>4. CASE Resume
  <2>1. seen \in 1..Last /\ seen # Last
    BY <1>4 DEF Resume
  <2> QED
    BY <1>1, <1>4, <2>1 DEF Resume, serviceVars
<1>5. CASE Complete \/ Abandon
  BY <1>5 DEF Complete, Abandon, serviceVars
<1>6. ASSUME NEW p \in Pages, Answer(p) PROVE PagingInv'
  <2>1. p = seen + 1 /\ previous = tokenOf[p]
    BY <1>6, AnswersInOrder
  <2> QED
    BY <1>6, <2>1 DEF Answer, serviceVars
<1>7. CASE Yield
  <2>1. /\ served = seen + 1 /\ seen' = served /\ phase' = "given"
        /\ stops' <=> served = Last
        /\ served # Last => following' = tokenOf[served + 1]
    BY <1>7, YieldReads
  <2>2. phase = "answered" /\ served \in Pages
    BY <1>7 DEF Yield, Give
  <2>3. Page(served).tokens \in Tuples
    <3>1. CASE served = Last
      BY <3>1 DEF Page
    <3>2. CASE served # Last
      BY <2>2, <3>2 DEF Page
    <3> QED
      BY <3>1, <3>2
  <2>4. /\ following' \in Tuples /\ page' \in Mutable /\ stops' \in BOOLEAN
        /\ UNCHANGED <<serviceVars, request, previous, served>>
    BY <1>1, <1>7, <2>3 DEF Yield, Give
  <2> QED
    BY <1>1, <2>1, <2>2, <2>4 DEF serviceVars
<1>8. ASSUME NEW n \in Names, ConsumerMutates(n) PROVE PagingInv'
  <2>1. page' \in Mutable
    BY <1>8 DEF ConsumerMutates, Mutable
  <2> QED
    BY <1>8, <2>1 DEF ConsumerMutates, serviceVars
<1>9. ASSUME NEW n \in Names, MiddlewareMutates(n) PROVE PagingInv'
  <2>1. request' \in Mutable /\ following' \in Mutable
    BY <1>9 DEF MiddlewareMutates, Mutable
  <2>2. phase = "given" => following' = following
    BY <1>9 DEF MiddlewareMutates
  <2> QED
    BY <1>9, <2>1, <2>2 DEF MiddlewareMutates, serviceVars
<1> QED
  BY <1>2, <1>3, <1>4, <1>5, <1>6, <1>7, <1>8, <1>9 DEF PagingNext, Ask

LEMMA PagingInvariant == PagingSpec => []PagingInv
BY PagingInitInv, PagingStep, PTL DEF PagingSpec

(***************************************************************************)
(* Every variable stays in its range; in particular what the loop compares *)
(* and sends on is never an object that somebody changed.                  *)
(***************************************************************************)
THEOREM PagesKeepTheirTypes == PagingSpec => []PagingTypeOK
<1>1. PagingInv => PagingTypeOK
  BY DEF PagingInv
<1> QED
  BY PagingInvariant, <1>1, PTL

(***************************************************************************)
(* The loop implements the listing: pages in order, each once, one request *)
(* for each that is asked for, an end only after the last.                 *)
(***************************************************************************)
THEOREM PagesAreListed == PagingSpec => ImplementsListing
<1>1. PagingInit => L!Init
  BY DEF PagingInit, L!Init, ListingPhase
<1>2. PagingInv /\ [PagingNext]_pagingVars => [L!Next]_<<seen, ListingPhase>>
  <2> SUFFICES ASSUME PagingInv, [PagingNext]_pagingVars
               PROVE  [L!Next]_<<seen, ListingPhase>>
    OBVIOUS
  <2> USE TokensAssumption DEF TokensAssumption, Pages, PagingInv, PagingTypeOK, LoopInv, ListingPhase
  <2>1. CASE UNCHANGED pagingVars \/ PagingFinished
    BY <2>1 DEF pagingVars, PagingFinished
  <2>2. CASE Start
    BY <2>2 DEF Start, L!Next, L!Ask
  <2>3. CASE Resume
    BY <2>3 DEF Resume, L!Next, L!Ask
  <2>4. CASE Complete
    BY <2>4 DEF Complete, L!Next, L!End
  <2>5. CASE Abandon
    BY <2>5 DEF Abandon, L!Next, L!Abandon
  <2>6. ASSUME NEW p \in Pages, Answer(p)
        PROVE  UNCHANGED <<seen, ListingPhase>>
    BY <2>6 DEF Answer
  <2>7. CASE Yield
    BY <2>7, YieldReads DEF Yield, Give, L!Next, L!Give
  <2>8. ASSUME NEW n \in Names, ConsumerMutates(n) \/ MiddlewareMutates(n)
        PROVE  UNCHANGED <<seen, phase>>
    BY <2>8 DEF ConsumerMutates, MiddlewareMutates
  <2> QED
    BY <2>1, <2>2, <2>3, <2>4, <2>5, <2>6, <2>7, <2>8 DEF PagingNext, Ask
<1> QED
  BY PagingInvariant, <1>1, <1>2, PTL DEF PagingSpec, ImplementsListing, L!Spec

(***************************************************************************)
(* Completeness: an iteration that ends has given every page there is, and *)
(* none gives more; this holds of the listing and so of the loop.          *)
(***************************************************************************)
THEOREM EndMeansAllPages == PagingSpec => [](seen \in 0..Last /\ (phase = "over" => seen = Last))
<1> DEFINE Given == seen \in 0..Last /\ (ListingPhase = "over" => seen = Last)
               /\ (ListingPhase = "asked" => seen < Last)
<1>1. L!Init => Given
  BY TokensAssumption DEF TokensAssumption, L!Init
<1>2. Given /\ [L!Next]_<<seen, ListingPhase>> => Given'
  BY TokensAssumption DEF TokensAssumption, L!Next, L!Ask, L!Give, L!End, L!Abandon
<1>3. Given => seen \in 0..Last /\ (phase = "over" => seen = Last)
  BY DEF ListingPhase
<1> QED
  BY PagesAreListed, <1>1, <1>2, <1>3, PTL DEF ImplementsListing, L!Spec
=============================================================================
