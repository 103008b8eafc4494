------------------------- MODULE LeasedCall_proofs -------------------------
(***************************************************************************)
(* The lease protocol keeps LeaseInv: one lemma per kind of step a task or *)
(* a closer can take on the lifecycle, whatever the resource is.           *)
(***************************************************************************)
EXTENDS LeasedCall, FiniteSetTheorems, TLAPS

-----------------------------------------------------------------------------
(***************************************************************************)
(* The set of lease holders follows the positions of the tasks.            *)
(***************************************************************************)
\* The positions form a function on all processes.
PositionsOK == pc = [p \in Procs |-> pc[p]]

LEMMA HoldersFinite ==
    /\ IsFiniteSet(Holders)
    /\ Cardinality(Holders) \in Nat
<1>1. Holders \subseteq Tasks
  BY DEF Holders
<1>2. IsFiniteSet(Holders)
  BY <1>1, ProcsAssumption, FS_Subset
<1>3. QED
  BY <1>2, FS_CardinalityType

\* A task that takes a lease joins the holders.
LEMMA LeaseTaken ==
    ASSUME NEW t \in Tasks, NEW label, PositionsOK,
           pc[t] \in Unleased, label \notin Unleased, Goto(t, label)
    PROVE  /\ Holders' = Holders \cup {t}
           /\ Cardinality(Holders') = Cardinality(Holders) + 1
<1>1. Holders' = Holders \cup {t}
  BY DEF Holders, Goto, PositionsOK, Procs
<1>2. t \notin Holders
  BY DEF Holders
<1>3. QED
  BY <1>1, <1>2, HoldersFinite, FS_AddElement

\* A task that drops its lease leaves them.
LEMMA LeaseDropped ==
    ASSUME NEW t \in Tasks, NEW label, PositionsOK,
           pc[t] \notin Unleased, label \in Unleased, Goto(t, label)
    PROVE  /\ Holders' = Holders \ {t}
           /\ Cardinality(Holders') = Cardinality(Holders) - 1
           /\ Cardinality(Holders) > 0
<1>1. Holders' = Holders \ {t}
  BY DEF Holders, Goto, PositionsOK, Procs
<1>2. t \in Holders
  BY DEF Holders
<1>3. Cardinality(Holders') = Cardinality(Holders) - 1
  BY <1>1, <1>2, HoldersFinite, FS_RemoveElement
<1>4. Cardinality(Holders') \in Nat
  BY <1>1, HoldersFinite, FS_RemoveElement, FS_CardinalityType
<1>5. QED
  BY <1>1, <1>3, <1>4, HoldersFinite

\* Any other move of a task, and every move of a closer, leaves them alone.
LEMMA LeaseKept ==
    ASSUME NEW p \in Procs, NEW label, PositionsOK, Goto(p, label),
           p \in Tasks => (pc[p] \in Unleased <=> label \in Unleased)
    PROVE  Holders' = Holders
  BY DEF Holders, Goto, PositionsOK, Procs

\* No holder is left when the cardinality is zero.
LEMMA NoHolders == Cardinality(Holders) = 0 => Holders = {}
  BY HoldersFinite, FS_EmptySet
-----------------------------------------------------------------------------
USE DEF Procs

Parked == {"await", "poll", "suspended"}

LEMMA LeaseInvPositions == LeaseInv => PositionsOK
  BY DEF LeaseInv, PositionTypeOK, PositionsOK

\* Nothing the protocol looks at has changed.
LEMMA LeaseInvStutter ==
    ASSUME LeaseInv, UNCHANGED <<lifecycleVars, pc>>
    PROVE  LeaseInv'
<1>1. Holders' = Holders
  BY DEF Holders, lifecycleVars
<1>2. QED
  BY <1>1 DEF LeaseInv, LifecycleTypeOK, PositionTypeOK, ActiveCountsLeases,
     EnrolledOrWoken, NoLostWakeup, CloseHasClosed, AckedIsIdle, Acked, IsIdle,
     ParkedTask, Unsent, lifecycleVars

\* A task moves on without touching the lifecycle.
LEMMA TaskMove ==
    ASSUME LeaseInv, NEW t \in Tasks, NEW label \in CallLabels,
           Goto(t, label), UNCHANGED lifecycleVars,
           pc[t] \in Unleased <=> label \in Unleased,
           label # "check",
           label \in Parked => pc[t] \in Parked \/ (pc[t] = "check" /\ ~closed)
    PROVE  LeaseInv'
<1>1. Holders' = Holders
  BY LeaseInvPositions, LeaseKept
<1>2. \A p \in Procs : pc'[p] = IF p = t THEN label ELSE pc[p]
  BY DEF LeaseInv, PositionTypeOK, Goto
<1>3. \A c \in Closers : pc'[c] = pc[c]
  BY <1>2, ProcsAssumption
<1>4. LifecycleTypeOK' /\ PositionTypeOK'
  BY <1>2, <1>3 DEF LeaseInv, LifecycleTypeOK, PositionTypeOK, Goto, lifecycleVars
<1>5. ActiveCountsLeases' /\ CloseHasClosed' /\ AckedIsIdle'
  BY <1>1, <1>3 DEF LeaseInv, ActiveCountsLeases, CloseHasClosed, AckedIsIdle,
     Acked, lifecycleVars
<1>6. EnrolledOrWoken'
  BY <1>2 DEF LeaseInv, EnrolledOrWoken, lifecycleVars, Parked
<1>7. NoLostWakeup'
  BY <1>2, <1>3 DEF LeaseInv, NoLostWakeup, ParkedTask, Unsent, IsIdle,
     lifecycleVars, Parked
<1>8. QED
  BY <1>4, <1>5, <1>6, <1>7 DEF LeaseInv

\* A task forgets its Notified: the select is over, or it starts a new turn.
LEMMA TaskForget ==
    ASSUME LeaseInv, NEW t \in Tasks, NEW label \in {"finish", "register"},
           Goto(t, label), Forget(t), UNCHANGED <<closed, active>>,
           pc[t] \notin Unleased
    PROVE  LeaseInv'
<1>1. Holders' = Holders
  BY LeaseInvPositions, LeaseKept DEF Unleased
<1>2. \A p \in Procs : pc'[p] = IF p = t THEN label ELSE pc[p]
  BY DEF LeaseInv, PositionTypeOK, Goto
<1>3. \A c \in Closers : pc'[c] = pc[c] /\ c # t
  BY <1>2, ProcsAssumption
<1>4. LifecycleTypeOK' /\ PositionTypeOK'
  BY <1>2, <1>3 DEF LeaseInv, LifecycleTypeOK, PositionTypeOK, Goto, Forget, CallLabels
<1>5. ActiveCountsLeases' /\ CloseHasClosed' /\ AckedIsIdle'
  BY <1>1, <1>3 DEF LeaseInv, ActiveCountsLeases, CloseHasClosed, AckedIsIdle, Acked
<1>6. EnrolledOrWoken'
  BY <1>2 DEF LeaseInv, EnrolledOrWoken, Forget
<1>7. NoLostWakeup'
  BY <1>2, <1>3 DEF LeaseInv, NoLostWakeup, ParkedTask, Unsent, IsIdle, Forget
<1>8. QED
  BY <1>4, <1>5, <1>6, <1>7 DEF LeaseInv

\* A process enrols in wait_for.
LEMMA Enrolment ==
    ASSUME LeaseInv, NEW p \in Procs, WaitEnroll(p)
    PROVE  LeaseInv'
<1>1. Holders' = Holders
  BY LeaseInvPositions, LeaseKept DEF Unleased, WaitEnroll
<1>2. \A q \in Procs : pc'[q] = IF q = p THEN "check" ELSE pc[q]
  BY DEF LeaseInv, PositionTypeOK, Goto, WaitEnroll
<1>3. LifecycleTypeOK' /\ PositionTypeOK'
  BY <1>2 DEF LeaseInv, LifecycleTypeOK, PositionTypeOK, Goto, WaitEnroll,
     CallLabels, CloserLabels
<1>4. ActiveCountsLeases' /\ CloseHasClosed' /\ AckedIsIdle'
  BY <1>1, <1>2 DEF LeaseInv, ActiveCountsLeases, CloseHasClosed, AckedIsIdle,
     Acked, WaitEnroll
<1>5. EnrolledOrWoken'
  BY <1>2 DEF LeaseInv, EnrolledOrWoken, WaitEnroll
<1>6. \A c \in Closers : Unsent(c)' <=> Unsent(c)
  BY <1>2 DEF WaitEnroll, Unsent
<1>7. NoLostWakeup'
  BY <1>2, <1>6 DEF LeaseInv, NoLostWakeup, ParkedTask, IsIdle, WaitEnroll
<1>8. QED
  BY <1>3, <1>4, <1>5, <1>7 DEF LeaseInv

\* A task is admitted.
LEMMA Admission ==
    ASSUME LeaseInv, NEW t \in Tasks, NEW label \in {"clone", "register"},
           Enter, Goto(t, label), pc[t] \in Unleased
    PROVE  LeaseInv'
<1>1. Cardinality(Holders') = Cardinality(Holders) + 1
  BY LeaseInvPositions, LeaseTaken DEF Unleased
<1>2. \A p \in Procs : pc'[p] = IF p = t THEN label ELSE pc[p]
  BY DEF LeaseInv, PositionTypeOK, Goto
<1>3. \A c \in Closers : pc'[c] = pc[c] /\ c # t
  BY <1>2, ProcsAssumption
<1>4. \A c \in Closers : pc[c] = "idle"
  BY DEF LeaseInv, CloseHasClosed, Enter
<1>5. LifecycleTypeOK' /\ PositionTypeOK'
  BY <1>2, <1>3 DEF LeaseInv, LifecycleTypeOK, PositionTypeOK, Goto, Enter, CallLabels
<1>6. ActiveCountsLeases'
  BY <1>1 DEF LeaseInv, ActiveCountsLeases, Enter
<1>7. CloseHasClosed' /\ AckedIsIdle'
  BY <1>3, <1>4 DEF CloseHasClosed, AckedIsIdle, Acked
<1>8. EnrolledOrWoken' /\ NoLostWakeup'
  BY <1>2, <1>3, <1>4 DEF LeaseInv, EnrolledOrWoken, NoLostWakeup, ParkedTask, Enter
<1>9. QED
  BY <1>5, <1>6, <1>7, <1>8 DEF LeaseInv

\* A task drops its lease; the last one wakes the waiting closers.
LEMMA LeaseEnds ==
    ASSUME LeaseInv, NEW t \in Tasks, DropLease, Goto(t, "settled"),
           pc[t] \notin Unleased
    PROVE  LeaseInv'
<1>1. /\ Cardinality(Holders') = Cardinality(Holders) - 1
      /\ Cardinality(Holders) > 0
  BY LeaseInvPositions, LeaseDropped DEF Unleased
<1>2. \A p \in Procs : pc'[p] = IF p = t THEN "settled" ELSE pc[p]
  BY DEF LeaseInv, PositionTypeOK, Goto
<1>3. \A c \in Closers : pc'[c] = pc[c] /\ c # t
  BY <1>2, ProcsAssumption
<1>4. active > 0 /\ active' = active - 1
  BY <1>1 DEF LeaseInv, ActiveCountsLeases, DropLease
<1>5. \/ enrolled' = enrolled /\ woken' = woken /\ active' # 0
      \/ enrolled' = {} /\ woken' = woken \cup enrolled
  BY <1>4 DEF DropLease, NotifyWaiters, LeaseInv, LifecycleTypeOK
<1>6. LifecycleTypeOK' /\ PositionTypeOK'
  BY <1>2, <1>3, <1>4, <1>5 DEF LeaseInv, LifecycleTypeOK, PositionTypeOK, Goto,
     DropLease, CallLabels
<1>7. ActiveCountsLeases'
  BY <1>1, <1>4 DEF LeaseInv, ActiveCountsLeases
<1>8. CloseHasClosed' /\ AckedIsIdle'
  BY <1>3, <1>4 DEF LeaseInv, CloseHasClosed, AckedIsIdle, Acked, DropLease
<1>9. EnrolledOrWoken'
  BY <1>2, <1>5 DEF LeaseInv, EnrolledOrWoken
<1>10. NoLostWakeup'
  BY <1>2, <1>3, <1>5 DEF LeaseInv, NoLostWakeup, EnrolledOrWoken, ParkedTask,
     Unsent, IsIdle, DropLease
<1>11. QED
  BY <1>6, <1>7, <1>8, <1>9, <1>10 DEF LeaseInv

-----------------------------------------------------------------------------
\* aclose() marks the lifecycle closed.
LEMMA Marking ==
    ASSUME LeaseInv, NEW c \in Closers, CloseMark(c)
    PROVE  LeaseInv'
<1>1. Holders' = Holders
  BY LeaseInvPositions, LeaseKept, ProcsAssumption DEF CloseMark
<1>2. \A p \in Procs : pc'[p] = IF p = c THEN "notify" ELSE pc[p]
  BY DEF LeaseInv, PositionTypeOK, Goto, CloseMark
<1>3. \A t \in Tasks : pc'[t] = pc[t]
  BY <1>2, ProcsAssumption
<1>4. LifecycleTypeOK' /\ PositionTypeOK'
  BY <1>2, <1>3 DEF LeaseInv, LifecycleTypeOK, PositionTypeOK, Goto, CloseMark,
     SetClosed, CloserLabels
<1>5. ActiveCountsLeases' /\ CloseHasClosed' /\ AckedIsIdle'
  BY <1>1, <1>2 DEF LeaseInv, ActiveCountsLeases, CloseHasClosed, AckedIsIdle,
     Acked, CloseMark, SetClosed
<1>6. EnrolledOrWoken'
  BY <1>2 DEF LeaseInv, EnrolledOrWoken, CloseMark, SetClosed
<1>7. Unsent(c)'
  BY <1>2 DEF Unsent
<1>8. NoLostWakeup'
  BY <1>2, <1>3, <1>7 DEF LeaseInv, NoLostWakeup, EnrolledOrWoken, ParkedTask,
     Unsent, IsIdle, CloseMark, SetClosed
<1>9. QED
  BY <1>4, <1>5, <1>6, <1>8 DEF LeaseInv

\* aclose() notifies: every process that has enrolled is woken.
LEMMA Notification ==
    ASSUME LeaseInv, NEW c \in Closers, CloseNotify(c)
    PROVE  LeaseInv'
<1>1. Holders' = Holders
  BY LeaseInvPositions, LeaseKept, ProcsAssumption DEF CloseNotify
<1>2. \A p \in Procs : pc'[p] = IF p = c THEN "take" ELSE pc[p]
  BY DEF LeaseInv, PositionTypeOK, Goto, CloseNotify
<1>3. \A t \in Tasks : pc'[t] = pc[t]
  BY <1>2, ProcsAssumption
<1>4. LifecycleTypeOK' /\ PositionTypeOK'
  BY <1>2, <1>3 DEF LeaseInv, LifecycleTypeOK, PositionTypeOK, Goto, CloseNotify,
     NotifyClosed, NotifyWaiters, CloserLabels
<1>5. ActiveCountsLeases' /\ CloseHasClosed' /\ AckedIsIdle'
  BY <1>1, <1>2 DEF LeaseInv, ActiveCountsLeases, CloseHasClosed, AckedIsIdle,
     Acked, CloseNotify, NotifyClosed
<1>6. EnrolledOrWoken'
  BY <1>2 DEF LeaseInv, EnrolledOrWoken, CloseNotify, NotifyClosed, NotifyWaiters
<1>7. NoLostWakeup'
  BY <1>2, <1>3 DEF LeaseInv, NoLostWakeup, EnrolledOrWoken, ParkedTask, IsIdle,
     CloseNotify, NotifyClosed, NotifyWaiters
<1>8. QED
  BY <1>4, <1>5, <1>6, <1>7 DEF LeaseInv

\* aclose() moves on; it is answered only when no lease is left, and parks
\* only when one is.
LEMMA CloserMove ==
    ASSUME LeaseInv, NEW c \in Closers,
           NEW label \in {"drop", "idletest", "register", "await", "acked", "cancelled"},
           Goto(c, label), UNCHANGED <<closed, active>>,
           UNCHANGED <<enrolled, woken>> \/ (Forget(c) /\ label # "await"),
           pc[c] \notin {"idle", "notify"},
           label = "acked" => IsIdle,
           label = "await" => ~IsIdle /\ pc[c] = "check"
    PROVE  LeaseInv'
<1>1. Holders' = Holders
  BY LeaseInvPositions, LeaseKept, ProcsAssumption
<1>2. \A p \in Procs : pc'[p] = IF p = c THEN label ELSE pc[p]
  BY DEF LeaseInv, PositionTypeOK, Goto
<1>3. \A t \in Tasks : pc'[t] = pc[t] /\ t # c
  BY <1>2, ProcsAssumption
<1>4. LifecycleTypeOK' /\ PositionTypeOK'
  BY <1>2, <1>3 DEF LeaseInv, LifecycleTypeOK, PositionTypeOK, Goto, Forget, CloserLabels
<1>5. ActiveCountsLeases' /\ CloseHasClosed' /\ AckedIsIdle'
  BY <1>1, <1>2 DEF LeaseInv, ActiveCountsLeases, CloseHasClosed, AckedIsIdle,
     Acked, IsIdle
<1>6. EnrolledOrWoken'
  BY <1>2 DEF LeaseInv, EnrolledOrWoken, Forget
<1>7. \A d \in Closers : Unsent(d)' <=> Unsent(d)
  BY <1>2 DEF Unsent
<1>8. NoLostWakeup'
  BY <1>2, <1>3, <1>7 DEF LeaseInv, NoLostWakeup, ParkedTask, IsIdle, Forget
<1>9. QED
  BY <1>4, <1>5, <1>6, <1>8 DEF LeaseInv

LEMMA CloserKeepsLeaseInv ==
    ASSUME LeaseInv, NEW c \in Closers, CloserNext(c)
    PROVE  LeaseInv'
<1>1. CASE CloseMark(c)
  BY <1>1, Marking
<1>2. CASE CloseNotify(c)
  BY <1>2, Notification
<1>3. CASE CloseTake(c) \/ CloseDrop(c) \/ CloseReady(c) \/ CloseWait(c)
  BY <1>3, CloserMove DEF CloseTake, CloseDrop, CloseReady, CloseWait, lifecycleVars
<1>4. CASE CloseCancelled(c)
  BY <1>4, CloserMove DEF CloseCancelled
<1>5. CASE CloseWaitStep(c)
  <2>1. CASE WaitEnroll(c)
    BY <2>1, Enrolment
  <2>2. CASE \/ WaitSatisfied(c, IsIdle, "acked")
             \/ WaitUnsatisfied(c, IsIdle)
             \/ WaitAgain(c)
    BY <2>2, CloserMove DEF WaitSatisfied, WaitUnsatisfied, WaitAgain, lifecycleVars
  <2>3. QED
    BY <1>5, <2>1, <2>2 DEF CloseWaitStep
<1>6. QED
  BY <1>1, <1>2, <1>3, <1>4, <1>5 DEF CloserNext, CloserStep

-----------------------------------------------------------------------------
\* The steps of a task under Lease::run.
LEMMA RunKeepsLeaseInv ==
    ASSUME LeaseInv, NEW t \in Tasks, RunStep(t) \/ Interrupt(t)
    PROVE  LeaseInv'
<1>1. CASE WaitEnroll(t)
  BY <1>1, Enrolment
<1>2. CASE WaitUnsatisfied(t, IsClosed)
  BY <1>2, TaskMove DEF WaitUnsatisfied, IsClosed, Parked, CallLabels, Unleased
<1>3. CASE WaitAgain(t)
  BY <1>3, TaskForget DEF WaitAgain, Unleased
<1>4. CASE PollWork(t)
  BY <1>4, TaskMove DEF PollWork, Parked, CallLabels, Unleased
<1>5. CASE Interrupt(t)
  BY <1>5, TaskForget DEF Interrupt, WaitSatisfied, Unleased
<1>6. QED
  BY <1>1, <1>2, <1>3, <1>4, <1>5 DEF RunStep

LEMMA LeaseStepKeepsLeaseInv ==
    ASSUME LeaseInv, NEW t \in Tasks, LeaseStep(t) \/ PollPending(t) \/ Wake(t) \/ Cancel(t)
    PROVE  LeaseInv'
<1>1. CASE RunStep(t) \/ Interrupt(t)
  BY <1>1, RunKeepsLeaseInv
<1>2. CASE Release(t)
  BY <1>2, LeaseEnds DEF Release, Unleased
<1>3. CASE PollPending(t)
  <2>1. CASE Park(t)
    BY <2>1, TaskMove DEF Park, Suspend, Parked, CallLabels, Unleased
  <2>2. CASE CancelTaken(t) /\ pc[t] = "poll"
    BY <2>2, TaskForget DEF CancelTaken, Finish, Unleased
  <2>3. QED
    BY <1>3, <2>1, <2>2 DEF PollPending
<1>4. CASE Wake(t)
  BY <1>4, TaskMove DEF Wake, Resume, Parked, CallLabels, Unleased
<1>5. CASE Cancel(t)
  BY <1>5, LeaseInvStutter DEF Cancel
<1>6. QED
  BY <1>1, <1>2, <1>3, <1>4, <1>5 DEF LeaseStep
-----------------------------------------------------------------------------
(***************************************************************************)
(* The contract of a closable resource: what each kind of step maps to.    *)
(***************************************************************************)
Waiting == {c \in Closers : pc[c] \notin {"idle", "acked", "cancelled"}}

LEMMA TaskLeavesClosers ==
    ASSUME NEW t \in Tasks, NEW label, Goto(t, label), PositionsOK
    PROVE  Waiting' = Waiting /\ Acked' = Acked
  BY ProcsAssumption DEF Goto, PositionsOK, Waiting, Acked

\* Taking a lease admits the operation.
LEMMA AdmissionImplements ==
    ASSUME LeaseInv, NEW t \in Tasks, NEW label, Enter, Goto(t, label),
           pc[t] \in Unleased, label \notin Unleased
    PROVE  Contract!Next
<1>1. Holders' = Holders \cup {t} /\ t \notin Holders
  BY LeaseInvPositions, LeaseTaken DEF Holders
<1>2. closed' = closed /\ ~closed
  BY DEF Enter
<1>3. Waiting' = Waiting /\ Acked' = Acked
  BY LeaseInvPositions, TaskLeavesClosers
<1>4. Contract!Admit(t)
  BY <1>1, <1>2, <1>3 DEF Contract!Admit, Waiting
<1>5. QED
  BY <1>4 DEF Contract!Next

\* Dropping the lease ends it.
LEMMA EndImplements ==
    ASSUME LeaseInv, NEW t \in Tasks, NEW label, DropLease, Goto(t, label),
           pc[t] \notin Unleased, label \in Unleased
    PROVE  Contract!Next
<1>1. Holders' = Holders \ {t} /\ t \in Holders
  BY LeaseInvPositions, LeaseDropped DEF Holders
<1>2. closed' = closed
  BY DEF DropLease
<1>3. Waiting' = Waiting /\ Acked' = Acked
  BY LeaseInvPositions, TaskLeavesClosers
<1>4. Contract!End(t)
  BY <1>1, <1>2, <1>3 DEF Contract!End, Waiting
<1>5. QED
  BY <1>4 DEF Contract!Next

\* Other moves of a task are invisible to the contract.
LEMMA MoveImplements ==
    ASSUME LeaseInv, NEW t \in Tasks, NEW label, Goto(t, label), closed' = closed,
           pc[t] \in Unleased <=> label \in Unleased
    PROVE  UNCHANGED Contract!absVars
<1>1. Holders' = Holders
  BY LeaseInvPositions, LeaseKept
<1>2. Waiting' = Waiting /\ Acked' = Acked
  BY LeaseInvPositions, TaskLeavesClosers
<1>3. QED
  BY <1>1, <1>2 DEF Contract!absVars, Waiting

LEMMA StutterImplements ==
    ASSUME UNCHANGED <<closed, pc>>
    PROVE  UNCHANGED Contract!absVars
  BY DEF Contract!absVars, Holders, Acked

LEMMA LeaseStepImplements ==
    ASSUME LeaseInv, NEW t \in Tasks, LeaseStep(t) \/ PollPending(t) \/ Wake(t) \/ Cancel(t)
    PROVE  Contract!Next \/ UNCHANGED Contract!absVars
<1> USE DEF Unleased
<1>1. CASE Release(t)
  BY <1>1, EndImplements DEF Release
<1>2. CASE RunStep(t)
  <2>1. PICK label \in {"check", "await", "register", "poll"} : Goto(t, label)
    BY <1>2 DEF RunStep, WaitEnroll, WaitUnsatisfied, WaitAgain, PollWork
  <2>2. closed' = closed /\ pc[t] \in {"register", "check", "await"}
    BY <1>2 DEF RunStep, WaitEnroll, WaitUnsatisfied, WaitAgain, PollWork, lifecycleVars
  <2>3. QED
    BY <2>1, <2>2, MoveImplements
<1>3. CASE Interrupt(t)
  BY <1>3, MoveImplements DEF Interrupt, WaitSatisfied
<1>4. CASE PollPending(t)
  <2>1. CASE Park(t)
    BY <1>4, <2>1, MoveImplements DEF PollPending, Park, Suspend, lifecycleVars
  <2>2. CASE CancelTaken(t) /\ pc[t] = "poll"
    BY <2>2, MoveImplements DEF CancelTaken, Finish
  <2>3. QED
    BY <1>4, <2>1, <2>2 DEF PollPending
<1>5. CASE Wake(t)
  BY <1>5, MoveImplements DEF Wake, Resume, lifecycleVars
<1>6. CASE Cancel(t)
  BY <1>6, StutterImplements DEF Cancel, lifecycleVars
<1>7. QED
  BY <1>1, <1>2, <1>3, <1>4, <1>5, <1>6 DEF LeaseStep

LEMMA CloserImplements ==
    ASSUME LeaseInv, NEW c \in Closers, CloserNext(c)
    PROVE  Contract!Next \/ UNCHANGED Contract!absVars
<1>1. \A p \in Procs \ {c} : pc'[p] = pc[p]
  BY DEF LeaseInv, PositionTypeOK, CloserNext, CloserStep, CloseMark, CloseNotify, CloseTake,
     CloseDrop, CloseReady, CloseWait, CloseCancelled, CloseWaitStep, WaitEnroll,
     WaitSatisfied, WaitUnsatisfied, WaitAgain, Goto
<1>2. Holders' = Holders
  BY <1>1, ProcsAssumption DEF Holders
<1>3. pc \in [Procs -> CallLabels \cup CloserLabels]
  BY DEF LeaseInv, PositionTypeOK
<1> USE DEF Waiting, Goto
<1>4. CASE CloseMark(c)
  <2>1. pc[c] = "idle" /\ pc'[c] = "notify" /\ closed' = TRUE
    BY <1>3, <1>4 DEF CloseMark, SetClosed
  <2>2. /\ c \notin Waiting \cup Acked
        /\ Waiting' = Waiting \cup {c}
        /\ Acked' = Acked
    BY <1>1, <2>1 DEF Acked
  <2>3. Contract!Close(c)
    BY <1>2, <2>1, <2>2 DEF Contract!Close
  <2>4. QED
    BY <2>3 DEF Contract!Next
<1>5. CASE CloseReady(c) \/ WaitSatisfied(c, IsIdle, "acked")
  <2>1. /\ pc[c] \in {"idletest", "check"} /\ pc'[c] = "acked"
        /\ closed' = closed /\ active = 0
    BY <1>3, <1>5 DEF CloseReady, WaitSatisfied, IsIdle, lifecycleVars
  <2>2. Holders = {}
    BY <2>1, NoHolders DEF LeaseInv, ActiveCountsLeases
  <2>3. /\ c \in Waiting
        /\ Waiting' = Waiting \ {c}
        /\ Acked' = Acked \cup {c}
    BY <1>1, <2>1 DEF Acked
  <2>4. Contract!Answer(c)
    BY <1>2, <2>1, <2>2, <2>3 DEF Contract!Answer
  <2>5. QED
    BY <2>4 DEF Contract!Next
<1>6. CASE CloseCancelled(c)
  <2>1. /\ pc[c] \in {"register", "check", "await"} /\ pc'[c] = "cancelled"
        /\ closed' = closed
    BY <1>3, <1>6 DEF CloseCancelled
  <2>2. /\ c \in Waiting
        /\ Waiting' = Waiting \ {c}
        /\ Acked' = Acked
    BY <1>1, <2>1 DEF Acked
  <2>3. Contract!Abandon(c)
    BY <1>2, <2>1, <2>2 DEF Contract!Abandon
  <2>4. QED
    BY <2>3 DEF Contract!Next
<1>7. CASE \/ CloseNotify(c) \/ CloseTake(c) \/ CloseDrop(c) \/ CloseWait(c)
           \/ WaitEnroll(c) \/ WaitUnsatisfied(c, IsIdle) \/ WaitAgain(c)
  <2>1. /\ {pc[c], pc'[c]} \cap {"idle", "acked", "cancelled"} = {}
        /\ closed' = closed
    BY <1>3, <1>7 DEF CloseNotify, NotifyClosed, CloseTake, CloseDrop, CloseWait,
       WaitEnroll, WaitUnsatisfied, WaitAgain, lifecycleVars
  <2>2. Waiting' = Waiting /\ Acked' = Acked
    BY <1>1, <2>1 DEF Acked
  <2>3. QED
    BY <1>2, <2>1, <2>2 DEF Contract!absVars
<1>8. QED
  BY <1>4, <1>5, <1>6, <1>7 DEF CloserNext, CloserStep, CloseWaitStep

LEMMA InitImplements == CoreInit => Contract!Init
<1> SUFFICES ASSUME CoreInit PROVE Contract!Init
  OBVIOUS
<1>1. \A p \in Procs : pc[p] = "idle"
  BY DEF CoreInit
<1>2. Holders = {} /\ Waiting = {} /\ Acked = {}
  BY <1>1 DEF Holders, Unleased, Waiting, Acked
<1>3. QED
  BY <1>2 DEF Contract!Init, Waiting, CoreInit, LifecycleInit

-----------------------------------------------------------------------------
(***************************************************************************)
(* What the contract means for a resource that is closed: it stays closed, *)
(* leases only become fewer, and who has been answered stays so while no   *)
(* lease appears behind its back.                                          *)
(***************************************************************************)
ClosedForGood ==
    [][closed => /\ closed'
                 /\ Holders' \subseteq Holders
                 /\ Acked \subseteq Acked'
                 /\ Acked' # Acked => Holders = {}]_(Contract!absVars)

LEMMA ContractClosesForGood == ContractSafety => ClosedForGood
<1> DEFINE Final == closed => /\ closed'
                              /\ Holders' \subseteq Holders
                              /\ Acked \subseteq Acked'
                              /\ Acked' # Acked => Holders = {}
<1>1. [Contract!Next]_(Contract!absVars) => [Final]_(Contract!absVars)
  BY DEF Contract!Next, Contract!absVars, Contract!Admit, Contract!End, Contract!Close,
     Contract!Answer, Contract!Abandon
<1>2. QED
  BY <1>1, PTL DEF ContractSafety, ClosedForGood
=============================================================================
