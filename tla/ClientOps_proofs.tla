--------------------------- MODULE ClientOps_proofs ---------------------------
(***************************************************************************)
(* Theorems about the native client, for every finite set of operations    *)
(* and every set of aclose() calls: type correctness, the lease count, no  *)
(* lost wake-up, what an answered aclose() promises, the permit of the     *)
(* lazy initialization, and the safety part of the contract.               *)
(***************************************************************************)
EXTENDS ClientOps, LeasedCall_proofs

USE DEF Procs

LEMMA InitOK == Init => IInv
<1> SUFFICES ASSUME Init PROVE IInv
  OBVIOUS
<1> USE DEF Init, CoreInit, LifecycleInit, ResourceInit
<1>1. Holders = {}
  <2>1. \A t \in Tasks : pc[t] \in Unleased
    BY DEF Unleased
  <2>2. QED
    BY <2>1 DEF Holders
<1>2. Cardinality(Holders) = 0
  BY <1>1, FS_EmptySet
<1>3. PositionTypeOK
  BY DEF PositionTypeOK, CallLabels, CloserLabels
<1>4. LifecycleTypeOK /\ ResourceTypeOK
  BY DEF LifecycleTypeOK, ResourceTypeOK
<1>5. LeaseInv
  BY <1>2, <1>3, <1>4 DEF LeaseInv, ActiveCountsLeases, EnrolledOrWoken, NoLostWakeup,
     ParkedTask, CloseHasClosed, AckedIsIdle, Acked
<1>6. TypeOK
  BY <1>3, <1>4 DEF TypeOK, CoreTypeOK
<1>7. WorkInv /\ SlotStaysEmpty /\ PermitIsLive
  BY DEF WorkInv, SlotStaysEmpty, Emptied, PermitIsLive
<1>8. QED
  BY <1>5, <1>6, <1>7 DEF IInv

-----------------------------------------------------------------------------
\* The lease protocol is kept by every step of an operation.
LEMMA TaskKeepsLeaseInv ==
    ASSUME IInv, NEW t \in Tasks, TaskNext(t)
    PROVE  LeaseInv'
<1> USE DEF IInv
<1>1. CASE Acquire(t)
  BY <1>1, Admission DEF Acquire, Unleased
<1>2. CASE AcquireRefused(t) \/ CloneState(t) \/ Spawn(t)
  BY <1>2, TaskMove DEF AcquireRefused, CloneState, Spawn, Unleased, CallLabels,
     Parked, lifecycleVars
<1>3. CASE CloneMissed(t) \/ ConvertFails(t)
  BY <1>3, LeaseEnds DEF CloneMissed, ConvertFails, Unleased
<1>4. CASE ClientShared(t) \/ StartLoad(t) \/ DropWork(t) \/ Loaded(t)
  BY <1>4, LeaseInvStutter DEF ClientShared, StartLoad, DropWork, Loaded, Advance
<1>5. CASE LoadFails(t) \/ (\E r \in {"ok", "error"} : Respond(t, r))
  BY <1>5, TaskForget DEF LoadFails, Respond, Finish, At, Unleased
<1>6. CASE Pending(t) \/ LeaseStep(t) \/ Wake(t) \/ Cancel(t)
  BY <1>6, LeaseStepKeepsLeaseInv DEF Pending
<1>7. QED
  BY <1>1, <1>2, <1>3, <1>4, <1>5, <1>6 DEF TaskNext, TaskStep, Answer

LEMMA NextKeepsLeaseInv == IInv /\ [Next]_vars => LeaseInv'
<1> SUFFICES ASSUME IInv, [Next]_vars PROVE LeaseInv'
  OBVIOUS
<1>1. CASE \E t \in Tasks : TaskNext(t)
  BY <1>1, TaskKeepsLeaseInv
<1>2. CASE \E c \in Closers : CloseNext(c)
  BY <1>2, CloserKeepsLeaseInv DEF CloseNext, IInv
<1>3. CASE UNCHANGED vars
  BY <1>3, LeaseInvStutter DEF vars, coreVars, IInv
<1>4. QED
  BY <1>1, <1>2, <1>3 DEF Next, Finished

-----------------------------------------------------------------------------
(***************************************************************************)
(* What the steps do to the shared variables: a task leaves the slot and   *)
(* the positions of others alone, a closer leaves the operations alone.    *)
(***************************************************************************)
LEMMA TaskFrame ==
    ASSUME TypeOK, NEW t \in Tasks, TaskNext(t)
    PROVE  /\ UNCHANGED <<slot, slotLock>>
           /\ \A c \in Closers : pc'[c] = pc[c]
           /\ \A u \in Tasks \ {t} :
                  /\ pc'[u] = pc[u] /\ stage'[u] = stage[u]
                  /\ u \in owners' <=> u \in owners
<1> USE ProcsAssumption DEF TypeOK, CoreTypeOK, PositionTypeOK, Goto, resourceVars, callVars,
      lifecycleVars, DropValue, SetStage
<1>1. CASE Acquire(t) \/ AcquireRefused(t) \/ CloneState(t) \/ CloneMissed(t)
  BY <1>1 DEF Acquire, AcquireRefused, CloneState, CloneMissed
<1>2. CASE ConvertFails(t) \/ Spawn(t)
  BY <1>2 DEF ConvertFails, Spawn
<1>3. CASE ClientShared(t) \/ StartLoad(t) \/ DropWork(t) \/ Loaded(t)
  BY <1>3 DEF ClientShared, StartLoad, DropWork, Loaded, Advance
<1>4. CASE LoadFails(t) \/ (\E r \in {"ok", "error"} : Respond(t, r))
  BY <1>4 DEF LoadFails, Respond, Finish
<1>5. CASE Pending(t)
  BY <1>5 DEF Pending, PollPending, Park, Suspend, CancelTaken, Finish
<1>6. CASE RunStep(t)
  BY <1>6 DEF RunStep, WaitEnroll, WaitUnsatisfied, WaitAgain, PollWork
<1>7. CASE Interrupt(t) \/ Release(t) \/ Wake(t) \/ Cancel(t)
  BY <1>7 DEF Interrupt, WaitSatisfied, Release, Wake, Resume, Cancel
<1>8. QED
  BY <1>1, <1>2, <1>3, <1>4, <1>5, <1>6, <1>7 DEF TaskNext, TaskStep, Answer, LeaseStep

LEMMA CloserFrame ==
    ASSUME TypeOK, NEW c \in Closers, CloseNext(c)
    PROVE  /\ UNCHANGED <<stage, outcome, cancelled, cell, permit, slotLock>>
           /\ \A p \in Procs \ {c} : pc'[p] = pc[p]
           /\ \A t \in Tasks : t \in owners' <=> t \in owners
           /\ owners' \subseteq Procs
           /\ slot' = slot \/ (CloseTake(c) /\ slot' = FALSE)
<1> USE ProcsAssumption DEF TypeOK, CoreTypeOK, PositionTypeOK, ResourceTypeOK, CloseNext,
      Goto, resourceVars, callVars, clientVars
<1>1. CASE CloseMark(c) \/ CloseNotify(c) \/ CloseReady(c) \/ CloseWait(c) \/ CloseCancelled(c)
  BY <1>1 DEF CloseMark, CloseNotify, CloseReady, CloseWait, CloseCancelled
<1>2. CASE CloseTake(c) \/ CloseDrop(c)
  BY <1>2 DEF CloseTake, CloseDrop, Take, DropValue
<1>3. CASE CloseWaitStep(c)
  BY <1>3 DEF CloseWaitStep, WaitEnroll, WaitSatisfied, WaitUnsatisfied, WaitAgain
<1>4. QED
  BY <1>1, <1>2, <1>3 DEF CloserNext, CloserStep

-----------------------------------------------------------------------------
\* Every variable keeps its range.
LEMMA NextKeepsType == IInv /\ [Next]_vars => TypeOK'
<1> SUFFICES ASSUME IInv, [Next]_vars PROVE TypeOK'
  OBVIOUS
<1>1. LifecycleTypeOK' /\ PositionTypeOK'
  BY NextKeepsLeaseInv DEF LeaseInv
<1>2. ASSUME NEW t \in Tasks, TaskNext(t)
      PROVE  TypeOK'
  <2> USE <1>1, <1>2 DEF IInv, TypeOK, CoreTypeOK, ResourceTypeOK, resourceVars, callVars,
        clientVars, SetStage, Result, DropValue
  <2>1. CASE Acquire(t) \/ AcquireRefused(t) \/ CloneState(t) \/ CloneMissed(t)
    BY <2>1 DEF Acquire, AcquireRefused, CloneState, CloneMissed
  <2>2. CASE ConvertFails(t) \/ Spawn(t)
    BY <2>2 DEF ConvertFails, Spawn
  <2>3. CASE ClientShared(t) \/ StartLoad(t) \/ DropWork(t) \/ Loaded(t)
    BY <2>3 DEF ClientShared, StartLoad, DropWork, Loaded, Advance
  <2>4. CASE LoadFails(t) \/ (\E r \in {"ok", "error"} : Respond(t, r))
    BY <2>4 DEF LoadFails, Respond, Finish
  <2>5. CASE Pending(t)
    BY <2>5 DEF Pending, PollPending, Park, Suspend, CancelTaken, Finish
  <2>6. CASE LeaseStep(t) /\ UNCHANGED clientVars
    BY <2>6 DEF LeaseStep, RunStep, Interrupt, Release
  <2>7. CASE (Wake(t) \/ Cancel(t)) /\ UNCHANGED clientVars
    BY <2>7 DEF Wake, Cancel
  <2>8. QED
    BY <2>1, <2>2, <2>3, <2>4, <2>5, <2>6, <2>7 DEF TaskNext, TaskStep, Answer
<1>3. ASSUME NEW c \in Closers, CloseNext(c)
      PROVE  TypeOK'
  BY <1>1, <1>3, CloserFrame DEF IInv, TypeOK, CoreTypeOK, ResourceTypeOK
<1>4. CASE UNCHANGED vars
  BY <1>1, <1>4 DEF vars, coreVars, IInv, TypeOK, CoreTypeOK, ResourceTypeOK, resourceVars,
     callVars, clientVars
<1>5. QED
  BY <1>2, <1>3, <1>4 DEF Next, Finished

\* An emptied slot stays empty.
LEMMA NextKeepsSlot == IInv /\ [Next]_vars => SlotStaysEmpty'
<1> SUFFICES ASSUME IInv, [Next]_vars PROVE SlotStaysEmpty'
  OBVIOUS
<1>1. ASSUME NEW t \in Tasks, TaskNext(t)
      PROVE  SlotStaysEmpty'
  BY <1>1, TaskFrame DEF IInv, SlotStaysEmpty, Emptied
<1>2. ASSUME NEW c \in Closers, CloseNext(c)
      PROVE  SlotStaysEmpty'
  <2>1. CASE CloseTake(c)
    BY <2>1 DEF CloseTake, Take, SlotStaysEmpty
  <2>2. CASE ~CloseTake(c)
    <3>1. Emptied' = Emptied
      <4>1. \A d \in Closers \ {c} : pc'[d] = pc[d]
        BY <1>2, CloserFrame DEF IInv
      <4>2. pc'[c] \in {"idle", "notify", "take"} <=> pc[c] \in {"idle", "notify", "take"}
        BY <1>2, <2>2 DEF IInv, TypeOK, CoreTypeOK, PositionTypeOK, CloseNext, CloserNext,
           CloserStep, CloseMark, CloseNotify, CloseDrop, CloseReady, CloseWait,
           CloseCancelled, CloseWaitStep, WaitEnroll, WaitSatisfied, WaitUnsatisfied,
           WaitAgain, Goto
      <4>3. QED
        BY <4>1, <4>2 DEF Emptied
    <3>2. slot' = slot
      BY <1>2, <2>2, CloserFrame DEF IInv
    <3>3. QED
      BY <3>1, <3>2 DEF IInv, SlotStaysEmpty
  <2>3. QED
    BY <2>1, <2>2
<1>3. CASE UNCHANGED vars
  BY <1>3 DEF vars, coreVars, resourceVars, IInv, SlotStaysEmpty, Emptied
<1>4. QED
  BY <1>1, <1>2, <1>3 DEF Next, Finished

\* A task owns the state exactly while it converts or has a future to drop.
LEMMA TaskKeepsWork ==
    ASSUME IInv, NEW t \in Tasks, TaskNext(t)
    PROVE  /\ t \in owners' <=> pc'[t] = "convert" \/ stage'[t] # "none"
           /\ stage'[t] # "none" => pc'[t] \in InFlight
<1> USE DEF IInv, TypeOK, CoreTypeOK, PositionTypeOK, WorkInv, InFlight, Goto, SetStage,
      DropValue, resourceVars, callVars, lifecycleVars
<1>1. CASE Acquire(t) \/ AcquireRefused(t) \/ CloneState(t) \/ CloneMissed(t)
  BY <1>1 DEF Acquire, AcquireRefused, CloneState, CloneMissed
<1>2. CASE ConvertFails(t) \/ Spawn(t)
  BY <1>2 DEF ConvertFails, Spawn
<1>3. CASE ClientShared(t) \/ StartLoad(t) \/ Loaded(t)
  BY <1>3 DEF ClientShared, StartLoad, Loaded, Advance, At
<1>4. CASE DropWork(t)
  BY <1>4 DEF DropWork, Advance
<1>5. CASE LoadFails(t) \/ (\E r \in {"ok", "error"} : Respond(t, r))
  BY <1>5 DEF LoadFails, Respond, Finish
<1>6. CASE Pending(t)
  <2>1. CASE Park(t)
    BY <1>6, <2>1 DEF Park, Suspend
  <2>2. CASE CancelTaken(t) /\ pc[t] = "poll"
    BY <2>2 DEF CancelTaken, Finish
  <2>3. QED
    BY <1>6, <2>1, <2>2 DEF Pending, PollPending
<1>7. CASE RunStep(t)
  BY <1>7 DEF RunStep, WaitEnroll, WaitUnsatisfied, WaitAgain, PollWork
<1>8. CASE Interrupt(t) \/ Release(t) \/ Wake(t) \/ Cancel(t)
  BY <1>8 DEF Interrupt, WaitSatisfied, Release, Wake, Resume, Cancel
<1>9. QED
  BY <1>1, <1>2, <1>3, <1>4, <1>5, <1>6, <1>7, <1>8 DEF TaskNext, TaskStep, Answer, LeaseStep

LEMMA NextKeepsWork == IInv /\ [Next]_vars => WorkInv'
<1> SUFFICES ASSUME IInv, [Next]_vars PROVE WorkInv'
  OBVIOUS
<1>1. ASSUME NEW t \in Tasks, TaskNext(t)
      PROVE  WorkInv'
  <2> SUFFICES ASSUME NEW u \in Tasks
               PROVE  /\ u \in owners' <=> pc'[u] = "convert" \/ stage'[u] # "none"
                      /\ stage'[u] # "none" => pc'[u] \in InFlight
    BY DEF WorkInv
  <2>1. CASE u = t
    BY <1>1, <2>1, TaskKeepsWork
  <2>2. CASE u # t
    <3>1. /\ pc'[u] = pc[u] /\ stage'[u] = stage[u]
          /\ u \in owners' <=> u \in owners
      BY <1>1, <2>2, TaskFrame DEF IInv
    <3>2. QED
      BY <3>1 DEF IInv, WorkInv
  <2>3. QED
    BY <2>1, <2>2
<1>2. ASSUME NEW c \in Closers, CloseNext(c)
      PROVE  WorkInv'
  BY <1>2, CloserFrame, ProcsAssumption DEF IInv, WorkInv
<1>3. CASE UNCHANGED vars
  BY <1>3 DEF vars, coreVars, resourceVars, callVars, IInv, WorkInv
<1>4. QED
  BY <1>1, <1>2, <1>3 DEF Next, Finished

\* The permit changes hands only when its holder gives it up.
LEMMA NextKeepsPermit == IInv /\ [Next]_vars => PermitIsLive'
<1> SUFFICES ASSUME IInv, [Next]_vars, permit' # NoTask
             PROVE  permit' \in owners' /\ stage'[permit'] = "load"
  BY DEF PermitIsLive
<1>1. ASSUME NEW t \in Tasks, TaskNext(t)
      PROVE  permit' \in owners' /\ stage'[permit'] = "load"
  <2>1. CASE StartLoad(t)
    BY <2>1 DEF StartLoad, At, Advance, SetStage, IInv, WorkInv, TypeOK, resourceVars
  <2>2. CASE Loaded(t) \/ LoadFails(t)
    BY <2>2 DEF Loaded, LoadFails
  <2>3. CASE DropWork(t)
    <3>1. permit' = permit /\ permit # t
      BY <2>3 DEF DropWork
    <3>2. QED
      BY <1>1, <3>1, TaskFrame DEF IInv, TypeOK, PermitIsLive
  <2>4. CASE ~StartLoad(t) /\ ~Loaded(t) /\ ~LoadFails(t) /\ ~DropWork(t)
    <3>1. permit' = permit
      BY <1>1, <2>4 DEF TaskNext, TaskStep, Answer, Acquire, AcquireRefused, CloneState,
         CloneMissed, ConvertFails, Spawn, ClientShared, Pending, Respond, clientVars
    <3>2. permit \in owners /\ stage[permit] = "load" /\ permit \in Tasks
      BY <3>1 DEF IInv, TypeOK, PermitIsLive
    <3>3. CASE permit # t
      BY <1>1, <3>1, <3>2, <3>3, TaskFrame DEF IInv
    <3>4. CASE permit = t
      <4>1. stage[t] = "load" /\ pc[t] \in InFlight /\ t \in owners
        BY <3>2, <3>4 DEF IInv, WorkInv
      <4>2. stage'[t] = "load"
        BY <1>1, <2>4, <4>1 DEF IInv, TypeOK, InFlight, TaskNext, TaskStep, Answer, Acquire,
           AcquireRefused, CloneState, CloneMissed, ConvertFails, Spawn, ClientShared,
           Pending, PollPending, Park, CancelTaken, Finish, SetStage, Respond, At, LeaseStep,
           RunStep, Interrupt, Release, Wake, Cancel, callVars
      <4>3. QED
        BY <1>1, <3>1, <3>4, <4>2, TaskKeepsWork
    <3>5. QED
      BY <3>3, <3>4
  <2>5. QED
    BY <2>1, <2>2, <2>3, <2>4
<1>2. ASSUME NEW c \in Closers, CloseNext(c)
      PROVE  permit' \in owners' /\ stage'[permit'] = "load"
  BY <1>2, CloserFrame DEF IInv, TypeOK, PermitIsLive
<1>3. CASE UNCHANGED vars
  BY <1>3 DEF vars, coreVars, resourceVars, callVars, clientVars, IInv, PermitIsLive
<1>4. QED
  BY <1>1, <1>2, <1>3 DEF Next, Finished

-----------------------------------------------------------------------------
LEMMA Inductive == Spec => []IInv
<1>1. Init => IInv
  BY InitOK
<1>2. IInv /\ [Next]_vars => IInv'
  BY NextKeepsLeaseInv, NextKeepsType, NextKeepsSlot, NextKeepsWork, NextKeepsPermit
  DEF IInv
<1>3. QED
  BY <1>1, <1>2, PTL DEF Spec

\* A task that owns the client state, or work on it, holds its lease.
LEMMA WorkUnderLease == WorkInv => OwnersHoldLeases
  BY DEF WorkInv, InFlight, OwnersHoldLeases, Holders, Unleased

\* Type correctness: every variable keeps its range in every execution.
THEOREM TypeCorrect == Spec => []TypeOK
<1>1. IInv => TypeOK
  BY DEF IInv
<1>2. QED
  BY <1>1, Inductive, PTL

(***************************************************************************)
(* The count of lifecycle.rs is the number of leases: no early return,     *)
(* failure, cancellation or closure drops a lease twice or forgets one.    *)
(***************************************************************************)
THEOREM CountIsLeases == Spec => []ActiveCountsLeases
<1>1. IInv => ActiveCountsLeases
  BY DEF IInv, LeaseInv
<1>2. QED
  BY <1>1, Inductive, PTL

(***************************************************************************)
(* wait_for loses no wake-up: a process parked on a condition that holds   *)
(* has been notified, or is about to be.                                   *)
(***************************************************************************)
THEOREM WakeupsArrive == Spec => []NoLostWakeup
<1>1. IInv => NoLostWakeup
  BY DEF IInv, LeaseInv
<1>2. QED
  BY <1>1, Inductive, PTL

(***************************************************************************)
(* Lease::run drops the future before the lease: no operation owns the     *)
(* client state without being counted.                                     *)
(***************************************************************************)
THEOREM OwnersAreCounted == Spec => []OwnersHoldLeases
<1>1. IInv => OwnersHoldLeases
  BY WorkUnderLease DEF IInv
<1>2. QED
  BY <1>1, Inductive, PTL

(***************************************************************************)
(* When aclose() has been answered the client is closed, its slot is empty *)
(* and no operation holds on to the state.                                 *)
(***************************************************************************)
THEOREM AcknowledgedMeansReleased == Spec => []AckMeansReleased
<1>1. IInv => AckMeansReleased
  <2> SUFFICES ASSUME IInv, NEW c \in Closers, pc[c] = "acked"
               PROVE  closed /\ ~slot /\ owners \cap Tasks = {}
    BY DEF AckMeansReleased, Acked
  <2>1. closed
    BY DEF IInv, LeaseInv, CloseHasClosed
  <2>2. ~slot
    BY DEF IInv, SlotStaysEmpty, Emptied
  <2>3. active = 0
    BY DEF IInv, LeaseInv, AckedIsIdle, Acked
  <2>4. Holders = {}
    BY <2>3, NoHolders DEF IInv, LeaseInv, ActiveCountsLeases
  <2>5. owners \cap Tasks = {}
    BY <2>4, WorkUnderLease DEF IInv, OwnersHoldLeases
  <2>6. QED
    BY <2>1, <2>2, <2>5
<1>2. QED
  BY <1>1, Inductive, PTL

(***************************************************************************)
(* Closure, cancellation and failure never strand the permit of the lazy   *)
(* construction of the SDK client.                                         *)
(***************************************************************************)
THEOREM PermitNeverStranded == Spec => []PermitIsLive
<1>1. IInv => PermitIsLive
  BY DEF IInv
<1>2. QED
  BY <1>1, Inductive, PTL

-----------------------------------------------------------------------------
(***************************************************************************)
(* Every step of the client is a step of the contract of a closable        *)
(* resource, or changes nothing the contract speaks of.                    *)
(***************************************************************************)
LEMMA TaskImplements ==
    ASSUME IInv, NEW t \in Tasks, TaskNext(t)
    PROVE  Contract!Next \/ UNCHANGED Contract!absVars
<1> USE DEF IInv, Unleased
<1>1. CASE Acquire(t)
  BY <1>1, AdmissionImplements DEF Acquire
<1>2. CASE CloneMissed(t) \/ ConvertFails(t)
  BY <1>2, EndImplements DEF CloneMissed, ConvertFails
<1>3. CASE AcquireRefused(t) \/ CloneState(t) \/ Spawn(t)
  BY <1>3, MoveImplements DEF AcquireRefused, CloneState, Spawn, lifecycleVars
<1>4. CASE ClientShared(t) \/ StartLoad(t) \/ DropWork(t) \/ Loaded(t)
  BY <1>4, StutterImplements
  DEF ClientShared, StartLoad, DropWork, Loaded, Advance, lifecycleVars
<1>5. CASE LoadFails(t) \/ (\E r \in {"ok", "error"} : Respond(t, r))
  BY <1>5, MoveImplements DEF LoadFails, Respond, Finish, At
<1>6. CASE Pending(t) \/ LeaseStep(t) \/ Wake(t) \/ Cancel(t)
  BY <1>6, LeaseStepImplements DEF Pending
<1>7. QED
  BY <1>1, <1>2, <1>3, <1>4, <1>5, <1>6 DEF TaskNext, TaskStep, Answer

\* The client implements the safety part of the contract: nothing is
\* admitted after closure, and closure is answered when nothing is left.
THEOREM ImplementsContractSafety == Spec => ContractSafety
<1>1. Init => Contract!Init
  BY InitImplements DEF Init
<1>2. IInv /\ [Next]_vars => [Contract!Next]_(Contract!absVars)
  <2> SUFFICES ASSUME IInv, [Next]_vars PROVE [Contract!Next]_(Contract!absVars)
    OBVIOUS
  <2>1. CASE \E t \in Tasks : TaskNext(t)
    BY <2>1, TaskImplements
  <2>2. CASE \E c \in Closers : CloseNext(c)
    BY <2>2, CloserImplements DEF CloseNext, IInv
  <2>3. CASE UNCHANGED vars
    BY <2>3, StutterImplements DEF vars, coreVars, lifecycleVars
  <2>4. QED
    BY <2>1, <2>2, <2>3 DEF Next, Finished
<1>3. QED
  BY <1>1, <1>2, Inductive, PTL DEF Spec, ContractSafety

(***************************************************************************)
(* However calls, closures and cancellations interleave, a closed client *)
(* admits nothing more, its leases only become fewer, and aclose() is      *)
(* answered only in a state without any.                                   *)
(***************************************************************************)
THEOREM ClosingIsFinal == Spec => ClosedForGood
  BY ImplementsContractSafety, ContractClosesForGood, PTL
=============================================================================
