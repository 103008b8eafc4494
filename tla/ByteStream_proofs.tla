--------------------------- MODULE ByteStream_proofs ---------------------------
(***************************************************************************)
(* Theorems about a response stream, for every finite set of calls, every  *)
(* set of aclose() calls and every length of the body: the lease protocol, *)
(* one owner at a time, no restoration after closure, what an answered     *)
(* aclose() promises, and the safety part of the contract.                 *)
(***************************************************************************)
EXTENDS ByteStream, LeasedCall_proofs, SequenceTheorems

USE DEF Procs

LEMMA InitOK == Init => IInv
<1> SUFFICES ASSUME Init PROVE IInv
  OBVIOUS
<1> USE DEF Init, CoreInit, LifecycleInit, ResourceInit
<1>1. Holders = {}
  <2>1. \A t \in Tasks : pc[t] \in Unleased
    BY DEF Unleased
  <2>2. QED
    BY <2>1 DEF Holders
<1>2. Cardinality(Holders) = 0
  BY <1>1, FS_EmptySet
<1>3. CoreTypeOK
  BY DEF CoreTypeOK, PositionTypeOK, CallLabels, CloserLabels, LifecycleTypeOK, ResourceTypeOK
<1>4. LeaseInv
  BY <1>2, <1>3 DEF CoreTypeOK, LeaseInv, ActiveCountsLeases, EnrolledOrWoken, NoLostWakeup,
     ParkedTask, CloseHasClosed, AckedIsIdle, Acked
<1>5. StageTypeOK /\ PlaceInv
  BY NoTaskAssumption DEF StageTypeOK, PlaceInv, Owning
<1>6. StoreBeforeClose /\ SingleOwner /\ SlotStaysEmpty
  BY DEF StoreBeforeClose, SingleOwner, SlotStaysEmpty, Emptied
<1>7. QED
  BY <1>3, <1>4, <1>5, <1>6 DEF IInv

-----------------------------------------------------------------------------
LEMMA TaskKeepsLeaseInv ==
    ASSUME IInv, NEW t \in Tasks, TaskNext(t)
    PROVE  LeaseInv'
<1> USE DEF IInv
<1>1. CASE Call(t) \/ BeginRefused(t)
  BY <1>1, TaskMove DEF Call, BeginRefused, Unleased, CallLabels, Parked, lifecycleVars
<1>2. CASE Begin(t)
  BY <1>2, Admission DEF Begin, Unleased
<1>3. CASE \/ AccessGranted(t) \/ DropCollect(t) \/ Restore(t) \/ RestoreStore(t) \/ DropGuard(t)
  BY <1>3, LeaseInvStutter DEF AccessGranted, DropCollect, Restore, RestoreStore, DropGuard, Advance
<1>4. CASE LockAccess(t) \/ CollectChunk(t)
  BY <1>4, LeaseInvStutter DEF LockAccess, CollectChunk, coreVars
<1>5. CASE TakeForIteration(t) \/ TakeForRead(t) \/ NextChunk(t) \/ StreamOver(t)
  <2>1. pc[t] = "poll"
    BY <1>5 DEF TakeForIteration, TakeForRead, NextChunk, StreamOver, At
  <2>2. \/ UNCHANGED <<lifecycleVars, pc>>
        \/ Goto(t, "finish") /\ Forget(t) /\ UNCHANGED <<closed, active>>
    BY <1>5 DEF TakeForIteration, TakeForRead, NextChunk, StreamOver, Advance, Finish
  <2>3. QED
    BY <2>1, <2>2, LeaseInvStutter, TaskForget DEF Unleased
<1>6. CASE Pending(t) \/ LeaseStep(t) \/ Wake(t) \/ Cancel(t)
  BY <1>6, LeaseStepKeepsLeaseInv DEF Pending
<1>7. QED
  BY <1>1, <1>2, <1>3, <1>4, <1>5, <1>6 DEF TaskNext, TaskStep, Network

LEMMA NextKeepsLeaseInv == IInv /\ [Next]_vars => LeaseInv'
<1> SUFFICES ASSUME IInv, [Next]_vars PROVE LeaseInv'
  OBVIOUS
<1>1. CASE \E t \in Tasks : TaskNext(t)
  BY <1>1, TaskKeepsLeaseInv
<1>2. CASE \E c \in Closers : CloseNext(c)
  BY <1>2, CloserKeepsLeaseInv DEF CloseNext, IInv
<1>3. CASE UNCHANGED vars
  BY <1>3, LeaseInvStutter DEF vars, coreVars, IInv
<1>4. QED
  BY <1>1, <1>2, <1>3 DEF Next, Finished

-----------------------------------------------------------------------------
(***************************************************************************)
(* What a call does to the resource.  Seven kinds of steps: it takes the   *)
(* stream (or finds nothing), keeps it, drops it, starts to store it,      *)
(* stores it, or has nothing to do with it.                                *)
(***************************************************************************)
Takes(t) ==
    /\ pc[t] = "poll" /\ stage[t] = "take" /\ Take(t)
    /\ IF slot THEN stage'[t] \in {"next", "collect"} ELSE stage'[t] \in {"guard", "none"}
Drops(t) == DropValue(t) /\ stage[t] \in Owning \ {"store"} /\ stage'[t] \in {"guard", "none"}
StartsStore(t) ==
    /\ ~closed /\ slotLock = NoTask /\ slotLock' = t
    /\ UNCHANGED <<slot, owners>>
    /\ stage[t] \in {"next", "restore"} /\ stage'[t] = "store"
Stores(t) ==
    /\ stage[t] = "store" /\ stage'[t] = "guard"
    /\ slot' = TRUE /\ owners' = owners \ {t} /\ slotLock' = NoTask
Elsewhere(t) ==
    /\ UNCHANGED resourceVars
    /\ \/ stage'[t] = stage[t]
       \/ {stage[t], stage'[t]} \cap Owning = {}
       \/ stage[t] = "next" /\ stage'[t] = "restore"

LEMMA TaskOnResource ==
    ASSUME IInv, NEW t \in Tasks, TaskNext(t)
    PROVE  /\ Takes(t) \/ Drops(t) \/ StartsStore(t) \/ Stores(t) \/ Elsewhere(t)
           /\ stage'[t] # "none" => pc'[t] \in InFlight
           /\ \A u \in Tasks \ {t} : stage'[u] = stage[u] /\ pc'[u] = pc[u]
           /\ \A c \in Closers : pc'[c] = pc[c]
           /\ StageTypeOK' /\ cancelled' \subseteq Tasks
<1>1. stage \in [Tasks -> {"none", "access", "take", "guard"} \cup Owning]
  BY DEF IInv, StageTypeOK
<1>2. stage[t] # "none" => pc[t] \in InFlight
  BY DEF IInv, PlaceInv
<1>3. pc \in [Procs -> CallLabels \cup CloserLabels] /\ cancelled \subseteq Tasks
  BY DEF IInv, CoreTypeOK, PositionTypeOK
<1> USE <1>1, <1>2, <1>3, ProcsAssumption DEF Owning, StageTypeOK, InFlight, Goto, SetStage
<1>4. CASE Call(t) \/ Begin(t) \/ BeginRefused(t)
  BY <1>4 DEF Call, Begin, BeginRefused, callVars, resourceVars, Elsewhere
<1>5. CASE LockAccess(t) \/ CollectChunk(t) \/ AccessGranted(t) \/ DropGuard(t)
  BY <1>5 DEF LockAccess, CollectChunk, AccessGranted, DropGuard, coreVars, callVars,
     resourceVars, Advance, At, Leaving, Elsewhere
<1>6. CASE TakeForIteration(t) \/ TakeForRead(t)
  BY <1>6 DEF TakeForIteration, TakeForRead, Advance, Finish, At, Takes
<1>7. CASE NextChunk(t)
  BY <1>7 DEF NextChunk, Finish, At, Elsewhere
<1>8. CASE StreamOver(t)
  BY <1>8 DEF StreamOver, Finish, At, Drops
<1>9. CASE DropCollect(t)
  BY <1>9 DEF DropCollect, Advance, Leaving, Drops
<1>10. CASE Restore(t)
  BY <1>10 DEF Restore, Advance, Leaving, Drops, StartsStore
<1>11. CASE RestoreStore(t)
  BY <1>11 DEF RestoreStore, Advance, Leaving, Stores
<1>12. CASE Pending(t)
  BY <1>12 DEF Pending, PollPending, Park, Suspend, CancelTaken, Finish, callVars, Elsewhere
<1>13. CASE LeaseStep(t)
  <2>1. CASE RunStep(t)
    BY <2>1 DEF RunStep, WaitEnroll, WaitUnsatisfied, WaitAgain, PollWork, callVars, Elsewhere
  <2>2. CASE Interrupt(t) \/ Release(t)
    BY <2>2 DEF Interrupt, WaitSatisfied, Release, callVars, Elsewhere
  <2>3. QED
    BY <1>13, <2>1, <2>2 DEF LeaseStep
<1>14. CASE Wake(t) \/ Cancel(t)
  BY <1>14 DEF Wake, Resume, Cancel, callVars, Elsewhere
<1>15. QED
  BY <1>4, <1>5, <1>6, <1>7, <1>8, <1>9, <1>10, <1>11, <1>12, <1>13, <1>14
  DEF TaskNext, TaskStep, Network

LEMMA TaskKeepsResource ==
    ASSUME IInv, NEW t \in Tasks, TaskNext(t)
    PROVE  /\ ResourceTypeOK' /\ PlaceInv'
           /\ StoreBeforeClose' /\ SingleOwner' /\ SlotStaysEmpty'
<1>1. /\ Takes(t) \/ Drops(t) \/ StartsStore(t) \/ Stores(t) \/ Elsewhere(t)
      /\ stage'[t] # "none" => pc'[t] \in InFlight
      /\ \A u \in Tasks \ {t} : stage'[u] = stage[u] /\ pc'[u] = pc[u]
      /\ \A c \in Closers : pc'[c] = pc[c]
  BY TaskOnResource
<1>2. Emptied' = Emptied
  BY <1>1 DEF Emptied
<1>3. ResourceTypeOK /\ PlaceInv /\ StoreBeforeClose /\ SingleOwner /\ SlotStaysEmpty
  BY DEF IInv, CoreTypeOK
<1>4. ~closed => Emptied = {}
  BY DEF IInv, LeaseInv, CloseHasClosed, Emptied
<1>5. NoTask \notin Tasks
  BY NoTaskAssumption
<1> USE <1>1, <1>2, <1>3 DEF ResourceTypeOK, PlaceInv, StoreBeforeClose, SingleOwner,
      SlotStaysEmpty, Owning
<1>6. CASE Takes(t)
  BY <1>5, <1>6 DEF Takes, Take
<1>7. CASE Drops(t)
  BY <1>5, <1>7 DEF Drops, DropValue
<1>8. CASE StartsStore(t)
  BY <1>4, <1>5, <1>8 DEF StartsStore
<1>9. CASE Stores(t)
  BY <1>5, <1>9 DEF Stores
<1>10. CASE Elsewhere(t)
  BY <1>5, <1>10 DEF Elsewhere, resourceVars
<1>11. QED
  BY <1>1, <1>6, <1>7, <1>8, <1>9, <1>10

\* aclose() visits the slot only when nobody is storing.
LEMMA CloserKeepsResource ==
    ASSUME IInv, NEW c \in Closers, CloseNext(c)
    PROVE  /\ ResourceTypeOK' /\ PlaceInv'
           /\ StoreBeforeClose' /\ SingleOwner' /\ SlotStaysEmpty'
<1>1. ResourceTypeOK /\ PlaceInv /\ StoreBeforeClose /\ SingleOwner /\ SlotStaysEmpty
  BY DEF IInv, CoreTypeOK
<1>2. pc \in [Procs -> CallLabels \cup CloserLabels]
  BY DEF IInv, CoreTypeOK, PositionTypeOK
<1>3. stage' = stage
  BY DEF CloseNext, callVars
<1> USE <1>1, <1>2, <1>3, ProcsAssumption, NoTaskAssumption DEF ResourceTypeOK, PlaceInv,
      StoreBeforeClose, SingleOwner, SlotStaysEmpty, Goto
<1>4. CASE CloseTake(c)
  BY <1>4 DEF CloseTake, Take, Emptied
<1>5. CASE CloseDrop(c)
  <2>1. Emptied' = Emptied
    BY <1>5 DEF CloseDrop, Emptied
  <2>2. QED
    BY <1>5, <2>1 DEF CloseDrop, DropValue
<1>6. CASE \/ CloseMark(c) \/ CloseNotify(c) \/ CloseReady(c) \/ CloseWait(c)
           \/ CloseCancelled(c) \/ CloseWaitStep(c)
  <2>1. UNCHANGED <<slot, slotLock, owners>>
    BY <1>6 DEF CloseMark, CloseNotify, CloseReady, CloseWait, CloseCancelled, CloseWaitStep,
       resourceVars
  <2>2. Emptied' = Emptied
    BY <1>6 DEF CloseMark, CloseNotify, CloseReady, CloseWait, CloseCancelled, CloseWaitStep,
       WaitEnroll, WaitSatisfied, WaitUnsatisfied, WaitAgain, Emptied
  <2>3. \A t \in Tasks : pc'[t] = pc[t]
    BY <1>6 DEF CloseMark, CloseNotify, CloseReady, CloseWait, CloseCancelled, CloseWaitStep,
       WaitEnroll, WaitSatisfied, WaitUnsatisfied, WaitAgain
  <2>4. QED
    BY <2>1, <2>2, <2>3
<1>7. QED
  BY <1>4, <1>5, <1>6 DEF CloseNext, CloserNext, CloserStep

LEMMA Inductive == Spec => []IInv
<1>1. Init => IInv
  BY InitOK
<1>2. IInv /\ [Next]_vars => IInv'
  <2> SUFFICES ASSUME IInv, [Next]_vars PROVE IInv'
    OBVIOUS
  <2>1. LeaseInv'
    BY NextKeepsLeaseInv
  <2>2. ASSUME NEW t \in Tasks, TaskNext(t)
        PROVE  IInv'
    BY <2>1, <2>2, TaskKeepsResource, TaskOnResource DEF IInv, CoreTypeOK, LeaseInv
  <2>3. ASSUME NEW c \in Closers, CloseNext(c)
        PROVE  IInv'
    <3>1. UNCHANGED <<stage, cancelled>>
      BY <2>3 DEF CloseNext, callVars
    <3>2. QED
      BY <2>1, <2>3, <3>1, CloserKeepsResource DEF IInv, CoreTypeOK, LeaseInv, StageTypeOK
  <2>4. CASE UNCHANGED vars
    BY <2>1, <2>4 DEF vars, coreVars, resourceVars, callVars, IInv, CoreTypeOK, ResourceTypeOK,
       LeaseInv, StageTypeOK, PlaceInv, StoreBeforeClose, SingleOwner, SlotStaysEmpty, Emptied
  <2>5. QED
    BY <2>2, <2>3, <2>4 DEF Next, Finished
<1>3. QED
  BY <1>1, <1>2, PTL DEF Spec

\* A task that owns the stream holds its lease.
LEMMA WorkUnderLease == PlaceInv => OwnersHoldLeases
  BY DEF PlaceInv, Owning, InFlight, OwnersHoldLeases, Holders, Unleased

-----------------------------------------------------------------------------
(***************************************************************************)
(* The body.  Leaving the mutex does not disturb the call at its head,     *)
(* unless it is that call which leaves.                                    *)
(***************************************************************************)
LEMMA Removal ==
    ASSUME NEW S, NEW s \in Seq(S), NEW i \in DOMAIN s
    PROVE  /\ RemoveAt(s, i) \in Seq(S)
           /\ i # 1 => RemoveAt(s, i) # <<>> /\ Head(RemoveAt(s, i)) = Head(s)
<1>1. i \in 1..Len(s) /\ Len(s) \in Nat /\ \A j \in 1..Len(s) : s[j] \in S
  BY LenProperties, ElementOfSeq
<1>2. /\ SubSeq(s, 1, i-1) \in Seq(S)
      /\ Len(SubSeq(s, 1, i-1)) = i-1
      /\ \A j \in 1..i-1 : SubSeq(s, 1, i-1)[j] = s[j]
  <2>1. \A j \in 1..i-1 : s[j] \in S
    BY <1>1
  <2>2. /\ SubSeq(s, 1, i-1) \in Seq(S)
        /\ Len(SubSeq(s, 1, i-1)) = IF 1 <= i-1 THEN (i-1) - 1 + 1 ELSE 0
        /\ \A j \in 1..(i-1) - 1 + 1 : SubSeq(s, 1, i-1)[j] = s[1 + j - 1]
    BY <1>1, <2>1, SubSeqProperties
  <2>3. QED
    BY <1>1, <2>2
<1>3. SubSeq(s, i+1, Len(s)) \in Seq(S)
  <2>1. \A j \in i+1..Len(s) : s[j] \in S
    BY <1>1
  <2>2. QED
    BY <1>1, <2>1, SubSeqProperties
<1>4. /\ RemoveAt(s, i) \in Seq(S)
      /\ Len(RemoveAt(s, i)) = i-1 + Len(SubSeq(s, i+1, Len(s)))
      /\ \A j \in 1..i-1 : RemoveAt(s, i)[j] = s[j]
  <2>1. Len(SubSeq(s, i+1, Len(s))) \in Nat
    BY <1>3, LenProperties
  <2>2. QED
    BY <1>1, <1>2, <1>3, <2>1, ConcatProperties DEF RemoveAt
<1>5. ASSUME i # 1
      PROVE  RemoveAt(s, i) # <<>> /\ Head(RemoveAt(s, i)) = Head(s)
  <2>1. Len(SubSeq(s, i+1, Len(s))) \in Nat
    BY <1>3, LenProperties
  <2>2. 1 \in 1..i-1 /\ Len(RemoveAt(s, i)) # 0
    BY <1>1, <1>4, <1>5, <2>1
  <2>3. RemoveAt(s, i)[1] = s[1] /\ RemoveAt(s, i) # <<>> /\ s # <<>>
    BY <1>1, <1>4, <2>2, EmptySeq
  <2>4. QED
    BY <1>4, <2>3
<1>6. QED
  BY <1>4, <1>5

LEMMA MutexLeft ==
    ASSUME TypeOK, NEW t \in Tasks, LeaveAccess(t)
    PROVE  /\ access' \in Seq(Tasks)
           /\ \A u \in Tasks \ {t} : HasAccess(u) => HasAccess(u)'
<1>1. access \in Seq(Tasks)
  BY DEF TypeOK
<1>2. CASE UNCHANGED access
  BY <1>1, <1>2 DEF HasAccess
<1>3. ASSUME NEW i \in DOMAIN access, access[i] = t, access' = RemoveAt(access, i)
      PROVE  /\ access' \in Seq(Tasks)
             /\ \A u \in Tasks \ {t} : HasAccess(u) => HasAccess(u)'
  <2>1. /\ access' \in Seq(Tasks)
        /\ i # 1 => access' # <<>> /\ Head(access') = Head(access)
    BY <1>1, <1>3, Removal
  <2>2. access # <<>> => Head(access) = access[1]
    BY <1>1
  <2>3. ASSUME NEW u \in Tasks \ {t}, HasAccess(u)
        PROVE  HasAccess(u)'
    <3>1. i # 1
      BY <1>3, <2>2, <2>3 DEF HasAccess
    <3>2. QED
      BY <2>1, <2>3, <3>1 DEF HasAccess
  <2>4. QED
    BY <2>1, <2>3
<1>4. QED
  BY <1>2, <1>3 DEF LeaveAccess

(***************************************************************************)
(* What a step of a call changes that the body's invariant speaks of: the  *)
(* step leaves the call where it is, or is one of ten that move it.        *)
(***************************************************************************)
Stays(t) == UNCHANGED <<stage, slot, spent>>

Moves(t, from, to) ==
    /\ stage[t] \in from
    /\ stage' = [stage EXCEPT ![t] = to]

LEMMA TaskMoves ==
    ASSUME IInv, BodyInv, NEW t \in Tasks, TaskNext(t)
    PROVE  /\ closed' = closed
           /\ \/ Stays(t)
              \/ stage[t] = "none" /\ Moves(t, {"none"}, "access") /\ UNCHANGED <<slot, spent>>
              \/ HasAccess(t) /\ Moves(t, {"access"}, "take") /\ UNCHANGED <<slot, spent>>
              \/ t \in Nexts /\ slot /\ Moves(t, {"take"}, "next") /\ ~slot' /\ UNCHANGED spent
              \/ t \in Nexts /\ ~slot /\ Moves(t, {"take"}, "guard") /\ ~slot' /\ UNCHANGED spent
              \/ t \in Reads /\ slot /\ Moves(t, {"take"}, "collect") /\ ~slot' /\ spent'
              \/ t \in Reads /\ ~slot /\ Moves(t, {"take"}, "none") /\ ~slot' /\ spent' = spent
              \/ Moves(t, {"next"}, "restore") /\ UNCHANGED <<slot, spent>>
              \/ Moves(t, {"next", "collect"}, "guard") /\ UNCHANGED slot /\ spent'
              \/ Moves(t, {"next", "collect"}, "none") /\ UNCHANGED slot /\ spent'
              \/ Moves(t, {"collect", "guard", "access"}, "none") /\ UNCHANGED <<slot, spent>>
              \/ closed /\ Moves(t, {"next", "restore"}, "guard") /\ UNCHANGED <<slot, spent>>
              \/ Moves(t, {"next", "restore"}, "store") /\ UNCHANGED <<slot, spent>>
              \/ Moves(t, {"store"}, "guard") /\ slot' /\ UNCHANGED spent
<1> USE DEF Moves, SetStage, Advance, Finish, At, Leaving
<1>1. CASE Call(t) \/ BeginRefused(t) \/ LockAccess(t) \/ CollectChunk(t)
  BY <1>1 DEF Stays, Call, BeginRefused, LockAccess, CollectChunk, Receive, coreVars, resourceVars,
     callVars, lifecycleVars, streamVars
<1>2. CASE Begin(t)
  <2>1. stage[t] = "none"
    BY <1>2 DEF Begin, IInv, PlaceInv, InFlight
  <2>2. QED
    BY <1>2, <2>1 DEF Begin, Enter, resourceVars, streamVars
<1>3. CASE AccessGranted(t)
  BY <1>3 DEF AccessGranted, resourceVars, streamVars, lifecycleVars
<1>4. CASE TakeForIteration(t)
  BY <1>4 DEF TakeForIteration, Take, streamVars, lifecycleVars
<1>5. CASE TakeForRead(t)
  BY <1>5 DEF TakeForRead, Take, lifecycleVars, BodyInv, TypeOK
<1>6. CASE NextChunk(t)
  BY <1>6 DEF NextChunk, resourceVars
<1>7. CASE StreamOver(t)
  BY <1>7 DEF StreamOver, DropValue
<1>8. CASE DropCollect(t)
  BY <1>8 DEF DropCollect, DropValue, streamVars, lifecycleVars
<1>9. CASE Restore(t)
  BY <1>9 DEF Restore, DropValue, streamVars, lifecycleVars
<1>10. CASE RestoreStore(t)
  BY <1>10 DEF RestoreStore, streamVars, lifecycleVars
<1>11. CASE DropGuard(t)
  BY <1>11 DEF DropGuard, resourceVars, lifecycleVars
<1>12. CASE Pending(t)
  <2>1. Finish(t, "cancelled", stage[t]) => UNCHANGED stage
    BY DEF BodyInv, TypeOK, StageTypeOK
  <2>2. QED
    BY <1>12, <2>1 DEF Stays, Pending, PollPending, Park, Suspend, CancelTaken, resourceVars,
       callVars, lifecycleVars, streamVars
<1>13. CASE LeaseStep(t) /\ UNCHANGED streamVars
  BY <1>13 DEF Stays, LeaseStep, RunStep, WaitEnroll, WaitUnsatisfied, WaitAgain, PollWork,
     Interrupt, WaitSatisfied, Release, DropLease, Forget, lifecycleVars, resourceVars, callVars,
     streamVars
<1>14. CASE (Wake(t) \/ Cancel(t)) /\ UNCHANGED streamVars
  BY <1>14 DEF Stays, Wake, Resume, Cancel, resourceVars, callVars, lifecycleVars, streamVars
<1>15. QED
  BY <1>1, <1>2, <1>3, <1>4, <1>5, <1>6, <1>7, <1>8, <1>9, <1>10, <1>11, <1>12, <1>13, <1>14
  DEF TaskNext, TaskStep, Network

LEMMA TaskKeepsSpent ==
    ASSUME IInv, BodyInv, NEW t \in Tasks, TaskNext(t)
    PROVE  RoleInv' /\ SpentInv' /\ ReadIsFinal'
<1>1. stage \in [Tasks -> {"none", "access", "take", "guard"} \cup Owning]
  BY DEF BodyInv, TypeOK, StageTypeOK
<1>2. RoleInv /\ SpentInv /\ ReadIsFinal
  BY DEF BodyInv
<1>3. \A u \in Tasks : stage[u] \in Owning => ~slot /\ \A v \in Tasks \ {u} : stage[v] \notin Owning
  BY DEF IInv, PlaceInv, SingleOwner
<1>4. Tasks = Nexts \cup Reads /\ Nexts \cap Reads = {}
  BY CallsAssumption
<1>5. closed' = closed
  BY TaskMoves
<1> USE <1>1, <1>2, <1>4, <1>5 DEF Moves, RoleInv, SpentInv, ReadIsFinal, Advancing
<1>6. CASE Stays(t)
  BY <1>6 DEF Stays
<1>7. CASE \/ Moves(t, {"none"}, "access") /\ UNCHANGED <<slot, spent>>
           \/ Moves(t, {"access"}, "take") /\ UNCHANGED <<slot, spent>>
           \/ Moves(t, {"collect", "guard", "access"}, "none") /\ UNCHANGED <<slot, spent>>
           \/ Moves(t, {"next"}, "restore") /\ UNCHANGED <<slot, spent>>
           \/ Moves(t, {"next", "restore"}, "store") /\ UNCHANGED <<slot, spent>>
  BY <1>7
<1>8. CASE \/ t \in Nexts /\ slot /\ Moves(t, {"take"}, "next") /\ ~slot' /\ UNCHANGED spent
           \/ t \in Nexts /\ ~slot /\ Moves(t, {"take"}, "guard") /\ ~slot' /\ UNCHANGED spent
  BY <1>8
<1>9. CASE \/ t \in Reads /\ slot /\ Moves(t, {"take"}, "collect") /\ ~slot' /\ spent'
           \/ t \in Reads /\ ~slot /\ Moves(t, {"take"}, "none") /\ ~slot' /\ spent' = spent
  BY <1>3, <1>9 DEF Owning
<1>10. CASE \/ Moves(t, {"next", "collect"}, "guard") /\ UNCHANGED slot /\ spent'
            \/ Moves(t, {"next", "collect"}, "none") /\ UNCHANGED slot /\ spent'
  BY <1>3, <1>10 DEF Owning
<1>11. CASE closed /\ Moves(t, {"next", "restore"}, "guard") /\ UNCHANGED <<slot, spent>>
  BY <1>11
<1>12. CASE Moves(t, {"store"}, "guard") /\ slot' /\ UNCHANGED spent
  BY <1>3, <1>12 DEF Owning
<1>13. QED
  BY <1>6, <1>7, <1>8, <1>9, <1>10, <1>11, <1>12, TaskMoves

LEMMA TaskKeepsMutex ==
    ASSUME IInv, BodyInv, NEW t \in Tasks, TaskNext(t)
    PROVE  access' \in Seq(Tasks) /\ MutexInv'
<1>1. access \in Seq(Tasks) /\ stage \in [Tasks -> {"none", "access", "take", "guard"} \cup Owning]
  BY DEF BodyInv, TypeOK, StageTypeOK
<1>2. MutexInv
  BY DEF BodyInv
<1>3. CASE UNCHANGED access
  <2>1. HasAccess(t) => HasAccess(t)'
    BY <1>3 DEF HasAccess
  <2>2. \A u \in Tasks : HasAccess(u) => HasAccess(u)'
    BY <1>3 DEF HasAccess
  <2>3. stage'[t] \in {"take"} \cup Advancing => stage[t] \in {"take"} \cup Advancing \/ HasAccess(t)
    BY <1>1, TaskMoves DEF Stays, Moves, Advancing
  <2>4. \A u \in Tasks \ {t} : stage'[u] = stage[u]
    BY TaskOnResource
  <2>5. QED
    BY <1>1, <1>2, <1>3, <2>2, <2>3, <2>4 DEF MutexInv
<1>4. CASE LockAccess(t)
  <2>1. stage' = stage
    BY <1>4 DEF LockAccess, coreVars, callVars
  <2>2. access' = Append(access, t)
    BY <1>4 DEF LockAccess
  <2>3. access' \in Seq(Tasks) /\ access' # <<>>
    BY <1>1, <2>2, AppendProperties
  <2>4. access # <<>> => Head(access') = Head(access)
    BY <1>1, <2>2, HeadTailAppend
  <2>5. QED
    BY <1>2, <2>1, <2>3, <2>4 DEF MutexInv, HasAccess
<1>5. CASE TakeForRead(t) \/ DropGuard(t)
  <2>1. LeaveAccess(t) /\ stage'[t] \notin {"take"} \cup Advancing
    BY <1>1, <1>5 DEF TakeForRead, DropGuard, Advance, Finish, SetStage, Advancing
  <2>2. \A u \in Tasks \ {t} : stage'[u] = stage[u]
    BY TaskOnResource
  <2>3. /\ access' \in Seq(Tasks)
        /\ \A u \in Tasks \ {t} : HasAccess(u) => HasAccess(u)'
    BY <2>1, MutexLeft DEF BodyInv
  <2>4. QED
    BY <1>2, <2>1, <2>2, <2>3 DEF MutexInv
<1>6. UNCHANGED access \/ LockAccess(t) \/ TakeForRead(t) \/ DropGuard(t)
  BY DEF TaskNext, TaskStep, Network, streamVars, Call, Begin, BeginRefused, AccessGranted,
     TakeForIteration, NextChunk, CollectChunk, StreamOver, Pending, DropCollect, Restore,
     RestoreStore
<1>7. QED
  BY <1>3, <1>4, <1>5, <1>6

\* What a call reports, and what it says of the stream.
Outcomes == {"none", "chunk", "stop", "body", "empty", "error", "closed", "cancelled"}

LEMMA TaskOutcome ==
    ASSUME IInv, BodyInv, NEW t \in Tasks, TaskNext(t)
    PROVE  /\ outcome' \in [Tasks -> Outcomes]
           /\ \A u \in Tasks \ {t} : outcome'[u] = outcome[u]
           /\ outcome'[t] = "stop" => outcome[t] = "stop" \/ closed \/ spent'
           /\ outcome'[t] = "body" => outcome[t] = "body" \/ pos = Length
           /\ spent' \in BOOLEAN /\ openAtCall' \subseteq Tasks
           /\ spent => spent'
<1>1. /\ outcome \in [Tasks -> Outcomes]
      /\ spent \in BOOLEAN /\ openAtCall \subseteq Tasks
  BY DEF BodyInv, TypeOK, Outcomes
<1> USE <1>1 DEF Outcomes, Result, Finish, Advance
<1>2. CASE Call(t) \/ Begin(t) \/ BeginRefused(t) \/ LockAccess(t) \/ CollectChunk(t) \/ DropGuard(t)
  BY <1>2 DEF Call, Begin, BeginRefused, LockAccess, CollectChunk, DropGuard, coreVars, callVars,
     streamVars
<1>3. CASE AccessGranted(t) \/ DropCollect(t) \/ Restore(t) \/ RestoreStore(t)
  BY <1>3 DEF AccessGranted, DropCollect, Restore, RestoreStore, streamVars
<1>4. CASE TakeForIteration(t)
  <2>1. ~slot => closed \/ spent
    <3>1. stage[t] = "take" /\ HasAccess(t)
      BY <1>4 DEF TakeForIteration, At, BodyInv, MutexInv
    <3>2. \A n \in Nexts : stage[n] \in Advancing => HasAccess(n)
      BY CallsAssumption DEF BodyInv, MutexInv
    <3>3. \A n \in Nexts : stage[n] \notin Advancing
      BY <3>1, <3>2 DEF HasAccess, Advancing
    <3>4. QED
      BY <3>3 DEF BodyInv, SpentInv
  <2>2. QED
    BY <1>4, <2>1 DEF TakeForIteration, streamVars
<1>5. CASE TakeForRead(t) \/ NextChunk(t) \/ StreamOver(t)
  BY <1>5 DEF TakeForRead, NextChunk, StreamOver
<1>6. CASE Pending(t)
  BY <1>6 DEF Pending, PollPending, Park, CancelTaken, callVars, streamVars
<1>7. CASE LeaseStep(t) /\ UNCHANGED streamVars
  BY <1>7 DEF LeaseStep, RunStep, Interrupt, Release, callVars, streamVars
<1>8. CASE (Wake(t) \/ Cancel(t)) /\ UNCHANGED streamVars
  BY <1>8 DEF Wake, Cancel, callVars, streamVars
<1>9. QED
  BY <1>2, <1>3, <1>4, <1>5, <1>6, <1>7, <1>8 DEF TaskNext, TaskStep, Network

LEMMA TaskKeepsChunks ==
    ASSUME IInv, BodyInv, NEW t \in Tasks, TaskNext(t)
    PROVE  pos' \in 0..Length /\ ChunkInv'
<1>1. /\ pos \in 0..Length /\ ChunkInv
      /\ got \in [Tasks -> SUBSET (1..pos)]
  BY DEF BodyInv, TypeOK, ChunkInv
<1>2. Length \in Nat /\ Reads \subseteq Tasks
  BY CallsAssumption
<1>3. \A u \in Tasks \ {t} : outcome'[u] = outcome[u]
  BY TaskOutcome
<1>4. outcome'[t] = "body" => outcome[t] = "body" \/ pos = Length
  BY TaskOutcome
<1>5. \A r \in Reads : outcome'[r] = "body" => pos = Length
  BY <1>1, <1>2, <1>3, <1>4 DEF ChunkInv
<1>6. CASE UNCHANGED bodyVars
  BY <1>1, <1>5, <1>6 DEF bodyVars, ChunkInv
<1>7. CASE Receive(t)
  <2>1. pos < Length /\ pos' = pos + 1 /\ pos' \in 0..Length
    BY <1>1, <1>2, <1>7 DEF Receive
  <2>2. /\ got'[t] = got[t] \cup {pos + 1}
        /\ \A u \in Tasks \ {t} : got'[u] = got[u]
    BY <1>1, <1>7 DEF Receive
  <2>3. 1..pos' = (1..pos) \cup {pos + 1} /\ pos + 1 \notin 1..pos
    BY <1>1, <2>1
  <2>4. got' \in [Tasks -> SUBSET (1..pos')]
    BY <1>1, <1>7, <2>3 DEF Receive
  <2>5. \A n \in 1..pos' : \E u \in Tasks : n \in got'[u]
    <3>1. SUFFICES ASSUME NEW n \in 1..pos' PROVE \E u \in Tasks : n \in got'[u]
      OBVIOUS
    <3>2. CASE n = pos + 1
      BY <2>2, <3>2
    <3>3. CASE n \in 1..pos
      <4>1. PICK u \in Tasks : n \in got[u]
        BY <1>1, <3>3 DEF ChunkInv
      <4>2. QED
        BY <2>2, <4>1
    <3>4. QED
      BY <2>3, <3>2, <3>3
  <2>6. \A u, v \in Tasks : u # v => got'[u] \cap got'[v] = {}
    <3>1. SUFFICES ASSUME NEW u \in Tasks, NEW v \in Tasks, u # v
                   PROVE  got'[u] \cap got'[v] = {}
      OBVIOUS
    <3>2. got[u] \cap got[v] = {} /\ pos + 1 \notin got[u] /\ pos + 1 \notin got[v]
      BY <1>1, <2>3, <3>1 DEF ChunkInv
    <3>3. QED
      BY <2>2, <3>1, <3>2
  <2>7. QED
    BY <1>1, <1>5, <2>1, <2>4, <2>5, <2>6 DEF ChunkInv
<1>8. UNCHANGED bodyVars \/ Receive(t)
  BY DEF TaskNext, TaskStep, Network, streamVars, bodyVars, Call, Begin, BeginRefused, LockAccess,
     AccessGranted, TakeForIteration, TakeForRead, NextChunk, CollectChunk, StreamOver, Pending,
     DropCollect, Restore, RestoreStore, DropGuard
<1>9. QED
  BY <1>6, <1>7, <1>8

LEMMA BodyInitially == Init => BodyInv
<1> SUFFICES ASSUME Init PROVE BodyInv
  OBVIOUS
<1>1. CoreTypeOK /\ StageTypeOK
  BY InitOK DEF IInv
<1>2. TypeOK
  <2>1. <<>> \in Seq(Tasks)
    BY EmptySeq
  <2>2. /\ access = <<>> /\ pos = 0 /\ got = [t \in Tasks |-> {}]
        /\ spent = FALSE /\ openAtCall = {}
        /\ outcome = [t \in Tasks |-> "none"]
    BY DEF Init, CoreInit
  <2>3. pos \in 0..Length /\ got \in [Tasks -> SUBSET (1..Length)]
    BY <2>2, CallsAssumption
  <2>4. access \in Seq(Tasks)
    BY <2>1, <2>2
  <2>5. outcome \in [Tasks -> Outcomes]
    BY <2>2 DEF Outcomes
  <2>6. QED
    BY <1>1, <2>2, <2>3, <2>4, <2>5 DEF TypeOK, Outcomes
<1>3. ChunkInv
  BY CallsAssumption DEF ChunkInv, Init, CoreInit
<1>4. QED
  BY <1>2, <1>3, CallsAssumption DEF BodyInv, MutexInv, RoleInv, SpentInv, ReadIsFinal,
     StopMeansOver, Advancing, Init, CoreInit, ResourceInit

LEMMA BodyStep == IInv /\ IInv' /\ BodyInv /\ [Next]_vars => BodyInv'
<1> SUFFICES ASSUME IInv, IInv', BodyInv, [Next]_vars PROVE BodyInv'
  OBVIOUS
<1>1. CoreTypeOK' /\ StageTypeOK'
  BY DEF IInv
<1>2. ASSUME NEW t \in Tasks, TaskNext(t)
      PROVE  BodyInv'
  <2>1. StopMeansOver'
    <3>1. StopMeansOver /\ Nexts \subseteq Tasks
      BY CallsAssumption DEF BodyInv
    <3>2. closed' = closed
      BY <1>2, TaskMoves
    <3>3. QED
      BY <1>2, <3>1, <3>2, TaskOutcome DEF StopMeansOver
  <2>2. TypeOK'
    <3>1. got' \in [Tasks -> SUBSET (1..Length)]
      <4>1. pos' \in 0..Length /\ got' \in [Tasks -> SUBSET (1..pos')]
        BY <1>2, TaskKeepsChunks DEF ChunkInv
      <4>2. 1..pos' \subseteq 1..Length
        BY <4>1, CallsAssumption
      <4>3. QED
        BY <4>1, <4>2
    <3>2. QED
      BY <1>1, <1>2, <3>1, TaskOutcome, TaskKeepsMutex, TaskKeepsChunks DEF TypeOK, Outcomes
  <2>3. QED
    BY <1>2, <2>1, <2>2, TaskKeepsMutex, TaskKeepsSpent, TaskKeepsChunks DEF BodyInv
<1>3. ASSUME NEW c \in Closers, CloseNext(c)
      PROVE  BodyInv'
  <2>1. UNCHANGED <<stage, outcome, access, pos, got, spent, openAtCall>>
    BY <1>3 DEF CloseNext, callVars, streamVars, bodyVars
  <2>2. closed => closed'
    BY <1>3 DEF CloseNext, CloserNext, CloserStep, CloseMark, SetClosed, CloseNotify, NotifyClosed,
       CloseTake, CloseDrop, CloseReady, CloseWait, CloseCancelled, CloseWaitStep, WaitEnroll,
       WaitSatisfied, WaitUnsatisfied, WaitAgain, lifecycleVars
  <2>3. slot' = slot \/ CloseTake(c)
    BY <1>3 DEF CloseNext, CloserNext, CloserStep, CloseMark, CloseNotify, CloseDrop, DropValue,
       CloseReady, CloseWait, CloseCancelled, CloseWaitStep, resourceVars
  <2>4. CloseTake(c) => closed /\ ~slot'
    BY DEF CloseTake, Take, IInv, LeaseInv, CloseHasClosed
  <2>5. TypeOK'
    BY <1>1, <2>1 DEF BodyInv, TypeOK
  <2>6. MutexInv' /\ RoleInv' /\ ChunkInv'
    BY <2>1 DEF BodyInv, MutexInv, RoleInv, ChunkInv, HasAccess
  <2>7. SpentInv' /\ ReadIsFinal' /\ StopMeansOver'
    BY <2>1, <2>2, <2>3, <2>4 DEF BodyInv, SpentInv, ReadIsFinal, StopMeansOver
  <2>8. QED
    BY <2>5, <2>6, <2>7 DEF BodyInv
<1>4. CASE UNCHANGED vars
  <2>1. UNCHANGED <<stage, outcome, access, pos, got, spent, openAtCall, closed, slot>>
    BY <1>4 DEF vars, coreVars, callVars, resourceVars, lifecycleVars, streamVars, bodyVars
  <2>2. TypeOK'
    BY <1>1, <2>1 DEF BodyInv, TypeOK
  <2>3. QED
    BY <2>1, <2>2 DEF BodyInv, MutexInv, RoleInv, ChunkInv, HasAccess, SpentInv, ReadIsFinal,
       StopMeansOver
<1>5. QED
  BY <1>2, <1>3, <1>4 DEF Next, Finished

LEMMA BodyInductive == Spec => []BodyInv
<1>1. Init => BodyInv
  BY BodyInitially
<1>2. IInv /\ IInv' /\ BodyInv /\ [Next]_vars => BodyInv'
  BY BodyStep
<1>3. QED
  BY <1>1, <1>2, Inductive, PTL DEF Spec

-----------------------------------------------------------------------------
(***************************************************************************)
(* The native stream has one owner at a time, so two calls never advance   *)
(* it at once and aclose() drops all of it.                                *)
(***************************************************************************)
THEOREM OneOwner == Spec => []SingleOwner
<1>1. IInv => SingleOwner
  BY DEF IInv
<1>2. QED
  BY <1>1, Inductive, PTL

(***************************************************************************)
(* `restore` never resurrects a closed stream: once an aclose() has been   *)
(* at the slot, it stays empty.                                            *)
(***************************************************************************)
THEOREM NothingIsResurrected == Spec => []SlotStaysEmpty
<1>1. IInv => SlotStaysEmpty
  BY DEF IInv
<1>2. QED
  BY <1>1, Inductive, PTL

(***************************************************************************)
(* When aclose() has been answered the stream is closed, its slot is empty *)
(* and no call owns the native stream.                                     *)
(***************************************************************************)
THEOREM AcknowledgedMeansReleased == Spec => []AckMeansReleased
<1>1. IInv => AckMeansReleased
  <2> SUFFICES ASSUME IInv, NEW c \in Closers, pc[c] = "acked"
               PROVE  closed /\ ~slot /\ owners \cap Tasks = {}
    BY DEF AckMeansReleased, Acked
  <2>1. closed
    BY DEF IInv, LeaseInv, CloseHasClosed
  <2>2. ~slot
    BY DEF IInv, SlotStaysEmpty, Emptied
  <2>3. active = 0
    BY DEF IInv, LeaseInv, AckedIsIdle, Acked
  <2>4. Holders = {}
    BY <2>3, NoHolders DEF IInv, LeaseInv, ActiveCountsLeases
  <2>5. owners \cap Tasks = {}
    BY <2>4, WorkUnderLease DEF IInv, OwnersHoldLeases
  <2>6. QED
    BY <2>1, <2>2, <2>5
<1>2. QED
  BY <1>1, Inductive, PTL

(***************************************************************************)
(* Every variable of the stream keeps its range.                           *)
(***************************************************************************)
THEOREM TypeCorrect == Spec => []TypeOK
<1>1. BodyInv => TypeOK
  BY DEF BodyInv
<1>2. QED
  BY <1>1, BodyInductive, PTL

(***************************************************************************)
(* What a read() has taken never becomes available again.                  *)
(***************************************************************************)
THEOREM ReadsAreFinal == Spec => []ReadIsFinal
<1>1. BodyInv => ReadIsFinal
  BY DEF BodyInv
<1>2. QED
  BY <1>1, BodyInductive, PTL

(***************************************************************************)
(* Cancelling an advance leaves the stream to the next one: until it is    *)
(* closed, exhausted, failed or read, it is in the slot or with an         *)
(* __anext__ that will put it back.                                        *)
(***************************************************************************)
THEOREM CancellationKeepsStream == Spec => []CancelledAdvanceKeepsStream
<1>1. IInv /\ BodyInv => CancelledAdvanceKeepsStream
  <2>1. ASSUME IInv, NEW t \in Nexts, stage[t] \in Advancing
        PROVE  t \in owners
    BY <2>1, CallsAssumption DEF IInv, PlaceInv, Owning, Advancing
  <2>2. QED
    BY <2>1 DEF BodyInv, SpentInv, CancelledAdvanceKeepsStream
<1>2. QED
  BY <1>1, Inductive, BodyInductive, PTL

(***************************************************************************)
(* No premature end: __anext__ raises StopAsyncIteration only when the     *)
(* stream is closed, used up, or taken by a read().                        *)
(***************************************************************************)
THEOREM NoPrematureEnd == Spec => []StopMeansOver
<1>1. BodyInv => StopMeansOver
  BY DEF BodyInv
<1>2. QED
  BY <1>1, BodyInductive, PTL

(***************************************************************************)
(* A completed read() has exactly the chunks that no other call got.       *)
(***************************************************************************)
THEOREM ReadGetsTheRest == Spec => []BodyIsTheRest
<1>1. BodyInv => BodyIsTheRest
  <2> SUFFICES ASSUME BodyInv, NEW r \in Reads, outcome[r] = "body"
               PROVE  got[r] = (1..Length) \ UNION {got[t] : t \in Tasks \ {r}}
    BY DEF BodyIsTheRest
  <2>1. r \in Tasks /\ pos = Length
    BY CallsAssumption DEF BodyInv, ChunkInv
  <2>2. got[r] \subseteq 1..Length
    BY <2>1 DEF BodyInv, ChunkInv
  <2>3. \A n \in 1..Length : \E t \in Tasks : n \in got[t]
    BY <2>1 DEF BodyInv, ChunkInv
  <2>4. \A t \in Tasks \ {r} : got[t] \cap got[r] = {}
    BY <2>1 DEF BodyInv, ChunkInv
  <2>5. QED
    BY <2>1, <2>2, <2>3, <2>4
<1>2. QED
  BY <1>1, BodyInductive, PTL

-----------------------------------------------------------------------------
(***************************************************************************)
(* Every step of the stream is a step of the contract of a closable        *)
(* resource, or changes nothing the contract speaks of.                    *)
(***************************************************************************)
LEMMA TaskImplements ==
    ASSUME IInv, NEW t \in Tasks, TaskNext(t)
    PROVE  Contract!Next \/ UNCHANGED Contract!absVars
<1> USE DEF IInv, Unleased
<1>1. CASE Begin(t)
  BY <1>1, AdmissionImplements DEF Begin
<1>2. CASE Call(t) \/ BeginRefused(t)
  BY <1>2, MoveImplements DEF Call, BeginRefused, lifecycleVars
<1>3. CASE \/ AccessGranted(t) \/ DropCollect(t) \/ Restore(t) \/ RestoreStore(t)
           \/ DropGuard(t) \/ LockAccess(t) \/ CollectChunk(t)
  <2>1. UNCHANGED <<closed, pc>>
    BY <1>3 DEF AccessGranted, DropCollect, Restore, RestoreStore, DropGuard, LockAccess,
       CollectChunk, Advance, coreVars, lifecycleVars
  <2>2. QED
    BY <2>1, StutterImplements
<1>4. CASE TakeForIteration(t) \/ TakeForRead(t) \/ NextChunk(t) \/ StreamOver(t)
  <2>1. closed' = closed /\ pc[t] = "poll" /\ (pc' = pc \/ Goto(t, "finish"))
    BY <1>4 DEF TakeForIteration, TakeForRead, NextChunk, StreamOver, Advance, Finish, At,
       lifecycleVars
  <2>2. QED
    BY <2>1, StutterImplements, MoveImplements
<1>5. CASE Pending(t) \/ LeaseStep(t) \/ Wake(t) \/ Cancel(t)
  BY <1>5, LeaseStepImplements DEF Pending
<1>6. QED
  BY <1>1, <1>2, <1>3, <1>4, <1>5 DEF TaskNext, TaskStep, Network

\* A response stream implements the safety part of the contract: nothing is
\* admitted after closure, and closure is answered when nothing is left.
THEOREM ImplementsContractSafety == Spec => ContractSafety
<1>1. Init => Contract!Init
  BY InitImplements DEF Init
<1>2. IInv /\ [Next]_vars => [Contract!Next]_(Contract!absVars)
  <2> SUFFICES ASSUME IInv, [Next]_vars PROVE [Contract!Next]_(Contract!absVars)
    OBVIOUS
  <2>1. CASE \E t \in Tasks : TaskNext(t)
    BY <2>1, TaskImplements
  <2>2. CASE \E c \in Closers : CloseNext(c)
    BY <2>2, CloserImplements DEF CloseNext, IInv
  <2>3. CASE UNCHANGED vars
    BY <2>3, StutterImplements DEF vars, coreVars, lifecycleVars
  <2>4. QED
    BY <2>1, <2>2, <2>3 DEF Next, Finished
<1>3. QED
  BY <1>1, <1>2, Inductive, PTL DEF Spec, ContractSafety

(***************************************************************************)
(* However calls, closures and cancellations interleave, a closed stream   *)
(* admits nothing more, its leases only become fewer, and aclose() is      *)
(* answered only in a state without any.                                   *)
(***************************************************************************)
THEOREM ClosingIsFinal == Spec => ClosedForGood
  BY ImplementsContractSafety, ContractClosesForGood, PTL
=============================================================================
