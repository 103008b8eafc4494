-------------------------- MODULE ManagedResource --------------------------
(***************************************************************************)
(* rboto-core's ManagedResource<T>: the slot that holds a client's state   *)
(* or a response stream, and aclose(), which closes the lifecycle, empties *)
(* the slot and waits until no lease is left.                              *)
(*                                                                         *)
(* The native part of aclose() runs with the interpreter lock released, so *)
(* several Python threads can be inside it at once: each step is separate. *)
(***************************************************************************)
EXTENDS Lifecycle

CONSTANT NoTask   \* the slot lock is free
ASSUME NoTaskAssumption == NoTask \notin Procs

VARIABLES
    slot,       \* TRUE: the slot is Some(value)
    slotLock,   \* the task inside `restore`, NoTask when the lock is free
    owners      \* processes that own a T taken from or cloned out of the slot

resourceVars == <<slot, slotLock, owners>>

ResourceInit ==
    /\ slot = TRUE
    /\ slotLock = NoTask
    /\ owners = {}

\* Faulty: hands the value out and leaves it in the slot.
TakeCopy(p) ==
    /\ slotLock = NoTask
    /\ owners' = IF slot THEN owners \cup {p} ELSE owners
    /\ UNCHANGED <<slot, slotLock>>

\* ManagedResource::take, which a closer and a stream task both call.
Take(p) ==
    /\ slotLock = NoTask
    /\ slot' = FALSE
    /\ owners' = IF slot THEN owners \cup {p} ELSE owners
    /\ UNCHANGED slotLock

DropValue(p) ==
    /\ owners' = owners \ {p}
    /\ UNCHANGED <<slot, slotLock>>

-----------------------------------------------------------------------------
(***************************************************************************)
(* aclose(): start_close (mark, notify, take, drop), the idle test that    *)
(* answers without a runtime, and the wait that answers with one.          *)
(***************************************************************************)
CloseMark(c) ==
    /\ pc[c] = "idle"
    /\ SetClosed
    /\ Goto(c, "notify")
    /\ UNCHANGED resourceVars

CloseNotify(c) ==
    /\ pc[c] = "notify"
    /\ NotifyClosed
    /\ Goto(c, "take")
    /\ UNCHANGED resourceVars

CloseTake(c) ==
    /\ pc[c] = "take"
    /\ Take(c)
    /\ Goto(c, "drop")
    /\ UNCHANGED lifecycleVars

CloseDrop(c) ==
    /\ pc[c] = "drop"
    /\ DropValue(c)
    /\ Goto(c, "idletest")
    /\ UNCHANGED lifecycleVars

\* Faulty: answers at once, busy or not.
CloseReadyAlways(c) ==
    /\ pc[c] = "idletest"
    /\ Goto(c, "acked")
    /\ UNCHANGED <<lifecycleVars, resourceVars>>

\* Already idle: a completed Python future, no runtime involved.
CloseReady(c) ==
    /\ pc[c] = "idletest"
    /\ IsIdle
    /\ Goto(c, "acked")
    /\ UNCHANGED <<lifecycleVars, resourceVars>>

CloseWait(c) ==
    /\ pc[c] = "idletest"
    /\ ~IsIdle
    /\ Goto(c, "register")
    /\ UNCHANGED <<lifecycleVars, resourceVars>>

\* The caller cancels the awaitable; closure itself stays in effect.
CloseCancelled(c) ==
    /\ pc[c] \in {"register", "check", "await"}
    /\ Forget(c)
    /\ Goto(c, "cancelled")
    /\ UNCHANGED <<closed, active, resourceVars>>

CloseWaitStep(c) ==
    /\ \/ WaitEnroll(c)
       \/ WaitSatisfied(c, IsIdle, "acked")
       \/ WaitUnsatisfied(c, IsIdle)
       \/ WaitAgain(c)
    /\ UNCHANGED resourceVars

\* What aclose() does by itself once it has been called.
CloserStep(c) ==
    \/ CloseNotify(c)
    \/ CloseTake(c)
    \/ CloseDrop(c)
    \/ CloseReady(c)
    \/ CloseWait(c)
    \/ CloseWaitStep(c)

CloserNext(c) == CloseMark(c) \/ CloserStep(c) \/ CloseCancelled(c)

-----------------------------------------------------------------------------
CloserLabels == {"idle", "notify", "take", "drop", "idletest", "register",
                 "check", "await", "acked", "cancelled"}

ResourceTypeOK ==
    /\ slot \in BOOLEAN
    /\ slotLock \in Tasks \cup {NoTask}
    /\ owners \subseteq Procs

\* aclose() calls that have emptied the slot.
Emptied == {c \in Closers : pc[c] \notin {"idle", "notify", "take"}}
Acked == {c \in Closers : pc[c] = "acked"}

(***************************************************************************)
(* Once any aclose() has emptied the slot nothing is ever put back: an     *)
(* iterator that was in flight cannot resurrect the stream                 *)
(* (lifecycle.rs, `restore`).                                              *)
(***************************************************************************)
SlotStaysEmpty == Emptied # {} => ~slot

(***************************************************************************)
(* "Drop the pending work before acknowledging closure": a task that still *)
(* owns the resource still holds its lease (lifecycle.rs, `Lease::run`).   *)
(***************************************************************************)
OwnersHoldLeases == owners \cap Tasks \subseteq Holders

(***************************************************************************)
(* aclose() returns only when closure is in effect, the slot is empty and  *)
(* no operation owns the resource any more ("Closure waits for their       *)
(* native futures and resource owners to be released").                    *)
(***************************************************************************)
AckMeansReleased == Acked # {} => closed /\ ~slot /\ owners \cap Tasks = {}

(***************************************************************************)
(* What docs/guides/lifecycle.md says of closing more than once: "Wait for *)
(* the same cleanup".  When any aclose() has returned, no other aclose()   *)
(* is still releasing the value it took out of the slot.                   *)
(***************************************************************************)
AckWaitsForSameCleanup == Acked # {} => owners \cap Closers = {}
=============================================================================
