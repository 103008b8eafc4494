----------------------------- MODULE LeasedCall -----------------------------
(***************************************************************************)
(* A native call under `Lease::run` inside the Python bridge, common to    *)
(* client operations and stream calls.  A task's position is `pc`:         *)
(*                                                                         *)
(*   register, check, await   the closed half of the select (wait_for);    *)
(*   poll                     polling the call's own future, at `stage`;   *)
(*   suspended                both halves are pending;                     *)
(*   finish                   the future completed or is being dropped:    *)
(*                            `stage` is what it still has to drop, and    *)
(*                            the lease goes last, when that is "none";    *)
(*   settled                  the lease is gone.                           *)
(*                                                                         *)
(* The bridge polls the whole and looks for cancellation of the Python     *)
(* awaitable only when that is pending (pyo3-async-runtimes' Cancellable). *)
(***************************************************************************)
EXTENDS ManagedResource

VARIABLES
    stage,      \* progress of the call's own future, or of dropping it
    outcome,    \* what the call produced
    cancelled   \* tasks whose Python awaitable was cancelled

callVars == <<stage, outcome, cancelled>>
coreVars == <<lifecycleVars, pc, resourceVars, callVars>>

CoreInit ==
    /\ LifecycleInit
    /\ ResourceInit
    /\ pc = [p \in Procs |-> "idle"]
    /\ stage = [t \in Tasks |-> "none"]
    /\ outcome = [t \in Tasks |-> "none"]
    /\ cancelled = {}

At(t, s) == pc[t] = "poll" /\ stage[t] = s
SetStage(t, s) == stage' = [stage EXCEPT ![t] = s]
Result(t, r) == outcome' = [outcome EXCEPT ![t] = r]

\* Moves on inside one poll.
Advance(t, s) ==
    /\ SetStage(t, s)
    /\ UNCHANGED <<lifecycleVars, pc, outcome, cancelled>>

\* The select is over with result r; `rest` is left to drop.
Finish(t, r, rest) ==
    /\ Result(t, r)
    /\ SetStage(t, rest)
    /\ Forget(t)
    /\ Goto(t, "finish")
    /\ UNCHANGED <<closed, active, cancelled>>

-----------------------------------------------------------------------------
\* Turns of wait_for(is_closed) that do not find it closed.
RunStep(t) ==
    /\ \/ WaitEnroll(t)
       \/ WaitUnsatisfied(t, IsClosed)
       \/ WaitAgain(t)
       \/ PollWork(t)
    /\ UNCHANGED <<resourceVars, callVars>>

\* Closure wins the select: the future is dropped, then the lease.
Interrupt(t) ==
    /\ WaitSatisfied(t, IsClosed, "finish")
    /\ Result(t, "closed")
    /\ UNCHANGED <<resourceVars, stage, cancelled>>

\* Faulty: suspends without looking at the cancellation.
ParkOnly(t) == Suspend(t) /\ UNCHANGED <<resourceVars, callVars>>

\* A pending poll ends in suspension, or in the drop of a cancelled call.
Park(t) ==
    /\ t \notin cancelled
    /\ Suspend(t)
    /\ UNCHANGED <<resourceVars, callVars>>

CancelTaken(t) ==
    /\ t \in cancelled
    /\ Finish(t, "cancelled", stage[t])
    /\ UNCHANGED resourceVars

PollPending(t) ==
    /\ pc[t] = "poll"
    /\ Park(t) \/ CancelTaken(t)

\* A waker fires: closure, cancellation, a lock handed over, the network.
Wake(t) ==
    /\ Resume(t)
    /\ UNCHANGED <<resourceVars, callVars>>

Release(t) ==
    /\ pc[t] = "finish"
    /\ stage[t] = "none"
    /\ DropLease
    /\ Goto(t, "settled")
    /\ UNCHANGED <<resourceVars, callVars>>

\* Python cancels the awaitable of a call it has made.
Cancel(t) ==
    /\ pc[t] \notin {"idle", "clone", "convert", "settled"}
    /\ cancelled' = cancelled \cup {t}
    /\ UNCHANGED <<lifecycleVars, pc, resourceVars, stage, outcome>>

LeaseStep(t) == RunStep(t) \/ Interrupt(t) \/ Release(t)

AllSettled ==
    /\ \A t \in Tasks : pc[t] = "settled"
    /\ \A c \in Closers : pc[c] \in {"acked", "cancelled"}

-----------------------------------------------------------------------------
CallLabels == {"idle", "spawned", "clone", "convert", "register", "check", "await",
               "poll", "suspended", "finish", "settled"}

\* The task runs under Lease::run.
InFlight == {"register", "check", "await", "poll", "suspended", "finish"}

PositionTypeOK ==
    /\ pc \in [Procs -> CallLabels \cup CloserLabels]
    /\ \A t \in Tasks : pc[t] \in CallLabels
    /\ \A c \in Closers : pc[c] \in CloserLabels

CoreTypeOK ==
    /\ LifecycleTypeOK
    /\ PositionTypeOK
    /\ ResourceTypeOK
    /\ cancelled \subseteq Tasks

(***************************************************************************)
(* The inductive invariant of the lease protocol: besides the count and    *)
(* the wake-ups, whoever has enrolled is still known to the Notify until   *)
(* it forgets its Notified, an aclose() that has begun has closed, and an  *)
(* aclose() that has been answered leaves no lease behind.                 *)
(***************************************************************************)
EnrolledOrWoken ==
    \A p \in Procs : pc[p] \in {"check", "await", "poll", "suspended"}
        => p \in enrolled \cup woken

CloseHasClosed == \A c \in Closers : pc[c] # "idle" => closed

AckedIsIdle == Acked # {} => active = 0

LeaseInv ==
    /\ LifecycleTypeOK
    /\ PositionTypeOK
    /\ ActiveCountsLeases
    /\ EnrolledOrWoken
    /\ NoLostWakeup
    /\ CloseHasClosed
    /\ AckedIsIdle

(***************************************************************************)
(* Cancelling the awaitable of a call ends its native work and frees its   *)
(* lease, without any answer from the network.                             *)
(***************************************************************************)
CancelEndsWork == \A t \in Tasks : t \in cancelled ~> pc[t] = "settled"

(***************************************************************************)
(* When the network answers, every call that holds a lease ends, also one  *)
(* that waits for another call which failed or was cancelled.              *)
(***************************************************************************)
EveryCallEnds == \A t \in Tasks : pc[t] = "register" ~> pc[t] = "settled"

(***************************************************************************)
(* The resource implements the contract of a closable resource: its        *)
(* admitted operations are those that hold a lease, and aclose() is        *)
(* answered through the lease count.                                       *)
(***************************************************************************)
Contract == INSTANCE ClosableResource WITH
    open <- ~closed,
    live <- Holders,
    waiting <- {c \in Closers : pc[c] \notin {"idle", "acked", "cancelled"}},
    answered <- Acked

ImplementsContract == Contract!Spec

\* Its safety part: every step is a step of the contract, or invisible to it.
ContractSafety == Contract!Init /\ [][Contract!Next]_(Contract!absVars)
=============================================================================
