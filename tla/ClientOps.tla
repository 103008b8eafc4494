----------------------------- MODULE ClientOps -----------------------------
(***************************************************************************)
(* A generated native client: operations that acquire the shared           *)
(* ClientState with a lease, convert their parameters, and run on Tokio    *)
(* under Lease::run_client, against concurrent aclose() calls, Python      *)
(* cancellation and the lazy construction of the SDK client (OnceCell).    *)
(* Configuration loading and the service answer when they like.            *)
(***************************************************************************)
EXTENDS LeasedCall

VARIABLES
    cell,        \* ClientState.client is initialized
    permit       \* the task initializing it, NoTask when none is

clientVars == <<cell, permit>>
vars == <<coreVars, clientVars>>

Init ==
    /\ CoreInit
    /\ cell = FALSE
    /\ permit = NoTask

-----------------------------------------------------------------------------
(***************************************************************************)
(* The call itself, on the Python thread: ManagedResource::acquire (lease, *)
(* then the clone under the slot lock), then parameter conversion.         *)
(***************************************************************************)
Acquire(t) ==
    /\ pc[t] = "idle"
    /\ Enter
    /\ Goto(t, "clone")
    /\ UNCHANGED <<resourceVars, callVars, clientVars>>

AcquireRefused(t) ==
    /\ pc[t] = "idle"
    /\ closed
    /\ Goto(t, "settled")
    /\ Result(t, "rejected")
    /\ UNCHANGED <<lifecycleVars, resourceVars, stage, cancelled, clientVars>>

CloneState(t) ==
    /\ pc[t] = "clone"
    /\ slot
    /\ owners' = owners \cup {t}
    /\ Goto(t, "convert")
    /\ UNCHANGED <<lifecycleVars, slot, slotLock, callVars, clientVars>>

\* Faulty: the early return forgets the lease.
CloneMissedLeaks(t) ==
    /\ pc[t] = "clone" /\ ~slot
    /\ Goto(t, "settled") /\ Result(t, "rejected")
    /\ UNCHANGED <<lifecycleVars, resourceVars, stage, cancelled, clientVars>>

\* aclose() emptied the slot between `begin` and the clone.
CloneMissed(t) ==
    /\ pc[t] = "clone"
    /\ ~slot
    /\ DropLease
    /\ Goto(t, "settled")
    /\ Result(t, "rejected")
    /\ UNCHANGED <<resourceVars, stage, cancelled, clientVars>>

\* Faulty: the lease is dropped here and again later.
ConvertFailsTwice(t) ==
    /\ pc[t] = "convert"
    /\ DropValue(t) /\ DropLease
    /\ Goto(t, "finish") /\ Result(t, "input")
    /\ UNCHANGED <<stage, cancelled, clientVars>>

\* The state and the lease go in one step: the interpreter lock is held.
ConvertFails(t) ==
    /\ pc[t] = "convert"
    /\ DropValue(t)
    /\ DropLease
    /\ Goto(t, "settled")
    /\ Result(t, "input")
    /\ UNCHANGED <<stage, cancelled, clientVars>>

Spawn(t) ==
    /\ pc[t] = "convert"
    /\ Goto(t, "register")
    /\ SetStage(t, "client")
    /\ UNCHANGED <<lifecycleVars, resourceVars, outcome, cancelled, clientVars>>

-----------------------------------------------------------------------------
(***************************************************************************)
(* The operation's future: ClientState::client (get_or_try_init: one       *)
(* initializer at a time, the next one takes over when it fails or is      *)
(* dropped), then the request.                                             *)
(***************************************************************************)
ClientShared(t) ==
    /\ At(t, "client")
    /\ cell
    /\ Advance(t, "send")
    /\ UNCHANGED <<resourceVars, clientVars>>

StartLoad(t) ==
    /\ At(t, "client")
    /\ ~cell
    /\ permit = NoTask
    /\ permit' = t
    /\ Advance(t, "load")
    /\ UNCHANGED <<resourceVars, cell>>

Loaded(t) ==
    /\ At(t, "load")
    /\ cell' = TRUE
    /\ permit' = NoTask
    /\ Advance(t, "send")
    /\ UNCHANGED resourceVars

LoadFails(t) ==
    /\ At(t, "load")
    /\ permit' = NoTask
    /\ Finish(t, "error", "none")
    /\ DropValue(t)
    /\ UNCHANGED cell

Respond(t, r) ==
    /\ At(t, "send")
    /\ Finish(t, r, "none")
    /\ DropValue(t)
    /\ UNCHANGED clientVars

\* Nothing more this future can do in this poll.
Pending(t) ==
    /\ \/ At(t, "client") /\ ~cell /\ permit # NoTask
       \/ At(t, "load")
       \/ At(t, "send")
    /\ PollPending(t)
    /\ UNCHANGED clientVars

\* Faulty: the work outlives its lease.
DropWorkLate(t) ==
    /\ pc[t] = "finish" /\ stage[t] # "none"
    /\ permit' = IF permit = t THEN NoTask ELSE permit
    /\ Advance(t, "none")
    /\ UNCHANGED <<resourceVars, cell>>

\* Faulty: an interrupted initializer keeps the permit.
DropWorkKeepsPermit(t) ==
    /\ pc[t] = "finish" /\ stage[t] # "none"
    /\ DropValue(t)
    /\ Advance(t, "none")
    /\ UNCHANGED clientVars

\* An unfinished future is dropped with the state and the permit it has.
DropWork(t) ==
    /\ pc[t] = "finish"
    /\ stage[t] # "none"
    /\ DropValue(t)
    /\ permit' = IF permit = t THEN NoTask ELSE permit
    /\ Advance(t, "none")
    /\ UNCHANGED cell

-----------------------------------------------------------------------------
\* Steps the code takes by itself once the call is made.
TaskStep(t) ==
    \/ CloneState(t) \/ CloneMissed(t) \/ ConvertFails(t) \/ Spawn(t)
    \/ ClientShared(t) \/ StartLoad(t) \/ Pending(t) \/ DropWork(t)
    \/ LeaseStep(t) /\ UNCHANGED clientVars

\* What the network and the configuration sources do.
Answer(t) == Loaded(t) \/ LoadFails(t) \/ \E r \in {"ok", "error"} : Respond(t, r)

TaskNext(t) ==
    \/ Acquire(t) \/ AcquireRefused(t) \/ TaskStep(t) \/ Answer(t)
    \/ (Wake(t) \/ Cancel(t)) /\ UNCHANGED clientVars

CloseStep(c) == CloserStep(c) /\ UNCHANGED <<callVars, clientVars>>
CloseNext(c) == CloserNext(c) /\ UNCHANGED <<callVars, clientVars>>

Finished == AllSettled /\ UNCHANGED vars

Next ==
    \/ \E t \in Tasks : TaskNext(t)
    \/ \E c \in Closers : CloseNext(c)
    \/ Finished

Spec == Init /\ [][Next]_vars

(***************************************************************************)
(* Fairness.  A Tokio worker polls a task that has been woken and runs it  *)
(* until it suspends or ends, and a Python thread inside a native call     *)
(* finishes it; nobody has to call, cancel, or answer.                     *)
(***************************************************************************)
MustWake(t) ==
    \/ t \in woken
    \/ t \in cancelled
    \/ stage[t] = "client" /\ (cell \/ permit = NoTask)

WakeUp(t) == Wake(t) /\ UNCHANGED clientVars

Fairness ==
    /\ \A t \in Tasks : WF_vars(TaskStep(t)) /\ WF_vars(MustWake(t) /\ WakeUp(t))
    /\ \A c \in Closers : WF_vars(CloseStep(c))

FairSpec == Spec /\ Fairness

\* The network's part: it answers a request that is polled again and again.
NetworkFairness == \A t \in Tasks : WF_vars(WakeUp(t)) /\ SF_vars(Answer(t))

(***************************************************************************)
(* When the network also answers a request that keeps being polled, every  *)
(* admitted operation ends, also one that waits for an initializer which   *)
(* failed or was cancelled (lib.rs, `ClientState::client`).                *)
(***************************************************************************)
CallsEndIfAnswered == NetworkFairness => EveryCallEnds

-----------------------------------------------------------------------------
\* The type invariant of the client: every variable has its range.
TypeOK ==
    /\ CoreTypeOK
    /\ stage \in [Tasks -> {"none", "client", "load", "send"}]
    /\ outcome \in [Tasks -> {"none", "rejected", "input", "ok", "error",
                              "closed", "cancelled"}]
    /\ cell \in BOOLEAN
    /\ permit \in Tasks \cup {NoTask}

(***************************************************************************)
(* The permit of the lazy initialization is never stranded: whoever has it *)
(* is an admitted operation that is loading, whatever was cancelled or     *)
(* closed in the meantime (lib.rs, `ClientState::client`).                 *)
(***************************************************************************)
PermitIsLive == permit # NoTask => permit \in owners /\ stage[permit] = "load"

(***************************************************************************)
(* The inductive invariant.  A task owns the client state exactly while it *)
(* converts parameters or has a future that is not dropped yet, and it has *)
(* such a future only while it runs under its lease; so no task owns the   *)
(* state without a lease, and the permit lies with a future that exists.   *)
(***************************************************************************)
WorkInv ==
    \A t \in Tasks :
        /\ t \in owners <=> pc[t] = "convert" \/ stage[t] # "none"
        /\ stage[t] # "none" => pc[t] \in InFlight

IInv ==
    /\ TypeOK
    /\ LeaseInv
    /\ WorkInv
    /\ SlotStaysEmpty
    /\ PermitIsLive
=============================================================================
