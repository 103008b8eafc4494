----------------------------- MODULE ByteStream -----------------------------
(***************************************************************************)
(* A response stream: PyByteStream of a generated extension (the event     *)
(* receivers have the same __anext__ and no read()).  `__anext__` takes    *)
(* the native stream out of the slot, advances it and puts it back;        *)
(* `read` takes it for good and collects it; aclose() takes it and drops   *)
(* it.  Calls on one stream are serialized by the `access` mutex, and a    *)
(* call begins its lease only when Tokio first polls it, which is later    *)
(* than the Python call.                                                   *)
(***************************************************************************)
EXTENDS LeasedCall, Sequences, SequencesExt

CONSTANTS
    Nexts,      \* calls of __anext__
    Reads,      \* calls of read
    Length      \* chunks in the body

ASSUME CallsAssumption ==
    /\ Tasks = Nexts \cup Reads
    /\ Nexts \cap Reads = {}
    /\ Length \in Nat

VARIABLES
    access,     \* tokio's FIFO mutex: the head holds it, the rest wait
    pos,        \* chunks the native stream has yielded
    got,        \* chunks each call received
    spent,      \* exhausted, failed, or taken by a read (history)
    openAtCall  \* calls made before any aclose() (history)

bodyVars == <<pos, got>>
streamVars == <<access, bodyVars, spent, openAtCall>>
vars == <<coreVars, streamVars>>

Init ==
    /\ CoreInit
    /\ access = <<>>
    /\ pos = 0
    /\ got = [t \in Tasks |-> {}]
    /\ spent = FALSE
    /\ openAtCall = {}

Queued(t) == t \in Range(access)
HasAccess(t) == access # <<>> /\ Head(access) = t
LeaveAccess(t) ==
    \/ ~Queued(t) /\ UNCHANGED access
    \/ \E i \in DOMAIN access : access[i] = t /\ access' = RemoveAt(access, i)

-----------------------------------------------------------------------------
(***************************************************************************)
(* The Python call spawns a Tokio task; its first poll begins the lease.   *)
(***************************************************************************)
Call(t) ==
    /\ pc[t] = "idle"
    /\ Goto(t, "spawned")
    /\ openAtCall' = IF closed THEN openAtCall ELSE openAtCall \cup {t}
    /\ UNCHANGED <<lifecycleVars, resourceVars, callVars, access, bodyVars, spent>>

Begin(t) ==
    /\ pc[t] = "spawned"
    /\ Enter
    /\ Goto(t, "register")
    /\ SetStage(t, "access")
    /\ UNCHANGED <<resourceVars, outcome, cancelled, streamVars>>

BeginRefused(t) ==
    /\ pc[t] = "spawned"
    /\ closed
    /\ Goto(t, "settled")
    /\ Result(t, IF t \in Reads THEN "empty" ELSE "stop")
    /\ UNCHANGED <<lifecycleVars, resourceVars, stage, cancelled, streamVars>>

-----------------------------------------------------------------------------
(***************************************************************************)
(* The future inside the lease.  What it still owns when it completes goes *)
(* in order: "restore" puts the stream back, "guard" leaves the mutex.     *)
(***************************************************************************)
LockAccess(t) ==
    /\ At(t, "access")
    /\ ~Queued(t)
    /\ access' = Append(access, t)
    /\ UNCHANGED <<coreVars, bodyVars, spent, openAtCall>>

\* Faulty: the calls are not serialized.
AccessUnguarded(t) ==
    /\ At(t, "access") /\ Queued(t)
    /\ Advance(t, "take")
    /\ UNCHANGED <<resourceVars, streamVars>>

AccessGranted(t) ==
    /\ At(t, "access")
    /\ HasAccess(t)
    /\ Advance(t, "take")
    /\ UNCHANGED <<resourceVars, streamVars>>

TakeForIteration(t) ==
    /\ At(t, "take")
    /\ t \in Nexts
    /\ Take(t)
    /\ IF slot THEN Advance(t, "next") ELSE Finish(t, "stop", "guard")
    /\ UNCHANGED streamVars

\* read() leaves the mutex as soon as it has the stream.
TakeForRead(t) ==
    /\ At(t, "take")
    /\ t \in Reads
    /\ Take(t)
    /\ LeaveAccess(t)
    /\ spent' = (spent \/ slot)
    /\ IF slot THEN Advance(t, "collect") ELSE Finish(t, "empty", "none")
    /\ UNCHANGED <<bodyVars, openAtCall>>

\* The network yields one more chunk.
Receive(t) ==
    /\ pos < Length
    /\ pos' = pos + 1
    /\ got' = [got EXCEPT ![t] = @ \cup {pos + 1}]

NextChunk(t) ==
    /\ At(t, "next")
    /\ Receive(t)
    /\ Finish(t, "chunk", "restore")
    /\ UNCHANGED <<resourceVars, access, spent, openAtCall>>

CollectChunk(t) ==
    /\ At(t, "collect")
    /\ Receive(t)
    /\ UNCHANGED <<coreVars, access, spent, openAtCall>>

\* Faulty: read() takes the next chunk for the whole body.
StreamOverEarly(t) ==
    /\ \/ At(t, "next") /\ pos = Length /\ Finish(t, "stop", "guard")
       \/ At(t, "collect") /\ got[t] # {} /\ Finish(t, "body", "none")
    /\ spent' = TRUE
    /\ DropValue(t)
    /\ UNCHANGED <<access, bodyVars, openAtCall>>

\* End of the body, or a failure: the stream is discarded, not restored.
StreamOver(t) ==
    /\ \/ At(t, "next") /\ pos = Length /\ Finish(t, "stop", "guard")
       \/ At(t, "next") /\ Finish(t, "error", "guard")
       \/ At(t, "collect") /\ pos = Length /\ Finish(t, "body", "none")
       \/ At(t, "collect") /\ Finish(t, "error", "none")
    /\ spent' = TRUE
    /\ DropValue(t)
    /\ UNCHANGED <<access, bodyVars, openAtCall>>

\* Nothing more this future can do in this poll.
Pending(t) ==
    /\ \/ At(t, "access") /\ Queued(t) /\ ~HasAccess(t)
       \/ At(t, "next")
       \/ At(t, "collect")
    /\ PollPending(t)
    /\ UNCHANGED streamVars

-----------------------------------------------------------------------------
(***************************************************************************)
(* What is left at "finish".  A future dropped before its end (closure,    *)
(* cancellation) arrives with the stage it was at: an IteratorValue goes   *)
(* back to the slot, a body being collected is lost, a place in the mutex  *)
(* queue is given up.                                                      *)
(***************************************************************************)
Leaving(t, s) == pc[t] = "finish" /\ stage[t] = s

\* Faulty: an interrupted collection returns the rest of the body.
DropCollectKeeps(t) ==
    /\ Leaving(t, "collect")
    /\ Advance(t, "restore")
    /\ UNCHANGED <<resourceVars, streamVars>>

DropCollect(t) ==
    /\ Leaving(t, "collect")
    /\ DropValue(t)
    /\ Advance(t, "none")
    /\ UNCHANGED streamVars

\* Faulty: restores whatever was closed meanwhile.
RestoreAlways(t) ==
    /\ Leaving(t, "next") \/ Leaving(t, "restore")
    /\ slotLock = NoTask
    /\ slotLock' = t
    /\ Advance(t, "store")
    /\ UNCHANGED <<slot, owners, streamVars>>

\* Faulty: an interrupted advance throws the stream away.
RestoreDelivered(t) ==
    /\ Leaving(t, "next") \/ Leaving(t, "restore")
    /\ slotLock = NoTask
    /\ IF closed \/ stage[t] = "next"
       THEN DropValue(t) /\ Advance(t, "guard")
       ELSE slotLock' = t /\ Advance(t, "store") /\ UNCHANGED <<slot, owners>>
    /\ UNCHANGED streamVars

\* `restore` tests closure while it holds the slot lock, then stores.
Restore(t) ==
    /\ Leaving(t, "next") \/ Leaving(t, "restore")
    /\ slotLock = NoTask
    /\ IF closed
       THEN DropValue(t) /\ Advance(t, "guard")
       ELSE slotLock' = t /\ Advance(t, "store") /\ UNCHANGED <<slot, owners>>
    /\ UNCHANGED streamVars

RestoreStore(t) ==
    /\ Leaving(t, "store")
    /\ slot' = TRUE
    /\ owners' = owners \ {t}
    /\ slotLock' = NoTask
    /\ Advance(t, "guard")
    /\ UNCHANGED streamVars

\* Faulty: the mutex is never handed on.
DropGuardNever(t) ==
    /\ Leaving(t, "guard") \/ Leaving(t, "access")
    /\ Advance(t, "none")
    /\ UNCHANGED <<resourceVars, streamVars>>

DropGuard(t) ==
    /\ Leaving(t, "guard") \/ Leaving(t, "access")
    /\ LeaveAccess(t)
    /\ Advance(t, "none")
    /\ UNCHANGED <<resourceVars, bodyVars, spent, openAtCall>>

-----------------------------------------------------------------------------
\* What Tokio does by itself with a call that was made.
TaskStep(t) ==
    \/ Begin(t) \/ BeginRefused(t)
    \/ LockAccess(t) \/ AccessGranted(t) \/ TakeForIteration(t) \/ TakeForRead(t)
    \/ Pending(t)
    \/ DropCollect(t) \/ Restore(t) \/ RestoreStore(t) \/ DropGuard(t)
    \/ LeaseStep(t) /\ UNCHANGED streamVars

Network(t) == NextChunk(t) \/ CollectChunk(t) \/ StreamOver(t)

TaskNext(t) ==
    \/ Call(t) \/ TaskStep(t) \/ Network(t)
    \/ (Wake(t) \/ Cancel(t)) /\ UNCHANGED streamVars

CloseStep(c) == CloserStep(c) /\ UNCHANGED <<callVars, streamVars>>
CloseNext(c) == CloserNext(c) /\ UNCHANGED <<callVars, streamVars>>

Finished == AllSettled /\ UNCHANGED vars

Next ==
    \/ \E t \in Tasks : TaskNext(t)
    \/ \E c \in Closers : CloseNext(c)
    \/ Finished

Spec == Init /\ [][Next]_vars

(***************************************************************************)
(* Fairness: Tokio polls a task that was woken (closure, cancellation, the *)
(* mutex handed over) and runs it on; the network owes nothing.            *)
(***************************************************************************)
MustWake(t) ==
    \/ t \in woken
    \/ t \in cancelled
    \/ stage[t] = "access" /\ HasAccess(t)

WakeUp(t) == Wake(t) /\ UNCHANGED streamVars

Fairness ==
    /\ \A t \in Tasks : WF_vars(TaskStep(t)) /\ WF_vars(MustWake(t) /\ WakeUp(t))
    /\ \A c \in Closers : WF_vars(CloseStep(c))

FairSpec == Spec /\ Fairness

\* The network's part: it answers a request that is polled again and again.
NetworkFairness == \A t \in Tasks : WF_vars(WakeUp(t)) /\ SF_vars(Network(t))

(***************************************************************************)
(* When a response that keeps being polled also makes progress, every      *)
(* stream call ends: the access mutex is handed on by calls that end, fail *)
(* or are cancelled (lib.rs, `PyByteStream::__anext__`).                   *)
(***************************************************************************)
CallsEndIfAnswered == NetworkFairness => EveryCallEnds

-----------------------------------------------------------------------------
\* The stages at which a call owns the native stream.
Owning == {"next", "collect", "restore", "store"}

StageTypeOK ==
    stage \in [Tasks -> {"none", "access", "take", "guard"} \cup Owning]

\* The type invariant of the stream: every variable has its range.
TypeOK ==
    /\ CoreTypeOK
    /\ StageTypeOK
    /\ outcome \in [Tasks -> {"none", "chunk", "stop", "body", "empty", "error",
                              "closed", "cancelled"}]
    /\ access \in Seq(Tasks)
    /\ pos \in 0..Length
    /\ got \in [Tasks -> SUBSET (1..Length)]
    /\ spent \in BOOLEAN
    /\ openAtCall \subseteq Tasks

(***************************************************************************)
(* The stream is in one place at a time, the slot or one owner: two        *)
(* consumers never advance it at once, and aclose() drops all of it.       *)
(***************************************************************************)
SingleOwner ==
    /\ slot => owners = {}
    /\ \A p, q \in owners : p = q

(***************************************************************************)
(* Until the stream is closed, exhausted, failed or read, it is in the     *)
(* slot or with an __anext__ that will put it back: cancelling an advance  *)
(* "leaves its native receiver in the wrapper" (lifecycle guide).          *)
(***************************************************************************)
CancelledAdvanceKeepsStream ==
    ~closed /\ ~spent => slot \/ owners \cap Nexts # {}

(***************************************************************************)
(* "Cancelling a collecting read() discards the remaining body": what a    *)
(* read() has taken never becomes available again.                         *)
(***************************************************************************)
ReadIsFinal == spent => ~slot

(***************************************************************************)
(* No premature end: __anext__ raises StopAsyncIteration only when the     *)
(* stream is closed, used up, or taken by a read(), never because another  *)
(* call, cancelled or not, has it for the moment.                          *)
(***************************************************************************)
StopMeansOver == \A t \in Nexts : outcome[t] = "stop" => closed \/ spent

(***************************************************************************)
(* Chunks are handed out once: a completed read() has exactly the chunks   *)
(* that no __anext__ got before it.                                        *)
(***************************************************************************)
BodyIsTheRest ==
    \A r \in Reads : outcome[r] = "body" =>
        got[r] = (1..Length) \ UNION {got[t] : t \in Tasks \ {r}}

(***************************************************************************)
(* docs/guides/lifecycle.md: "Close during `read()` | The pending read     *)
(* raises StreamClosedError".  A read() that was pending when the stream   *)
(* was closed reports an empty body only if the body had been used up.     *)
(***************************************************************************)
PendingReadRaises ==
    \A t \in Reads : t \in openAtCall /\ outcome[t] = "empty" => spent

(***************************************************************************)
(* The inductive invariant.  A task owns the stream exactly at the stages  *)
(* between taking it and giving it up; the slot lock belongs to the task   *)
(* that is storing; and while one is storing, no aclose() has got past its *)
(* own visit to the slot, because `restore` tested closure under the lock. *)
(***************************************************************************)
PlaceInv ==
    \A t \in Tasks :
        /\ t \in owners <=> stage[t] \in Owning
        /\ stage[t] # "none" => pc[t] \in InFlight
        /\ slotLock = t <=> stage[t] = "store"

StoreBeforeClose == slotLock # NoTask => Emptied = {}

IInv ==
    /\ CoreTypeOK
    /\ StageTypeOK
    /\ LeaseInv
    /\ PlaceInv
    /\ StoreBeforeClose
    /\ SingleOwner
    /\ SlotStaysEmpty

(***************************************************************************)
(* What the properties about the body rest on besides: between the mutex   *)
(* and the slot an __anext__ is at the head of the queue, and so is a      *)
(* read() until it has taken the stream; a stream that is spent is with no *)
(* __anext__; and the calls share out the chunks yielded so far.           *)
(***************************************************************************)
Advancing == {"next", "restore", "store"}

MutexInv == \A t \in Tasks : stage[t] \in {"take"} \cup Advancing => HasAccess(t)

RoleInv ==
    /\ \A t \in Nexts : stage[t] # "collect"
    /\ \A t \in Reads : stage[t] \notin Advancing

SpentInv ==
    /\ spent => \A t \in Tasks : stage[t] \notin Advancing
    /\ ~closed /\ ~spent => slot \/ \E t \in Nexts : stage[t] \in Advancing

ChunkInv ==
    /\ got \in [Tasks -> SUBSET (1..pos)]
    /\ \A n \in 1..pos : \E t \in Tasks : n \in got[t]
    /\ \A t, u \in Tasks : t # u => got[t] \cap got[u] = {}
    /\ \A r \in Reads : outcome[r] = "body" => pos = Length

BodyInv ==
    /\ TypeOK
    /\ MutexInv
    /\ RoleInv
    /\ SpentInv
    /\ ReadIsFinal
    /\ StopMeansOver
    /\ ChunkInv
=============================================================================
