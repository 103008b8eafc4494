----------------------------- MODULE Middleware -----------------------------
(***************************************************************************)
(* One operation behind a chain of middleware (interceptors.py, `invoke`)  *)
(* and the record of its native attempts (rboto-core, observation.rs).     *)
(*                                                                         *)
(* Middleware N+1 stands for the native call.  A middleware is the user's  *)
(* code: it may call its continuation, hand it to others or keep it for    *)
(* later, return, raise, or be cancelled at any time.  A continuation      *)
(* dispatches the next middleware in the task that awaits it; `top` is the *)
(* innermost frame of each task, and `below` the frame it returns to.      *)
(*                                                                         *)
(* The native side runs on Tokio.  It goes on for a while after the caller *)
(* was cancelled, and what it publishes then nobody reads.                 *)
(***************************************************************************)
EXTENDS Integers, FiniteSets

CONSTANTS
    Tasks,          \* asyncio tasks: the caller's and others it may share with
    Caller,         \* the task that calls the operation
    N,              \* length of the chain
    MaxRecorded,    \* MAX_RECORDED_ATTEMPTS
    MaxAttempts,    \* bound on the attempts of the SDK's retry policy
    Unknown, NoTask

ASSUME ChainAssumption ==
    /\ Caller \in Tasks /\ NoTask \notin Tasks
    /\ N \in Nat \ {0}
    /\ MaxRecorded \in Nat /\ MaxAttempts \in Nat
    /\ Unknown \notin Nat

VARIABLES
    top,        \* innermost frame of each task, 0 when it is in none
    below,      \* the frame each dispatched one returns to
    active,     \* dispatches whose middleware has not ended
    used,       \* dispatches whose continuation was used
    task,       \* the task each dispatch recorded
    native,     \* where the native call is
    made,       \* record.attempt_count
    started,    \* record.started is set
    answered,   \* the attempt whose response is in the record, 0 for none
    attempts,   \* record.attempts: the numbers of the attempts in it
    raw,        \* the dictionary that is published into
    metadata,   \* state.metadata
    produced,   \* native_output is set
    outcome,    \* what the operation gave its caller
    sent        \* native calls made by this operation

chainVars == <<top, below, active, used, task>>
recordVars == <<made, started, answered, attempts>>
vars == <<chainVars, native, recordVars, raw, metadata, produced, outcome, sent>>

Chain == 1..N
NativeCall == N + 1

\* A middleware that was not dispatched yet has no continuation.
Known == {i \in Chain : task[i] # NoTask}

\* What `_metadata` reads from a dictionary that stayed empty.
NothingPublished ==
    [count |-> Unknown, attempts |-> {}, truncated |-> FALSE, answered |-> 0]

NotDispatched ==
    [dispatched |-> FALSE, count |-> 0, attempts |-> {}, truncated |-> FALSE,
     answered |-> 0, error |-> "none"]

Init ==
    /\ top = [t \in Tasks |-> 0]
    /\ below = [i \in 1..NativeCall |-> 0]
    /\ active = {}
    /\ used = {}
    /\ task = [i \in Chain |-> NoTask]
    /\ native = "none"
    /\ made = 0 /\ started = FALSE /\ answered = 0 /\ attempts = {}
    /\ raw = NothingPublished
    /\ metadata = NotDispatched
    /\ produced = FALSE
    /\ outcome = "open"
    /\ sent = 0

-----------------------------------------------------------------------------
(***************************************************************************)
(* dispatch: a request that belongs to another operation is refused, and   *)
(* so are unknown or missing parameters before the native call; the caller *)
(* of the continuation sees the error and goes on.                         *)
(***************************************************************************)
Push(t, i) ==
    /\ top' = [top EXCEPT ![t] = i]
    /\ below' = [below EXCEPT ![i] = top[t]]

DispatchMiddleware(t, i) ==
    /\ i \in Chain
    /\ Push(t, i)
    /\ active' = active \cup {i}
    /\ task' = [task EXCEPT ![i] = t]
    /\ UNCHANGED <<native, sent>>

DispatchNative(t, i) ==
    /\ i = NativeCall
    /\ Push(t, i)
    /\ native' = "called"
    /\ sent' = sent + 1
    /\ UNCHANGED <<active, task>>

DispatchRefused == UNCHANGED <<top, below, active, task, native, sent>>

\* The operation is called.
Start ==
    /\ outcome = "open" /\ Known = {}
    /\ DispatchMiddleware(Caller, 1)
    /\ UNCHANGED <<used, recordVars, raw, metadata, produced, outcome>>

\* Faulty: the continuation may be used in any task.
CallNextAnyTask(t, i) ==
    /\ i \in active
    /\ i \notin used
    /\ used' = (used \cup {i}) \ {i + 1}
    /\ DispatchMiddleware(t, i + 1) \/ DispatchNative(t, i + 1) \/ DispatchRefused
    /\ UNCHANGED <<recordVars, raw, metadata, produced, outcome>>

\* Faulty: the continuation is not used up.
CallNextAgain(t, i) ==
    /\ i \in active
    /\ t = task[i]
    /\ DispatchMiddleware(t, i + 1) \/ DispatchNative(t, i + 1) \/ DispatchRefused
    /\ UNCHANGED <<used, recordVars, raw, metadata, produced, outcome>>

(***************************************************************************)
(* call_next of dispatch i, awaited by task t.  When one of the three      *)
(* tests fails, it raises and changes nothing.  It is used up before it    *)
(* dispatches, whatever becomes of that; the next dispatch's is fresh.     *)
(***************************************************************************)
CallNext(t, i) ==
    /\ i \in active
    /\ i \notin used
    /\ t = task[i]
    /\ used' = (used \cup {i}) \ {i + 1}
    /\ DispatchMiddleware(t, i + 1) \/ DispatchNative(t, i + 1) \/ DispatchRefused
    /\ UNCHANGED <<recordVars, raw, metadata, produced, outcome>>

(***************************************************************************)
(* A middleware ends: with a response, which is the native output, another *)
(* output of the right type or something else (a TypeError), or by raising *)
(* or being cancelled.  The outermost one decides what the caller gets.    *)
(***************************************************************************)
Responses == {"native", "typed", "other"}

Valid(response) == response \in {"native", "typed"}

Pop(t, i) == top' = [top EXCEPT ![t] = below[i]]

Decide(i, result) == outcome' = IF i = 1 THEN result ELSE outcome

Return(t, i, response) ==
    /\ response = "native" => produced
    /\ Pop(t, i)
    /\ active' = active \ {i}
    /\ Decide(i, IF Valid(response) THEN response ELSE "error")
    /\ UNCHANGED <<below, used, task, native, recordVars, raw, metadata, produced, sent>>

Raise(t, i) ==
    /\ Pop(t, i)
    /\ active' = active \ {i}
    /\ Decide(i, "error")
    /\ UNCHANGED <<below, used, task, native, recordVars, raw, metadata, produced, sent>>

-----------------------------------------------------------------------------
(***************************************************************************)
(* The native call.  Failing to convert the parameters, to load the client *)
(* or being closed ends it before or without anything to publish.          *)
(***************************************************************************)
InFlight == {"called", "between", "attempt", "sent"}

NativeOnly == UNCHANGED <<chainVars, metadata, produced, outcome, sent>>

ClientReady ==
    /\ native = "called"
    /\ native' = "between"
    /\ NativeOnly /\ UNCHANGED <<recordVars, raw>>

\* Faulty: the record keeps the response of the attempt before.
BeforeAttemptKeeps ==
    /\ native = "between" /\ made < MaxAttempts
    /\ native' = "attempt"
    /\ made' = made + 1
    /\ started' = TRUE
    /\ NativeOnly /\ UNCHANGED <<answered, attempts, raw>>

\* read_before_attempt.
BeforeAttempt ==
    /\ native = "between" /\ made < MaxAttempts
    /\ native' = "attempt"
    /\ made' = made + 1
    /\ started' = TRUE
    /\ answered' = 0
    /\ NativeOnly /\ UNCHANGED <<attempts, raw>>

\* Faulty: one more than the limit is kept.
AfterAttemptOneMore(response) ==
    /\ native = "attempt"
    /\ native' = "between"
    /\ answered' = IF response THEN made ELSE answered
    /\ started' = FALSE
    /\ attempts' = IF started /\ Cardinality(attempts) <= MaxRecorded
                   THEN attempts \cup {made} ELSE attempts
    /\ NativeOnly /\ UNCHANGED <<made, raw>>

\* read_after_attempt, with a response or without.
AfterAttempt(response) ==
    /\ native = "attempt"
    /\ native' = "between"
    /\ answered' = IF response THEN made ELSE answered
    /\ started' = FALSE
    /\ attempts' = IF started /\ Cardinality(attempts) < MaxRecorded
                   THEN attempts \cup {made} ELSE attempts
    /\ NativeOnly /\ UNCHANGED <<made, raw>>

\* A timeout ends the attempt, and the SDK does not come to read_after_attempt.
AttemptTimedOut ==
    /\ native = "attempt"
    /\ native' = "between"
    /\ NativeOnly /\ UNCHANGED <<recordVars, raw>>

\* send() has returned; nothing is sent any more.
SendOver ==
    /\ native = "between"
    /\ native' = "sent"
    /\ NativeOnly /\ UNCHANGED <<recordVars, raw>>

Published ==
    [count |-> made, attempts |-> attempts,
     truncated |-> made > Cardinality(attempts), answered |-> answered]

Publish ==
    /\ native = "sent"
    /\ raw' = Published
    /\ native' = "published"
    /\ NativeOnly /\ UNCHANGED recordVars

\* The future is dropped, by closure, cancellation or an error of its own.
NativeDropped ==
    /\ native \in InFlight
    /\ native' = "dropped"
    /\ NativeOnly /\ UNCHANGED <<recordVars, raw>>

\* _metadata: what was published by the time the await ends.
Metadata(error) ==
    [dispatched |-> TRUE, count |-> raw.count, attempts |-> raw.attempts,
     truncated |-> raw.truncated, answered |-> raw.answered, error |-> error]

\* The await of the native call ends, and the metadata is set whatever it raised.
NativeAwaitEnds(t, error) ==
    /\ top[t] = NativeCall
    /\ error = "none" => native = "published"
    /\ error = "error" => native \in {"published", "dropped"}
    /\ metadata' = Metadata(error)
    /\ produced' = (error = "none")
    /\ Pop(t, NativeCall)
    /\ UNCHANGED <<below, active, used, task, native, recordVars, raw, outcome, sent>>

-----------------------------------------------------------------------------
\* What the code that runs in task t may do: a middleware, or code outside
\* the chain that was handed a continuation.
TaskStep(t) ==
    \/ \E i \in Known : top[t] # NativeCall /\ CallNext(t, i)
    \/ top[t] \in Chain /\ \E r \in Responses : Return(t, top[t], r)
    \/ top[t] \in Chain /\ Raise(t, top[t])
    \/ \E error \in {"none", "error", "cancelled"} : NativeAwaitEnds(t, error)

NativeStep ==
    \/ ClientReady \/ BeforeAttempt \/ AttemptTimedOut \/ SendOver \/ Publish
    \/ NativeDropped
    \/ \E response \in BOOLEAN : AfterAttempt(response)

\* The operation is over, and so is its native call.
Finished == outcome # "open" /\ native \notin InFlight /\ UNCHANGED vars

Next == Start \/ NativeStep \/ Finished \/ \E t \in Tasks : TaskStep(t)

Spec == Init /\ [][Next]_vars

-----------------------------------------------------------------------------
AttemptNumbers == 0..MaxAttempts

TypeOK ==
    /\ top \in [Tasks -> 0..NativeCall]
    /\ below \in [1..NativeCall -> 0..NativeCall]
    /\ active \subseteq Chain /\ used \subseteq Chain
    /\ task \in [Chain -> Tasks \cup {NoTask}]
    /\ native \in {"none", "published", "dropped"} \cup InFlight
    /\ made \in AttemptNumbers /\ answered \in AttemptNumbers
    /\ started \in BOOLEAN
    /\ attempts \subseteq 1..made
    /\ Cardinality(attempts) <= MaxRecorded
    /\ raw \in [count : AttemptNumbers \cup {Unknown}, attempts : SUBSET AttemptNumbers,
               truncated : BOOLEAN, answered : AttemptNumbers]
    /\ metadata \in [dispatched : BOOLEAN, count : AttemptNumbers \cup {Unknown},
                     attempts : SUBSET AttemptNumbers, truncated : BOOLEAN,
                     answered : AttemptNumbers, error : {"none", "error", "cancelled"}]
    /\ outcome \in {"open", "native", "typed", "error"}
    /\ produced \in BOOLEAN
    /\ sent \in 0..1

(***************************************************************************)
(* Running middleware nests: it is the first ones of the chain, each       *)
(* inside the one before it, in the caller's task; none runs in another    *)
(* task, and none outlives the operation, whatever was shared, skipped or  *)
(* raised (interceptors.py, `dispatch`).                                   *)
(***************************************************************************)
Nested ==
    /\ active = {i \in Chain : i <= top[Caller]}
    /\ \A i \in 1..top[Caller] : below[i] = i - 1
    /\ \A t \in Tasks \ {Caller} : top[t] = 0
    /\ outcome # "open" => top[Caller] = 0

(***************************************************************************)
(* docs/guides/interceptors.md: the tests of a continuation prevent        *)
(* "accidental duplicate sends and continuations outliving the operation". *)
(* A native call is made once at most, and only while the operation is     *)
(* open and every middleware of the chain is running; its metadata, once   *)
(* written, stays, also when a middleware recovers from its error.         *)
(***************************************************************************)
SendsOnceInside ==
    [][/\ sent' # sent => sent = 0 /\ outcome = "open" /\ active = Chain
       /\ metadata.dispatched => metadata' = metadata]_vars

(***************************************************************************)
(* What the metadata tells of attempts is the truth for good, whatever the *)
(* native side still does after the caller was cancelled: the count is the *)
(* final one or unknown; a list that is not marked as truncated has every  *)
(* attempt; the response's identity is the final attempt's, never that of  *)
(* an earlier one; an operation that was not sent shows no attempt; and a  *)
(* native output is returned only by a call that was sent and succeeded.   *)
(***************************************************************************)
MetadataIsHonest ==
    /\ ~metadata.dispatched => metadata = NotDispatched
    /\ metadata.dispatched => sent = 1
    /\ metadata.dispatched /\ metadata.count # Unknown =>
        /\ metadata.count = made
        /\ ~metadata.truncated => metadata.attempts = 1..made
        /\ metadata.answered \in {0, made}
    /\ outcome = "native" => metadata.dispatched /\ metadata.error = "none"
=============================================================================
