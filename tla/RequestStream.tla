---------------------------- MODULE RequestStream ----------------------------
(***************************************************************************)
(* A request body or request event stream fed by a Python async iterable:  *)
(* the SDK polls it on a Tokio worker (async_iter.rs, byte_stream.rs,      *)
(* event_stream.rs), each poll awaits one `__anext__` in a task on the     *)
(* caller's event loop (_streams.py, _EventPoll), and dropping a pending   *)
(* poll cancels that task from another thread.                             *)
(*                                                                         *)
(* The event loop is its FIFO queue of callbacks; one callback is one      *)
(* step.  A poll creates a task in one callback and enters the coroutine   *)
(* in a later one, so a cancellation can arrive before, between and after. *)
(***************************************************************************)
EXTENDS Integers, Sequences, FiniteSets

CONSTANTS
    MaxPolls,       \* polls of the Python iterator
    Declared,       \* the declared content length
    ChunkSizes      \* lengths of chunks

ASSUME BoundsAssumption ==
    /\ MaxPolls \in Nat
    /\ Declared \in Nat
    /\ ChunkSizes \subseteq Nat

Polls == 1..MaxPolls

VARIABLES
    body,       \* "open", "finished" (the consumer's terminal flag), "dropped"
    native,     \* "idle", or "awaiting" the poll's reply with the guard armed
    done,       \* the unfold state: a poll has failed
    remaining,  \* StreamBody.remaining
    current,    \* number of the latest poll
    ready,      \* the event loop's queue of <<callback, poll>>
    task,       \* each poll's asyncio task
    flagged,    \* polls whose _EventPoll._cancelled is set
    throwing,   \* polls whose task resumes with CancelledError
    told,       \* polls whose iterator has been given the cancellation
    reply,      \* what each poll's task sent to the native side
    produced,   \* items the iterator has produced (history)
    delivered,  \* items the consumer has taken (history)
    early       \* polls dropped before their task existed (history)

nativeVars == <<body, native, done, remaining, current>>
pollVars == <<task, flagged, throwing, told, reply>>
history == <<produced, delivered, early>>
vars == <<nativeVars, ready, pollVars, history>>

Init ==
    /\ body = "open"
    /\ native = "idle"
    /\ done = FALSE
    /\ remaining = Declared
    /\ current = 0
    /\ ready = <<>>
    /\ task = [k \in Polls |-> "none"]
    /\ flagged = {}
    /\ throwing = {}
    /\ told = {}
    /\ reply = [k \in Polls |-> "none"]
    /\ produced = 0
    /\ delivered = 0
    /\ early = {}

Schedule(callback, k) == ready' = Append(ready, <<callback, k>>)
SaturatingSub(a, b) == IF a < b THEN 0 ELSE a - b

-----------------------------------------------------------------------------
(***************************************************************************)
(* The native side, on a Tokio worker.                                     *)
(***************************************************************************)
PollStart ==
    /\ body = "open"
    /\ native = "idle"
    /\ ~done
    /\ current < MaxPolls
    /\ native' = "awaiting"
    /\ current' = current + 1
    /\ Schedule("ensure", current + 1)
    /\ UNCHANGED <<body, done, remaining, pollVars, history>>

\* The poll cannot be made (its class, its coroutine, or a closed loop).
PollStartFails ==
    /\ body = "open"
    /\ native = "idle"
    /\ ~done
    /\ done' = TRUE
    /\ body' = "finished"
    /\ UNCHANGED <<native, remaining, current, ready, pollVars, history>>

Replied(answers) == native = "awaiting" /\ reply[current] \in answers

\* Faulty: an unsigned length that goes below zero.
TakeItemPastEnd(size) ==
    /\ Replied({"item"})
    /\ native' = "idle" /\ remaining' = remaining - size
    /\ delivered' = delivered + 1
    /\ UNCHANGED <<body, done, current, ready, pollVars, produced, early>>

TakeItem(size) ==
    /\ Replied({"item"})
    /\ native' = "idle"
    /\ remaining' = SaturatingSub(remaining, size)
    /\ delivered' = delivered + 1
    /\ UNCHANGED <<body, done, current, ready, pollVars, produced, early>>

\* Faulty: a failed conversion does not end the stream.
RefuseItemOnly ==
    /\ Replied({"unusable"})
    /\ native' = "idle"
    /\ delivered' = delivered + 1
    /\ UNCHANGED <<body, done, remaining, current, ready, pollVars, produced, early>>

\* The item does not convert: the iterator is well, the consumer has failed.
RefuseItem ==
    /\ Replied({"unusable"})
    /\ native' = "idle"
    /\ body' = "finished"
    /\ delivered' = delivered + 1
    /\ UNCHANGED <<done, remaining, current, ready, pollVars, produced, early>>

TakeEnd ==
    /\ Replied({"stop", "error", "cancelled"})
    /\ native' = "idle"
    /\ done' = (reply[current] # "stop")
    /\ body' = "finished"
    /\ UNCHANGED <<remaining, current, ready, pollVars, history>>

\* Faulty: drops the receiver and leaves the Python poll alone.
DropReceiverOnly ==
    /\ body # "dropped"
    /\ body' = "dropped"
    /\ native' = "idle"
    /\ UNCHANGED <<done, remaining, current, ready, pollVars, history>>

\* The SDK drops the stream: an armed guard cancels the poll on its loop.
DropStream ==
    /\ body # "dropped"
    /\ body' = "dropped"
    /\ native' = "idle"
    /\ IF native = "awaiting" THEN Schedule("cancel", current) ELSE UNCHANGED ready
    /\ early' = IF native = "awaiting" /\ task[current] = "none"
                THEN early \cup {current} ELSE early
    /\ UNCHANGED <<done, remaining, current, pollVars, produced, delivered>>

-----------------------------------------------------------------------------
(***************************************************************************)
(* The event loop runs the first callback of its queue.                    *)
(***************************************************************************)
First(callback, k) == ready # <<>> /\ Head(ready) = <<callback, k>>

SetTask(k, s) == task' = [task EXCEPT ![k] = s]

\* The task of poll k ends; the completer passes its result on.
Complete(k, r) ==
    /\ SetTask(k, "done")
    /\ reply' = [reply EXCEPT ![k] = r]
    /\ produced' = IF r \in {"item", "unusable"} THEN produced + 1 ELSE produced

EnsureTask(k) ==
    /\ First("ensure", k)
    /\ SetTask(k, "created")
    /\ ready' = Append(Tail(ready), <<"step", k>>)
    /\ UNCHANGED <<nativeVars, flagged, throwing, told, reply, history>>

\* receive() of a poll that was cancelled before it started.
ReceiveRefused(k) ==
    /\ First("step", k)
    /\ k \in flagged
    /\ Complete(k, "cancelled")
    /\ ready' = Tail(ready)
    /\ UNCHANGED <<nativeVars, flagged, throwing, told, delivered, early>>

\* Faulty: the flag alone, which only a poll that has not begun looks at.
CancelByFlag(k) ==
    /\ First("cancel", k)
    /\ flagged' = flagged \cup {k}
    /\ ready' = Tail(ready)
    /\ UNCHANGED <<nativeVars, task, throwing, told, reply, history>>

\* Faulty: an early cancellation is not looked at.
ReceiveAnyway(k) ==
    /\ First("step", k)
    /\ ready' = Tail(ready)
    /\ SetTask(k, "waiting")
    /\ UNCHANGED <<nativeVars, flagged, throwing, told, reply, history>>

\* receive() calls anext, which suspends.
ReceiveWaits(k) ==
    /\ First("step", k)
    /\ k \notin flagged
    /\ ready' = Tail(ready)
    /\ SetTask(k, "waiting")
    /\ UNCHANGED <<nativeVars, flagged, throwing, told, reply, history>>

\* receive() calls anext, which has its answer without suspending.
ReceiveAtOnce(k, r) ==
    /\ First("step", k)
    /\ k \notin flagged
    /\ ready' = Tail(ready)
    /\ Complete(k, r)
    /\ UNCHANGED <<nativeVars, flagged, throwing, told, delivered, early>>

(***************************************************************************)
(* _EventPoll.cancel: `_task` is set only while receive() is running.  The *)
(* task is cancelled through what it waits for: a future resumes it with   *)
(* CancelledError; a task that the iterator has started and awaits is      *)
(* cancelled in its place, and the poll goes on waiting for it.            *)
(***************************************************************************)
CancelPoll(k) ==
    /\ First("cancel", k)
    /\ flagged' = flagged \cup {k}
    /\ \/ /\ task[k] \notin {"waiting", "resumable"}
          /\ ready' = Tail(ready)
          /\ UNCHANGED <<task, throwing, told>>
       \/ /\ task[k] = "resumable"
          /\ throwing' = throwing \cup {k}
          /\ ready' = Tail(ready)
          /\ UNCHANGED <<task, told>>
       \/ /\ task[k] = "waiting"
          /\ throwing' = throwing \cup {k}
          /\ SetTask(k, "resumable")
          /\ ready' = Append(Tail(ready), <<"resume", k>>)
          /\ UNCHANGED told
       \/ /\ task[k] = "waiting"
          /\ told' = told \cup {k}
          /\ ready' = Tail(ready)
          /\ UNCHANGED <<task, throwing>>
    /\ UNCHANGED <<nativeVars, reply, history>>

\* What the caller's iterator waits for happens; its task becomes runnable.
SourceReady(k) ==
    /\ task[k] = "waiting"
    /\ SetTask(k, "resumable")
    /\ Schedule("resume", k)
    /\ UNCHANGED <<nativeVars, flagged, throwing, told, reply, history>>

\* A pending cancellation is thrown into the iterator.
Throw(k) ==
    /\ throwing' = throwing \ {k}
    /\ told' = told \cup (throwing \cap {k})

\* The iterator answers; cancelled, it may let the cancellation through.
ResumePoll(k, r) ==
    /\ First("resume", k)
    /\ r = "cancelled" => k \in throwing \cup told
    /\ ready' = Tail(ready)
    /\ Throw(k)
    /\ Complete(k, r)
    /\ UNCHANGED <<nativeVars, flagged, delivered, early>>

\* It awaits again: the next of its own steps, its `finally`, or what comes
\* after it has suppressed the cancellation.
ResumeWaits(k) ==
    /\ First("resume", k)
    /\ ready' = Tail(ready)
    /\ Throw(k)
    /\ SetTask(k, "waiting")
    /\ UNCHANGED <<nativeVars, flagged, reply, history>>

-----------------------------------------------------------------------------
Answers == {"item", "unusable", "stop", "error"}

LoopStep ==
    \E k \in Polls :
        \/ EnsureTask(k) \/ ReceiveRefused(k) \/ ReceiveWaits(k) \/ CancelPoll(k)
        \/ ResumeWaits(k)
        \/ \E r \in Answers : ReceiveAtOnce(k, r)
        \/ \E r \in Answers \cup {"cancelled"} : ResumePoll(k, r)

NativeStep ==
    \/ PollStart \/ PollStartFails
    \/ \E size \in ChunkSizes : TakeItem(size)
    \/ RefuseItem \/ TakeEnd

Finished ==
    /\ body # "open" \/ (current = MaxPolls /\ native = "idle")
    /\ ready = <<>>
    /\ UNCHANGED vars

Next ==
    \/ NativeStep \/ DropStream \/ LoopStep
    \/ \E k \in Polls : SourceReady(k)
    \/ Finished

Spec == Init /\ [][Next]_vars

\* The event loop keeps running its callbacks; nothing else is owed.
FairSpec == Spec /\ WF_vars(LoopStep)

-----------------------------------------------------------------------------
\* The type invariant of the request stream.
TypeOK ==
    /\ body \in {"open", "finished", "dropped"}
    /\ native \in {"idle", "awaiting"}
    /\ done \in BOOLEAN
    /\ remaining \in 0..Declared
    /\ current \in 0..MaxPolls
    /\ ready \in Seq({"ensure", "step", "resume", "cancel"} \X Polls)
    /\ task \in [Polls -> {"none", "created", "waiting", "resumable", "done"}]
    /\ flagged \subseteq Polls
    /\ throwing \subseteq Polls
    /\ told \subseteq Polls
    /\ reply \in [Polls -> {"none", "cancelled"} \cup Answers]
    /\ early \subseteq Polls

Unended == {k \in Polls : task[k] \in {"created", "waiting", "resumable"}}

(***************************************************************************)
(* A poll that is dropped before the loop has seen it never touches the    *)
(* caller's iterator (_streams.py: "cancellation that arrived before       *)
(* receive() was first scheduled").                                        *)
(***************************************************************************)
EarlyDropLeavesSource ==
    \A k \in early : task[k] \notin {"waiting", "resumable"} /\ reply[k] \in {"none", "cancelled"}

(***************************************************************************)
(* Dropping the stream cancels the Python poll it was waiting for: in the  *)
(* end, the task is gone for good, or the cancellation has reached the     *)
(* caller's iterator, which may take its time ("an async generator may     *)
(* then run its `finally`") or suppress it.                                *)
(***************************************************************************)
AbandonedPollIsCancelled == (body = "dropped") ~> [](Unended \subseteq told)

-----------------------------------------------------------------------------
InAnext == {k \in Polls : task[k] \in {"waiting", "resumable"}}
Unanswered == {k \in 1..current : reply[k] = "none"} \ early
Answered(answers) == \E k \in Polls : reply[k] \in answers

Pull == INSTANCE PullStream WITH
    open <- body = "open",
    over <- Answered({"unusable", "stop", "error"}),
    ask <- IF InAnext # {} THEN "inside" ELSE IF Unanswered # {} THEN "made" ELSE "none"

(***************************************************************************)
(* The polls, their tasks on another thread and the queue between them     *)
(* implement a one-place pull stream: "one item per poll", "no buffer      *)
(* beyond the item in flight", and a stream that "fuses after the first    *)
(* error", a failed conversion included, whoever is cancelled when.        *)
(***************************************************************************)
ImplementsPullStream == Pull!Spec
=============================================================================
