-------------------------------- MODULE Waiter --------------------------------
(***************************************************************************)
(* The polling loop shared by every generated waiter                       *)
(* (packages/rboto/src/rboto/_waiters.py, wait), run by one asyncio task.  *)
(*                                                                         *)
(* Between two suspensions the task runs alone on its loop: the deadline's *)
(* timer and the caller's cancel() reach it only while it is suspended,    *)
(* but time passes while it runs, in middleware that never yields.  Both   *)
(* cancel the same task; asyncio.timeout_at tells them apart on the way    *)
(* out by the task's count of cancellation requests.                       *)
(***************************************************************************)
EXTENDS Integers, Sequences

CONSTANTS
    Acceptors,      \* the modeled acceptors, in order
    Statuses,       \* what the examined field of an output may hold
    ErrorCodes,     \* codes of a ServiceError
    MaxAttempts,    \* WaiterConfig.max_attempts
    Delay,          \* seconds between polls
    Timeouts,       \* WaiterConfig.timeout, or NoDeadline
    NoDeadline,
    MaxTime         \* bound: the clock stops here

ASSUME WaiterAssumption ==
    /\ Acceptors \in Seq([state : {"success", "failure", "retry"},
                          matcher : {"output", "errorType", "success"},
                          expected : Statuses \cup ErrorCodes \cup {"true", "false"}])
    /\ MaxAttempts \in Nat \ {0}
    /\ Delay \in Nat
    /\ Timeouts \subseteq (Nat \ {0}) \cup {NoDeadline}
    /\ NoDeadline \notin Nat
    /\ MaxTime \in Nat

VARIABLES
    now,            \* the loop's clock, 0 at the start
    deadline,
    pc,             \* where the task is
    attempts,
    last,           \* last_attempt.number, 0 for None
    answer,         \* what the call of this round returned or raised
    until,          \* end of the current sleep, the clock's bound at most
    timer,          \* state of the asyncio.timeout_at block
    cancelling,     \* the task's count of cancellation requests
    throwing,       \* CancelledError is thrown at the next resumption
    result,         \* how wait() ended
    callerCancelled,\* bound: the caller cancels once
    requests        \* cancellations that no code has suppressed (history)

loopVars == <<now, deadline>>
pollVars == <<attempts, last, answer, until>>
cancelVars == <<timer, cancelling, throwing, callerCancelled, requests>>
vars == <<loopVars, pc, pollVars, cancelVars, result>>

NoAnswer == [kind |-> "none", value |-> "none"]
Answers == [kind : {"output"}, value : Statuses] \cup [kind : {"error"}, value : ErrorCodes]

Init ==
    /\ now = 0
    /\ deadline \in Timeouts
    /\ pc = "top"
    /\ attempts = 0
    /\ last = 0
    /\ answer = NoAnswer
    /\ until = 0
    /\ timer = (IF deadline = NoDeadline THEN "off" ELSE "armed")
    /\ cancelling = 0
    /\ throwing = FALSE
    /\ result = "none"
    /\ callerCancelled = FALSE
    /\ requests = {}

Overdue == deadline # NoDeadline /\ now >= deadline

(***************************************************************************)
(* Leaving the `async with`: the timer is disarmed; one that has fired     *)
(* takes its own cancellation request back.                                *)
(***************************************************************************)
Leave(r) ==
    /\ result' = r
    /\ pc' = "done"
    /\ timer' = IF timer = "fired" THEN "fired" ELSE "off"
    /\ cancelling' = IF timer = "fired" THEN cancelling - 1 ELSE cancelling
    /\ UNCHANGED <<throwing, callerCancelled, requests>>

\* Faulty: every cancellation after the deadline is the deadline's.
LeaveCancelledAsDeadline == Leave(IF timer = "fired" THEN "deadline" ELSE "cancelled")

\* A CancelledError leaves: the deadline's only if no other request is left.
LeaveCancelled == Leave(IF timer = "fired" /\ cancelling = 1 THEN "deadline" ELSE "cancelled")

-----------------------------------------------------------------------------
(***************************************************************************)
(* One round: the deadline, the call, the deadline again, the verdict.     *)
(***************************************************************************)
PollOverdue ==
    /\ pc = "top"
    /\ attempts < MaxAttempts
    /\ Overdue
    /\ Leave("deadline")
    /\ UNCHANGED <<loopVars, pollVars>>

Poll ==
    /\ pc = "top"
    /\ attempts < MaxAttempts
    /\ ~Overdue
    /\ attempts' = attempts + 1
    /\ answer' = NoAnswer
    /\ pc' = "call"
    /\ UNCHANGED <<loopVars, last, until, cancelVars, result>>

\* The operation or its middleware waits for something.
Suspend ==
    /\ pc = "call"
    /\ pc' = "awaiting"
    /\ UNCHANGED <<loopVars, pollVars, cancelVars, result>>

Return(a) ==
    /\ pc = "call"
    /\ answer' = a
    /\ pc' = "answered"
    /\ UNCHANGED <<loopVars, attempts, last, until, cancelVars, result>>

\* Faulty: the call's own TimeoutError counts as the deadline.
RaiseTimeoutAlways ==
    /\ pc = "call"
    /\ Leave("deadline")
    /\ UNCHANGED <<loopVars, pollVars>>

\* The call raises a TimeoutError, perhaps in place of the CancelledError.
RaiseTimeout ==
    /\ pc = "call"
    /\ Leave(IF timer = "fired" THEN "deadline" ELSE "raised")
    /\ UNCHANGED <<loopVars, pollVars>>

\* Any other exception than a ServiceError.
RaiseOther ==
    /\ pc = "call"
    /\ Leave("raised")
    /\ UNCHANGED <<loopVars, pollVars>>

AnswerOverdue ==
    /\ pc = "answered"
    /\ Overdue
    /\ Leave("deadline")
    /\ UNCHANGED <<loopVars, pollVars>>

Matches(acceptor, a) ==
    CASE acceptor.matcher = "errorType" -> a.kind = "error" /\ a.value = acceptor.expected
      [] acceptor.matcher = "success" -> (a.kind = "output") = (acceptor.expected = "true")
      [] acceptor.matcher = "output" -> a.kind = "output" /\ a.value = acceptor.expected

\* The state of the first acceptor that matches.
Verdict(a) ==
    LET matching == {i \in DOMAIN Acceptors : Matches(Acceptors[i], a)}
    IN  IF matching = {} THEN "unmatched"
        ELSE Acceptors[CHOOSE i \in matching : \A j \in matching : i <= j].state

\* The answer in time that ends the wait, if it does.
Ending(a) ==
    CASE Verdict(a) = "success" -> "success"
      [] Verdict(a) = "failure" -> "failed"
      [] Verdict(a) = "unmatched" /\ a.kind = "error" -> "service_error"
      [] OTHER -> IF attempts = MaxAttempts THEN "max_attempts" ELSE "none"

\* Faulty: an answer that comes late counts.
DecideLate ==
    /\ pc = "answered"
    /\ last' = attempts
    /\ Ending(answer) # "none"
    /\ Leave(Ending(answer))
    /\ UNCHANGED <<loopVars, attempts, answer, until>>

Decide ==
    /\ pc = "answered"
    /\ ~Overdue
    /\ last' = attempts
    /\ Ending(answer) # "none"
    /\ Leave(Ending(answer))
    /\ UNCHANGED <<loopVars, attempts, answer, until>>

WakeUp == IF now + Delay < MaxTime THEN now + Delay ELSE MaxTime

\* Faulty: sleeps after the last poll too.
SleepAlways ==
    /\ pc = "answered" /\ ~Overdue
    /\ Ending(answer) \in {"none", "max_attempts"}
    /\ last' = attempts /\ answer' = NoAnswer
    /\ until' = WakeUp /\ pc' = "sleeping"
    /\ UNCHANGED <<loopVars, attempts, cancelVars, result>>

\* No verdict yet: the answer is released before the sleep.
Sleep ==
    /\ pc = "answered"
    /\ ~Overdue
    /\ Ending(answer) = "none"
    /\ last' = attempts
    /\ answer' = NoAnswer
    /\ until' = WakeUp
    /\ pc' = "sleeping"
    /\ UNCHANGED <<loopVars, attempts, cancelVars, result>>

SleepOver ==
    /\ pc = "sleeping"
    /\ ~throwing
    /\ now >= until
    /\ pc' = "top"
    /\ UNCHANGED <<loopVars, pollVars, cancelVars, result>>

-----------------------------------------------------------------------------
(***************************************************************************)
(* Cancellation reaches the suspended task.                                *)
(***************************************************************************)
Suspended == pc \in {"awaiting", "sleeping"}

CancelTask(who) ==
    /\ Suspended
    /\ cancelling' = cancelling + 1
    /\ throwing' = TRUE
    /\ requests' = requests \cup {who}
    /\ UNCHANGED <<loopVars, pc, pollVars, result>>

\* Faulty: only a pending request is interrupted.
FireUnlessAsleep ==
    /\ timer = "armed" /\ Overdue /\ pc # "sleeping"
    /\ timer' = "fired"
    /\ CancelTask("timer")
    /\ UNCHANGED callerCancelled

Fire ==
    /\ timer = "armed"
    /\ Overdue
    /\ timer' = "fired"
    /\ CancelTask("timer")
    /\ UNCHANGED callerCancelled

\* task.cancel(), or a timeout around the wait that belongs to the caller.
CallerCancel ==
    /\ ~callerCancelled
    /\ callerCancelled' = TRUE
    /\ CancelTask("caller")
    /\ UNCHANGED timer

\* CancelledError enters the pending call ...
Deliver ==
    /\ pc = "awaiting"
    /\ throwing
    /\ throwing' = FALSE
    /\ pc' = "unwinding"
    /\ UNCHANGED <<loopVars, pollVars, timer, cancelling, callerCancelled, requests, result>>

\* ... and passes through it,
Unwind ==
    /\ pc = "unwinding"
    /\ LeaveCancelled
    /\ UNCHANGED <<loopVars, pollVars>>

\* or middleware suppresses it and goes on.
Suppress ==
    /\ pc = "unwinding"
    /\ requests' = {}
    /\ pc' = "call"
    /\ UNCHANGED <<loopVars, pollVars, timer, cancelling, throwing, callerCancelled, result>>

SleepCancelled ==
    /\ pc = "sleeping"
    /\ throwing
    /\ LeaveCancelled
    /\ UNCHANGED <<loopVars, pollVars>>

-----------------------------------------------------------------------------
\* What the call waits for happens: nobody owes it.
Progress ==
    /\ pc = "awaiting"
    /\ ~throwing
    /\ pc' = "call"
    /\ UNCHANGED <<loopVars, pollVars, cancelVars, result>>

Tick ==
    /\ now < MaxTime
    /\ pc # "done"
    /\ now' = now + 1
    /\ UNCHANGED <<deadline, pc, pollVars, cancelVars, result>>

RunningStep ==
    \/ PollOverdue \/ Poll
    \/ Suspend \/ (\E a \in Answers : Return(a)) \/ RaiseTimeout \/ RaiseOther
    \/ AnswerOverdue \/ Decide \/ Sleep
    \/ SleepCancelled \/ Deliver \/ Unwind \/ Suppress

Finished == pc = "done" /\ UNCHANGED vars

Next ==
    \/ RunningStep
    \/ SleepOver \/ Progress
    \/ Fire \/ CallerCancel \/ Tick
    \/ Finished

Spec == Init /\ [][Next]_vars

\* The loop runs ready tasks, time goes on, and a due timer has its turn
\* however often the task suspends and resumes.  Nothing is assumed of the
\* call's progress, nor of the end of a sleep that may be long.
FairSpec == Spec /\ WF_vars(RunningStep) /\ SF_vars(Fire) /\ WF_vars(Tick)

-----------------------------------------------------------------------------
Results == {"none", "success", "failed", "service_error", "max_attempts", "deadline",
            "raised", "cancelled"}

\* The type invariant of the waiter.
TypeOK ==
    /\ now \in 0..MaxTime
    /\ deadline \in Timeouts
    /\ pc \in {"top", "call", "awaiting", "unwinding", "answered", "sleeping", "done"}
    /\ attempts \in 0..MaxAttempts
    /\ last \in 0..MaxAttempts
    /\ answer \in Answers \cup {NoAnswer}
    /\ until \in 0..MaxTime
    /\ timer \in {"off", "armed", "fired"}
    /\ cancelling \in 0..2
    /\ throwing \in BOOLEAN
    /\ result \in Results
    /\ callerCancelled \in BOOLEAN
    /\ requests \subseteq {"timer", "caller"}

(***************************************************************************)
(* The code's `raise AssertionError("unreachable waiter state")` is        *)
(* unreachable: the loop never comes back to its top with no poll left,    *)
(* so a wait makes at most MaxAttempts calls.                              *)
(***************************************************************************)
UnreachableState == pc = "top" => attempts < MaxAttempts

(***************************************************************************)
(* A late answer is no answer: what the acceptors decide, they decide      *)
(* before the deadline, also when middleware suppressed the cancellation   *)
(* or never yielded.                                                       *)
(***************************************************************************)
LateAnswerIsTimeout ==
    result \in {"success", "failed", "service_error", "max_attempts"} => ~Overdue

(***************************************************************************)
(* A deadline error means that the deadline has passed; an operation's own *)
(* timeout "is not reclassified as a waiter deadline".                     *)
(***************************************************************************)
DeadlineIsReal == result = "deadline" => Overdue

(***************************************************************************)
(* The caller's cancellation is never taken for the deadline or lost, also *)
(* when both hit the same suspension, unless the call suppressed it.       *)
(***************************************************************************)
CancellationWins == "caller" \in requests => result \in {"none", "cancelled"}

(***************************************************************************)
(* "The deadline covers both a pending request and a sleep": with one, the *)
(* wait ends, however long the request takes, unless the call suppresses   *)
(* the deadline's cancellation and waits on.                               *)
(***************************************************************************)
DeadlineBinds ==
    deadline # NoDeadline
        ~> pc = "done" \/ (timer = "fired" /\ "timer" \notin requests /\ pc = "awaiting")
=============================================================================
