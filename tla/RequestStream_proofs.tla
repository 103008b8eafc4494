------------------------ MODULE RequestStream_proofs ------------------------
(***************************************************************************)
(* Proofs about RequestStream: for any number of polls, the polls, their   *)
(* tasks and the event loop's queue implement the one-place pull stream.   *)
(* What makes it true is that the queue holds at most two callbacks, all   *)
(* of the latest poll, in one of the few orders that Shape lists.          *)
(***************************************************************************)
EXTENDS RequestStream, SequenceTheorems, TLAPS

Items == {"item", "unusable"}

\* The callbacks of the latest poll.
Callback(name) == <<name, current>>

Asking == body = "open" /\ native = "awaiting" /\ current \notin flagged \cup early
Abandoned == body = "dropped" /\ native = "idle"
Flagged == current \in flagged
Early == current \in early

Unborn ==
    /\ task[current] = "none" /\ reply[current] = "none"
    /\ \/ Asking /\ ready = <<Callback("ensure")>>
       \/ Abandoned /\ ~Flagged /\ Early /\ ready = <<Callback("ensure"), Callback("cancel")>>

Scheduled ==
    /\ task[current] = "created" /\ reply[current] = "none"
    /\ \/ Asking /\ ready = <<Callback("step")>>
       \/ Abandoned /\ ~Flagged /\ Early /\ ready = <<Callback("cancel"), Callback("step")>>
       \/ Abandoned /\ Flagged /\ Early /\ ready = <<Callback("step")>>
       \/ Abandoned /\ ~Flagged /\ ~Early /\ ready = <<Callback("step"), Callback("cancel")>>

Waits ==
    /\ task[current] = "waiting" /\ reply[current] = "none"
    /\ ~Early
    /\ \/ Asking /\ ready = <<>>
       \/ Abandoned /\ ~Flagged /\ ready = <<Callback("cancel")>>
       \/ Abandoned /\ Flagged /\ current \in told /\ ready = <<>>

Resumable ==
    /\ task[current] = "resumable" /\ reply[current] = "none"
    /\ ~Early
    /\ \/ Asking /\ ready = <<Callback("resume")>>
       \/ Abandoned /\ ~Flagged /\ ready = <<Callback("cancel"), Callback("resume")>>
       \/ Abandoned /\ ~Flagged /\ ready = <<Callback("resume"), Callback("cancel")>>
       \/ Abandoned /\ Flagged /\ current \in throwing \cup told /\ ready = <<Callback("resume")>>

Ended ==
    /\ task[current] = "done"
    /\ \/ Asking /\ reply[current] \in Answers /\ ready = <<>>
       \/ /\ native = "idle" /\ ~Flagged /\ ~Early
          /\ body = "open" /\ reply[current] = "item" /\ ready = <<>>
       \/ /\ native = "idle" /\ ~Flagged /\ ~Early
          /\ body = "finished" /\ reply[current] \in Answers /\ ready = <<>>
       \/ /\ Abandoned /\ reply[current] \in Answers \cup {"cancelled"}
          /\ Early => reply[current] = "cancelled"
          /\ ready \in {<<>>, <<Callback("cancel")>>}

Shape ==
    IF current = 0 THEN ready = <<>> /\ native = "idle"
    ELSE Unborn \/ Scheduled \/ Waits \/ Resumable \/ Ended

Typing ==
    /\ body \in {"open", "finished", "dropped"}
    /\ native \in {"idle", "awaiting"}
    /\ done \in BOOLEAN
    /\ current \in 0..MaxPolls
    /\ task \in [Polls -> {"none", "created", "waiting", "resumable", "done"}]
    /\ reply \in [Polls -> {"none", "cancelled"} \cup Answers]
    /\ produced \in Nat /\ delivered \in Nat

\* Only the latest poll is alive; the ones before it gave an item each.
Others ==
    /\ flagged \subseteq {current} \ {0} /\ early \subseteq {current} \ {0}
    /\ throwing \subseteq flagged /\ told \subseteq flagged
    /\ \A k \in Polls :
        /\ k < current => task[k] = "done" /\ reply[k] = "item"
        /\ k > current => task[k] = "none" /\ reply[k] = "none"

InFlight == IF current > 0 /\ native = "awaiting" /\ reply[current] \in Items THEN 1 ELSE 0
Counts == body = "open" => produced = delivered + InFlight

Inv == Typing /\ Others /\ Shape /\ Counts

-----------------------------------------------------------------------------
LEMMA Queues ==
    ASSUME NEW a, NEW b
    PROVE  /\ <<a>> # <<>> /\ Head(<<a>>) = a /\ Tail(<<a>>) = <<>>
           /\ <<a, b>> # <<>> /\ Head(<<a, b>>) = a /\ Tail(<<a, b>>) = <<b>>
           /\ Append(<<>>, a) = <<a>> /\ Append(<<a>>, b) = <<a, b>>
<1>1. <<a>> # <<>> /\ <<a, b>> # <<>>
  OBVIOUS
<1>2. Head(<<a>>) = a /\ Head(<<a, b>>) = a
  OBVIOUS
<1>3. Tail(<<a>>) = <<>>
  OBVIOUS
<1>4. Tail(<<a, b>>) = <<b>>
  OBVIOUS
<1>5. Append(<<>>, a) = <<a>>
  OBVIOUS
<1>6. Append(<<a>>, b) = <<a, b>>
  <2> DEFINE S == {a, b}
  <2>1. <<a>> \in Seq(S) /\ <<a, b>> \in Seq(S)
    OBVIOUS
  <2>2. /\ Append(<<a>>, b) \in Seq(S)
        /\ Len(Append(<<a>>, b)) = 2
        /\ Append(<<a>>, b)[1] = a /\ Append(<<a>>, b)[2] = b
    <3>1. Len(<<a>>) = 1 /\ <<a>>[1] = a
      OBVIOUS
    <3>2. QED
      BY <2>1, <3>1, AppendProperties, SMTT(20)
  <2>3. Len(<<a, b>>) = 2 /\ <<a, b>>[1] = a /\ <<a, b>>[2] = b
    OBVIOUS
  <2>4. \A i \in 1..2 : Append(<<a>>, b)[i] = <<a, b>>[i]
    BY <2>2, <2>3, \A i \in 1..2 : i = 1 \/ i = 2
  <2>5. QED
    BY <2>1, <2>2, <2>3, <2>4, SeqEqual
<1>7. QED
  BY <1>1, <1>2, <1>3, <1>4, <1>5, <1>6

\* What the mapping sees is the latest poll.
Inside == current > 0 /\ task[current] \in {"waiting", "resumable"}
Outstanding == current > 0 /\ reply[current] = "none" /\ ~Early
Over == current > 0 /\ reply[current] \in {"unusable", "stop", "error"}
Asked == IF Inside THEN "inside" ELSE IF Outstanding THEN "made" ELSE "none"

LEMMA View ==
    /\ Inv => /\ Answered({"unusable", "stop", "error"}) = Over
              /\ (IF InAnext # {} THEN "inside" ELSE IF Unanswered # {} THEN "made" ELSE "none") = Asked
    /\ Inv' => /\ Answered({"unusable", "stop", "error"})' = Over'
               /\ (IF InAnext # {} THEN "inside" ELSE IF Unanswered # {} THEN "made" ELSE "none")' = Asked'
<1>1. ASSUME Inv
      PROVE  /\ Answered({"unusable", "stop", "error"}) <=> Over
             /\ InAnext # {} <=> Inside
             /\ Unanswered # {} <=> Outstanding
  BY <1>1, BoundsAssumption DEF Inv, Typing, Others, Answered, Over, InAnext, Inside,
     Unanswered, Outstanding, Early, Polls
<1>2. ASSUME Inv'
      PROVE  /\ Answered({"unusable", "stop", "error"})' <=> Over'
             /\ (InAnext # {})' <=> Inside'
             /\ (Unanswered # {})' <=> Outstanding'
  BY <1>2, BoundsAssumption DEF Inv, Typing, Others, Answered, Over, InAnext, Inside,
     Unanswered, Outstanding, Early, Polls
<1>3. QED
  BY <1>1, <1>2 DEF Asked, Answered, Over

-----------------------------------------------------------------------------
(***************************************************************************)
(* What is known of the latest poll when one of its callbacks runs, and    *)
(* what is left of the queue.                                              *)
(***************************************************************************)
LEMMA OneFirst ==
    ASSUME NEW name \in {"ensure", "step", "resume", "cancel"},
           NEW callback \in {"ensure", "step", "resume", "cancel"},
           NEW k \in Polls, First(callback, k)
    PROVE  /\ ready # <<>>
           /\ ready = <<Callback(name)>> => callback = name /\ k = current /\ Tail(ready) = <<>>
           /\ \A next : ready = <<Callback(name), next>> =>
                callback = name /\ k = current /\ Tail(ready) = <<next>>
<1>1. ready = <<Callback(name)>> => callback = name /\ k = current /\ Tail(ready) = <<>>
  BY Queues DEF First, Callback
<1>2. ASSUME NEW next, ready = <<Callback(name), next>>
      PROVE  callback = name /\ k = current /\ Tail(ready) = <<next>>
  BY <1>2, Queues DEF First, Callback
<1>3. QED
  BY <1>1, <1>2 DEF First

LEMMA FirstEnsure ==
    ASSUME Inv, NEW k \in Polls, First("ensure", k)
    PROVE  /\ k = current /\ task[k] = "none" /\ reply[k] = "none"
           /\ \/ Asking /\ Tail(ready) = <<>>
              \/ Abandoned /\ ~Flagged /\ Early /\ Tail(ready) = <<Callback("cancel")>>
  BY OneFirst DEF Inv, Shape, Unborn, Scheduled, Waits, Resumable, Ended

LEMMA FirstStep ==
    ASSUME Inv, NEW k \in Polls, First("step", k)
    PROVE  /\ k = current /\ task[k] = "created" /\ reply[k] = "none"
           /\ \/ Asking /\ Tail(ready) = <<>>
              \/ Abandoned /\ Flagged /\ Early /\ Tail(ready) = <<>>
              \/ Abandoned /\ ~Flagged /\ ~Early /\ Tail(ready) = <<Callback("cancel")>>
  BY OneFirst DEF Inv, Shape, Unborn, Scheduled, Waits, Resumable, Ended

LEMMA FirstResume ==
    ASSUME Inv, NEW k \in Polls, First("resume", k)
    PROVE  /\ k = current /\ task[k] = "resumable" /\ reply[k] = "none" /\ ~Early
           /\ \/ Asking /\ Tail(ready) = <<>>
              \/ Abandoned /\ ~Flagged /\ Tail(ready) = <<Callback("cancel")>>
              \/ Abandoned /\ Flagged /\ k \in throwing \cup told /\ Tail(ready) = <<>>
  BY OneFirst DEF Inv, Shape, Unborn, Scheduled, Waits, Resumable, Ended

LEMMA FirstCancel ==
    ASSUME Inv, NEW k \in Polls, First("cancel", k)
    PROVE  /\ k = current /\ Abandoned
           /\ \/ /\ task[k] = "created" /\ reply[k] = "none" /\ ~Flagged /\ Early
                 /\ Tail(ready) = <<Callback("step")>>
              \/ /\ task[k] = "waiting" /\ reply[k] = "none" /\ ~Flagged /\ ~Early
                 /\ Tail(ready) = <<>>
              \/ /\ task[k] = "resumable" /\ reply[k] = "none" /\ ~Flagged /\ ~Early
                 /\ Tail(ready) = <<Callback("resume")>>
              \/ /\ task[k] = "done" /\ reply[k] \in Answers \cup {"cancelled"}
                 /\ Early => reply[k] = "cancelled"
                 /\ Tail(ready) = <<>>
  BY OneFirst DEF Inv, Shape, Unborn, Scheduled, Waits, Resumable, Ended

-----------------------------------------------------------------------------
(***************************************************************************)
(* Every step keeps the invariant.                                         *)
(***************************************************************************)
LEMMA InitInv == Init => Inv
<1> SUFFICES ASSUME Init PROVE Inv
  OBVIOUS
<1>1. Typing
  <2>1. task \in [Polls -> {"none", "created", "waiting", "resumable", "done"}]
    BY DEF Init
  <2>2. reply \in [Polls -> {"none", "cancelled"} \cup Answers]
    BY DEF Init
  <2>3. current \in 0..MaxPolls /\ produced \in Nat /\ delivered \in Nat
    BY BoundsAssumption DEF Init, BoundsAssumption
  <2>4. body \in {"open", "finished", "dropped"} /\ native \in {"idle", "awaiting"} /\ done \in BOOLEAN
    BY DEF Init
  <2>5. QED
    BY <2>1, <2>2, <2>3, <2>4 DEF Typing
<1>2. Others
  BY DEF Init, Others, Polls
<1>3. Shape /\ Counts
  BY DEF Init, Shape, Counts, InFlight
<1>4. QED
  BY <1>1, <1>2, <1>3 DEF Inv

USE BoundsAssumption DEF BoundsAssumption

\* The native side is idle before it polls: the latest poll gave an item.
LEMMA PollStartInv == ASSUME Inv, PollStart PROVE Inv'
<1>1. ready = <<>> /\ flagged = {} /\ early = {}
  BY DEF PollStart, Inv, Typing, Others, Shape, Counts, InFlight, Unborn, Scheduled, Waits,
     Resumable, Ended, Asking, Abandoned, Flagged, Early, Callback, Items, Answers, Polls
<1>2. ready' = <<Callback("ensure")>>'
  BY <1>1, Queues DEF PollStart, Schedule, Callback
<1>3. current > 0 => task[current] = "done" /\ reply[current] = "item"
  BY DEF PollStart, Inv, Typing, Others, Shape, Counts, InFlight, Unborn, Scheduled, Waits,
     Resumable, Ended, Asking, Abandoned, Flagged, Early, Callback, Items, Answers, Polls
<1>4. Typing' /\ Others'
  BY <1>1, <1>3 DEF PollStart, nativeVars, pollVars, history, Inv, Typing, Others, Polls
<1>5. Shape'
  BY <1>1, <1>2 DEF PollStart, pollVars, history, Inv, Typing, Others, Shape, Unborn,
     Asking, Polls, Callback
<1>6. Counts'
  BY <1>4 DEF PollStart, pollVars, history, Inv, Typing, Others, Counts, InFlight, Items,
     Polls
<1>7. QED
  BY <1>4, <1>5, <1>6 DEF Inv

LEMMA NativeInv ==
    ASSUME Inv,
           \/ PollStartFails \/ RefuseItem \/ TakeEnd
           \/ \E size \in ChunkSizes : TakeItem(size)
    PROVE  Inv'
<1>1. CASE PollStartFails
  BY <1>1 DEF PollStartFails, pollVars, history, Inv, Typing, Others, Shape, Counts,
     InFlight, Unborn, Scheduled, Waits, Resumable, Ended, Asking, Abandoned, Flagged,
     Early, Callback, Items, Answers, Polls
<1>2. CASE RefuseItem
  BY <1>2 DEF RefuseItem, Replied, pollVars, Inv, Typing, Others, Shape, Counts, InFlight,
     Unborn, Scheduled, Waits, Resumable, Ended, Asking, Abandoned, Flagged, Early,
     Callback, Items, Answers, Polls
<1>3. CASE TakeEnd
  BY <1>3 DEF TakeEnd, Replied, pollVars, history, Inv, Typing, Others, Shape, Counts,
     InFlight, Unborn, Scheduled, Waits, Resumable, Ended, Asking, Abandoned, Flagged,
     Early, Callback, Items, Answers, Polls
<1>4. CASE \E size \in ChunkSizes : TakeItem(size)
  BY <1>4 DEF TakeItem, Replied, pollVars, Inv, Typing, Others, Shape, Counts, InFlight,
     Unborn, Scheduled, Waits, Resumable, Ended, Asking, Abandoned, Flagged, Early,
     Callback, Items, Answers, Polls
<1>5. QED
  BY <1>1, <1>2, <1>3, <1>4

LEMMA DropInv == ASSUME Inv, DropStream PROVE Inv'
<1>1. CASE native = "idle"
  BY <1>1 DEF DropStream, pollVars, Inv, Typing, Others, Shape, Counts, InFlight, Unborn,
     Scheduled, Waits, Resumable, Ended, Asking, Abandoned, Flagged, Early, Callback, Items,
     Answers, Polls
<1>2. CASE native = "awaiting"
  <2>1. ready' = Append(ready, Callback("cancel"))
    BY <1>2 DEF DropStream, Schedule, Callback
  <2>2. /\ ready = <<>> => ready' = <<Callback("cancel")>>
        /\ \A x : ready = <<x>> => ready' = <<x, Callback("cancel")>>
    BY <2>1, Queues
  <2>3. QED
    BY <1>2, <2>2 DEF DropStream, pollVars, Inv, Typing, Others, Shape, Counts, InFlight,
       Unborn, Scheduled, Waits, Resumable, Ended,
     Asking, Abandoned, Flagged, Early, Callback, Items, Answers, Polls
<1>3. QED
  BY <1>1, <1>2 DEF Inv, Typing

LEMMA EnsureInv == ASSUME Inv, NEW k \in Polls, EnsureTask(k) PROVE Inv'
<1>1. First("ensure", k)
  BY DEF EnsureTask
<1>2. ready' = Append(Tail(ready), Callback("step"))
  BY <1>1, FirstEnsure DEF EnsureTask, Callback
<1>3. /\ Tail(ready) = <<>> => ready' = <<Callback("step")>>
      /\ \A x : Tail(ready) = <<x>> => ready' = <<x, Callback("step")>>
  BY <1>2, Queues
<1>4. QED
  BY <1>1, <1>3, FirstEnsure DEF EnsureTask, SetTask, nativeVars, history, Inv, Typing,
     Others, Shape, Counts, InFlight, Unborn, Scheduled, Waits, Resumable, Ended, Asking,
     Abandoned, Flagged, Early, Callback, Items, Answers, Polls

LEMMA ReceiveInv ==
    ASSUME Inv, NEW k \in Polls,
           ReceiveRefused(k) \/ ReceiveWaits(k) \/ \E r \in Answers : ReceiveAtOnce(k, r)
    PROVE  Inv'
<1>1. First("step", k)
  BY DEF ReceiveRefused, ReceiveWaits, ReceiveAtOnce
<1>2. CASE ReceiveRefused(k)
  BY <1>1, <1>2, FirstStep DEF ReceiveRefused, Complete, SetTask, nativeVars, Inv, Typing,
     Others, Shape, Counts, InFlight, Unborn, Scheduled, Waits, Resumable, Ended, Asking,
     Abandoned, Flagged, Early, Callback, Items, Answers, Polls
<1>3. CASE ReceiveWaits(k)
  <2>1. /\ k = current /\ k \notin flagged /\ reply[k] = "none"
        /\ \/ Asking /\ Tail(ready) = <<>>
           \/ Abandoned /\ ~Early /\ Tail(ready) = <<Callback("cancel")>>
    BY <1>1, <1>3, FirstStep DEF ReceiveWaits, Flagged
  <2>2. Typing' /\ Others' /\ Counts'
    BY <1>3, <2>1 DEF ReceiveWaits, SetTask, nativeVars, history, Inv, Typing, Others, Counts,
       InFlight, Polls
  <2>3. Shape'
    BY <1>3, <2>1 DEF ReceiveWaits, SetTask, nativeVars, history, Inv, Typing, Shape, Waits,
       Asking, Abandoned, Flagged, Early, Callback, Polls
  <2>4. QED
    BY <2>2, <2>3 DEF Inv
<1>4. ASSUME NEW r \in Answers, ReceiveAtOnce(k, r)
      PROVE  Inv'
  <2>1. /\ k = current /\ k \notin flagged /\ reply[k] = "none"
        /\ \/ Asking /\ Tail(ready) = <<>>
           \/ Abandoned /\ ~Early /\ Tail(ready) = <<Callback("cancel")>>
    BY <1>1, <1>4, FirstStep DEF ReceiveAtOnce, Flagged
  <2>2. Typing' /\ Others' /\ Counts'
    BY <1>4, <2>1 DEF ReceiveAtOnce, Complete, SetTask, nativeVars, Inv, Typing, Others,
       Counts, InFlight, Asking, Abandoned, Items, Answers, Polls
  <2>3. Shape'
    BY <1>4, <2>1 DEF ReceiveAtOnce, Complete, SetTask, nativeVars, Inv, Typing, Shape, Ended,
       Asking, Abandoned, Flagged, Early, Callback, Answers, Polls
  <2>4. QED
    BY <2>2, <2>3 DEF Inv
<1>5. QED
  BY <1>2, <1>3, <1>4

LEMMA CancelInv == ASSUME Inv, NEW k \in Polls, CancelPoll(k) PROVE Inv'
<1>1. First("cancel", k)
  BY DEF CancelPoll
<1>2. CASE task[k] = "waiting" /\ task'[k] # "waiting"
  <2>1. ready' = <<Callback("resume")>>
    BY <1>1, <1>2, FirstCancel, Queues DEF CancelPoll, Callback
  <2>2. k = current /\ Abandoned /\ reply[k] = "none" /\ ~Early
    BY <1>1, <1>2, FirstCancel
  <2>3. /\ task' = [task EXCEPT ![k] = "resumable"]
        /\ flagged' = flagged \cup {k} /\ throwing' = throwing \cup {k}
        /\ UNCHANGED <<body, native, done, current, told, reply, produced, delivered, early>>
    BY <1>2 DEF CancelPoll, SetTask, nativeVars, history
  <2>4. Typing' /\ Others' /\ Counts'
    BY <2>2, <2>3 DEF Inv, Typing, Others, Counts, InFlight, Abandoned, Polls
  <2>5. Shape'
    BY <2>1, <2>2, <2>3 DEF Inv, Typing, Shape, Resumable, Abandoned, Flagged, Early,
       Callback, Polls
  <2>6. QED
    BY <2>4, <2>5 DEF Inv
<1>3. CASE task[k] # "waiting" \/ task'[k] = "waiting"
  <2>1. /\ ready' = Tail(ready) /\ flagged' = flagged \cup {k}
        /\ throwing' \subseteq flagged' /\ told' \subseteq flagged'
        /\ task[k] = "waiting" => k \in told'
        /\ task[k] = "resumable" => k \in throwing'
        /\ UNCHANGED <<body, native, done, current, task, reply, produced, delivered, early>>
    BY <1>3 DEF CancelPoll, SetTask, nativeVars, history, Inv, Typing, Others
  <2>2. k = current /\ Abandoned
    BY <1>1, FirstCancel
  <2>3. Typing' /\ Others' /\ Counts'
    BY <2>1, <2>2 DEF Inv, Typing, Others, Counts, InFlight, Polls
  <2>4. Shape'
    BY <1>1, <1>3, <2>1, FirstCancel DEF Shape, Scheduled, Waits, Resumable, Ended, Abandoned,
       Flagged, Early, Callback, Polls
  <2>5. QED
    BY <2>3, <2>4 DEF Inv
<1>4. QED
  BY <1>2, <1>3

LEMMA SourceReadyInv == ASSUME Inv, NEW k \in Polls, SourceReady(k) PROVE Inv'
<1>1. k = current /\ Waits
  BY DEF SourceReady, Inv, Typing, Others, Shape, Counts, InFlight, Unborn, Scheduled,
     Waits, Resumable, Ended, Asking, Abandoned, Flagged, Early, Callback, Items, Answers,
     Polls
<1>2. /\ ready = <<>> => ready' = <<Callback("resume")>>
      /\ \A x : ready = <<x>> => ready' = <<x, Callback("resume")>>
  BY <1>1, Queues DEF SourceReady, Schedule, Callback
<1>3. QED
  BY <1>1, <1>2 DEF SourceReady, SetTask, nativeVars, history, Inv, Typing, Others, Shape,
     Counts, InFlight, Unborn, Scheduled, Waits, Resumable, Ended, Asking, Abandoned,
     Flagged, Early, Callback, Items, Answers, Polls

LEMMA WaitsInv == ASSUME Inv, NEW k \in Polls, ResumeWaits(k) PROVE Inv'
<1>1. First("resume", k)
  BY DEF ResumeWaits
<1>2. /\ k = current /\ reply[k] = "none" /\ ~Early
      /\ \/ Asking /\ Tail(ready) = <<>>
         \/ Abandoned /\ ~Flagged /\ Tail(ready) = <<Callback("cancel")>>
         \/ Abandoned /\ Flagged /\ k \in throwing \cup told /\ Tail(ready) = <<>>
  BY <1>1, FirstResume
<1>3. Typing' /\ Others' /\ Counts'
  BY <1>2 DEF ResumeWaits, Throw, SetTask, nativeVars, history, Inv, Typing, Others, Counts,
     InFlight, Polls
<1>4. Shape'
  BY <1>2 DEF ResumeWaits, Throw, SetTask, nativeVars, history, Inv, Typing, Shape, Waits,
     Asking, Abandoned, Flagged, Early, Callback, Polls
<1>5. QED
  BY <1>3, <1>4 DEF Inv

LEMMA ResumeInv ==
    ASSUME Inv, NEW k \in Polls, NEW r \in Answers \cup {"cancelled"}, ResumePoll(k, r)
    PROVE  Inv'
<1>1. First("resume", k)
  BY DEF ResumePoll
<1>2. /\ k = current /\ reply[k] = "none" /\ ~Early
      /\ \/ Asking /\ Tail(ready) = <<>>
         \/ Abandoned /\ Tail(ready) \in {<<>>, <<Callback("cancel")>>}
  BY <1>1, FirstResume
<1>3. r = "cancelled" => Abandoned
  BY <1>1, FirstResume DEF ResumePoll, Inv, Others, Asking, Flagged
<1>4. Typing' /\ Others'
  BY <1>2 DEF ResumePoll, Throw, Complete, SetTask, nativeVars, Inv, Typing, Others, Polls
<1>5. Shape'
  BY <1>2, <1>3 DEF ResumePoll, Complete, SetTask, nativeVars, Inv, Typing, Shape, Ended,
     Asking, Abandoned, Early, Callback, Answers, Polls
<1>6. Counts'
  BY <1>2, <1>3 DEF ResumePoll, Complete, SetTask, nativeVars, Inv, Typing, Counts,
     InFlight, Items, Asking, Abandoned, Answers, Polls
<1>7. QED
  BY <1>4, <1>5, <1>6 DEF Inv

LEMMA NextInv == Inv /\ [Next]_vars => Inv'
<1> SUFFICES ASSUME Inv, [Next]_vars PROVE Inv'
  OBVIOUS
<1>1. CASE NativeStep
  BY <1>1, PollStartInv, NativeInv DEF NativeStep
<1>2. CASE DropStream
  BY <1>2, DropInv
<1>3. CASE LoopStep
  BY <1>3, EnsureInv, ReceiveInv, CancelInv, ResumeInv, WaitsInv DEF LoopStep
<1>4. CASE \E k \in Polls : SourceReady(k)
  BY <1>4, SourceReadyInv
<1>5. CASE UNCHANGED vars
  BY <1>5 DEF vars, nativeVars, pollVars, history, Inv, Typing, Others, Shape, Counts,
     InFlight, Unborn, Scheduled, Waits, Resumable, Ended, Asking, Abandoned, Flagged,
     Early, Items, Answers, Polls, Over, Asked, Inside, Outstanding, Callback
<1>6. QED
  BY <1>1, <1>2, <1>3, <1>4, <1>5 DEF Next, Finished

(***************************************************************************)
(* The event loop drops an abandoned poll it has not begun without ever    *)
(* touching the caller's iterator (EarlyDropLeavesSource), for any number  *)
(* of polls: in the queue, the cancellation is ahead of the first step.    *)
(***************************************************************************)
THEOREM EarlyDrop == Spec => []EarlyDropLeavesSource
<1>1. Inv => EarlyDropLeavesSource
  BY DEF EarlyDropLeavesSource, Inv, Typing, Others, Shape, Counts, InFlight, Unborn,
     Scheduled, Waits, Resumable, Ended, Asking, Abandoned, Flagged, Early, Items, Answers,
     Polls, Over, Asked, Inside, Outstanding
<1>2. QED
  BY <1>1, InitInv, NextInv, PTL DEF Spec

\* The event loop has never more than two callbacks of a stream to run.
QueueIsShort == Len(ready) <= 2

\* A poll that the consumer has left and that has not ended has a callback of
\* its own in the queue, or its iterator has been given the cancellation: none
\* waits for an iterator that does not know.
AbandonedIsQueued ==
    Abandoned /\ current > 0 /\ task[current] # "done" =>
        \/ task[current] = "waiting" /\ current \in told
        \/ \E name \in {"ensure", "step", "resume", "cancel"} : Head(ready) = Callback(name)

\* While the consumer takes part, one item at most is ahead of it.
OneAhead == body = "open" => produced \in {delivered, delivered + 1}

LEMMA Queued ==
    ASSUME Inv
    PROVE  QueueIsShort /\ AbandonedIsQueued /\ OneAhead
<1>1. ASSUME NEW a, NEW b PROVE Len(<<a>>) = 1 /\ Len(<<a, b>>) = 2
  OBVIOUS
<1>2. \/ ready = <<>>
      \/ \E name \in {"ensure", "step", "resume", "cancel"} : ready = <<Callback(name)>>
      \/ \E name, after \in {"ensure", "step", "resume", "cancel"} :
              ready = <<Callback(name), Callback(after)>>
  BY DEF Inv, Shape, Unborn, Scheduled, Waits, Resumable, Ended
<1>3. QueueIsShort
  <2>1. Len(<<>>) = 0
    OBVIOUS
  <2>2. Len(ready) \in {0, 1, 2}
    BY <1>1, <1>2, <2>1
  <2>3. QED
    BY <2>2 DEF QueueIsShort
<1>4. AbandonedIsQueued
  <2>1. ASSUME Abandoned, current > 0, task[current] # "done",
               ~(task[current] = "waiting" /\ current \in told)
        PROVE  ready # <<>>
    <3>1. Unborn \/ Scheduled \/ Waits \/ Resumable
      BY <2>1 DEF Inv, Typing, Shape, Ended
    <3>2. ~Asking
      BY <2>1 DEF Abandoned, Asking
    <3>3. ASSUME NEW a, NEW b PROVE <<a>> # <<>> /\ <<a, b>> # <<>>
      BY Queues
    <3>4. CASE Waits
      BY <2>1, <3>2, <3>3, <3>4 DEF Waits
    <3>5. CASE Unborn \/ Scheduled \/ Resumable
      BY <3>2, <3>3, <3>5 DEF Unborn, Scheduled, Resumable
    <3>6. QED
      BY <3>1, <3>4, <3>5
  <2>2. QED
    BY <1>2, <2>1, Queues DEF AbandonedIsQueued
<1>5. OneAhead
  BY DEF OneAhead, Inv, Typing, Counts, InFlight
<1>6. QED
  BY <1>3, <1>4, <1>5

(***************************************************************************)
(* Backpressure, for any number of polls: the iterator is at most one item *)
(* ahead of the consumer, and the stream at most two callbacks deep in the *)
(* event loop's queue.                                                     *)
(***************************************************************************)
THEOREM NeverFarAhead == Spec => [](OneAhead /\ QueueIsShort)
<1>1. Inv => OneAhead /\ QueueIsShort
  BY Queued
<1>2. QED
  BY <1>1, InitInv, NextInv, PTL DEF Spec

(***************************************************************************)
(* A poll that is left behind is about to run again, for its cancellation  *)
(* or to end, unless the caller's iterator has been given the cancellation *)
(* and awaits on: what AbandonedPollIsCancelled needs besides an event     *)
(* loop that runs its queue.                                               *)
(***************************************************************************)
THEOREM AbandonedPollIsServed == Spec => []AbandonedIsQueued
<1>1. Inv => AbandonedIsQueued
  BY Queued
<1>2. QED
  BY <1>1, InitInv, NextInv, PTL DEF Spec

-----------------------------------------------------------------------------
LengthOK == remaining \in 0..Declared

LEMMA LengthInv == LengthOK /\ [Next]_vars => LengthOK'
<1> SUFFICES ASSUME LengthOK, [Next]_vars PROVE LengthOK'
  OBVIOUS
<1> USE DEF LengthOK
<1>1. ASSUME NEW size \in ChunkSizes, TakeItem(size) PROVE LengthOK'
  BY <1>1 DEF TakeItem, SaturatingSub
<1>2. CASE NativeStep
  BY <1>1, <1>2 DEF NativeStep, PollStart, PollStartFails, RefuseItem, TakeEnd
<1>3. CASE DropStream
  BY <1>3 DEF DropStream
<1>4. CASE LoopStep \/ \E k \in Polls : SourceReady(k)
  BY <1>4 DEF LoopStep, EnsureTask, ReceiveRefused, ReceiveWaits, ReceiveAtOnce, CancelPoll,
     ResumePoll, ResumeWaits, SourceReady, nativeVars
<1>5. CASE UNCHANGED vars
  BY <1>5 DEF vars, nativeVars
<1>6. QED
  BY <1>2, <1>3, <1>4, <1>5 DEF Next, Finished

\* The queue is one of the sequences of Shape.
LEMMA QueueTyped == Inv => ready \in Seq({"ensure", "step", "resume", "cancel"} \X Polls)
<1> DEFINE Callbacks == {"ensure", "step", "resume", "cancel"} \X Polls
<1> SUFFICES ASSUME Inv PROVE ready \in Seq(Callbacks)
  OBVIOUS
<1>1. CASE ready = <<>>
  BY <1>1
<1>2. current > 0 => current \in Polls
  BY DEF Inv, Typing, Polls
<1>3. ASSUME current > 0,
             NEW name \in {"ensure", "step", "resume", "cancel"},
             NEW after \in {"ensure", "step", "resume", "cancel"}
      PROVE  <<Callback(name)>> \in Seq(Callbacks) /\ <<Callback(name), Callback(after)>> \in Seq(Callbacks)
  <2>1. Callback(name) \in Callbacks /\ Callback(after) \in Callbacks
    BY <1>2, <1>3 DEF Callback
  <2>2. QED
    BY <2>1
<1>4. CASE current > 0
  <2>1. \/ ready = <<>>
        \/ \E name \in {"ensure", "step", "resume", "cancel"} : ready = <<Callback(name)>>
        \/ \E name, after \in {"ensure", "step", "resume", "cancel"} :
                ready = <<Callback(name), Callback(after)>>
    BY <1>4 DEF Inv, Shape, Unborn, Scheduled, Waits, Resumable, Ended
  <2>2. QED
    BY <1>1, <1>3, <1>4, <2>1
<1>5. QED
  BY <1>1, <1>4 DEF Inv, Typing, Shape

(***************************************************************************)
(* For any number of polls, any declared length and any chunks, the state  *)
(* stays well typed: the remaining length saturates at zero.               *)
(***************************************************************************)
THEOREM TypeCorrect == Spec => []TypeOK
<1>1. Init => LengthOK
  BY DEF Init, LengthOK
<1>2. Inv /\ LengthOK => TypeOK
  <2> SUFFICES ASSUME Inv, LengthOK PROVE TypeOK
    OBVIOUS
  <2>1. /\ flagged \subseteq Polls /\ early \subseteq Polls
        /\ throwing \subseteq Polls /\ told \subseteq Polls
    BY DEF Inv, Typing, Others, Polls
  <2>2. QED
    BY <2>1, QueueTyped DEF TypeOK, LengthOK, Inv, Typing
<1>3. QED
  BY <1>1, <1>2, InitInv, NextInv, LengthInv, PTL DEF Spec

-----------------------------------------------------------------------------
(***************************************************************************)
(* Every step is a step of the pull stream, or invisible to it.            *)
(***************************************************************************)
Hidden == UNCHANGED <<body = "open", Over, Asked, produced, delivered>>

LEMMA PollStartView ==
    ASSUME Inv, PollStart
    PROVE  /\ body = "open" /\ body' = "open" /\ ~Over /\ ~Over'
           /\ Asked = "none" /\ Asked' = "made"
           /\ produced = delivered /\ UNCHANGED <<produced, delivered>>
<1>1. /\ body = "open" /\ body' = "open" /\ early = {}
      /\ current > 0 => task[current] = "done" /\ reply[current] = "item"
      /\ produced = delivered /\ UNCHANGED <<task, reply, early, produced, delivered>>
  BY DEF PollStart, pollVars, history, Inv, Typing, Others, Shape, Counts, InFlight, Unborn,
     Scheduled, Waits, Resumable, Ended, Asking, Abandoned, Flagged, Early, Items, Answers,
     Polls
<1>2. /\ current' = current + 1 /\ current' \in Polls
      /\ task[current'] = "none" /\ reply[current'] = "none"
  BY DEF PollStart, Inv, Typing, Others, Polls
<1>3. QED
  BY <1>1, <1>2 DEF Inv, Typing, Early, Polls, Over, Asked, Inside, Outstanding

LEMMA NativeView ==
    ASSUME Inv
    PROVE  /\ PollStartFails => body = "open" /\ body' # "open" /\ UNCHANGED <<Over, Asked, produced, delivered>>
           /\ TakeEnd => body = "open" /\ body' # "open" /\ UNCHANGED <<Over, Asked, produced, delivered>>
           /\ RefuseItem => /\ body = "open" /\ body' # "open" /\ Over
                           /\ delivered < produced /\ delivered' = delivered + 1
                           /\ UNCHANGED <<Over, Asked, produced>>
           /\ \A size \in ChunkSizes : TakeItem(size) =>
                /\ body = "open" /\ body' = "open" /\ ~Over
                /\ delivered < produced /\ delivered' = delivered + 1
                /\ UNCHANGED <<Over, Asked, produced>>
<1>1. ASSUME UNCHANGED <<current, task, reply, early>>
      PROVE  UNCHANGED <<Over, Asked>>
  BY <1>1 DEF Early, Over, Asked, Inside, Outstanding
<1>2. ASSUME NEW answers, Replied(answers)
      PROVE  /\ body = "open" /\ current \in Polls /\ reply[current] \in answers
             /\ reply[current] \in Items => produced = delivered + 1
  BY <1>2 DEF Replied, Inv, Typing, Others, Shape, Counts, InFlight, Unborn, Scheduled,
     Waits, Resumable, Ended, Asking, Abandoned, Flagged, Early, Items, Answers, Polls
<1>3. PollStartFails => body = "open" /\ body' # "open" /\ UNCHANGED <<Over, Asked, produced, delivered>>
  BY <1>1 DEF PollStartFails, pollVars, history
<1>4. TakeEnd => body = "open" /\ body' # "open" /\ UNCHANGED <<Over, Asked, produced, delivered>>
  BY <1>1, <1>2 DEF TakeEnd, pollVars, history
<1>5. RefuseItem => /\ body = "open" /\ body' # "open" /\ Over
                    /\ delivered < produced /\ delivered' = delivered + 1
                    /\ UNCHANGED <<Over, Asked, produced>>
  BY <1>1, <1>2 DEF RefuseItem, pollVars, Over, Items, Polls, Inv, Typing
<1>6. ASSUME NEW size \in ChunkSizes, TakeItem(size)
      PROVE  /\ body = "open" /\ body' = "open" /\ ~Over
             /\ delivered < produced /\ delivered' = delivered + 1
             /\ UNCHANGED <<Over, Asked, produced>>
  BY <1>1, <1>2, <1>6 DEF TakeItem, pollVars, Over, Items, Polls, Inv, Typing
<1>7. QED
  BY <1>3, <1>4, <1>5, <1>6

LEMMA DropView ==
    ASSUME Inv, DropStream
    PROVE  /\ body' # "open" /\ UNCHANGED <<Over, produced, delivered>>
           /\ \/ UNCHANGED Asked
              \/ body = "open" /\ Asked = "made" /\ Asked' = "none"
<1>1. UNCHANGED <<current, task, reply, produced, delivered>> /\ body' # "open"
  BY DEF DropStream, pollVars
<1>2. CASE native = "awaiting" /\ task[current] = "none"
  <2>1. body = "open" /\ current \in Polls /\ reply[current] = "none" /\ current \notin early
    BY <1>2 DEF Inv, Typing, Others, Shape, Counts, InFlight, Unborn, Scheduled, Waits,
       Resumable, Ended,
     Asking, Abandoned, Flagged, Early, Items, Answers, Polls
  <2>2. current \in early'
    BY <1>2 DEF DropStream
  <2>3. QED
    BY <1>1, <1>2, <2>1, <2>2 DEF Polls, Early, Over, Asked, Inside, Outstanding
<1>3. CASE ~(native = "awaiting" /\ task[current] = "none")
  <2>1. early' = early
    BY <1>3 DEF DropStream
  <2>2. QED
    BY <1>1, <2>1 DEF Early, Over, Asked, Inside, Outstanding
<1>4. QED
  BY <1>2, <1>3


\* The latest poll ends with an answer.
Ends(r) ==
    /\ Asked # "none" /\ Asked' = "none"
    /\ ~Over /\ Over' = (r \in {"unusable", "stop", "error"})
    /\ produced' = IF r \in Items THEN produced + 1 ELSE produced
    /\ r = "cancelled" => body # "open"
    /\ UNCHANGED <<body, delivered>>

LEMMA LoopView ==
    ASSUME Inv, NEW k \in Polls
    PROVE  /\ \/ EnsureTask(k) \/ ReceiveRefused(k) \/ CancelPoll(k)
              \/ ResumeWaits(k) \/ SourceReady(k)
              => Hidden
           /\ ReceiveWaits(k) => /\ Asked = "made" /\ Asked' = "inside"
                                /\ UNCHANGED <<body, Over, produced, delivered>>
           /\ \A r \in Answers : ReceiveAtOnce(k, r) => Ends(r)
           /\ \A r \in Answers \cup {"cancelled"} : ResumePoll(k, r) => Ends(r)
<1> USE DEF Inv, Typing, Polls, Early, SetTask, Over, Asked, Inside, Outstanding
<1>1. ASSUME EnsureTask(k) PROVE Hidden
  BY <1>1, FirstEnsure DEF EnsureTask, nativeVars, history, Hidden
<1>2. ASSUME ReceiveRefused(k) PROVE Hidden
  <2>1. Early /\ k = current /\ task[k] = "created" /\ reply[k] = "none"
    BY <1>2, FirstStep DEF ReceiveRefused, Asking, Flagged
  <2>2. QED
    BY <1>2, <2>1 DEF ReceiveRefused, Complete, nativeVars, Hidden
<1>3. ASSUME CancelPoll(k) PROVE Hidden
  <2>1. /\ UNCHANGED <<body, current, reply, early, produced, delivered>>
        /\ task' = task \/ (task[k] = "waiting" /\ task' = [task EXCEPT ![k] = "resumable"])
    BY <1>3 DEF CancelPoll, nativeVars, history
  <2>2. QED
    BY <2>1 DEF Hidden
<1>4. ASSUME SourceReady(k) PROVE Hidden
  BY <1>4 DEF SourceReady, nativeVars, history, Hidden
<1>5. ASSUME ReceiveWaits(k)
      PROVE  Asked = "made" /\ Asked' = "inside" /\ UNCHANGED <<body, Over, produced, delivered>>
  <2>1. ~Early /\ k = current /\ task[k] = "created" /\ reply[k] = "none"
    BY <1>5, FirstStep DEF ReceiveWaits, Asking, Flagged
  <2>2. QED
    BY <1>5, <2>1 DEF ReceiveWaits, nativeVars, history
<1>6. ASSUME NEW r \in Answers, ReceiveAtOnce(k, r) PROVE Ends(r)
  <2>1. ~Early /\ k = current /\ task[k] = "created" /\ reply[k] = "none"
    BY <1>6, FirstStep DEF ReceiveAtOnce, Asking, Flagged
  <2>2. QED
    BY <1>6, <2>1 DEF ReceiveAtOnce, Complete, nativeVars, Answers, Items, Ends
<1>7. ASSUME NEW r \in Answers \cup {"cancelled"}, ResumePoll(k, r) PROVE Ends(r)
  <2>1. ~Early /\ k = current /\ task[k] = "resumable" /\ reply[k] = "none"
    BY <1>7, FirstResume DEF ResumePoll
  <2>2. r = "cancelled" => body # "open"
    BY <1>7, <2>1, FirstResume DEF ResumePoll, Others, Asking, Abandoned, Flagged
  <2>3. QED
    BY <1>7, <2>1, <2>2 DEF ResumePoll, Complete, nativeVars, Answers, Items, Ends
<1>8. ASSUME ResumeWaits(k) PROVE Hidden
  <2>1. k = current /\ task[k] = "resumable"
    BY <1>8, FirstResume DEF ResumeWaits
  <2>2. QED
    BY <1>8, <2>1 DEF ResumeWaits, nativeVars, history, Hidden
<1>9. QED
  BY <1>1, <1>2, <1>3, <1>4, <1>5, <1>6, <1>7, <1>8

\* The step of the pull stream, over the view.
PullStep ==
    \/ /\ body = "open" /\ ~Over /\ Asked = "none" /\ produced = delivered /\ Asked' = "made"
       /\ UNCHANGED <<body = "open", Over, produced, delivered>>
    \/ /\ Asked = "made" /\ Asked' = "inside"
       /\ UNCHANGED <<body = "open", Over, produced, delivered>>
    \/ /\ Asked # "none" /\ Asked' = "none" /\ produced' = produced + 1 /\ Over' \in {Over, TRUE}
       /\ UNCHANGED <<body = "open", delivered>>
    \/ /\ Asked # "none" /\ Asked' = "none" /\ Over' = TRUE
       /\ UNCHANGED <<body = "open", produced, delivered>>
    \/ /\ body = "open" /\ delivered < produced /\ delivered' = delivered + 1
       /\ (body = "open")' = ~Over
       /\ UNCHANGED <<Over, Asked, produced>>
    \/ /\ body = "open" /\ (body = "open")' = FALSE
       /\ Asked' \in {Asked} \cup (IF Asked = "made" THEN {"none"} ELSE {})
       /\ UNCHANGED <<Over, produced, delivered>>
    \/ /\ body # "open" /\ Asked # "none" /\ Asked' = "none"
       /\ UNCHANGED <<body = "open", Over, produced, delivered>>
    \/ Hidden

LEMMA Simulation == Inv /\ [Next]_vars => PullStep
<1> SUFFICES ASSUME Inv, [Next]_vars PROVE PullStep
  OBVIOUS
<1>0. Over \in BOOLEAN /\ Over' \in BOOLEAN
  BY DEF Over
<1>1. CASE PollStart
  BY <1>0, <1>1, PollStartView DEF PullStep
<1>2. CASE PollStartFails \/ TakeEnd \/ RefuseItem
  BY <1>2, NativeView DEF PullStep
<1>3. CASE \E size \in ChunkSizes : TakeItem(size)
  BY <1>3, NativeView DEF PullStep
<1>4. CASE DropStream
  BY <1>4, DropView DEF PullStep, Hidden
<1>5. ASSUME NEW r \in Answers \cup {"cancelled"}, Ends(r)
      PROVE  PullStep
  BY <1>0, <1>5 DEF Ends, PullStep, Answers, Items
<1>6. CASE LoopStep \/ \E k \in Polls : SourceReady(k)
  BY <1>6, <1>5, LoopView DEF LoopStep, PullStep
<1>7. CASE UNCHANGED vars
  BY <1>7 DEF PullStep, Hidden, vars, nativeVars, pollVars, history, Early, Over, Asked,
     Inside, Outstanding
<1>8. QED
  BY <1>1, <1>2, <1>3, <1>4, <1>6, <1>7 DEF Next, NativeStep, Finished

(***************************************************************************)
(* For any number of polls, request streams implement the one-place pull   *)
(* stream: every step maps to one of its steps or to none.                 *)
(***************************************************************************)
THEOREM Implements == Spec => ImplementsPullStream
<1>1. Init => Pull!Init
  BY DEF Init, Pull!Init, Answered, InAnext, Unanswered, Polls
<1>2. Inv /\ Inv' /\ [Next]_vars => [Pull!Next]_(Pull!vars)
  BY Simulation, View DEF PullStep, Hidden, Pull!Next, Pull!vars, Pull!Ask, Pull!Enter,
     Pull!Produce, Pull!Stop, Pull!Take, Pull!Close, Pull!Cancel
<1>3. QED
  BY <1>1, <1>2, InitInv, NextInv, PTL DEF Spec, ImplementsPullStream, Pull!Spec
=============================================================================
