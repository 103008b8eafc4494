------------------------------ MODULE Observers ------------------------------
(***************************************************************************)
(* The two observers the library puts around an operation: telemetry       *)
(* outside, JSON logging inside it, the application's chain inside both.   *)
(* They are chosen when the operation is invoked, from settings that any   *)
(* thread may replace at any time: the telemetry observer by one           *)
(* assignment (_observability.py), logging part by part under a lock that  *)
(* operations do not take (logging.py).  The span's identity is a context  *)
(* variable of the task: operations nest in a task, and a new task starts  *)
(* with a copy of its creator's context.                                   *)
(*                                                                         *)
(* The application's own trace provider, and what records and spans say    *)
(* beyond outcome and trace, are left out.                                 *)
(***************************************************************************)
EXTENDS Naturals, Sequences, FiniteSets, FiniteSetsExt

CONSTANTS
    Calls, Tasks, Threads, Services,
    Observers,      \* enabled OpenTelemetry instances
    Tracing,        \* those with a tracer
    Metrics,        \* those with a meter
    NoObserver,     \* no telemetry: unset, or an instance that is disabled
    Unset,          \* no explicit observer
    ServiceOf,      \* each call's service
    Explicit,       \* the observer its client was given, if any
    Settings,       \* arguments of configure_logging()
    MaxChanges      \* configuration calls

ASSUME ObserversAssumption ==
    /\ Tracing \subseteq Observers /\ Metrics \subseteq Observers
    /\ NoObserver \notin Observers /\ Unset \notin Observers \cup {NoObserver}
    /\ ServiceOf \in [Calls -> Services]
    /\ Explicit \in [Calls -> Observers \cup {NoObserver, Unset}]

NoTrace == "no trace"
Nobody == "nobody"

\* What a level lets through: outcomes of completed operations, and retries.
Emits(level) ==
    CASE level = "DEBUG" -> {"success", "cancelled", "error", "retry"}
      [] level = "INFO" -> {"success", "cancelled", "error"}
      [] level = "WARNING" -> {"cancelled", "error"}
      [] level = "ERROR" -> {"error"}
      [] OTHER -> {}

\* The parts of the logging configuration, in the order they are written.
Parts == <<{"stream"}, {"parent"}, Services, {"interceptor"}>>
AllParts == UNION {Parts[i] : i \in 1..4}
Unconfigured ==
    [level |-> "WARNING", overrides |-> [s \in Services |-> "NOTSET"], installed |-> FALSE]

\* Any argument of configure_logging() installs the interceptor.
ASSUME SettingsAssumption == Unconfigured \notin Settings /\ Nobody \notin Threads

VARIABLES
    telemetry,      \* _observability._telemetry
    applied,        \* the setting each part was last written from
    lock,           \* the thread in configure_logging()
    writing,        \* what each thread has still to write, and from what
    changes,        \* configuration calls so far
    stack,          \* each task's operations, the innermost last
    trace,          \* operation_trace in each task's context
    base,           \* its value when the task was created
    pc, selected, logged, span, saved, result,      \* of each call
    records,        \* operation logs
    reports,        \* metrics
    undisturbed     \* calls whose logging nothing has interfered with (history)

config == <<telemetry, applied, lock, writing, changes>>
contexts == <<stack, trace, base>>
callVars == <<pc, selected, logged, span, saved, result>>
output == <<records, reports>>
vars == <<config, contexts, callVars, output, undisturbed>>

Init ==
    /\ telemetry = NoObserver
    /\ applied = [x \in AllParts |-> Unconfigured]
    /\ lock = Nobody
    /\ writing = [p \in Threads |-> [left |-> {}, from |-> Unconfigured]]
    /\ changes = 0
    /\ stack = [t \in Tasks |-> <<>>]
    /\ trace = [t \in Tasks |-> NoTrace]
    /\ base = trace
    /\ pc = [c \in Calls |-> "new"]
    /\ selected = [c \in Calls |-> NoObserver]
    /\ logged = [c \in Calls |-> FALSE]
    /\ span = [c \in Calls |-> "none"]
    /\ saved = [c \in Calls |-> NoTrace]
    /\ result = [c \in Calls |-> "none"]
    /\ records = <<>> /\ reports = <<>>
    /\ undisturbed = {}

Configured == applied["interceptor"] # Unconfigured
LevelOf(s) ==
    LET own == applied[s].overrides[s] IN
    IF own = "NOTSET" THEN applied["parent"].level ELSE own
Enabled(c, event) == event \in Emits(LevelOf(ServiceOf[c]))

-----------------------------------------------------------------------------
(***************************************************************************)
(* Configuration, on any thread.                                           *)
(***************************************************************************)
SetTelemetry(o) ==
    /\ changes < MaxChanges
    /\ telemetry' = o
    /\ changes' = changes + 1
    /\ UNCHANGED <<applied, lock, writing, contexts, callVars, output, undisturbed>>

\* Faulty: the configuration lock is not taken.
ConfigureUnlocked(p, setting) ==
    /\ changes < MaxChanges
    /\ writing[p].left = {}
    /\ changes' = changes + 1
    /\ writing' = [writing EXCEPT ![p] = [left |-> AllParts, from |-> setting]]
    /\ undisturbed' = {}
    /\ UNCHANGED <<telemetry, applied, lock, contexts, callVars, output>>

Configure(p, setting) ==
    /\ changes < MaxChanges
    /\ lock = Nobody
    /\ lock' = p
    /\ changes' = changes + 1
    /\ writing' = [writing EXCEPT ![p] = [left |-> AllParts, from |-> setting]]
    /\ undisturbed' = {}
    /\ UNCHANGED <<telemetry, applied, contexts, callVars, output>>

WritePart(p, x) ==
    /\ x \in writing[p].left
    /\ \A i, j \in 1..4 : i < j /\ x \in Parts[j] => Parts[i] \cap writing[p].left = {}
    /\ applied' = [applied EXCEPT ![x] = writing[p].from]
    /\ writing' = [writing EXCEPT ![p].left = @ \ {x}]
    /\ lock' = IF writing[p].left = {x} THEN Nobody ELSE lock
    /\ UNCHANGED <<telemetry, changes, contexts, callVars, output, undisturbed>>

-----------------------------------------------------------------------------
(***************************************************************************)
(* An operation, in its task.                                              *)
(***************************************************************************)
Innermost(c, t) == stack[t] # <<>> /\ stack[t][Len(stack[t])] = c
MayCall(t) == \A i \in DOMAIN stack[t] : pc[stack[t][i]] = "inside"

At(c, t, here) == Innermost(c, t) /\ pc[c] = here
Goto(c, there) == pc' = [pc EXCEPT ![c] = there]

Invoke(c, t) ==
    /\ pc[c] = "new"
    /\ MayCall(t)
    /\ Goto(c, "selected")
    /\ stack' = [stack EXCEPT ![t] = Append(@, c)]
    /\ selected' = [selected EXCEPT ![c] = IF Explicit[c] = Unset THEN telemetry ELSE Explicit[c]]
    /\ undisturbed' = IF lock = Nobody THEN undisturbed \cup {c} ELSE undisturbed
    /\ UNCHANGED <<config, trace, base, logged, span, saved, result, output>>

ResolveLogging(c, t) ==
    /\ At(c, t, "selected")
    /\ Goto(c, "resolved")
    /\ logged' = [logged EXCEPT ![c] = Configured /\ Enabled(c, "error")]
    /\ UNCHANGED <<config, contexts, selected, span, saved, result, output, undisturbed>>

\* No tracer, or one that fails before it has a span.
EnterUntraced(c, t) ==
    /\ At(c, t, "resolved")
    /\ Goto(c, "observed")
    /\ UNCHANGED <<config, contexts, selected, logged, span, saved, result, output, undisturbed>>

\* A span; without a valid identity the caller's context stays.
EnterSpan(c, t, valid) ==
    /\ At(c, t, "resolved")
    /\ selected[c] \in Tracing
    /\ Goto(c, "observed")
    /\ span' = [span EXCEPT ![c] = IF valid THEN "current" ELSE "detached"]
    /\ saved' = [saved EXCEPT ![c] = trace[t]]
    /\ trace' = IF valid THEN [trace EXCEPT ![t] = c] ELSE trace
    /\ UNCHANGED <<config, stack, base, selected, logged, result, output, undisturbed>>

EnterLogging(c, t) ==
    /\ At(c, t, "observed")
    /\ Goto(c, "inside")
    /\ logged' = [logged EXCEPT ![c] = @ /\ Enabled(c, "error")]
    /\ UNCHANGED <<config, contexts, selected, span, saved, result, output, undisturbed>>

\* The application's chain and the native call end.
Outcome(c, t, outcome) ==
    /\ At(c, t, "inside")
    /\ Goto(c, "ended")
    /\ result' = [result EXCEPT ![c] = outcome]
    /\ UNCHANGED <<config, contexts, selected, logged, span, saved, output, undisturbed>>

\* Code inside the operation starts a task.
CreateTask(t, child) ==
    /\ MayCall(t)
    /\ stack[child] = <<>> /\ trace[child] = NoTrace /\ child # t
    /\ trace[t] # NoTrace
    /\ trace' = [trace EXCEPT ![child] = trace[t]]
    /\ base' = [base EXCEPT ![child] = trace[t]]
    /\ UNCHANGED <<config, stack, callVars, output, undisturbed>>

Record(c, t, event) == [call |-> c, event |-> event, outcome |-> result[c], trace |-> trace[t]]

\* Faulty: only what returns is logged.
EmitReturned(c, t, retried) ==
    /\ At(c, t, "ended")
    /\ Goto(c, "emitted")
    /\ records' = IF logged[c] /\ result[c] = "success" /\ Enabled(c, "success")
                  THEN Append(records, Record(c, t, "completed")) ELSE records
    /\ UNCHANGED <<config, contexts, selected, logged, span, saved, result, reports, undisturbed>>

Emit(c, t, retried) ==
    /\ At(c, t, "ended")
    /\ Goto(c, "emitted")
    /\ LET completed == IF Enabled(c, result[c]) THEN <<Record(c, t, "completed")>> ELSE <<>>
           retries == IF retried /\ Enabled(c, "retry") THEN <<Record(c, t, "retry")>> ELSE <<>>
       IN records' = IF logged[c] THEN records \o completed \o retries ELSE records
    /\ UNCHANGED <<config, contexts, selected, logged, span, saved, result, reports, undisturbed>>

\* A handler or filter of the application raises; the error is dropped.
EmitFails(c, t) ==
    /\ At(c, t, "ended")
    /\ logged[c]
    /\ Goto(c, "emitted")
    /\ undisturbed' = undisturbed \ {c}
    /\ UNCHANGED <<config, contexts, selected, logged, span, saved, result, output>>

\* Faulty: an operation that raises keeps its context.
LeaveReturned(c, t) ==
    /\ Goto(c, "done")
    /\ stack' = [stack EXCEPT ![t] = SubSeq(@, 1, Len(@) - 1)]
    /\ span' = [span EXCEPT ![c] = IF @ = "none" THEN "none" ELSE "over"]
    /\ trace' = IF span[c] = "current" /\ result[c] = "success"
                THEN [trace EXCEPT ![t] = saved[c]] ELSE trace
    /\ UNCHANGED <<config, base, selected, logged, saved, result, records, undisturbed>>

\* The rest of `finally`: the context is restored, the span ends.
Leave(c, t) ==
    /\ Goto(c, "done")
    /\ stack' = [stack EXCEPT ![t] = SubSeq(@, 1, Len(@) - 1)]
    /\ span' = [span EXCEPT ![c] = IF @ = "none" THEN "none" ELSE "over"]
    /\ trace' = IF span[c] = "current" THEN [trace EXCEPT ![t] = saved[c]] ELSE trace
    /\ UNCHANGED <<config, base, selected, logged, saved, result, records, undisturbed>>

\* Faulty: reports to the observer of the moment.
ReportToCurrent(c, t) ==
    /\ At(c, t, "emitted")
    /\ Leave(c, t)
    /\ reports' = IF telemetry \in Metrics
                  THEN Append(reports, [call |-> c, to |-> telemetry, outcome |-> result[c]])
                  ELSE reports

Report(c, t) ==
    /\ At(c, t, "emitted")
    /\ Leave(c, t)
    /\ reports' = IF selected[c] \in Metrics
                  THEN Append(reports, [call |-> c, to |-> selected[c], outcome |-> result[c]])
                  ELSE reports

\* The meter raises; the error is dropped and the context restored.
ReportFails(c, t) ==
    /\ At(c, t, "emitted")
    /\ selected[c] \in Metrics
    /\ Leave(c, t)
    /\ UNCHANGED reports

-----------------------------------------------------------------------------
CallStep(c, t) ==
    \/ Invoke(c, t) \/ ResolveLogging(c, t)
    \/ EnterUntraced(c, t)
    \/ \E valid \in BOOLEAN : EnterSpan(c, t, valid)
    \/ EnterLogging(c, t)
    \/ \E outcome \in {"success", "error", "cancelled"} : Outcome(c, t, outcome)
    \/ \E retried \in BOOLEAN : Emit(c, t, retried)
    \/ EmitFails(c, t)
    \/ Report(c, t) \/ ReportFails(c, t)

ConfigStep ==
    \/ \E o \in Observers \cup {NoObserver} : SetTelemetry(o)
    \/ \E p \in Threads : \E setting \in Settings : Configure(p, setting)
    \/ \E p \in Threads, x \in AllParts : WritePart(p, x)

Finished ==
    /\ \A c \in Calls : pc[c] = "done"
    /\ changes = MaxChanges /\ \A p \in Threads : writing[p].left = {}
    /\ UNCHANGED vars

Next ==
    \/ \E c \in Calls, t \in Tasks : CallStep(c, t)
    \/ \E t, child \in Tasks : CreateTask(t, child)
    \/ ConfigStep
    \/ Finished

Spec == Init /\ [][Next]_vars

-----------------------------------------------------------------------------
(***************************************************************************)
(* "Each concurrent operation keeps its own span context": the trace in    *)
(* force in a task is that of the innermost operation there that has a     *)
(* span, else the one the task was created in, however operations nest,    *)
(* fail or are cancelled; and a record carries the trace of its own        *)
(* operation, which is still in force when logging ends.                   *)
(***************************************************************************)
InForce(t) ==
    LET open == {i \in DOMAIN stack[t] : span[stack[t][i]] = "current"} IN
    IF open = {} THEN base[t] ELSE stack[t][Max(open)]

TraceIsOwn ==
    \A t \in Tasks :
        /\ trace[t] = InForce(t)
        /\ \A c \in Calls : \A i \in DOMAIN records :
            Innermost(c, t) /\ records[i].call = c => records[i].trace = InForce(t)

(***************************************************************************)
(* "There is one completion record per invocation when its level is        *)
(* enabled", for success, error and cancellation alike, and none when it   *)
(* is not: of every operation that ran under one logging configuration,    *)
(* although its level is read three times on the way.                      *)
(***************************************************************************)
RecordedOnce ==
    \A c \in undisturbed : pc[c] = "emitted" =>
        LET completed == {i \in DOMAIN records : records[i].call = c /\ records[i].event = "completed"}
        IN  /\ Cardinality(completed) = IF Configured /\ Enabled(c, result[c]) THEN 1 ELSE 0
            /\ \A i \in completed : records[i].outcome = result[c]

(***************************************************************************)
(* "Repeated initialization does not stack observers" and "an operation    *)
(* already running finishes with its original configuration": an operation *)
(* is counted at most once, with its outcome, and only by the observer it  *)
(* was invoked under; its span has ended with it.                          *)
(***************************************************************************)
ReportedOnce ==
    /\ \A i \in DOMAIN reports :
        /\ reports[i].to = selected[reports[i].call]
        /\ reports[i].outcome = result[reports[i].call]
        /\ \A j \in DOMAIN reports : reports[i].call = reports[j].call => i = j
    /\ \A c \in Calls : pc[c] = "done" => span[c] \in {"none", "over"}

(***************************************************************************)
(* Threads that configure logging at once leave one of their settings, not *)
(* a mixture: when no configure_logging() is running, the stream, the      *)
(* default level, every service's level and the interceptor come from the  *)
(* same call.                                                              *)
(***************************************************************************)
SettingsAreOne ==
    (\A p \in Threads : writing[p].left = {}) => \A x, y \in AllParts : applied[x] = applied[y]
=============================================================================
