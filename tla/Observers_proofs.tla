--------------------------- MODULE Observers_proofs ---------------------------
(***************************************************************************)
(* The observers around operations, for any calls, tasks, threads,         *)
(* observers, settings and number of configuration calls.                  *)
(***************************************************************************)
EXTENDS Observers, FiniteSetTheorems, SequenceTheorems, TLAPS

Outcomes == {"success", "error", "cancelled"}
Stages == {"new", "selected", "resolved", "observed", "inside", "ended", "emitted", "done"}
Selections == Observers \cup {NoObserver}
Traces == Calls \cup {NoTrace}
Applied == Settings \cup {Unconfigured}
Records == [call : Calls, event : {"completed", "retry"}, outcome : Outcomes, trace : Traces]
Reports == [call : Calls, to : Selections, outcome : Outcomes]

\* The type invariant.
TypeOK ==
    /\ telemetry \in Selections
    /\ applied \in [AllParts -> Applied]
    /\ lock \in Threads \cup {Nobody}
    /\ writing \in [Threads -> [left : SUBSET AllParts, from : Applied]]
    /\ changes \in Nat
    /\ stack \in [Tasks -> Seq(Calls)]
    /\ trace \in [Tasks -> Traces] /\ base \in [Tasks -> Traces]
    /\ pc \in [Calls -> Stages]
    /\ selected \in [Calls -> Selections]
    /\ logged \in [Calls -> BOOLEAN]
    /\ span \in [Calls -> {"none", "current", "detached", "over"}]
    /\ saved \in [Calls -> Traces]
    /\ result \in [Calls -> Outcomes \cup {"none"}]
    /\ records \in Seq(Records)
    /\ reports \in Seq(Reports)
    /\ undisturbed \subseteq Calls

(***************************************************************************)
(* Logging is configured by the thread that holds the lock.  What it has   *)
(* written comes from its setting; when nobody writes, all parts agree.    *)
(* A call is undisturbed only while nobody writes.                         *)
(***************************************************************************)
LockInv ==
    /\ \A p \in Threads : writing[p].left # {} <=> lock = p
    /\ \A p \in Threads : lock = p =>
        \A x \in AllParts \ writing[p].left : applied[x] = writing[p].from
    /\ lock = Nobody => \A x, y \in AllParts : applied[x] = applied[y]
    /\ lock # Nobody => undisturbed = {}

(***************************************************************************)
(* A call is on one stack at most, and there exactly while it runs; below  *)
(* the innermost one, calls wait for what they have called.                *)
(***************************************************************************)
StackInv ==
    /\ \A t \in Tasks : \A i \in 1..Len(stack[t]) :
        /\ pc[stack[t][i]] \notin {"new", "done"}
        /\ i # Len(stack[t]) => pc[stack[t][i]] = "inside"
    /\ \A t, u \in Tasks : \A i \in 1..Len(stack[t]), j \in 1..Len(stack[u]) :
        stack[t][i] = stack[u][j] => t = u /\ i = j

(***************************************************************************)
(* v is in force at depth n of a task with the stack s and the context b   *)
(* of its own: the innermost of the first n operations with a current span *)
(* decides, if there is one.                                               *)
(***************************************************************************)
InForceOf(s, spans, b, n, v) ==
    \/ /\ \A i \in 1..n : spans[s[i]] # "current"
       /\ v = b
    \/ \E i \in 1..n :
        /\ spans[s[i]] = "current"
        /\ \A j \in (i + 1)..n : spans[s[j]] # "current"
        /\ v = s[i]

\* The first n operations with a current span have saved what is in force below them.
SavedBelow(s, spans, b, olds, n) ==
    \A i \in 1..n : spans[s[i]] = "current" => InForceOf(s, spans, b, i - 1, olds[s[i]])

InForceAt(t, n, v) == InForceOf(stack[t], span, base[t], n, v)

(***************************************************************************)
(* Each operation with a span has saved what was in force below it, so     *)
(* that leaving restores it; the spans of others do not matter.            *)
(***************************************************************************)
SpanInv ==
    /\ \A c \in Calls : pc[c] \in {"new", "selected", "resolved"} => span[c] = "none"
    /\ \A c \in Calls : pc[c] = "done" => span[c] \in {"none", "over"}
    /\ \A t \in Tasks : SavedBelow(stack[t], span, base[t], saved, Len(stack[t]))
    /\ \A t \in Tasks : InForceAt(t, Len(stack[t]), trace[t])

(***************************************************************************)
(* Records are written when an operation ends, under the trace that is     *)
(* then in force in its task.                                              *)
(***************************************************************************)
RecordInv ==
    /\ \A c \in Calls : pc[c] \in {"ended", "emitted", "done"} => result[c] \in Outcomes
    /\ \A i \in 1..Len(records) :
        /\ pc[records[i].call] \in {"emitted", "done"}
        /\ \A t \in Tasks : Innermost(records[i].call, t) => records[i].trace = trace[t]

\* The level that an undisturbed call was chosen to be logged by is still in force.
LoggedInv ==
    \A c \in undisturbed : pc[c] \in {"resolved", "observed", "inside", "ended"} =>
        (logged[c] <=> Configured /\ Enabled(c, "error"))

\* Reports are made by operations that are over.
ReportInv ==
    /\ \A i \in 1..Len(reports) : pc[reports[i].call] = "done"
    /\ ReportedOnce

IInv ==
    /\ TypeOK
    /\ LockInv
    /\ StackInv
    /\ SpanInv
    /\ RecordInv
    /\ LoggedInv
    /\ RecordedOnce
    /\ ReportInv

-----------------------------------------------------------------------------
(***************************************************************************)
(* Stacks: pushing and popping leave the rest as it is.                    *)
(***************************************************************************)
LEMMA PushFacts ==
    ASSUME NEW S, NEW s \in Seq(S), NEW e \in S
    PROVE  /\ Append(s, e) \in Seq(S)
           /\ Len(Append(s, e)) = Len(s) + 1
           /\ Append(s, e)[Len(s) + 1] = e
           /\ \A i \in 1..Len(s) : Append(s, e)[i] = s[i]
BY AppendProperties

LEMMA PopFacts ==
    ASSUME NEW S, NEW s \in Seq(S), s # <<>>
    PROVE  /\ Len(s) \in Nat \ {0}
           /\ SubSeq(s, 1, Len(s) - 1) \in Seq(S)
           /\ Len(SubSeq(s, 1, Len(s) - 1)) = Len(s) - 1
           /\ \A i \in 1..(Len(s) - 1) : SubSeq(s, 1, Len(s) - 1)[i] = s[i]
<1>1. Len(s) \in Nat \ {0}
  BY EmptySeq
<1>2. \A i \in 1..(Len(s) - 1) : s[i] \in S
  BY <1>1, ElementOfSeq
<1> DEFINE n == Len(s) - 1
<1>3. n \in Nat /\ \A i \in 1..n : s[i] \in S
  BY <1>1, <1>2
<1>4. /\ SubSeq(s, 1, n) \in Seq(S)
      /\ Len(SubSeq(s, 1, n)) = IF 1 <= n THEN n - 1 + 1 ELSE 0
      /\ \A i \in 1..(n - 1 + 1) : SubSeq(s, 1, n)[i] = s[1 + i - 1]
  <2> HIDE DEF n
  <2> QED
    BY <1>3, SubSeqProperties
<1>5. Len(SubSeq(s, 1, n)) = n
  <2> HIDE DEF n
  <2> QED
    BY <1>3, <1>4
<1>6. ASSUME NEW i \in 1..n PROVE SubSeq(s, 1, n)[i] = s[i]
  <2> HIDE DEF n
  <2>1. i \in 1..(n - 1 + 1) /\ 1 + i - 1 = i
    BY <1>3
  <2> QED
    BY <1>4, <2>1
<1> QED
  BY <1>1, <1>4, <1>5, <1>6

(***************************************************************************)
(* The innermost call of a task is nowhere else.                           *)
(***************************************************************************)
LEMMA InnermostFacts ==
    ASSUME TypeOK, StackInv, NEW c \in Calls, NEW t \in Tasks, Innermost(c, t)
    PROVE  /\ Len(stack[t]) \in Nat \ {0}
           /\ stack[t][Len(stack[t])] = c
           /\ \A u \in Tasks : \A i \in 1..Len(stack[u]) :
                stack[u][i] = c => u = t /\ i = Len(stack[t])
<1>1. stack[t] \in Seq(Calls) /\ stack[t] # <<>> /\ stack[t][Len(stack[t])] = c
  BY DEF TypeOK, Innermost
<1>2. Len(stack[t]) \in Nat \ {0}
  BY <1>1, EmptySeq
<1> QED
  BY <1>1, <1>2 DEF StackInv

\* What is in force below a depth depends on nothing above it.
LEMMA InForceDepends ==
    ASSUME NEW s, NEW r, NEW spans, NEW others, NEW b, NEW n \in Nat, NEW v,
           \A i \in 1..n : r[i] = s[i] /\ others[s[i]] = spans[s[i]],
           InForceOf(s, spans, b, n, v)
    PROVE  InForceOf(r, others, b, n, v)
BY DEF InForceOf

\* An operation without a current span changes nothing.
LEMMA InForceExtends ==
    ASSUME NEW s, NEW spans, NEW b, NEW n \in Nat, NEW v,
           spans[s[n + 1]] # "current"
    PROVE  InForceOf(s, spans, b, n + 1, v) <=> InForceOf(s, spans, b, n, v)
BY DEF InForceOf

LEMMA InForceOwn ==
    ASSUME NEW s, NEW spans, NEW b, NEW n \in Nat \ {0}, spans[s[n]] = "current"
    PROVE  InForceOf(s, spans, b, n, s[n])
BY DEF InForceOf

\* A further operation, which has saved what is in force below it.
LEMMA SavedExtends ==
    ASSUME NEW s, NEW spans, NEW b, NEW olds, NEW n \in Nat,
           SavedBelow(s, spans, b, olds, n),
           spans[s[n + 1]] = "current" => InForceOf(s, spans, b, n, olds[s[n + 1]])
    PROVE  SavedBelow(s, spans, b, olds, n + 1)
<1>1. ASSUME NEW i \in 1..(n + 1), spans[s[i]] = "current"
      PROVE  InForceOf(s, spans, b, i - 1, olds[s[i]])
  <2>1. CASE i \in 1..n
    BY <1>1, <2>1 DEF SavedBelow
  <2>2. CASE i = n + 1
    <3>1. i - 1 = n
      BY <2>2
    <3> QED
      BY <1>1, <2>2, <3>1
  <2> QED
    BY <2>1, <2>2
<1> QED
  BY <1>1 DEF SavedBelow

\* The definition of TraceIsOwn in terms of the greatest such operation.
LEMMA InForceIsMax ==
    ASSUME TypeOK, NEW t \in Tasks, NEW v, InForceAt(t, Len(stack[t]), v)
    PROVE  v = InForce(t)
<1> DEFINE open == {i \in DOMAIN stack[t] : span[stack[t][i]] = "current"}
<1>1. DOMAIN stack[t] = 1..Len(stack[t]) /\ Len(stack[t]) \in Nat
  BY DEF TypeOK
<1>2. CASE open = {}
  BY <1>1, <1>2 DEF InForceAt, InForceOf, InForce
<1>3. CASE open # {}
  <2>1. PICK i \in open : v = stack[t][i] /\ \A j \in open : i >= j
    BY <1>1, <1>3 DEF InForceAt, InForceOf
  <2>2. Max(open) \in open /\ \A j \in open : Max(open) >= j
    BY <2>1 DEF Max
  <2>3. Max(open) = i
    <3>1. open \subseteq Nat
      BY <1>1
    <3> DEFINE m == Max(open)
    <3>2. m \in Nat /\ i \in Nat /\ m >= i /\ i >= m
      BY <2>1, <2>2, <3>1
    <3> HIDE DEF m
    <3>3. m = i
      BY <3>2
    <3> QED
      BY <3>3 DEF m
  <2> QED
    BY <1>3, <2>1, <2>3 DEF InForce
<1> QED
  BY <1>2, <1>3

-----------------------------------------------------------------------------
LEMMA InitInv == Init => IInv
<1> SUFFICES ASSUME Init PROVE IInv
  OBVIOUS
<1> USE DEF Init
<1>1. TypeOK
  BY DEF TypeOK, Selections, Applied, Stages, Outcomes, Traces
<1>2. LockInv
  BY SettingsAssumption DEF SettingsAssumption, LockInv
<1>3. StackInv
  BY DEF StackInv
<1>4. SpanInv
  BY DEF SpanInv, SavedBelow, InForceAt, InForceOf
<1>5. RecordInv /\ ReportInv
  BY DEF RecordInv, ReportInv, ReportedOnce
<1>6. LoggedInv /\ RecordedOnce
  BY DEF LoggedInv, RecordedOnce
<1> QED
  BY <1>1, <1>2, <1>3, <1>4, <1>5, <1>6 DEF IInv

(***************************************************************************)
(* An operation that ends adds its own records, under the trace in force,  *)
(* and at most one of them is of its completion.                           *)
(***************************************************************************)
LEMMA EmitAdds ==
    ASSUME IInv, NEW c \in Calls, NEW t \in Tasks, NEW retried \in BOOLEAN, Emit(c, t, retried)
    PROVE  /\ records' \in Seq(Records)
           /\ Len(records) \in Nat /\ Len(records') \in Nat /\ Len(records) <= Len(records')
           /\ \A i \in 1..Len(records) : records'[i] = records[i]
           /\ \A i \in (Len(records) + 1)..Len(records') :
                /\ records'[i].call = c /\ records'[i].trace = trace[t]
                /\ records'[i].outcome = result[c]
           /\ {i \in (Len(records) + 1)..Len(records') : records'[i].event = "completed"}
                = IF logged[c] /\ Enabled(c, result[c]) THEN {Len(records) + 1} ELSE {}
<1> DEFINE first == Record(c, t, "completed")
           second == Record(c, t, "retry")
<1>1. records \in Seq(Records) /\ Len(records) \in Nat
  BY DEF IInv, TypeOK
<1>2. first \in Records /\ second \in Records
  BY DEF IInv, TypeOK, RecordInv, Emit, At, Record, Records
<1>3. /\ first.call = c /\ first.trace = trace[t] /\ first.outcome = result[c]
      /\ second.call = c /\ second.trace = trace[t] /\ second.outcome = result[c]
      /\ first.event = "completed" /\ second.event = "retry"
  BY DEF Record
<1> HIDE DEF first, second
<1>4. \A r \in Records, q \in Seq(Records) : q \o <<r>> = Append(q, r) /\ q \o <<>> = q
  BY AppendIsConcat, ConcatEmptySeq
<1> DEFINE completes == logged[c] /\ Enabled(c, result[c])
           retries == logged[c] /\ retried /\ Enabled(c, "retry")
<1>5. records' = (records \o (IF completes THEN <<first>> ELSE <<>>))
                         \o (IF retries THEN <<second>> ELSE <<>>)
  <2>1. CASE logged[c]
    BY <2>1 DEF Emit, first, second
  <2>2. CASE ~logged[c]
    <3>1. records' = records
      BY <2>2 DEF Emit
    <3> QED
      BY <1>1, <1>2, <1>4, <2>2, <3>1
  <2> QED
    BY <2>1, <2>2
<1> HIDE DEF completes, retries
<1> DEFINE rs == IF completes THEN Append(records, first) ELSE records
<1>6. /\ rs \in Seq(Records)
      /\ Len(rs) = IF completes THEN Len(records) + 1 ELSE Len(records)
      /\ \A i \in 1..Len(records) : rs[i] = records[i]
      /\ completes => rs[Len(records) + 1] = first
  BY <1>1, <1>2, PushFacts
<1>7. records' = IF retries THEN Append(rs, second) ELSE rs
  <2>1. rs = records \o (IF completes THEN <<first>> ELSE <<>>)
    BY <1>1, <1>2, <1>4
  <2>2. records' = rs \o (IF retries THEN <<second>> ELSE <<>>)
    BY <1>5, <2>1
  <2> HIDE DEF rs
  <2> QED
    BY <1>2, <1>4, <1>6, <2>2
<1> HIDE DEF rs
<1>8. /\ records' \in Seq(Records)
      /\ Len(records') = IF retries THEN Len(rs) + 1 ELSE Len(rs)
      /\ \A i \in 1..Len(rs) : records'[i] = rs[i]
      /\ retries => records'[Len(rs) + 1] = second
  BY <1>2, <1>6, <1>7, PushFacts
<1>9. \A i \in (Len(records) + 1)..Len(records') :
        records'[i] = IF completes /\ i = Len(records) + 1 THEN first ELSE second
  BY <1>1, <1>6, <1>8
<1>10. {i \in (Len(records) + 1)..Len(records') : records'[i].event = "completed"}
        = IF completes THEN {Len(records) + 1} ELSE {}
  BY <1>1, <1>3, <1>6, <1>8, <1>9
<1> QED
  BY <1>1, <1>3, <1>6, <1>8, <1>9, <1>10 DEF completes

-----------------------------------------------------------------------------
(***************************************************************************)
(* Typing.                                                                 *)
(***************************************************************************)
LEMMA LeaveTypes ==
    ASSUME TypeOK, NEW c \in Calls, NEW t \in Tasks, Innermost(c, t), Leave(c, t)
    PROVE  /\ stack' \in [Tasks -> Seq(Calls)] /\ trace' \in [Tasks -> Traces]
           /\ pc' \in [Calls -> Stages]
           /\ span' \in [Calls -> {"none", "current", "detached", "over"}]
<1>1. SubSeq(stack[t], 1, Len(stack[t]) - 1) \in Seq(Calls)
  BY PopFacts DEF TypeOK, Innermost
<1> QED
  BY <1>1 DEF TypeOK, Leave, Goto, Stages

LEMMA ReportTypes ==
    ASSUME TypeOK, RecordInv, NEW c \in Calls, NEW t \in Tasks, Report(c, t)
    PROVE  reports' \in Seq(Reports)
<1>1. [call |-> c, to |-> selected[c], outcome |-> result[c]] \in Reports
  BY DEF TypeOK, RecordInv, Report, At, Reports
<1> QED
  BY <1>1, PushFacts DEF TypeOK, Report

LEMMA TypeStep == IInv /\ [Next]_vars => TypeOK'
<1> SUFFICES ASSUME IInv, [Next]_vars PROVE TypeOK'
  OBVIOUS
<1>0. TypeOK /\ RecordInv
  BY DEF IInv
<1>1. CASE UNCHANGED vars \/ Finished
  BY <1>0, <1>1 DEF vars, Finished, config, contexts, callVars, output, TypeOK
<1>2. ASSUME NEW o \in Observers \cup {NoObserver}, SetTelemetry(o)
      PROVE  TypeOK'
  BY <1>0, <1>2 DEF SetTelemetry, contexts, callVars, output, TypeOK, Selections
<1>3. ASSUME NEW p \in Threads, NEW setting \in Settings, Configure(p, setting)
      PROVE  TypeOK'
  BY <1>0, <1>3 DEF Configure, contexts, callVars, output, TypeOK, Applied
<1>4. ASSUME NEW p \in Threads, NEW x \in AllParts, WritePart(p, x)
      PROVE  TypeOK'
  BY <1>0, <1>4 DEF WritePart, contexts, callVars, output, TypeOK
<1>5. ASSUME NEW t \in Tasks, NEW child \in Tasks, CreateTask(t, child)
      PROVE  TypeOK'
  BY <1>0, <1>5 DEF CreateTask, config, callVars, output, TypeOK
<1>6. ASSUME NEW c \in Calls, NEW t \in Tasks, CallStep(c, t)
      PROVE  TypeOK'
  <2> USE <1>0
  <2>1. CASE Invoke(c, t)
    <3>1. /\ Append(stack[t], c) \in Seq(Calls)
          /\ (IF Explicit[c] = Unset THEN telemetry ELSE Explicit[c]) \in Selections
      BY PushFacts, ObserversAssumption DEF TypeOK, ObserversAssumption, Selections
    <3> QED
      BY <2>1, <3>1 DEF Invoke, Goto, config, output, TypeOK, Stages
  <2>2. CASE ResolveLogging(c, t)
    BY <2>2 DEF ResolveLogging, Goto, config, contexts, output, TypeOK, Stages
  <2>3. CASE EnterUntraced(c, t)
    BY <2>3 DEF EnterUntraced, Goto, config, contexts, output, TypeOK, Stages
  <2>4. ASSUME NEW valid \in BOOLEAN, EnterSpan(c, t, valid)
        PROVE  TypeOK'
    BY <2>4 DEF EnterSpan, Goto, config, output, TypeOK, Stages, Traces
  <2>5. CASE EnterLogging(c, t)
    BY <2>5 DEF EnterLogging, Goto, config, contexts, output, TypeOK, Stages
  <2>6. ASSUME NEW outcome \in Outcomes, Outcome(c, t, outcome)
        PROVE  TypeOK'
    BY <2>6 DEF Outcome, Goto, config, contexts, output, TypeOK, Stages
  <2>7. ASSUME NEW retried \in BOOLEAN, Emit(c, t, retried)
        PROVE  TypeOK'
    <3>1. records' \in Seq(Records)
      BY <2>7, EmitAdds
    <3> QED
      BY <2>7, <3>1 DEF Emit, Goto, config, contexts, TypeOK, Stages
  <2>8. CASE EmitFails(c, t)
    BY <2>8 DEF EmitFails, Goto, config, contexts, output, TypeOK, Stages
  <2>9. CASE Report(c, t) \/ ReportFails(c, t)
    <3>1. Innermost(c, t) /\ Leave(c, t)
      BY <2>9 DEF Report, ReportFails, At
    <3>2. reports' \in Seq(Reports)
      BY <2>9, ReportTypes DEF ReportFails, TypeOK
    <3>3. /\ stack' \in [Tasks -> Seq(Calls)] /\ trace' \in [Tasks -> Traces]
          /\ pc' \in [Calls -> Stages]
          /\ span' \in [Calls -> {"none", "current", "detached", "over"}]
      BY <3>1, LeaveTypes
    <3> QED
      BY <3>1, <3>2, <3>3 DEF Leave, config, TypeOK
  <2> QED
    BY <1>6, <2>1, <2>2, <2>3, <2>4, <2>5, <2>6, <2>7, <2>8, <2>9 DEF CallStep, Outcomes
<1> QED
  BY <1>1, <1>2, <1>3, <1>4, <1>5, <1>6 DEF Next, ConfigStep

-----------------------------------------------------------------------------
(***************************************************************************)
(* What a call's steps leave alone.                                        *)
(***************************************************************************)
LEMMA CallsDoNotConfigure ==
    ASSUME NEW c \in Calls, NEW t \in Tasks, CallStep(c, t)
    PROVE  UNCHANGED config
BY DEF CallStep, Invoke, ResolveLogging, EnterUntraced, EnterSpan, EnterLogging, Outcome,
       Emit, EmitFails, Report, ReportFails, Leave

LEMMA OnlyInvokeUndisturbs ==
    ASSUME NEW c \in Calls, NEW t \in Tasks, CallStep(c, t)
    PROVE  \/ undisturbed' \subseteq undisturbed
           \/ Invoke(c, t) /\ lock = Nobody /\ undisturbed' = undisturbed \cup {c}
BY DEF CallStep, Invoke, ResolveLogging, EnterUntraced, EnterSpan, EnterLogging, Outcome,
       Emit, EmitFails, Report, ReportFails, Leave

LEMMA ConfiguringLeavesCalls ==
    ASSUME ConfigStep
    PROVE  UNCHANGED <<contexts, callVars, output>> /\ undisturbed' \subseteq undisturbed
BY DEF ConfigStep, SetTelemetry, Configure, WritePart

(***************************************************************************)
(* The configuration lock.                                                 *)
(***************************************************************************)
LEMMA ConfigureKeepsLock ==
    ASSUME TypeOK, LockInv, NEW p \in Threads, NEW setting \in Settings, Configure(p, setting)
    PROVE  LockInv'
<1>1. /\ lock = Nobody /\ lock' = p /\ p # Nobody
      /\ \A q \in Threads : writing[q].left = {}
      /\ writing' = [writing EXCEPT ![p] = [left |-> AllParts, from |-> setting]]
      /\ undisturbed' = {} /\ applied' = applied
  BY SettingsAssumption DEF SettingsAssumption, Configure, LockInv
<1>2. AllParts # {}
  BY DEF AllParts, Parts
<1>3. /\ writing'[p].left = AllParts
      /\ \A q \in Threads \ {p} : writing'[q].left = {}
  BY <1>1 DEF TypeOK
<1> QED
  BY <1>1, <1>2, <1>3 DEF LockInv

LEMMA WritePartKeepsLock ==
    ASSUME TypeOK, LockInv, NEW p \in Threads, NEW x \in AllParts, WritePart(p, x)
    PROVE  LockInv'
<1>1. lock = p /\ p # Nobody /\ undisturbed = {} /\ \A q \in Threads \ {p} : writing[q].left = {}
  BY SettingsAssumption DEF SettingsAssumption, WritePart, LockInv
<1>2. /\ writing'[p].left = writing[p].left \ {x} /\ writing'[p].from = writing[p].from
      /\ \A q \in Threads \ {p} : writing'[q].left = {}
      /\ applied' = [applied EXCEPT ![x] = writing[p].from]
      /\ undisturbed' = {}
  <2>1. writing' = [writing EXCEPT ![p] = [writing[p] EXCEPT !.left = @ \ {x}]]
    BY DEF WritePart
  <2>2. writing[p] \in [left : SUBSET AllParts, from : Applied]
    BY DEF TypeOK
  <2> QED
    BY <1>1, <2>1, <2>2 DEF TypeOK, WritePart
<1>3. \A y \in AllParts \ writing'[p].left : applied'[y] = writing'[p].from
  BY <1>1, <1>2 DEF LockInv, TypeOK
<1>4. CASE writing[p].left = {x}
  <2>1. lock' = Nobody /\ writing'[p].left = {}
    BY <1>2, <1>4 DEF WritePart
  <2> QED
    BY <1>1, <1>2, <1>3, <2>1, SettingsAssumption DEF LockInv, SettingsAssumption
<1>5. CASE writing[p].left # {x}
  <2>1. lock' = p /\ writing'[p].left # {}
    BY <1>1, <1>2, <1>5 DEF WritePart
  <2> QED
    BY <1>1, <1>2, <1>3, <2>1 DEF LockInv
<1> QED
  BY <1>4, <1>5

LEMMA LockStep == IInv /\ [Next]_vars => LockInv'
<1> SUFFICES ASSUME TypeOK, LockInv, [Next]_vars PROVE LockInv'
  BY DEF IInv
<1>1. ASSUME UNCHANGED <<applied, lock, writing>>,
             undisturbed' \subseteq undisturbed \/ lock = Nobody
      PROVE  LockInv'
  BY <1>1 DEF LockInv
<1>2. CASE UNCHANGED vars \/ Finished \/ \E t, child \in Tasks : CreateTask(t, child)
  BY <1>1, <1>2 DEF vars, Finished, config, CreateTask
<1>3. ASSUME NEW c \in Calls, NEW t \in Tasks, CallStep(c, t) PROVE LockInv'
  BY <1>1, <1>3, CallsDoNotConfigure, OnlyInvokeUndisturbs DEF config
<1>4. CASE ConfigStep
  <2>1. ASSUME NEW o \in Observers \cup {NoObserver}, SetTelemetry(o) PROVE LockInv'
    BY <1>1, <2>1 DEF SetTelemetry
  <2> QED
    BY <1>4, <2>1, ConfigureKeepsLock, WritePartKeepsLock DEF ConfigStep
<1> QED
  BY <1>2, <1>3, <1>4 DEF Next

-----------------------------------------------------------------------------
(***************************************************************************)
(* A call is pushed when it is invoked and popped when it is over; every   *)
(* other step of it is one of the innermost call, and pushes nothing.      *)
(***************************************************************************)
Running == Stages \ {"new", "done"}

Advance(c, t, there) ==
    /\ Innermost(c, t)
    /\ pc[c] \in Running
    /\ Goto(c, there)
    /\ UNCHANGED <<stack, base>>

LEMMA CallStepKinds ==
    ASSUME NEW c \in Calls, NEW t \in Tasks, CallStep(c, t)
    PROVE  \/ Invoke(c, t)
           \/ \E there \in Running : Advance(c, t, there)
           \/ At(c, t, "emitted") /\ Leave(c, t)
<1> USE DEF At, contexts, Running, Stages
<1>1. CASE Invoke(c, t) \/ Report(c, t) \/ ReportFails(c, t)
  BY <1>1 DEF Report, ReportFails
<1>2. CASE ResolveLogging(c, t)
  <2>1. Advance(c, t, "resolved")
    BY <1>2 DEF ResolveLogging, Advance
  <2> QED
    BY <2>1
<1>3. CASE EnterUntraced(c, t) \/ \E valid \in BOOLEAN : EnterSpan(c, t, valid)
  <2>1. Advance(c, t, "observed")
    BY <1>3 DEF EnterUntraced, EnterSpan, Advance
  <2> QED
    BY <2>1
<1>4. CASE EnterLogging(c, t)
  <2>1. Advance(c, t, "inside")
    BY <1>4 DEF EnterLogging, Advance
  <2> QED
    BY <2>1
<1>5. CASE \E outcome \in Outcomes : Outcome(c, t, outcome)
  <2>1. Advance(c, t, "ended")
    BY <1>5 DEF Outcome, Advance
  <2> QED
    BY <2>1
<1>6. CASE (\E retried \in BOOLEAN : Emit(c, t, retried)) \/ EmitFails(c, t)
  <2>1. Advance(c, t, "emitted")
    BY <1>6 DEF Emit, EmitFails, Advance
  <2> QED
    BY <2>1
<1> QED
  BY <1>1, <1>2, <1>3, <1>4, <1>5, <1>6 DEF CallStep, Outcomes

LEMMA InvokePushes ==
    ASSUME TypeOK, StackInv, NEW c \in Calls, NEW t \in Tasks, Invoke(c, t)
    PROVE  /\ \A u \in Tasks : \A i \in 1..Len(stack[u]) : stack[u][i] # c
           /\ \A i \in 1..Len(stack[t]) : pc[stack[t][i]] = "inside"
           /\ Len(stack[t]) \in Nat /\ Len(stack'[t]) = Len(stack[t]) + 1
           /\ stack'[t][Len(stack[t]) + 1] = c
           /\ \A i \in 1..Len(stack[t]) : stack'[t][i] = stack[t][i]
           /\ \A u \in Tasks \ {t} : stack'[u] = stack[u]
           /\ pc[c] = "new" /\ pc' = [pc EXCEPT ![c] = "selected"]
<1>1. /\ stack'[t] = Append(stack[t], c) /\ stack[t] \in Seq(Calls)
      /\ Len(stack[t]) \in Nat /\ DOMAIN stack[t] = 1..Len(stack[t])
      /\ \A u \in Tasks \ {t} : stack'[u] = stack[u]
      /\ pc[c] = "new" /\ pc' = [pc EXCEPT ![c] = "selected"]
  BY DEF TypeOK, Invoke, Goto
<1>2. \A u \in Tasks : \A i \in 1..Len(stack[u]) : stack[u][i] # c
  BY <1>1 DEF StackInv
<1>3. \A i \in 1..Len(stack[t]) : pc[stack[t][i]] = "inside"
  BY <1>1 DEF Invoke, MayCall
<1> QED
  BY <1>1, <1>2, <1>3, PushFacts

LEMMA LeavePops ==
    ASSUME TypeOK, StackInv, NEW c \in Calls, NEW t \in Tasks, At(c, t, "emitted"), Leave(c, t)
    PROVE  /\ Len(stack[t]) \in Nat \ {0} /\ Len(stack'[t]) = Len(stack[t]) - 1
           /\ stack[t][Len(stack[t])] = c
           /\ \A i \in 1..(Len(stack[t]) - 1) : stack'[t][i] = stack[t][i]
           /\ \A u \in Tasks \ {t} : stack'[u] = stack[u]
           /\ \A u \in Tasks : \A i \in 1..Len(stack'[u]) :
                i \in 1..Len(stack[u]) /\ stack'[u][i] = stack[u][i] /\ stack[u][i] # c
           /\ pc' = [pc EXCEPT ![c] = "done"]
<1>1. Innermost(c, t)
  BY DEF At
<1>2. /\ stack'[t] = SubSeq(stack[t], 1, Len(stack[t]) - 1)
      /\ stack[t] \in Seq(Calls) /\ stack[t] # <<>>
      /\ \A u \in Tasks \ {t} : stack'[u] = stack[u]
      /\ pc' = [pc EXCEPT ![c] = "done"]
  BY <1>1 DEF TypeOK, Leave, Goto, Innermost
<1>3. /\ Len(stack[t]) \in Nat \ {0} /\ Len(stack'[t]) = Len(stack[t]) - 1
      /\ \A i \in 1..(Len(stack[t]) - 1) : stack'[t][i] = stack[t][i]
  BY <1>2, PopFacts
<1>4. /\ stack[t][Len(stack[t])] = c
      /\ \A u \in Tasks : \A i \in 1..Len(stack[u]) :
            stack[u][i] = c => u = t /\ i = Len(stack[t])
  BY <1>1, InnermostFacts
<1>5. ASSUME NEW u \in Tasks, NEW i \in 1..Len(stack'[u])
      PROVE  i \in 1..Len(stack[u]) /\ stack'[u][i] = stack[u][i] /\ stack[u][i] # c
  BY <1>2, <1>3, <1>4, <1>5
<1> QED
  BY <1>2, <1>3, <1>4, <1>5

LEMMA StackStep == IInv /\ [Next]_vars => StackInv'
<1> SUFFICES ASSUME TypeOK, StackInv, [Next]_vars PROVE StackInv'
  BY DEF IInv
<1>1. CASE UNCHANGED <<stack, pc>>
  BY <1>1 DEF StackInv
<1>2. ASSUME NEW c \in Calls, NEW t \in Tasks, CallStep(c, t) PROVE StackInv'
  <2>1. CASE Invoke(c, t)
    <3> DEFINE n == Len(stack[t])
    <3>1. /\ \A u \in Tasks : \A i \in 1..Len(stack[u]) : stack[u][i] \in Calls /\ stack[u][i] # c
          /\ \A i \in 1..n : pc[stack[t][i]] = "inside"
          /\ n \in Nat /\ Len(stack'[t]) = n + 1 /\ stack'[t][n + 1] = c
          /\ \A i \in 1..n : stack'[t][i] = stack[t][i]
          /\ \A u \in Tasks \ {t} : stack'[u] = stack[u]
      BY <2>1, InvokePushes DEF TypeOK
    <3>2. pc'[c] = "selected" /\ \A d \in Calls \ {c} : pc'[d] = pc[d]
      BY <2>1, InvokePushes DEF TypeOK
    <3> HIDE DEF n
    <3>3. \A u \in Tasks : \A i \in 1..Len(stack'[u]) :
            \/ u = t /\ i = n + 1 /\ stack'[u][i] = c
            \/ /\ i \in 1..Len(stack[u]) /\ stack'[u][i] = stack[u][i] /\ stack[u][i] # c
               /\ stack[u][i] \in Calls /\ pc'[stack'[u][i]] = pc[stack[u][i]]
      BY <3>1, <3>2 DEF n
    <3>4. ASSUME NEW u \in Tasks, NEW i \in 1..Len(stack'[u])
          PROVE  /\ pc'[stack'[u][i]] \notin {"new", "done"}
                 /\ i # Len(stack'[u]) => pc'[stack'[u][i]] = "inside"
      BY <3>1, <3>2, <3>3, <3>4 DEF StackInv, n
    <3>5. ASSUME NEW u \in Tasks, NEW w \in Tasks, NEW i \in 1..Len(stack'[u]),
                 NEW j \in 1..Len(stack'[w]), stack'[u][i] = stack'[w][j]
          PROVE  u = w /\ i = j
      BY <3>3, <3>5 DEF StackInv
    <3> QED
      BY <3>4, <3>5 DEF StackInv
  <2>2. ASSUME NEW there \in Running, Advance(c, t, there) PROVE StackInv'
    <3>1. pc' = [pc EXCEPT ![c] = there] /\ stack' = stack /\ there \notin {"new", "done"}
      BY <2>2 DEF Advance, Goto, Running
    <3>2. \A u \in Tasks : \A i \in 1..Len(stack[u]) :
            stack[u][i] = c => u = t /\ i = Len(stack[t])
      BY <2>2, InnermostFacts DEF Advance
    <3>3. \A u \in Tasks : \A i \in 1..Len(stack[u]) : stack[u][i] \in Calls
      BY DEF TypeOK
    <3> QED
      BY <3>1, <3>2, <3>3 DEF StackInv, TypeOK
  <2>3. CASE At(c, t, "emitted") /\ Leave(c, t)
    <3>1. \A u \in Tasks : \A i \in 1..Len(stack'[u]) :
            /\ i \in 1..Len(stack[u]) /\ stack'[u][i] = stack[u][i] /\ stack[u][i] # c
            /\ i # Len(stack'[u]) => i # Len(stack[u])
      BY <2>3, LeavePops
    <3>2. \A u \in Tasks : \A i \in 1..Len(stack[u]) :
            stack[u][i] # c => pc'[stack[u][i]] = pc[stack[u][i]]
      BY <2>3, LeavePops DEF TypeOK
    <3>3. ASSUME NEW u \in Tasks, NEW i \in 1..Len(stack'[u])
          PROVE  /\ pc'[stack'[u][i]] \notin {"new", "done"}
                 /\ i # Len(stack'[u]) => pc'[stack'[u][i]] = "inside"
      BY <3>1, <3>2, <3>3 DEF StackInv
    <3>4. ASSUME NEW u \in Tasks, NEW w \in Tasks, NEW i \in 1..Len(stack'[u]),
                 NEW j \in 1..Len(stack'[w]), stack'[u][i] = stack'[w][j]
          PROVE  u = w /\ i = j
      BY <3>1, <3>4 DEF StackInv
    <3> QED
      BY <3>3, <3>4 DEF StackInv
  <2> QED
    BY <1>2, <2>1, <2>2, <2>3, CallStepKinds
<1>3. CASE ConfigStep
  BY <1>1, <1>3, ConfiguringLeavesCalls DEF contexts, callVars
<1> QED
  BY <1>1, <1>2, <1>3 DEF Next, vars, contexts, callVars, Finished, CreateTask

-----------------------------------------------------------------------------
(***************************************************************************)
(* The first n operations of a task keep what they have saved, and what is *)
(* in force at their depth, whatever happens to a call that is not one of  *)
(* them.                                                                   *)
(***************************************************************************)
LEMMA KeptBelow ==
    ASSUME TypeOK, SpanInv, NEW c \in Calls, NEW u \in Tasks, NEW v,
           NEW n \in 0..Len(stack[u]), InForceAt(u, n, v),
           \A i \in 1..n : stack'[u][i] = stack[u][i] /\ stack[u][i] # c,
           \A d \in Calls \ {c} : span'[d] = span[d] /\ saved'[d] = saved[d],
           base'[u] = base[u]
    PROVE  /\ InForceOf(stack'[u], span', base'[u], n, v)
           /\ SavedBelow(stack'[u], span', base'[u], saved', n)
<1>1. /\ n \in Nat /\ n <= Len(stack[u]) /\ Len(stack[u]) \in Nat
      /\ \A i \in 1..n : /\ stack[u][i] \in Calls /\ stack'[u][i] = stack[u][i]
                         /\ span'[stack[u][i]] = span[stack[u][i]]
                         /\ saved'[stack[u][i]] = saved[stack[u][i]]
  BY DEF TypeOK
<1>2. ASSUME NEW m \in 0..n, NEW w, InForceAt(u, m, w)
      PROVE  InForceOf(stack'[u], span', base'[u], m, w)
  <2>1. m \in Nat /\ \A i \in 1..m : stack'[u][i] = stack[u][i] /\ span'[stack[u][i]] = span[stack[u][i]]
    BY <1>1
  <2> QED
    BY <1>2, <2>1, InForceDepends DEF InForceAt
<1>3. ASSUME NEW i \in 1..n, span'[stack'[u][i]] = "current"
      PROVE  InForceOf(stack'[u], span', base'[u], i - 1, saved'[stack'[u][i]])
  <2>1. i \in Nat /\ i - 1 \in 0..n /\ saved'[stack'[u][i]] = saved[stack[u][i]]
    BY <1>1
  <2>2. InForceAt(u, i - 1, saved[stack[u][i]])
    BY <1>1, <1>3 DEF SpanInv, SavedBelow, InForceAt
  <2> QED
    BY <1>2, <2>1, <2>2
<1>4. n \in 0..n
  BY <1>1
<1> QED
  BY <1>2, <1>3, <1>4 DEF SavedBelow

(***************************************************************************)
(* SpanInv of the next state, spelled out.                                 *)
(***************************************************************************)
LEMMA SpansFromParts ==
    ASSUME \A d \in Calls :
               /\ pc'[d] \in {"new", "selected", "resolved"} => span'[d] = "none"
               /\ pc'[d] = "done" => span'[d] \in {"none", "over"},
           \A u \in Tasks : InForceOf(stack'[u], span', base'[u], Len(stack'[u]), trace'[u]),
           \A u \in Tasks : SavedBelow(stack'[u], span', base'[u], saved', Len(stack'[u]))
    PROVE  SpanInv'
BY Zenon DEF SpanInv, InForceAt

LEMMA SpanFrame ==
    ASSUME SpanInv, UNCHANGED <<stack, trace, base, span, saved>>,
           \A d \in Calls :
               /\ pc'[d] \in {"new", "selected", "resolved"} => pc[d] \in {"new", "selected", "resolved"}
               /\ pc'[d] = "done" => pc[d] = "done"
    PROVE  SpanInv'
BY DEF SpanInv, InForceAt

LEMMA InvokeKeepsSpans ==
    ASSUME TypeOK, StackInv, SpanInv, NEW c \in Calls, NEW t \in Tasks, Invoke(c, t)
    PROVE  SpanInv'
<1> DEFINE n == Len(stack[t])
<1>1. /\ \A u \in Tasks : \A i \in 1..Len(stack[u]) : stack[u][i] # c
      /\ n \in Nat /\ Len(stack'[t]) = n + 1 /\ stack'[t][n + 1] = c
      /\ \A i \in 1..n : stack'[t][i] = stack[t][i]
      /\ \A u \in Tasks \ {t} : stack'[u] = stack[u]
  BY InvokePushes
<1>2. UNCHANGED <<trace, base, span, saved>>
  BY DEF Invoke
<1>3. pc[c] = "new" /\ pc' = [pc EXCEPT ![c] = "selected"] /\ span[c] = "none"
  BY InvokePushes DEF SpanInv
<1>4. ASSUME NEW u \in Tasks
      PROVE  /\ InForceOf(stack'[u], span', base'[u], Len(stack[u]), trace'[u])
             /\ SavedBelow(stack'[u], span', base'[u], saved', Len(stack[u]))
  <2>1. /\ Len(stack[u]) \in 0..Len(stack[u])
        /\ InForceAt(u, Len(stack[u]), trace'[u])
    BY <1>2 DEF TypeOK, SpanInv
  <2>2. \A i \in 1..Len(stack[u]) : stack'[u][i] = stack[u][i] /\ stack[u][i] # c
    BY <1>1
  <2> QED
    BY <1>2, <2>1, <2>2, KeptBelow
<1>5. /\ InForceOf(stack'[t], span', base'[t], n, trace'[t])
      /\ SavedBelow(stack'[t], span', base'[t], saved', n)
      /\ span'[stack'[t][n + 1]] # "current"
  BY <1>1, <1>2, <1>3, <1>4
<1> HIDE DEF n
<1>6. /\ InForceOf(stack'[t], span', base'[t], n + 1, trace'[t])
      /\ SavedBelow(stack'[t], span', base'[t], saved', n + 1)
  BY <1>1, <1>5, InForceExtends, SavedExtends
<1>7. \A d \in Calls :
        /\ pc'[d] \in {"new", "selected", "resolved"} => span'[d] = "none"
        /\ pc'[d] = "done" => span'[d] \in {"none", "over"}
  BY <1>2, <1>3 DEF SpanInv, TypeOK
<1>8. ASSUME NEW u \in Tasks
      PROVE  /\ InForceOf(stack'[u], span', base'[u], Len(stack'[u]), trace'[u])
             /\ SavedBelow(stack'[u], span', base'[u], saved', Len(stack'[u]))
  BY <1>1, <1>4, <1>6
<1> QED
  BY <1>7, <1>8, SpansFromParts

\* A step of the innermost call of t, seen by another task.
LEMMA KeptElsewhere ==
    ASSUME TypeOK, StackInv, SpanInv, NEW c \in Calls, NEW t \in Tasks, Innermost(c, t),
           NEW u \in Tasks \ {t}, stack'[u] = stack[u], base'[u] = base[u], trace'[u] = trace[u],
           \A d \in Calls \ {c} : span'[d] = span[d] /\ saved'[d] = saved[d]
    PROVE  /\ InForceOf(stack'[u], span', base'[u], Len(stack'[u]), trace'[u])
           /\ SavedBelow(stack'[u], span', base'[u], saved', Len(stack'[u]))
<1>1. /\ Len(stack[u]) \in 0..Len(stack[u])
      /\ InForceAt(u, Len(stack[u]), trace[u])
  BY DEF TypeOK, SpanInv
<1>2. \A i \in 1..Len(stack[u]) : stack'[u][i] = stack[u][i] /\ stack[u][i] # c
  BY InnermostFacts
<1> QED
  BY <1>1, <1>2, KeptBelow

LEMMA EnterSpanKeepsSpans ==
    ASSUME TypeOK, StackInv, SpanInv, NEW c \in Calls, NEW t \in Tasks, NEW valid \in BOOLEAN,
           EnterSpan(c, t, valid)
    PROVE  SpanInv'
<1> DEFINE n == Len(stack[t]) - 1
<1>1. /\ Innermost(c, t) /\ pc[c] = "resolved" /\ pc' = [pc EXCEPT ![c] = "observed"]
      /\ stack' = stack /\ base' = base
      /\ span' = [span EXCEPT ![c] = IF valid THEN "current" ELSE "detached"]
      /\ saved' = [saved EXCEPT ![c] = trace[t]]
      /\ trace' = IF valid THEN [trace EXCEPT ![t] = c] ELSE trace
      /\ span[c] = "none"
  BY DEF EnterSpan, At, Goto, SpanInv
<1>2. /\ span'[c] = IF valid THEN "current" ELSE "detached"
      /\ saved'[c] = trace[t]
      /\ \A d \in Calls \ {c} : span'[d] = span[d] /\ saved'[d] = saved[d]
      /\ trace'[t] = IF valid THEN c ELSE trace[t]
      /\ \A u \in Tasks \ {t} : trace'[u] = trace[u]
  BY <1>1 DEF TypeOK
<1>3. /\ n \in Nat /\ n \in 0..Len(stack[t]) /\ n + 1 = Len(stack[t])
      /\ stack[t][n + 1] = c
      /\ \A i \in 1..n : stack'[t][i] = stack[t][i] /\ stack[t][i] # c
  BY <1>1, InnermostFacts
<1>4. InForceAt(t, n + 1, trace[t]) /\ Len(stack'[t]) = n + 1
  BY <1>1, <1>3 DEF SpanInv
<1> HIDE DEF n
<1>5. InForceAt(t, n, trace[t])
  BY <1>1, <1>3, <1>4, InForceExtends DEF InForceAt
<1>6. /\ InForceOf(stack'[t], span', base'[t], n, trace[t])
      /\ SavedBelow(stack'[t], span', base'[t], saved', n)
  BY <1>1, <1>2, <1>3, <1>5, KeptBelow
<1>7. SavedBelow(stack'[t], span', base'[t], saved', n + 1)
  <2>1. saved'[stack'[t][n + 1]] = trace[t]
    BY <1>1, <1>2, <1>3
  <2> QED
    BY <1>3, <1>6, <2>1, SavedExtends
<1>8. InForceOf(stack'[t], span', base'[t], n + 1, trace'[t])
  <2>1. CASE valid
    <3>1. n + 1 \in Nat \ {0} /\ stack'[t][n + 1] = c /\ span'[c] = "current" /\ trace'[t] = c
      BY <1>1, <1>2, <1>3, <2>1
    <3> QED
      BY <3>1, InForceOwn
  <2>2. CASE ~valid
    <3>1. span'[stack'[t][n + 1]] # "current" /\ trace'[t] = trace[t]
      BY <1>1, <1>2, <1>3, <2>2
    <3> QED
      BY <1>3, <1>6, <3>1, InForceExtends
  <2> QED
    BY <2>1, <2>2
<1>9. \A d \in Calls :
        /\ pc'[d] \in {"new", "selected", "resolved"} => span'[d] = "none"
        /\ pc'[d] = "done" => span'[d] \in {"none", "over"}
  BY <1>1, <1>2 DEF SpanInv, TypeOK
<1>10. ASSUME NEW u \in Tasks \ {t}
       PROVE  /\ InForceOf(stack'[u], span', base'[u], Len(stack'[u]), trace'[u])
              /\ SavedBelow(stack'[u], span', base'[u], saved', Len(stack'[u]))
  BY <1>1, <1>2, KeptElsewhere
<1>11. ASSUME NEW u \in Tasks
       PROVE  /\ InForceOf(stack'[u], span', base'[u], Len(stack'[u]), trace'[u])
              /\ SavedBelow(stack'[u], span', base'[u], saved', Len(stack'[u]))
  BY <1>4, <1>7, <1>8, <1>10
<1> QED
  BY <1>9, <1>11, SpansFromParts

LEMMA LeaveKeepsSpans ==
    ASSUME TypeOK, StackInv, SpanInv, NEW c \in Calls, NEW t \in Tasks,
           At(c, t, "emitted"), Leave(c, t)
    PROVE  SpanInv'
<1> DEFINE n == Len(stack[t]) - 1
<1>1. /\ Innermost(c, t) /\ pc' = [pc EXCEPT ![c] = "done"]
      /\ base' = base /\ saved' = saved
      /\ span' = [span EXCEPT ![c] = IF @ = "none" THEN "none" ELSE "over"]
      /\ trace' = IF span[c] = "current" THEN [trace EXCEPT ![t] = saved[c]] ELSE trace
  BY DEF Leave, At, Goto
<1>2. /\ span'[c] \in {"none", "over"}
      /\ \A d \in Calls \ {c} : span'[d] = span[d] /\ saved'[d] = saved[d]
      /\ trace'[t] = IF span[c] = "current" THEN saved[c] ELSE trace[t]
      /\ \A u \in Tasks \ {t} : trace'[u] = trace[u]
  BY <1>1 DEF TypeOK
<1>3. /\ n \in Nat /\ n \in 0..Len(stack[t]) /\ n + 1 = Len(stack[t]) /\ Len(stack'[t]) = n
      /\ stack[t][n + 1] = c /\ n + 1 \in 1..Len(stack[t])
      /\ \A i \in 1..n : stack'[t][i] = stack[t][i] /\ stack[t][i] # c
      /\ \A u \in Tasks \ {t} : stack'[u] = stack[u]
  BY LeavePops
<1>4. InForceAt(t, n, trace'[t])
  <2>1. CASE span[c] = "current"
    <3>1. InForceAt(t, n + 1 - 1, saved[c])
      BY <1>3, <2>1 DEF SpanInv, SavedBelow, InForceAt
    <3>2. n + 1 - 1 = n
      BY <1>3
    <3> QED
      BY <1>2, <2>1, <3>1, <3>2
  <2>2. CASE span[c] # "current"
    <3>1. InForceAt(t, n + 1, trace[t]) /\ trace'[t] = trace[t]
      BY <1>2, <1>3, <2>2 DEF SpanInv
    <3> HIDE DEF n
    <3> QED
      BY <1>3, <2>2, <3>1, InForceExtends DEF InForceAt
  <2> QED
    BY <2>1, <2>2
<1> HIDE DEF n
<1>5. /\ InForceOf(stack'[t], span', base'[t], Len(stack'[t]), trace'[t])
      /\ SavedBelow(stack'[t], span', base'[t], saved', Len(stack'[t]))
  BY <1>1, <1>2, <1>3, <1>4, KeptBelow
<1>6. \A d \in Calls :
        /\ pc'[d] \in {"new", "selected", "resolved"} => span'[d] = "none"
        /\ pc'[d] = "done" => span'[d] \in {"none", "over"}
  BY <1>1, <1>2 DEF SpanInv, TypeOK
<1>7. ASSUME NEW u \in Tasks \ {t}
      PROVE  /\ InForceOf(stack'[u], span', base'[u], Len(stack'[u]), trace'[u])
             /\ SavedBelow(stack'[u], span', base'[u], saved', Len(stack'[u]))
  BY <1>1, <1>2, <1>3, KeptElsewhere
<1> QED
  BY <1>5, <1>6, <1>7, SpansFromParts

LEMMA CreateTaskKeepsSpans ==
    ASSUME TypeOK, SpanInv, NEW t \in Tasks, NEW child \in Tasks, CreateTask(t, child)
    PROVE  SpanInv'
<1>1. /\ UNCHANGED <<stack, pc, span, saved>>
      /\ stack[child] = <<>> /\ trace'[child] = base'[child]
      /\ \A u \in Tasks \ {child} : trace'[u] = trace[u] /\ base'[u] = base[u]
  BY DEF CreateTask, callVars, TypeOK
<1>2. ASSUME NEW u \in Tasks \ {child}
      PROVE  /\ InForceOf(stack'[u], span', base'[u], Len(stack'[u]), trace'[u])
             /\ SavedBelow(stack'[u], span', base'[u], saved', Len(stack'[u]))
  BY <1>1 DEF SpanInv, InForceAt
<1>3. /\ InForceOf(stack'[child], span', base'[child], Len(stack'[child]), trace'[child])
      /\ SavedBelow(stack'[child], span', base'[child], saved', Len(stack'[child]))
  BY <1>1 DEF InForceOf, SavedBelow
<1>4. \A d \in Calls :
        /\ pc'[d] \in {"new", "selected", "resolved"} => span'[d] = "none"
        /\ pc'[d] = "done" => span'[d] \in {"none", "over"}
  BY <1>1 DEF SpanInv
<1>5. ASSUME NEW u \in Tasks
      PROVE  /\ InForceOf(stack'[u], span', base'[u], Len(stack'[u]), trace'[u])
             /\ SavedBelow(stack'[u], span', base'[u], saved', Len(stack'[u]))
  BY <1>2, <1>3
<1> QED
  BY <1>4, <1>5, SpansFromParts

LEMMA SpanStep == IInv /\ [Next]_vars => SpanInv'
<1> SUFFICES ASSUME TypeOK, StackInv, SpanInv, [Next]_vars PROVE SpanInv'
  BY DEF IInv
<1>1. CASE UNCHANGED vars \/ Finished \/ ConfigStep
  <2>1. UNCHANGED <<stack, trace, base, pc, span, saved>>
    BY <1>1, ConfiguringLeavesCalls DEF vars, Finished, contexts, callVars
  <2> QED
    BY <2>1, SpanFrame
<1>2. ASSUME NEW c \in Calls, NEW t \in Tasks, CallStep(c, t) PROVE SpanInv'
  <2>1. CASE Invoke(c, t)
    BY <2>1, InvokeKeepsSpans
  <2>2. ASSUME NEW valid \in BOOLEAN, EnterSpan(c, t, valid) PROVE SpanInv'
    BY <2>2, EnterSpanKeepsSpans
  <2>3. CASE Report(c, t) \/ ReportFails(c, t)
    BY <2>3, LeaveKeepsSpans DEF Report, ReportFails
  <2>4. ASSUME UNCHANGED <<stack, trace, base, span, saved>>, NEW there,
               pc' = [pc EXCEPT ![c] = there], there \notin {"new", "selected", "done"},
               there = "resolved" => pc[c] = "selected"
        PROVE  SpanInv'
    BY <2>4, SpanFrame DEF TypeOK
  <2>5. CASE ResolveLogging(c, t)
    BY <2>4, <2>5 DEF ResolveLogging, Goto, At, contexts
  <2>6. CASE EnterUntraced(c, t)
    BY <2>4, <2>6 DEF EnterUntraced, Goto, contexts
  <2>7. CASE EnterLogging(c, t)
    BY <2>4, <2>7 DEF EnterLogging, Goto, contexts
  <2>8. CASE \E outcome \in Outcomes : Outcome(c, t, outcome)
    BY <2>4, <2>8 DEF Outcome, Goto, contexts
  <2>9. CASE (\E retried \in BOOLEAN : Emit(c, t, retried)) \/ EmitFails(c, t)
    BY <2>4, <2>9 DEF Emit, EmitFails, Goto, contexts
  <2> QED
    BY <1>2, <2>1, <2>2, <2>3, <2>5, <2>6, <2>7, <2>8, <2>9 DEF CallStep, Outcomes
<1>3. ASSUME NEW t \in Tasks, NEW child \in Tasks, CreateTask(t, child) PROVE SpanInv'
  BY <1>3, CreateTaskKeepsSpans
<1> QED
  BY <1>1, <1>2, <1>3 DEF Next

-----------------------------------------------------------------------------
(***************************************************************************)
(* Records, and the operations they are of.                                *)
(***************************************************************************)
LEMMA RecordFacts ==
    ASSUME TypeOK, RecordInv, NEW i \in 1..Len(records)
    PROVE  records[i].call \in Calls /\ pc[records[i].call] \in {"emitted", "done"}
<1>1. records[i] \in Records
  BY ElementOfSeq DEF TypeOK
<1> QED
  BY <1>1 DEF Records, RecordInv

LEMMA RecordFrame ==
    ASSUME RecordInv, records' = records,
           \A d \in Calls : pc'[d] \in {"ended", "emitted", "done"} => result'[d] \in Outcomes,
           \A i \in 1..Len(records) :
               /\ pc[records[i].call] \in {"emitted", "done"} =>
                    pc'[records[i].call] \in {"emitted", "done"}
               /\ \A u \in Tasks : Innermost(records[i].call, u)' =>
                    Innermost(records[i].call, u) /\ trace'[u] = trace[u]
    PROVE  RecordInv'
BY DEF RecordInv, Innermost

LEMMA EmitKeepsRecords ==
    ASSUME IInv, NEW c \in Calls, NEW t \in Tasks, NEW retried \in BOOLEAN, Emit(c, t, retried)
    PROVE  RecordInv'
<1>1. /\ Innermost(c, t) /\ pc[c] = "ended" /\ pc' = [pc EXCEPT ![c] = "emitted"]
      /\ UNCHANGED <<stack, trace, result>>
  BY DEF Emit, At, Goto, contexts
<1>2. TypeOK /\ StackInv /\ RecordInv
  BY DEF IInv
<1>3. /\ Len(records) \in Nat /\ Len(records') \in Nat
      /\ \A i \in 1..Len(records) : records'[i] = records[i]
      /\ \A i \in (Len(records) + 1)..Len(records') :
            records'[i].call = c /\ records'[i].trace = trace[t]
  BY EmitAdds
<1>4. \A d \in Calls : pc'[d] \in {"ended", "emitted", "done"} => result'[d] \in Outcomes
  BY <1>1, <1>2 DEF RecordInv, TypeOK
<1>5. \A u \in Tasks : Innermost(c, u) => u = t
  <2> SUFFICES ASSUME NEW u \in Tasks, Innermost(c, u) PROVE u = t
    OBVIOUS
  <2>1. Len(stack[u]) \in 1..Len(stack[u]) /\ stack[u][Len(stack[u])] = c
    BY <1>2, InnermostFacts
  <2> QED
    BY <1>1, <1>2, <2>1, InnermostFacts
<1>6. ASSUME NEW i \in 1..Len(records')
      PROVE  /\ pc'[records'[i].call] \in {"emitted", "done"}
             /\ \A u \in Tasks : Innermost(records'[i].call, u) => records'[i].trace = trace[u]
  <2>1. CASE i \in 1..Len(records)
    <3>1. records'[i] = records[i] /\ records[i].call \in Calls
      BY <1>2, <1>3, <2>1, RecordFacts
    <3>2. /\ pc[records[i].call] \in {"emitted", "done"}
          /\ \A u \in Tasks : Innermost(records[i].call, u) => records[i].trace = trace[u]
      BY <1>2, <2>1 DEF RecordInv
    <3> QED
      BY <1>1, <1>2, <3>1, <3>2 DEF TypeOK
  <2>2. CASE i \in (Len(records) + 1)..Len(records')
    BY <1>1, <1>2, <1>3, <1>5, <2>2 DEF TypeOK
  <2> QED
    BY <1>3, <2>1, <2>2
<1> QED
  BY <1>1, <1>4, <1>6 DEF RecordInv, Innermost

LEMMA RecordStep == IInv /\ [Next]_vars => RecordInv'
<1> SUFFICES ASSUME IInv, [Next]_vars PROVE RecordInv'
  OBVIOUS
<1>0. TypeOK /\ StackInv /\ RecordInv
  BY DEF IInv
<1> USE <1>0
<1>1. CASE UNCHANGED vars \/ Finished \/ ConfigStep
  <2>1. UNCHANGED <<stack, trace, pc, result, records>>
    BY <1>1, ConfiguringLeavesCalls DEF vars, Finished, contexts, callVars, output
  <2> QED
    BY <2>1 DEF RecordInv, Innermost
<1>2. ASSUME NEW t \in Tasks, NEW child \in Tasks, CreateTask(t, child) PROVE RecordInv'
  <2>1. /\ UNCHANGED <<stack, pc, result, records>> /\ stack[child] = <<>>
        /\ \A u \in Tasks \ {child} : trace'[u] = trace[u]
    BY <1>2 DEF CreateTask, callVars, output, TypeOK
  <2> QED
    BY <2>1 DEF RecordInv, Innermost
<1>3. ASSUME NEW c \in Calls, NEW t \in Tasks, CallStep(c, t) PROVE RecordInv'
  <2>0. \A i \in 1..Len(records) :
          records[i].call \in Calls /\ pc[records[i].call] \in {"emitted", "done"}
    BY RecordFacts
  <2>1. CASE Invoke(c, t)
    <3>1. /\ UNCHANGED <<trace, result, records>> /\ pc[c] = "new"
          /\ pc' = [pc EXCEPT ![c] = "selected"]
      BY <2>1 DEF Invoke, Goto, output
    <3>2. /\ stack'[t][Len(stack'[t])] = c
          /\ \A u \in Tasks \ {t} : stack'[u] = stack[u]
      BY <2>1, InvokePushes
    <3>3. ASSUME NEW i \in 1..Len(records), NEW u \in Tasks, Innermost(records[i].call, u)'
          PROVE  Innermost(records[i].call, u)
      <4>1. records[i].call # c /\ stack'[t][Len(stack'[t])] = c
        BY <2>0, <3>1, <3>2
      <4>2. u # t
        BY <3>1, <3>3, <4>1 DEF Innermost
      <4> QED
        BY <3>1, <3>2, <3>3, <4>2 DEF Innermost
    <3> QED
      BY <2>0, <3>1, <3>3, RecordFrame DEF RecordInv, TypeOK
  <2>2. ASSUME Innermost(c, t), UNCHANGED <<stack, records>>, pc[c] \notin {"emitted", "done"},
               \A u \in Tasks \ {t} : trace'[u] = trace[u], NEW there,
               pc' = [pc EXCEPT ![c] = there], \A d \in Calls \ {c} : result'[d] = result[d],
               there \in {"ended", "emitted", "done"} => result'[c] \in Outcomes
        PROVE  RecordInv'
    <3>1. ASSUME NEW i \in 1..Len(records), NEW u \in Tasks, Innermost(records[i].call, u)'
          PROVE  Innermost(records[i].call, u) /\ trace'[u] = trace[u]
      BY <2>0, <2>2, <3>1 DEF Innermost
    <3>2. \A i \in 1..Len(records) : pc'[records[i].call] \in {"emitted", "done"}
      BY <2>0, <2>2 DEF TypeOK
    <3>3. \A d \in Calls : pc'[d] \in {"ended", "emitted", "done"} => result'[d] \in Outcomes
      BY <2>2 DEF RecordInv, TypeOK
    <3> QED
      BY <2>2, <3>1, <3>2, <3>3, RecordFrame
  <2>3. CASE ResolveLogging(c, t)
    BY <2>2, <2>3 DEF ResolveLogging, At, Goto, contexts, output
  <2>4. CASE EnterUntraced(c, t)
    BY <2>2, <2>4 DEF EnterUntraced, At, Goto, contexts, output
  <2>5. ASSUME NEW valid \in BOOLEAN, EnterSpan(c, t, valid) PROVE RecordInv'
    <3>1. \A u \in Tasks \ {t} : trace'[u] = trace[u]
      BY <2>5 DEF EnterSpan, TypeOK
    <3> QED
      BY <2>2, <2>5, <3>1 DEF EnterSpan, At, Goto, output
  <2>6. CASE EnterLogging(c, t)
    BY <2>2, <2>6 DEF EnterLogging, At, Goto, contexts, output
  <2>7. ASSUME NEW outcome \in Outcomes, Outcome(c, t, outcome) PROVE RecordInv'
    <3>1. result'[c] \in Outcomes /\ \A d \in Calls \ {c} : result'[d] = result[d]
      BY <2>7 DEF Outcome, TypeOK
    <3> QED
      BY <2>2, <2>7, <3>1 DEF Outcome, At, Goto, contexts, output
  <2>8. CASE \E retried \in BOOLEAN : Emit(c, t, retried)
    BY <2>8, EmitKeepsRecords
  <2>9. CASE EmitFails(c, t)
    BY <2>2, <2>9 DEF EmitFails, At, Goto, contexts, output, RecordInv
  <2>10. CASE Report(c, t) \/ ReportFails(c, t)
    <3>1. At(c, t, "emitted") /\ Leave(c, t)
      BY <2>10 DEF Report, ReportFails
    <3>2. /\ records' = records /\ result' = result
          /\ pc' = [pc EXCEPT ![c] = "done"] /\ pc[c] = "emitted"
          /\ \A u \in Tasks \ {t} : trace'[u] = trace[u]
      BY <3>1 DEF Leave, Goto, At, TypeOK
    <3>3. /\ Len(stack[t]) \in Nat \ {0} /\ Len(stack'[t]) = Len(stack[t]) - 1
          /\ \A i \in 1..(Len(stack[t]) - 1) : stack'[t][i] = stack[t][i]
          /\ \A u \in Tasks \ {t} : stack'[u] = stack[u]
      BY <3>1, LeavePops
    <3>4. ASSUME NEW i \in 1..Len(records), NEW u \in Tasks, Innermost(records[i].call, u)'
          PROVE  Innermost(records[i].call, u) /\ trace'[u] = trace[u]
      <4>1. u # t
        <5>0. SUFFICES ASSUME u = t PROVE FALSE
          OBVIOUS
        <5> DEFINE n == Len(stack[t])
        <5>1. stack'[t] # <<>> /\ stack'[t][Len(stack'[t])] = records[i].call
          BY <3>2, <3>4, <5>0 DEF Innermost
        <5>2. stack'[t] \in Seq(Calls)
          BY <3>1, LeaveTypes DEF At
        <5>3. Len(stack'[t]) # 0
          BY <5>1, <5>2, EmptySeq
        <5>4. n \in Nat \ {0} /\ n - 1 # 0 /\ Len(stack'[t]) = n - 1
          BY <3>3, <5>3
        <5>5. n - 1 \in 1..(n - 1) /\ n - 1 \in 1..n /\ n - 1 # n
          <6> HIDE DEF n
          <6> QED
            BY <5>4
        <5>6. stack[t][n - 1] = records[i].call
          BY <3>3, <5>1, <5>4, <5>5
        <5>7. pc[stack[t][n - 1]] = "inside"
          BY <5>5 DEF StackInv
        <5> QED
          BY <2>0, <5>6, <5>7
      <4> QED
        BY <3>2, <3>3, <3>4, <4>1 DEF Innermost
    <3>5. \A i \in 1..Len(records) : pc'[records[i].call] \in {"emitted", "done"}
      BY <2>0, <3>2 DEF TypeOK
    <3>6. \A d \in Calls : pc'[d] \in {"ended", "emitted", "done"} => result'[d] \in Outcomes
      BY <3>2 DEF RecordInv, TypeOK
    <3> QED
      BY <3>2, <3>4, <3>5, <3>6, RecordFrame
  <2> QED
    BY <1>3, <2>1, <2>3, <2>4, <2>5, <2>6, <2>7, <2>8, <2>9, <2>10 DEF CallStep, Outcomes
<1> QED
  BY <1>1, <1>2, <1>3 DEF Next

-----------------------------------------------------------------------------
(***************************************************************************)
(* An undisturbed call is logged by the level it was chosen by.            *)
(***************************************************************************)
LEMMA EmitsErrors ==
    ASSUME NEW level, NEW outcome \in Outcomes, outcome \in Emits(level)
    PROVE  "error" \in Emits(level)
BY DEF Emits, Outcomes

\* No step that changes the settings leaves a call undisturbed.
LEMMA SettingsHold ==
    ASSUME IInv, [Next]_vars
    PROVE  applied' = applied \/ undisturbed' = {}
<1>1. CASE UNCHANGED vars \/ Finished \/ \E t, child \in Tasks : CreateTask(t, child)
  BY <1>1 DEF vars, Finished, config, CreateTask
<1>2. CASE \E c \in Calls, t \in Tasks : CallStep(c, t)
  BY <1>2, CallsDoNotConfigure DEF config
<1>3. CASE ConfigStep
  <2>1. ASSUME NEW p \in Threads, NEW x \in AllParts, WritePart(p, x)
        PROVE  undisturbed' = {}
    <3>1. lock = p /\ p # Nobody
      BY <2>1, SettingsAssumption DEF SettingsAssumption, IInv, LockInv, WritePart
    <3> QED
      BY <2>1, <3>1 DEF IInv, LockInv, WritePart
  <2> QED
    BY <1>3, <2>1 DEF ConfigStep, SetTelemetry, Configure
<1> QED
  BY <1>1, <1>2, <1>3 DEF Next

Chosen == {"resolved", "observed", "inside", "ended"}

LEMMA LoggedFrame ==
    ASSUME LoggedInv, applied' = applied \/ undisturbed' = {},
           \A d \in undisturbed' : pc'[d] \in Chosen =>
               /\ d \in undisturbed
               /\ pc[d] \in Chosen /\ logged'[d] = logged[d]
    PROVE  LoggedInv'
BY DEF LoggedInv, Configured, Enabled, LevelOf, Chosen

LEMMA LoggedStep == IInv /\ [Next]_vars => LoggedInv'
<1> SUFFICES ASSUME IInv, [Next]_vars PROVE LoggedInv'
  OBVIOUS
<1>0. TypeOK /\ LoggedInv
  BY DEF IInv
<1>1. applied' = applied \/ undisturbed' = {}
  BY SettingsHold
<1>2. ASSUME UNCHANGED <<pc, logged>>, undisturbed' \subseteq undisturbed
      PROVE  LoggedInv'
  BY <1>0, <1>1, <1>2, LoggedFrame
<1>3. CASE UNCHANGED vars \/ Finished \/ \E t, child \in Tasks : CreateTask(t, child)
  BY <1>2, <1>3 DEF vars, Finished, CreateTask, callVars
<1>4. CASE ConfigStep
  BY <1>2, <1>4, ConfiguringLeavesCalls DEF callVars
<1>5. ASSUME NEW c \in Calls, NEW t \in Tasks, CallStep(c, t) PROVE LoggedInv'
  <2>1. ASSUME NEW there, pc' = [pc EXCEPT ![c] = there], UNCHANGED logged,
               undisturbed' \subseteq undisturbed \cup {c},
               there \in Chosen => c \notin undisturbed' \/ (c \in undisturbed /\ pc[c] \in Chosen)
        PROVE  LoggedInv'
    <3>1. \A d \in undisturbed' : d \in Calls /\ d # c => pc'[d] = pc[d] /\ d \in undisturbed
      BY <1>0, <2>1 DEF TypeOK
    <3>2. undisturbed' \subseteq Calls /\ pc'[c] = there
      BY <1>0, <2>1 DEF TypeOK
    <3> QED
      BY <1>0, <1>1, <2>1, <3>1, <3>2, LoggedFrame
  <2>2. CASE Invoke(c, t)
    BY <2>1, <2>2 DEF Invoke, Goto, Chosen
  <2>3. CASE ResolveLogging(c, t)
    <3>1. /\ applied' = applied /\ undisturbed' = undisturbed /\ undisturbed \subseteq Calls
          /\ logged'[c] = (Configured /\ Enabled(c, "error"))
          /\ \A d \in Calls \ {c} : logged'[d] = logged[d] /\ pc'[d] = pc[d]
      BY <1>0, <2>3 DEF ResolveLogging, Goto, config, TypeOK
    <3> QED
      BY <1>0, <3>1 DEF LoggedInv, Configured, Enabled, LevelOf
  <2>4. CASE EnterLogging(c, t)
    <3>1. /\ applied' = applied /\ undisturbed' = undisturbed /\ undisturbed \subseteq Calls
          /\ pc[c] = "observed"
          /\ logged'[c] = (logged[c] /\ Enabled(c, "error"))
          /\ \A d \in Calls \ {c} : logged'[d] = logged[d] /\ pc'[d] = pc[d]
      BY <1>0, <2>4 DEF EnterLogging, At, Goto, config, TypeOK
    <3> QED
      BY <1>0, <3>1 DEF LoggedInv, Configured, Enabled, LevelOf
  <2>5. CASE EnterUntraced(c, t) \/ \E valid \in BOOLEAN : EnterSpan(c, t, valid)
    BY <2>1, <2>5 DEF EnterUntraced, EnterSpan, At, Goto, Chosen
  <2>6. CASE \E outcome \in Outcomes : Outcome(c, t, outcome)
    BY <2>1, <2>6 DEF Outcome, At, Goto, Chosen
  <2>7. CASE (\E retried \in BOOLEAN : Emit(c, t, retried)) \/ EmitFails(c, t)
    BY <2>1, <2>7 DEF Emit, EmitFails, Goto, Chosen
  <2>8. CASE Report(c, t) \/ ReportFails(c, t)
    BY <2>1, <2>8 DEF Report, ReportFails, Leave, Goto, Chosen
  <2> QED
    BY <1>5, <2>2, <2>3, <2>4, <2>5, <2>6, <2>7, <2>8 DEF CallStep, Outcomes
<1> QED
  BY <1>3, <1>4, <1>5 DEF Next

-----------------------------------------------------------------------------
(***************************************************************************)
(* One completion record.                                                  *)
(***************************************************************************)
LEMMA RecordedFrame ==
    ASSUME RecordedOnce, applied' = applied \/ undisturbed' = {}, UNCHANGED records,
           \A d \in undisturbed' : pc'[d] = "emitted" =>
               d \in undisturbed /\ pc[d] = "emitted" /\ result'[d] = result[d]
    PROVE  RecordedOnce'
<1> DEFINE completed(d) == {i \in DOMAIN records : records[i].call = d /\ records[i].event = "completed"}
<1>1. ASSUME NEW d \in undisturbed', pc'[d] = "emitted"
      PROVE  /\ applied' = applied /\ result'[d] = result[d]
             /\ Cardinality(completed(d)) = IF Configured /\ Enabled(d, result[d]) THEN 1 ELSE 0
             /\ \A i \in completed(d) : records[i].outcome = result[d]
  BY <1>1 DEF RecordedOnce
<1> QED
  BY <1>1 DEF RecordedOnce, Configured, Enabled, LevelOf

LEMMA EmitRecordsOnce ==
    ASSUME IInv, NEW c \in Calls, NEW t \in Tasks, NEW retried \in BOOLEAN, Emit(c, t, retried)
    PROVE  RecordedOnce'
<1> DEFINE completed(rs, d) == {i \in DOMAIN rs : rs[i].call = d /\ rs[i].event = "completed"}
<1>1. /\ pc[c] = "ended" /\ pc' = [pc EXCEPT ![c] = "emitted"]
      /\ applied' = applied /\ result' = result /\ undisturbed' = undisturbed
  BY DEF Emit, At, Goto, config
<1>2. TypeOK /\ RecordInv /\ LoggedInv /\ RecordedOnce
  BY DEF IInv
<1>3. /\ Len(records) \in Nat /\ Len(records') \in Nat /\ Len(records) <= Len(records')
      /\ \A i \in 1..Len(records) : records'[i] = records[i]
      /\ \A i \in (Len(records) + 1)..Len(records') :
            records'[i].call = c /\ records'[i].outcome = result[c]
      /\ {i \in (Len(records) + 1)..Len(records') : records'[i].event = "completed"}
            = IF logged[c] /\ Enabled(c, result[c]) THEN {Len(records) + 1} ELSE {}
  BY EmitAdds
<1>4. DOMAIN records = 1..Len(records) /\ DOMAIN records' = 1..Len(records')
  BY <1>2, EmitAdds DEF TypeOK
<1>5. \A i \in 1..Len(records) : records[i].call # c
  BY <1>1, <1>2, RecordFacts
<1>6. ASSUME NEW d \in undisturbed, d # c
      PROVE  completed(records', d) = completed(records, d)
  BY <1>3, <1>4, <1>6
<1>7. completed(records', c)
        = {i \in (Len(records) + 1)..Len(records') : records'[i].event = "completed"}
  BY <1>3, <1>4, <1>5
<1>8. ASSUME NEW d \in undisturbed, pc'[d] = "emitted"
      PROVE  /\ Cardinality(completed(records', d)) = IF Configured /\ Enabled(d, result[d]) THEN 1 ELSE 0
             /\ \A i \in completed(records', d) : records'[i].outcome = result[d]
  <2>1. CASE d # c
    <3>1. pc[d] = "emitted"
      BY <1>1, <1>2, <1>8, <2>1 DEF TypeOK
    <3>2. /\ Cardinality(completed(records, d)) = IF Configured /\ Enabled(d, result[d]) THEN 1 ELSE 0
          /\ \A i \in completed(records, d) : records[i].outcome = result[d]
      BY <1>2, <1>8, <3>1 DEF RecordedOnce
    <3>3. \A i \in completed(records, d) : records'[i] = records[i]
      BY <1>3, <1>4
    <3> HIDE DEF completed
    <3> QED
      BY <1>6, <2>1, <3>2, <3>3
  <2>2. CASE d = c
    <3>1. logged[c] <=> Configured /\ Enabled(c, "error")
      BY <1>1, <1>2, <1>8, <2>2 DEF LoggedInv
    <3>2. result[c] \in Outcomes
      BY <1>1, <1>2 DEF RecordInv
    <3>3. logged[c] /\ Enabled(c, result[c]) <=> Configured /\ Enabled(c, result[c])
      BY <3>1, <3>2, EmitsErrors DEF Enabled
    <3>4. completed(records', c)
            = IF Configured /\ Enabled(c, result[c]) THEN {Len(records) + 1} ELSE {}
      BY <1>3, <1>7, <3>3
    <3>5. \A i \in completed(records', c) : records'[i].outcome = result[c]
      BY <1>3, <1>7
    <3>6. Cardinality({Len(records) + 1}) = 1 /\ Cardinality({}) = 0
      BY FS_Singleton, FS_EmptySet
    <3> HIDE DEF completed
    <3> QED
      BY <2>2, <3>4, <3>5, <3>6
  <2> QED
    BY <2>1, <2>2
<1> QED
  BY <1>1, <1>8 DEF RecordedOnce, Configured, Enabled, LevelOf

LEMMA RecordedStep == IInv /\ [Next]_vars => RecordedOnce'
<1> SUFFICES ASSUME IInv, [Next]_vars PROVE RecordedOnce'
  OBVIOUS
<1>0. TypeOK /\ RecordedOnce
  BY DEF IInv
<1>1. applied' = applied \/ undisturbed' = {}
  BY SettingsHold
<1>2. ASSUME UNCHANGED <<pc, result, records>>, undisturbed' \subseteq undisturbed
      PROVE  RecordedOnce'
  BY <1>0, <1>1, <1>2, RecordedFrame
<1>3. CASE UNCHANGED vars \/ Finished \/ \E t, child \in Tasks : CreateTask(t, child)
  BY <1>2, <1>3 DEF vars, Finished, CreateTask, callVars, output
<1>4. CASE ConfigStep
  BY <1>2, <1>4, ConfiguringLeavesCalls DEF callVars, output
<1>5. ASSUME NEW c \in Calls, NEW t \in Tasks, CallStep(c, t) PROVE RecordedOnce'
  <2>1. ASSUME NEW there, pc' = [pc EXCEPT ![c] = there], UNCHANGED records,
               undisturbed' \subseteq undisturbed \cup {c},
               there = "emitted" => c \notin undisturbed',
               \A d \in Calls \ {c} : result'[d] = result[d]
        PROVE  RecordedOnce'
    <3>1. \A d \in undisturbed' : d # c =>
            d \in Calls /\ d \in undisturbed /\ pc'[d] = pc[d] /\ result'[d] = result[d]
      BY <1>0, <2>1 DEF TypeOK
    <3>2. pc'[c] = there
      BY <1>0, <2>1 DEF TypeOK
    <3> QED
      BY <1>0, <1>1, <2>1, <3>1, <3>2, RecordedFrame
  <2>2. CASE Invoke(c, t)
    BY <2>1, <2>2 DEF Invoke, Goto, output
  <2>3. CASE ResolveLogging(c, t)
    BY <2>1, <2>3 DEF ResolveLogging, Goto, output
  <2>4. CASE EnterUntraced(c, t) \/ \E valid \in BOOLEAN : EnterSpan(c, t, valid)
    BY <2>1, <2>4 DEF EnterUntraced, EnterSpan, Goto, output
  <2>5. CASE EnterLogging(c, t)
    BY <2>1, <2>5 DEF EnterLogging, Goto, output
  <2>6. ASSUME NEW outcome \in Outcomes, Outcome(c, t, outcome) PROVE RecordedOnce'
    <3>1. \A d \in Calls \ {c} : result'[d] = result[d]
      BY <1>0, <2>6 DEF Outcome, TypeOK
    <3> QED
      BY <2>1, <2>6, <3>1 DEF Outcome, Goto, output
  <2>7. CASE \E retried \in BOOLEAN : Emit(c, t, retried)
    BY <2>7, EmitRecordsOnce
  <2>8. CASE EmitFails(c, t)
    BY <2>1, <2>8 DEF EmitFails, Goto, output
  <2>9. CASE Report(c, t) \/ ReportFails(c, t)
    BY <2>1, <2>9 DEF Report, ReportFails, Leave, Goto
  <2> QED
    BY <1>5, <2>2, <2>3, <2>4, <2>5, <2>6, <2>7, <2>8, <2>9 DEF CallStep, Outcomes
<1> QED
  BY <1>3, <1>4, <1>5 DEF Next

-----------------------------------------------------------------------------
(***************************************************************************)
(* Reports.                                                                *)
(***************************************************************************)
LEMMA ReportFrame ==
    ASSUME ReportInv, SpanInv', UNCHANGED reports,
           \A i \in 1..Len(reports) : LET d == reports[i].call IN
               pc[d] = "done" => pc'[d] = "done" /\ selected'[d] = selected[d] /\ result'[d] = result[d],
           DOMAIN reports = 1..Len(reports)
    PROVE  ReportInv'
BY DEF ReportInv, ReportedOnce, SpanInv

LEMMA ReportAdds ==
    ASSUME TypeOK, RecordInv, ReportInv, SpanInv', NEW c \in Calls, NEW t \in Tasks, Report(c, t)
    PROVE  ReportInv'
<1>1. /\ pc[c] = "emitted" /\ pc' = [pc EXCEPT ![c] = "done"]
      /\ UNCHANGED <<selected, result>>
  BY DEF Report, Leave, At, Goto
<1>2. /\ Len(reports) \in Nat /\ DOMAIN reports = 1..Len(reports)
      /\ \A i \in 1..Len(reports) : reports[i].call # c /\ pc'[reports[i].call] = "done"
  BY <1>1 DEF TypeOK, ReportInv
<1>3. CASE selected[c] \notin Metrics
  BY <1>1, <1>2, <1>3, ReportFrame DEF Report
<1>4. CASE selected[c] \in Metrics
  <2> DEFINE r == [call |-> c, to |-> selected[c], outcome |-> result[c]]
             n == Len(reports)
  <2>1. r \in Reports /\ reports \in Seq(Reports)
    BY DEF TypeOK, RecordInv, Report, At, Reports
  <2>2. r.call = c /\ r.to = selected[c] /\ r.outcome = result[c]
    OBVIOUS
  <2>3. reports' = Append(reports, r)
    BY <1>4 DEF Report
  <2> HIDE DEF r
  <2>4. /\ reports' \in Seq(Reports) /\ Len(reports') = n + 1 /\ reports'[n + 1] = r
        /\ \A i \in 1..n : reports'[i] = reports[i]
    BY <2>1, <2>3, PushFacts
  <2>5. DOMAIN reports' = 1..(n + 1)
    BY <2>4
  <2> HIDE DEF n
  <2>6. \A i \in 1..(n + 1) : i \in 1..n \/ i = n + 1
    BY <1>2 DEF n
  <2>7. ASSUME NEW i \in 1..(n + 1)
        PROVE  /\ pc'[reports'[i].call] = "done"
               /\ reports'[i].to = selected'[reports'[i].call]
               /\ reports'[i].outcome = result'[reports'[i].call]
    <3>1. CASE i \in 1..n
      <4>1. reports[i].to = selected[reports[i].call] /\ reports[i].outcome = result[reports[i].call]
        BY <1>2, <3>1 DEF n, ReportInv, ReportedOnce
      <4> QED
        BY <1>1, <1>2, <2>4, <3>1, <4>1 DEF n
    <3>2. CASE i = n + 1
      <4>1. pc'[c] = "done" /\ reports'[i] = r
        BY <1>1, <2>4, <3>2 DEF TypeOK
      <4> QED
        BY <1>1, <2>2, <4>1
    <3> QED
      BY <2>6, <3>1, <3>2
  <2>8. ASSUME NEW i \in 1..(n + 1), NEW j \in 1..(n + 1), reports'[i].call = reports'[j].call
        PROVE  i = j
    BY <1>2, <2>2, <2>4, <2>6, <2>8 DEF n, ReportInv, ReportedOnce
  <2> QED
    BY <2>4, <2>5, <2>7, <2>8 DEF ReportInv, ReportedOnce, SpanInv
<1> QED
  BY <1>3, <1>4

LEMMA ReportStep == IInv /\ [Next]_vars => ReportInv'
<1> SUFFICES ASSUME IInv, [Next]_vars PROVE ReportInv'
  OBVIOUS
<1>0. TypeOK /\ RecordInv /\ ReportInv /\ SpanInv' /\ DOMAIN reports = 1..Len(reports)
  BY SpanStep DEF IInv, TypeOK
<1>1. CASE UNCHANGED <<pc, selected, result, reports>>
  BY <1>0, <1>1, ReportFrame
<1>2. CASE ConfigStep \/ Finished \/ UNCHANGED vars \/ \E t, child \in Tasks : CreateTask(t, child)
  BY <1>1, <1>2, ConfiguringLeavesCalls DEF Finished, vars, callVars, output, CreateTask
<1>3. ASSUME NEW c \in Calls, NEW t \in Tasks, CallStep(c, t) PROVE ReportInv'
  <2>1. ASSUME UNCHANGED reports, pc[c] # "done",
               \A d \in Calls \ {c} : /\ pc'[d] = pc[d] /\ selected'[d] = selected[d]
                                      /\ result'[d] = result[d]
        PROVE  ReportInv'
    <3>1. \A i \in 1..Len(reports) : reports[i].call \in Calls
      <4> SUFFICES ASSUME NEW i \in 1..Len(reports) PROVE reports[i].call \in Calls
        OBVIOUS
      <4>1. reports[i] \in Reports
        BY <1>0, ElementOfSeq DEF TypeOK
      <4> QED
        BY <4>1 DEF Reports
    <3> QED
      BY <1>0, <2>1, <3>1, ReportFrame
  <2>2. CASE Report(c, t)
    BY <1>0, <2>2, ReportAdds
  <2>3. CASE ~Report(c, t)
    <3>1. pc[c] # "done" /\ UNCHANGED reports
      BY <1>3, <2>3 DEF CallStep, Invoke, ResolveLogging, EnterUntraced, EnterSpan, EnterLogging,
           Outcome, Emit, EmitFails, ReportFails, At, output
    <3>2. \A d \in Calls \ {c} : pc'[d] = pc[d]
      BY <1>0, <1>3, CallStepKinds DEF Invoke, Advance, Leave, Goto, TypeOK
    <3>3. \A d \in Calls \ {c} : selected'[d] = selected[d] /\ result'[d] = result[d]
      BY <1>0, <1>3 DEF CallStep, Invoke, ResolveLogging, EnterUntraced, EnterSpan, EnterLogging,
           Outcome, Emit, EmitFails, Report, ReportFails, Leave, TypeOK
    <3> QED
      BY <2>1, <3>1, <3>2, <3>3
  <2> QED
    BY <2>2, <2>3
<1> QED
  BY <1>2, <1>3 DEF Next

-----------------------------------------------------------------------------
LEMMA Invariant == Spec => []IInv
<1>1. Init => IInv
  BY InitInv
<1>2. IInv /\ [Next]_vars => IInv'
  BY TypeStep, LockStep, StackStep, SpanStep, RecordStep, LoggedStep, RecordedStep, ReportStep
     DEF IInv
<1> QED
  BY <1>1, <1>2, PTL DEF Spec

(***************************************************************************)
(* Settings, contexts, calls, records and reports keep their types.        *)
(***************************************************************************)
THEOREM ObserversKeepTheirTypes == Spec => []TypeOK
<1>1. IInv => TypeOK
  BY DEF IInv
<1> QED
  BY <1>1, Invariant, PTL

(***************************************************************************)
(* "Each concurrent operation keeps its own span context": however         *)
(* operations nest, fail or are cancelled and tasks start tasks, a task's  *)
(* trace is that of its innermost operation with a span, and an            *)
(* operation's records carry it.                                           *)
(***************************************************************************)
THEOREM TracesAreOwn == Spec => []TraceIsOwn
<1>1. IInv => TraceIsOwn
  <2> SUFFICES ASSUME IInv PROVE TraceIsOwn
    OBVIOUS
  <2>1. \A t \in Tasks : trace[t] = InForce(t)
    BY InForceIsMax DEF IInv, SpanInv
  <2>2. DOMAIN records = 1..Len(records)
    BY DEF IInv, TypeOK
  <2> QED
    BY <2>1, <2>2 DEF TraceIsOwn, IInv, RecordInv
<1> QED
  BY <1>1, Invariant, PTL

(***************************************************************************)
(* An operation that ran under one logging configuration has exactly one   *)
(* completion record, of its outcome, if its level is enabled, and none    *)
(* otherwise, although three steps read the level.                         *)
(***************************************************************************)
THEOREM CompletionIsRecordedOnce == Spec => []RecordedOnce
<1>1. IInv => RecordedOnce
  BY DEF IInv
<1> QED
  BY <1>1, Invariant, PTL

(***************************************************************************)
(* An operation is reported at most once, to the observer it was invoked   *)
(* under, and its span is over with it.                                    *)
(***************************************************************************)
THEOREM OperationIsReportedOnce == Spec => []ReportedOnce
<1>1. IInv => ReportedOnce
  BY DEF IInv, ReportInv
<1> QED
  BY <1>1, Invariant, PTL

(***************************************************************************)
(* Threads that configure logging at once leave the settings of one.       *)
(***************************************************************************)
THEOREM SettingsNeverMix == Spec => []SettingsAreOne
<1>1. IInv => SettingsAreOne
  BY DEF IInv, LockInv, TypeOK, SettingsAreOne
<1> QED
  BY <1>1, Invariant, PTL
=============================================================================
