-------------------------- MODULE Middleware_proofs --------------------------
(***************************************************************************)
(* The middleware chain and the attempt record, for any length, any tasks, *)
(* any limit and any number of attempts.                                   *)
(***************************************************************************)
EXTENDS Middleware, FiniteSetTheorems, TLAPS

Depth == top[Caller]

(***************************************************************************)
(* The chain.  Only the innermost middleware has an unused continuation:   *)
(* every frame below it has used its own, and what was used is a prefix of *)
(* the chain, so nothing is dispatched twice and the native call, which    *)
(* takes the last continuation, is made once.                              *)
(***************************************************************************)
ChainTypeOK ==
    /\ top \in [Tasks -> 0..NativeCall]
    /\ below \in [1..NativeCall -> 0..NativeCall]
    /\ active \subseteq Chain /\ used \subseteq Chain
    /\ task \in [Chain -> {Caller, NoTask}]
    /\ outcome \in {"open", "native", "typed", "error"}

ChainInv ==
    /\ ChainTypeOK
    /\ Nested
    /\ \A i \in active : task[i] = Caller
    /\ \A i \in Chain : i < Depth => i \in used
    /\ \A i \in Chain, j \in used : i < j => i \in used

(***************************************************************************)
(* The native call: made with the last continuation, awaited once.         *)
(***************************************************************************)
CallInv ==
    /\ sent \in 0..1
    /\ sent = 0 <=> native = "none"
    /\ sent = 1 => N \in used
    /\ Depth = NativeCall => sent = 1 /\ ~metadata.dispatched
    /\ metadata.dispatched => sent = 1
    /\ produced => metadata.dispatched /\ metadata.error = "none"
    /\ outcome = "native" => produced

(***************************************************************************)
(* The record: attempts are numbered as they are made, the list is within  *)
(* its limit, and what was published is final.                             *)
(***************************************************************************)
RecordInv ==
    /\ native \in {"none", "published", "dropped"} \cup InFlight
    /\ made \in AttemptNumbers /\ started \in BOOLEAN
    /\ answered \in {0, made}
    /\ attempts \subseteq 1..made
    /\ Cardinality(attempts) <= MaxRecorded
    /\ native = "attempt" => made # 0
    /\ raw = IF native = "published" THEN Published ELSE NothingPublished

\* The metadata is the initial one, or what was published, if anything.
MetadataInv ==
    \/ metadata = NotDispatched
    \/ \E error \in {"none", "error", "cancelled"} :
        metadata \in {[dispatched |-> TRUE, count |-> p.count, attempts |-> p.attempts,
                      truncated |-> p.truncated, answered |-> p.answered,
                      error |-> error] : p \in {raw, NothingPublished}}

IInv == ChainInv /\ CallInv /\ RecordInv /\ MetadataInv /\ produced \in BOOLEAN

-----------------------------------------------------------------------------
(***************************************************************************)
(* A set of attempts that is as large as their number has them all.        *)
(***************************************************************************)
LEMMA AllListed ==
    ASSUME NEW n \in Nat, NEW S \in SUBSET (1..n)
    PROVE  /\ IsFiniteSet(S) /\ Cardinality(S) \in Nat
           /\ ~(n > Cardinality(S)) => S = 1..n
<1>1. IsFiniteSet(1..n) /\ Cardinality(1..n) = n
  BY FS_Interval
<1>2. /\ IsFiniteSet(S) /\ Cardinality(S) <= Cardinality(1..n)
      /\ Cardinality(S) = Cardinality(1..n) => S = 1..n
  BY <1>1, FS_Subset
<1>3. Cardinality(S) \in Nat
  BY <1>2, FS_CardinalityType
<1> QED
  BY <1>1, <1>2, <1>3

(***************************************************************************)
(* Adding one attempt adds one to the length of the list.                  *)
(***************************************************************************)
LEMMA OneMore ==
    ASSUME NEW n \in Nat, NEW S \in SUBSET (1..n), NEW e
    PROVE  Cardinality(S \cup {e}) <= Cardinality(S) + 1
<1>1. IsFiniteSet(S) /\ Cardinality(S) \in Nat
  BY AllListed
<1>2. Cardinality(S \cup {e}) = IF e \in S THEN Cardinality(S) ELSE Cardinality(S) + 1
  BY <1>1, FS_AddElement
<1> QED
  BY <1>1, <1>2

LEMMA InitInv == Init => IInv
<1> SUFFICES ASSUME Init PROVE IInv
  OBVIOUS
<1>1. Cardinality({}) = 0
  BY FS_EmptySet
<1> USE ChainAssumption DEF ChainAssumption, Init
<1>2. ChainInv
  BY DEF ChainInv, ChainTypeOK, Nested, Depth, Chain, NativeCall
<1>3. CallInv
  BY DEF CallInv, Depth, NativeCall, NotDispatched
<1>4. RecordInv
  <2>1. attempts = {} /\ Cardinality(attempts) <= MaxRecorded /\ attempts \subseteq 1..made
    BY <1>1
  <2>2. made \in AttemptNumbers /\ answered \in {0, made}
    BY DEF AttemptNumbers
  <2>3. native = "none" /\ raw = NothingPublished /\ started \in BOOLEAN
    BY Zenon
  <2> HIDE DEF Init
  <2> QED
    BY <2>1, <2>2, <2>3 DEF RecordInv
<1>5. MetadataInv
  BY DEF MetadataInv
<1> QED
  BY <1>2, <1>3, <1>4, <1>5 DEF IInv

(***************************************************************************)
(* The chain under dispatch: what the innermost frame dispatches is the    *)
(* next of the chain, and it goes on top.                                  *)
(***************************************************************************)
LEMMA ContinuationInnermost ==
    ASSUME ChainInv, CallInv, NEW t \in Tasks, NEW i \in Known, top[t] # NativeCall,
           CallNext(t, i)
    PROVE  /\ t = Caller /\ Depth = i /\ outcome = "open" /\ sent = 0
           /\ used' = used \cup {i} /\ i + 1 \notin used
<1> USE ChainAssumption DEF ChainAssumption
<1>1. i \in Chain /\ i \in active /\ i \notin used /\ t = task[i]
  BY DEF CallNext, Known
<1>2. t = Caller
  BY <1>1 DEF ChainInv
<1>3. Depth \in 0..NativeCall /\ i <= Depth /\ ~(i < Depth)
  BY <1>1 DEF ChainInv, ChainTypeOK, Nested, Depth
<1>4. Depth = i
  BY <1>1, <1>3 DEF Chain, NativeCall
<1>5. outcome = "open"
  BY <1>1, <1>4 DEF ChainInv, Nested, Depth, Chain
<1>6. i + 1 \notin used
  BY <1>1 DEF ChainInv, Chain
<1>7. N \notin used
  BY <1>1 DEF ChainInv, Chain
<1>8. sent = 0
  BY <1>7 DEF CallInv
<1>9. used' = used \cup {i}
  BY <1>1, <1>6 DEF CallNext, Chain
<1> QED
  BY <1>2, <1>4, <1>5, <1>6, <1>8, <1>9

(***************************************************************************)
(* Every step keeps the invariant, one kind of step at a time.             *)
(***************************************************************************)
LEMMA StartStep == ASSUME IInv, Start PROVE IInv'
<1> USE ChainAssumption DEF ChainAssumption
<1>1. 1 \in Chain /\ 1 # NativeCall /\ Known = {} /\ outcome = "open"
  BY DEF Start, Chain, NativeCall
<1>2. active = {} /\ Depth = 0
  BY <1>1 DEF IInv, ChainInv, ChainTypeOK, Nested, Known, Depth, Chain, NativeCall
<1>3. /\ top' = [top EXCEPT ![Caller] = 1] /\ below' = [below EXCEPT ![1] = 0]
      /\ active' = {1} /\ task' = [task EXCEPT ![1] = Caller]
      /\ UNCHANGED <<used, recordVars, raw, metadata, produced, outcome, native, sent>>
  BY <1>2 DEF Start, DispatchMiddleware, Push, Depth
<1>4. Depth' = 1
  BY <1>3 DEF IInv, ChainInv, ChainTypeOK, Depth
<1>5. ChainInv'
  <2>1. ChainTypeOK'
    BY <1>1, <1>3 DEF IInv, ChainInv, ChainTypeOK, NativeCall, Chain
  <2>2. Nested'
    BY <1>1, <1>2, <1>3 DEF IInv, ChainInv, ChainTypeOK, Nested, Depth, NativeCall, Chain
  <2> QED
    BY <1>1, <1>3, <1>4, <2>1, <2>2 DEF IInv, ChainInv, ChainTypeOK, Chain
<1>6. CallInv'
  BY <1>1, <1>3, <1>4 DEF IInv, CallInv
<1> QED
  BY <1>3, <1>5, <1>6 DEF IInv, RecordInv, MetadataInv, recordVars, Published

LEMMA CallNextStep ==
    ASSUME IInv, NEW t \in Tasks, NEW i \in Known, top[t] # NativeCall, CallNext(t, i)
    PROVE  IInv'
<1> USE ChainAssumption DEF ChainAssumption
<1>1. /\ t = Caller /\ Depth = i /\ outcome = "open" /\ sent = 0
      /\ used' = used \cup {i} /\ i + 1 \notin used
  BY ContinuationInnermost DEF IInv
<1>2. i \in Chain /\ i \in 1..N /\ top[Caller] = i
  BY <1>1 DEF Known, Chain, Depth
<1>3. UNCHANGED <<recordVars, raw, metadata, produced, outcome>>
  BY DEF CallNext
<1>4. CASE DispatchMiddleware(t, i + 1)
  <2>1. /\ i + 1 \in Chain
        /\ top' = [top EXCEPT ![Caller] = i + 1] /\ below' = [below EXCEPT ![i + 1] = i]
        /\ active' = active \cup {i + 1} /\ task' = [task EXCEPT ![i + 1] = Caller]
        /\ UNCHANGED <<native, sent>>
    BY <1>1, <1>2, <1>4 DEF DispatchMiddleware, Push
  <2>2. Depth' = i + 1
    BY <2>1 DEF IInv, ChainInv, ChainTypeOK, Depth
  <2>3. ChainTypeOK'
    BY <1>1, <1>2, <1>3, <2>1 DEF IInv, ChainInv, ChainTypeOK, NativeCall, Chain
  <2>4. active' = {k \in Chain : k <= i + 1}
    BY <1>2, <2>1 DEF IInv, ChainInv, Nested, Chain
  <2>5. Nested'
    BY <1>1, <1>2, <1>3, <2>1, <2>2, <2>4
       DEF IInv, ChainInv, ChainTypeOK, Nested, Depth, NativeCall, Chain
  <2>6. ChainInv'
    BY <1>1, <1>2, <2>1, <2>2, <2>3, <2>5 DEF IInv, ChainInv, ChainTypeOK, Depth, Chain
  <2>7. CallInv'
    BY <1>1, <1>3, <2>1, <2>2 DEF IInv, CallInv, Chain, NativeCall
  <2> QED
    BY <1>3, <2>1, <2>6, <2>7 DEF IInv, RecordInv, MetadataInv, recordVars, Published
<1>5. CASE DispatchNative(t, i + 1)
  <2>1. /\ i = N
        /\ top' = [top EXCEPT ![Caller] = NativeCall]
        /\ below' = [below EXCEPT ![NativeCall] = N]
        /\ native' = "called" /\ sent' = 1
        /\ UNCHANGED <<active, task>>
    <3>1. i + 1 = NativeCall /\ i = N
      BY <1>2, <1>5 DEF DispatchNative, NativeCall
    <3>2. native' = "called" /\ sent' = 1 /\ UNCHANGED <<active, task>>
      BY <1>1, <1>5 DEF DispatchNative
    <3>3. /\ top' = [top EXCEPT ![t] = i + 1]
          /\ below' = [below EXCEPT ![i + 1] = top[t]]
      BY <1>5 DEF DispatchNative, Push
    <3> QED
      BY <1>1, <1>2, <3>1, <3>2, <3>3, Zenon
  <2>2. Depth' = NativeCall
    BY <2>1 DEF IInv, ChainInv, ChainTypeOK, Depth
  <2>3. ChainTypeOK'
    BY <1>1, <1>2, <1>3, <2>1 DEF IInv, ChainInv, ChainTypeOK, NativeCall, Chain
  <2>4. Nested'
    BY <1>1, <1>2, <1>3, <2>1, <2>2
       DEF IInv, ChainInv, ChainTypeOK, Nested, Depth, NativeCall, Chain
  <2>5. ChainInv'
    BY <1>1, <1>2, <2>1, <2>2, <2>3, <2>4
       DEF IInv, ChainInv, ChainTypeOK, Depth, Chain, NativeCall
  <2>6. CallInv'
    BY <1>1, <1>3, <2>1, <2>2 DEF IInv, CallInv
  <2>7. native = "none"
    BY <1>1 DEF IInv, CallInv
  <2>8. RecordInv'
    BY <1>3, <2>1, <2>7 DEF IInv, RecordInv, recordVars, InFlight, Published
  <2> QED
    BY <1>3, <2>5, <2>6, <2>8 DEF IInv, MetadataInv
<1>6. CASE DispatchRefused
  <2>1. UNCHANGED <<top, below, active, task, native, sent>>
    BY <1>6 DEF DispatchRefused
  <2>2. ChainInv'
    BY <1>1, <1>2, <1>3, <2>1 DEF IInv, ChainInv, ChainTypeOK, Nested, Depth, Chain
  <2>3. CallInv'
    BY <1>1, <1>3, <2>1 DEF IInv, CallInv, Depth
  <2> QED
    BY <1>3, <2>1, <2>2, <2>3 DEF IInv, RecordInv, MetadataInv, recordVars, Published
<1> QED
  BY <1>4, <1>5, <1>6 DEF CallNext

\* The innermost middleware ends, however it does.
Ends(t, i, result) ==
    /\ Pop(t, i)
    /\ active' = active \ {i}
    /\ Decide(i, result)
    /\ UNCHANGED <<below, used, task, native, recordVars, raw, metadata, produced, sent>>

LEMMA EndsStep ==
    ASSUME IInv, NEW t \in Tasks, top[t] \in Chain, NEW result \in {"native", "typed", "error"},
           Ends(t, top[t], result), result = "native" => produced
    PROVE  IInv'
<1> USE ChainAssumption DEF ChainAssumption
<1>1. t = Caller
  BY DEF IInv, ChainInv, Nested, Chain
<1> DEFINE i == top[Caller]
<1>2. i \in Chain /\ i \in 1..N /\ Depth = i /\ below[i] = i - 1
  BY <1>1 DEF IInv, ChainInv, Nested, Chain, Depth
<1>3. /\ top' = [top EXCEPT ![Caller] = i - 1]
      /\ active' = active \ {i}
      /\ outcome' = IF i = 1 THEN result ELSE outcome
      /\ UNCHANGED <<below, used, task, native, recordVars, raw, metadata, produced, sent>>
  BY <1>1, <1>2 DEF Ends, Pop, Decide
<1>4. Depth' = i - 1
  BY <1>3 DEF IInv, ChainInv, ChainTypeOK, Depth
<1>5. outcome = "open"
  BY <1>2 DEF IInv, ChainInv, Nested, Depth, Chain
<1>6. ChainTypeOK'
  <2>1. outcome' \in {"open", "native", "typed", "error"}
    BY <1>3, <1>5
  <2>2. i - 1 \in 0..NativeCall
    BY <1>2 DEF NativeCall
  <2>3. top' \in [Tasks -> 0..NativeCall]
    BY <1>3, <2>2 DEF IInv, ChainInv, ChainTypeOK
  <2> QED
    BY <1>3, <2>1, <2>3 DEF IInv, ChainInv, ChainTypeOK
<1>7. active' = {k \in Chain : k <= i - 1}
  BY <1>2, <1>3 DEF IInv, ChainInv, Nested, Chain
<1>8. Nested'
  BY <1>2, <1>3, <1>4, <1>5, <1>7
     DEF IInv, ChainInv, ChainTypeOK, Nested, Depth, NativeCall, Chain
<1>9. ChainInv'
  BY <1>2, <1>3, <1>4, <1>6, <1>8 DEF IInv, ChainInv, ChainTypeOK, Depth, Chain
<1>10. CallInv'
  BY <1>2, <1>3, <1>4, <1>5 DEF IInv, CallInv, NativeCall
<1> QED
  BY <1>3, <1>9, <1>10 DEF IInv, RecordInv, MetadataInv, recordVars, Published

LEMMA AwaitEndsStep ==
    ASSUME IInv, NEW t \in Tasks, NEW error \in {"none", "error", "cancelled"},
           NativeAwaitEnds(t, error)
    PROVE  IInv'
<1> USE ChainAssumption DEF ChainAssumption
<1>1. t = Caller /\ Depth = NativeCall /\ top[Caller] = NativeCall
  BY DEF IInv, ChainInv, Nested, NativeAwaitEnds, NativeCall, Depth
<1>2. below[NativeCall] = N
  BY <1>1 DEF IInv, ChainInv, Nested, NativeCall
<1>3. /\ top' = [top EXCEPT ![Caller] = N]
      /\ metadata' = Metadata(error)
      /\ produced' = (error = "none")
      /\ UNCHANGED <<below, active, used, task, native, recordVars, raw, outcome, sent>>
  BY <1>1, <1>2 DEF NativeAwaitEnds, Pop
<1>4. Depth' = N
  BY <1>3 DEF IInv, ChainInv, ChainTypeOK, Depth
<1>5. outcome = "open"
  BY <1>1 DEF IInv, ChainInv, Nested, Depth, NativeCall
<1>6. ChainTypeOK'
  BY <1>3 DEF IInv, ChainInv, ChainTypeOK, NativeCall, Chain
<1>7. active = Chain
  BY <1>1 DEF IInv, ChainInv, Nested, NativeCall, Chain
<1>8. Nested'
  BY <1>1, <1>3, <1>4, <1>5, <1>7
     DEF IInv, ChainInv, ChainTypeOK, Nested, Depth, NativeCall, Chain
<1>9. ChainInv'
  BY <1>1, <1>3, <1>4, <1>6, <1>8
     DEF IInv, ChainInv, ChainTypeOK, Depth, Chain, NativeCall
<1>10. metadata'.dispatched /\ metadata'.error = error
  BY <1>3 DEF Metadata, NotDispatched
<1>11. CallInv'
  BY <1>1, <1>3, <1>4, <1>5, <1>10 DEF IInv, CallInv, NativeCall
<1>12. MetadataInv'
  BY <1>3 DEF MetadataInv, Metadata
<1>13. RecordInv'
  BY <1>3 DEF IInv, RecordInv, recordVars, Published
<1>14. produced' \in BOOLEAN
  BY <1>3
<1> QED
  BY <1>9, <1>11, <1>12, <1>13, <1>14 DEF IInv

(***************************************************************************)
(* The native side leaves the chain and the metadata alone, and nothing    *)
(* that was published changes, because it publishes when it is over.       *)
(***************************************************************************)
LEMMA NativeSideStep ==
    ASSUME IInv, NativeStep
    PROVE  IInv'
<1> USE ChainAssumption DEF ChainAssumption
<1>1. native \in InFlight /\ native # "published" /\ native # "none" /\ raw = NothingPublished
  BY DEF NativeStep, ClientReady, BeforeAttempt, AfterAttempt, AttemptTimedOut, SendOver,
         Publish, NativeDropped, InFlight, IInv, RecordInv
<1>2. UNCHANGED <<chainVars, metadata, produced, outcome, sent>> /\ native' # "none"
  BY DEF NativeStep, ClientReady, BeforeAttempt, AfterAttempt, AttemptTimedOut, SendOver,
         Publish, NativeDropped, NativeOnly
<1>3. ChainInv'
  BY <1>2 DEF IInv, ChainInv, ChainTypeOK, Nested, Depth, chainVars
<1>4. CallInv'
  BY <1>1, <1>2 DEF IInv, CallInv, Depth, chainVars
<1>5. MetadataInv'
  BY <1>1, <1>2 DEF IInv, MetadataInv
<1>6. made \in Nat /\ MaxAttempts \in Nat /\ attempts \subseteq 1..made
  BY DEF IInv, RecordInv, AttemptNumbers
<1>7. RecordInv'
  <2> USE <1>1 DEF IInv, RecordInv, InFlight, NativeOnly, recordVars, AttemptNumbers, Published
  <2>1. CASE ClientReady \/ AttemptTimedOut \/ SendOver \/ NativeDropped
    BY <2>1 DEF ClientReady, AttemptTimedOut, SendOver, NativeDropped
  <2>2. CASE BeforeAttempt
    <3>1. made' = made + 1 /\ made' \in AttemptNumbers /\ attempts' \subseteq 1..made'
      BY <1>6, <2>2 DEF BeforeAttempt
    <3> QED
      BY <2>2, <3>1 DEF BeforeAttempt
  <2>3. ASSUME NEW response \in BOOLEAN, AfterAttempt(response)
        PROVE  RecordInv'
    <3>1. made # 0 => attempts \cup {made} \subseteq 1..made
      BY <1>6
    <3>2. Cardinality(attempts) \in Nat
      BY <1>6, AllListed
    <3>3. Cardinality(attempts \cup {made}) <= Cardinality(attempts) + 1
      BY <1>6, OneMore
    <3>4. Cardinality(attempts \cup {made}) \in Nat
      <4>1. IsFiniteSet(attempts)
        BY <1>6, AllListed
      <4>2. IsFiniteSet(attempts \cup {made})
        BY <4>1, FS_AddElement
      <4> QED
        BY <4>2, FS_CardinalityType
    <3>5. /\ attempts' \in {attempts, attempts \cup {made}}
          /\ attempts' # attempts => Cardinality(attempts) < MaxRecorded
      BY <2>3 DEF AfterAttempt
    <3>6. made' = made /\ raw' = raw /\ native' = "between" /\ made # 0
      BY <2>3 DEF AfterAttempt
    <3>7. attempts' \subseteq 1..made' /\ Cardinality(attempts') <= MaxRecorded
      <4>1. CASE attempts' = attempts
        BY <3>6, <4>1
      <4>2. CASE attempts' # attempts
        <5>1. attempts' = attempts \cup {made} /\ Cardinality(attempts) < MaxRecorded
          BY <3>5, <4>2
        <5>2. Cardinality(attempts \cup {made}) <= MaxRecorded
          BY <3>2, <3>3, <3>4, <5>1
        <5> QED
          BY <3>1, <3>6, <5>1, <5>2
      <4> QED
        BY <4>1, <4>2
    <3>8. answered' \in {0, made'}
      <4>1. answered' = made \/ answered' = answered
        BY <2>3, Zenon DEF AfterAttempt
      <4> QED
        BY <4>1, <3>6
    <3>9. started' \in BOOLEAN
      BY <2>3, Zenon DEF AfterAttempt
    <3> QED
      BY <3>6, <3>7, <3>8, <3>9, <1>1
  <2>4. CASE Publish
    BY <2>4 DEF Publish
  <2> HIDE DEF IInv, RecordInv, InFlight, NativeOnly, recordVars, AttemptNumbers, Published
  <2> QED
    BY <2>1, <2>2, <2>3, <2>4, Zenon DEF NativeStep
<1> QED
  BY <1>2, <1>3, <1>4, <1>5, <1>7 DEF IInv

LEMMA StutterStep == ASSUME IInv, UNCHANGED vars PROVE IInv'
BY DEF IInv, ChainInv, ChainTypeOK, Nested, Depth, CallInv, RecordInv, MetadataInv, Published,
       vars, chainVars, recordVars

LEMMA InvStep == IInv /\ [Next]_vars => IInv'
<1> SUFFICES ASSUME IInv, [Next]_vars PROVE IInv'
  OBVIOUS
<1>1. CASE UNCHANGED vars
  BY <1>1, StutterStep
<1>2. CASE Start
  BY <1>2, StartStep
<1>3. CASE NativeStep
  BY <1>3, NativeSideStep
<1>4. CASE Finished
  BY <1>4, StutterStep DEF Finished
<1>5. ASSUME NEW t \in Tasks, TaskStep(t)
      PROVE  IInv'
  <2>1. ASSUME NEW i \in Known, top[t] # NativeCall, CallNext(t, i)
        PROVE  IInv'
    BY <2>1, CallNextStep
  <2>2. ASSUME top[t] \in Chain, NEW r \in Responses, Return(t, top[t], r)
        PROVE  IInv'
    <3> DEFINE result == IF Valid(r) THEN r ELSE "error"
    <3>1. /\ result \in {"native", "typed", "error"}
          /\ result = "native" => produced
      BY <2>2 DEF Return, Valid
    <3>2. Ends(t, top[t], result)
      BY <2>2 DEF Return, Ends
    <3> QED
      BY <2>2, <3>1, <3>2, EndsStep
  <2>3. ASSUME top[t] \in Chain, Raise(t, top[t])
        PROVE  IInv'
    <3>1. Ends(t, top[t], "error")
      BY <2>3 DEF Raise, Ends
    <3> QED
      BY <2>3, <3>1, EndsStep
  <2>4. ASSUME NEW error \in {"none", "error", "cancelled"}, NativeAwaitEnds(t, error)
        PROVE  IInv'
    BY <2>4, AwaitEndsStep
  <2> QED
    BY <1>5, <2>1, <2>2, <2>3, <2>4 DEF TaskStep
<1> QED
  BY <1>1, <1>2, <1>3, <1>4, <1>5 DEF Next

LEMMA Invariant == Spec => []IInv
BY InitInv, InvStep, PTL DEF Spec

(***************************************************************************)
(* What the record and the metadata hold is in range.                      *)
(***************************************************************************)
LEMMA RecordTypes ==
    ASSUME IInv
    PROVE  /\ attempts \in SUBSET AttemptNumbers
           /\ raw \in [count : AttemptNumbers \cup {Unknown}, attempts : SUBSET AttemptNumbers,
                       truncated : BOOLEAN, answered : AttemptNumbers]
           /\ metadata \in [dispatched : BOOLEAN, count : AttemptNumbers \cup {Unknown},
                            attempts : SUBSET AttemptNumbers, truncated : BOOLEAN,
                            answered : AttemptNumbers, error : {"none", "error", "cancelled"}]
<1> USE ChainAssumption DEF ChainAssumption, AttemptNumbers
<1> DEFINE Publication ==
             [count : AttemptNumbers \cup {Unknown}, attempts : SUBSET AttemptNumbers,
              truncated : BOOLEAN, answered : AttemptNumbers]
<1>1. /\ made \in AttemptNumbers /\ answered \in AttemptNumbers
      /\ attempts \in SUBSET AttemptNumbers
  BY DEF IInv, RecordInv
<1>2. (made > Cardinality(attempts)) \in BOOLEAN
  OBVIOUS
<1>3. Published \in Publication
  BY <1>1, <1>2 DEF Published
<1>4. NothingPublished \in Publication
  BY DEF NothingPublished
<1>5. raw \in Publication
  BY <1>3, <1>4 DEF IInv, RecordInv
<1>6. CASE metadata = NotDispatched
  BY <1>1, <1>5, <1>6 DEF NotDispatched
<1>7. CASE metadata # NotDispatched
  <2>1. PICK error \in {"none", "error", "cancelled"}, p \in {raw, NothingPublished} :
          metadata = [dispatched |-> TRUE, count |-> p.count, attempts |-> p.attempts,
                      truncated |-> p.truncated, answered |-> p.answered, error |-> error]
    BY <1>7 DEF IInv, MetadataInv
  <2>2. p \in Publication
    BY <1>4, <1>5, <2>1
  <2> QED
    BY <1>1, <1>5, <2>1, <2>2
<1> QED
  BY <1>6, <1>7

(***************************************************************************)
(* Every variable stays in its range: the list of attempts never has more  *)
(* than MAX_RECORDED_ATTEMPTS (observation.rs), and one native call is     *)
(* made at most.                                                           *)
(***************************************************************************)
THEOREM TypeCorrect == Spec => []TypeOK
<1>1. IInv => TypeOK
  <2> SUFFICES ASSUME IInv PROVE TypeOK
    OBVIOUS
  <2>1. /\ answered \in AttemptNumbers
        /\ task \in [Chain -> Tasks \cup {NoTask}]
    BY ChainAssumption DEF IInv, ChainInv, ChainTypeOK, RecordInv, AttemptNumbers,
       ChainAssumption
  <2> QED
    BY <2>1, RecordTypes DEF IInv, ChainInv, ChainTypeOK, CallInv, RecordInv, TypeOK
<1> QED
  BY Invariant, <1>1, PTL

(***************************************************************************)
(* Running middleware nests in the caller's task, and none outlives the    *)
(* operation, whoever its continuations are given to.                      *)
(***************************************************************************)
THEOREM ChainNests == Spec => []Nested
<1>1. IInv => Nested
  BY DEF IInv, ChainInv
<1> QED
  BY Invariant, <1>1, PTL

(***************************************************************************)
(* What the metadata tells is the truth and stays true.                    *)
(***************************************************************************)
THEOREM HonestMetadata == Spec => []MetadataIsHonest
<1>1. IInv => MetadataIsHonest
  <2> SUFFICES ASSUME IInv PROVE MetadataIsHonest
    OBVIOUS
  <2> USE DEF IInv, MetadataInv
  <2>1. ~metadata.dispatched => metadata = NotDispatched
    OBVIOUS
  <2>2. /\ metadata.dispatched => sent = 1
        /\ outcome = "native" => metadata.dispatched /\ metadata.error = "none"
    BY DEF CallInv
  <2>3. ASSUME metadata.dispatched, metadata.count # Unknown
        PROVE  /\ metadata.count = made
               /\ ~metadata.truncated => metadata.attempts = 1..made
               /\ metadata.answered \in {0, made}
    <3>1. /\ metadata.count = raw.count /\ metadata.attempts = raw.attempts
          /\ metadata.truncated = raw.truncated /\ metadata.answered = raw.answered
      BY <2>3 DEF NotDispatched, NothingPublished
    <3>2. raw = Published
      BY <2>3, <3>1 DEF RecordInv, NothingPublished
    <3>3. made \in Nat /\ attempts \in SUBSET (1..made) /\ answered \in {0, made}
      BY ChainAssumption DEF ChainAssumption, RecordInv, AttemptNumbers
    <3>4. ~(made > Cardinality(attempts)) => attempts = 1..made
      BY <3>3, AllListed
    <3> QED
      BY <3>1, <3>2, <3>3, <3>4 DEF Published
  <2> QED
    BY <2>1, <2>2, <2>3 DEF MetadataIsHonest
<1> QED
  BY Invariant, <1>1, PTL

(***************************************************************************)
(* An operation is sent once at most, from inside its whole chain, and its *)
(* metadata is written once.                                               *)
(***************************************************************************)
THEOREM SentOnce == Spec => SendsOnceInside
<1>1. IInv /\ [Next]_vars =>
        [/\ sent' # sent => sent = 0 /\ outcome = "open" /\ active = Chain
         /\ metadata.dispatched => metadata' = metadata]_vars
  <2> SUFFICES ASSUME IInv, [Next]_vars
               PROVE  /\ sent' # sent => sent = 0 /\ outcome = "open" /\ active = Chain
                      /\ metadata.dispatched => metadata' = metadata
    OBVIOUS
  <2>1. CASE UNCHANGED vars \/ Start \/ NativeStep \/ Finished
    <3>1. UNCHANGED <<sent, metadata>>
      BY <2>1 DEF vars, Start, DispatchMiddleware, NativeStep, ClientReady, BeforeAttempt,
         AfterAttempt, AttemptTimedOut, SendOver, Publish, NativeDropped, NativeOnly, Finished
    <3> QED
      BY <3>1
  <2>2. ASSUME NEW t \in Tasks, NEW i \in Known, top[t] # NativeCall, CallNext(t, i)
        PROVE  /\ sent' # sent => sent = 0 /\ outcome = "open" /\ active = Chain
               /\ metadata.dispatched => metadata' = metadata
    <3>1. Depth = i /\ outcome = "open" /\ sent = 0
      BY <2>2, ContinuationInnermost DEF IInv
    <3>2. sent' # sent => i + 1 = NativeCall
      BY <2>2 DEF CallNext, DispatchMiddleware, DispatchNative, DispatchRefused
    <3>3. i = N => active = Chain
      BY <3>1 DEF IInv, ChainInv, Nested, Depth, Chain
    <3>4. i + 1 = NativeCall => i = N
      BY ChainAssumption DEF ChainAssumption, Known, Chain, NativeCall
    <3>5. metadata' = metadata
      BY <2>2 DEF CallNext
    <3> QED
      BY <3>1, <3>2, <3>3, <3>4, <3>5
  <2>3. ASSUME NEW t \in Tasks,
               \/ \E r \in Responses : Return(t, top[t], r)
               \/ Raise(t, top[t])
        PROVE  UNCHANGED <<sent, metadata>>
    BY <2>3 DEF Return, Raise
  <2>4. ASSUME NEW t \in Tasks, NEW error \in {"none", "error", "cancelled"},
               NativeAwaitEnds(t, error)
        PROVE  sent' = sent /\ ~metadata.dispatched
    <3>1. Depth = NativeCall
      BY <2>4, ChainAssumption
         DEF ChainAssumption, IInv, ChainInv, Nested, NativeAwaitEnds, Depth, NativeCall
    <3> QED
      BY <2>4, <3>1 DEF NativeAwaitEnds, IInv, CallInv
  <2> QED
    BY <2>1, <2>2, <2>3, <2>4 DEF Next, TaskStep
<1> QED
  BY Invariant, <1>1, PTL DEF Spec, SendsOnceInside
=============================================================================
