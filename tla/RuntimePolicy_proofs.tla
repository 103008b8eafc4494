------------------------- MODULE RuntimePolicy_proofs -------------------------
(***************************************************************************)
(* The shared worker policy, for any threads, extensions and counts.       *)
(***************************************************************************)
EXTENDS RuntimePolicy, TLAPS

(***************************************************************************)
(* A thread that builds a pool carries the frozen count.  It read it in    *)
(* one critical section and uses it outside; the count cannot have changed *)
(* in between, because nothing that is frozen is chosen again.             *)
(***************************************************************************)
BuildsWhatIsFrozen == \A t \in Threads : pc[t] = "build" => frozen # 0 /\ wish[t] = frozen

Shape ==
    /\ runtime \in [Extensions -> Nat]
    /\ target \in [Threads -> Extensions]
    /\ wish \in [Threads -> Nat]
    /\ configured \in Nat
    /\ frozen \in Nat
    /\ DOMAIN pc = Threads

PolicyInv == Shape /\ BuildsWhatIsFrozen /\ PoolsAgree /\ AcceptedIsFrozen

(***************************************************************************)
(* _freeze_worker_threads keeps what is frozen and prefers what was        *)
(* configured.                                                             *)
(***************************************************************************)
LEMMA ChosenIsCount ==
    ASSUME Shape, NEW override \in Overrides
    PROVE  /\ Chosen(override) \in Nat
           /\ frozen # 0 => Chosen(override) = frozen
           /\ frozen = 0 /\ configured # 0 => Chosen(override) = configured
BY PolicyAssumption DEF PolicyAssumption, Shape, Chosen

LEMMA PolicyInit == Init => PolicyInv
BY DEF Init, PolicyInv, Shape, BuildsWhatIsFrozen, PoolsAgree, AcceptedIsFrozen

(***************************************************************************)
(* Every step keeps the invariant, and nothing frozen changes.             *)
(***************************************************************************)
LEMMA PolicyStep ==
    ASSUME PolicyInv, [Next]_vars
    PROVE  PolicyInv' /\ (frozen # 0 => frozen' = frozen)
<1> USE DEF PolicyInv, Shape, BuildsWhatIsFrozen, PoolsAgree, AcceptedIsFrozen
<1>1. CASE UNCHANGED vars
  BY <1>1 DEF vars, policyVars, cellVars
<1>2. ASSUME NEW t \in Threads, NEW n \in Counts, ConfigureCall(t, n)
      PROVE  PolicyInv' /\ (frozen # 0 => frozen' = frozen)
  <2>1. n \in Nat
    BY PolicyAssumption DEF PolicyAssumption
  <2> QED
    BY <1>2, <2>1 DEF ConfigureCall, Goto, policyVars, cellVars
<1>3. ASSUME NEW t \in Threads, NEW x \in Extensions, Operation(t, x)
      PROVE  PolicyInv' /\ (frozen # 0 => frozen' = frozen)
  BY <1>3 DEF Operation, Goto, policyVars, cellVars
<1>4. ASSUME NEW t \in Threads, ThreadStep(t)
      PROVE  PolicyInv' /\ (frozen # 0 => frozen' = frozen)
  <2>1. CASE Configure(t)
    BY <2>1 DEF Configure, Goto, cellVars
  <2>2. CASE ConfigureRefused(t)
    BY <2>2 DEF ConfigureRefused, Goto, policyVars, cellVars
  <2>3. CASE AlreadyRegistered(t)
    BY <2>3 DEF AlreadyRegistered, Goto, policyVars, cellVars
  <2>4. CASE StartInit(t)
    BY <2>4 DEF StartInit, Goto, policyVars
  <2>5. CASE Freeze(t)
    <3>1. /\ frozen' \in Nat /\ frozen' # 0
          /\ wish' = [wish EXCEPT ![t] = frozen']
          /\ frozen # 0 => frozen' = frozen
          /\ frozen = 0 /\ configured # 0 => frozen' = configured
      BY <2>5, ChosenIsCount DEF Freeze
    <3> QED
      BY <2>5, <3>1 DEF Freeze, Goto, cellVars
  <2>6. CASE FreezeFails(t)
    BY <2>6 DEF FreezeFails, LeaveInit, Goto, policyVars
  <2>7. CASE Build(t)
    BY <2>7 DEF Build, Goto, policyVars
  <2>8. CASE BuildFails(t)
    BY <2>8 DEF BuildFails, LeaveInit, Goto, policyVars
  <2>9. CASE Register(t)
    BY <2>9 DEF Register, LeaveInit, Goto, policyVars
  <2> QED
    BY <1>4, <2>1, <2>2, <2>3, <2>4, <2>5, <2>6, <2>7, <2>8, <2>9 DEF ThreadStep
<1> QED
  BY <1>1, <1>2, <1>3, <1>4 DEF Next, ThreadNext

LEMMA PolicyInvariant == Spec => []PolicyInv
<1>1. PolicyInv /\ [Next]_vars => PolicyInv'
  BY PolicyStep
<1> QED
  BY PolicyInit, <1>1, PTL DEF Spec

(***************************************************************************)
(* Every pool that any extension ever starts has the frozen number of      *)
(* workers (rboto.runtime, _freeze_worker_threads).                        *)
(***************************************************************************)
THEOREM OnePolicy == Spec => []PoolsAgree
<1>1. PolicyInv => PoolsAgree
  BY DEF PolicyInv
<1> QED
  BY PolicyInvariant, <1>1, PTL

(***************************************************************************)
(* configure_runtime() never accepts a count that will not be used.        *)
(***************************************************************************)
THEOREM AcceptedMeansUsed == Spec => []AcceptedIsFrozen
<1>1. PolicyInv => AcceptedIsFrozen
  BY DEF PolicyInv
<1> QED
  BY PolicyInvariant, <1>1, PTL

(***************************************************************************)
(* The frozen policy never changes, also when a pool fails to start.       *)
(***************************************************************************)
THEOREM PolicyStaysFrozen == Spec => FrozenForGood
<1>1. PolicyInv /\ [Next]_vars => [frozen # 0 => frozen' = frozen]_vars
  BY PolicyStep
<1> QED
  BY PolicyInvariant, <1>1, PTL DEF Spec, FrozenForGood

-----------------------------------------------------------------------------
(***************************************************************************)
(* Initializing an extension.  A thread is inside an extension's           *)
(* initialization exactly when the cell names it, so there is one at most, *)
(* and the cell is never left behind by a thread that has gone.  A pool is *)
(* missing until the thread inside has built it.                           *)
(***************************************************************************)
Inside == {"freeze", "build", "register"}

CellInv ==
    /\ \A t \in Threads : pc[t] \in Inside => initializing[target[t]] = t
    /\ \A x \in Extensions : initializing[x] # NoThread =>
        pc[initializing[x]] \in Inside /\ target[initializing[x]] = x
    /\ \A t \in Threads : pc[t] \in {"freeze", "build"} => runtime[target[t]] = 0
    /\ \A t \in Threads : pc[t] = "register" => runtime[target[t]] # 0
    /\ \A x \in registered : runtime[x] # 0

WishInv == \A t \in Threads : pc[t] = "configure" => wish[t] \in Counts

InitializationInv == TypeOK /\ WishInv /\ CellInv

LEMMA ChosenTypes ==
    ASSUME TypeOK, NEW override \in Overrides
    PROVE  Chosen(override) \in PolicyCounts
<1>1. Available = 1 \/ ~(Available < 2)
  BY PolicyAssumption DEF PolicyAssumption
<1> QED
  BY <1>1 DEF TypeOK, Chosen, PolicyCounts

LEMMA InitializationInit == Init => InitializationInv
BY PolicyAssumption
   DEF PolicyAssumption, Init, InitializationInv, TypeOK, WishInv, CellInv, PolicyCounts, Inside

(***************************************************************************)
(* A thread that leaves the initialization frees the cell.                 *)
(***************************************************************************)
LEMMA LeaveInitKeeps ==
    ASSUME InitializationInv, NEW t \in Threads, pc[t] \in Inside, LeaveInit(t),
           UNCHANGED <<policyVars, runtime, target, wish>>,
           \/ registered' = registered
           \/ pc[t] = "register" /\ registered' = registered \cup {target[t]}
    PROVE  InitializationInv'
<1> USE DEF InitializationInv, TypeOK, LeaveInit, Goto, policyVars
<1>1. TypeOK' /\ WishInv'
  BY DEF WishInv
<1>2. initializing[target[t]] = t /\ target[t] \in Extensions /\ t # NoThread
  BY PolicyAssumption DEF PolicyAssumption, CellInv
<1>3. \A u \in Threads \ {t} : pc[u] \in Inside => target[u] # target[t]
  BY <1>2 DEF CellInv
<1>4. CellInv'
  BY <1>2, <1>3, PolicyAssumption DEF PolicyAssumption, CellInv, Inside
<1> QED
  BY <1>1, <1>4

LEMMA InitializationStep == PolicyInv /\ InitializationInv /\ [Next]_vars => InitializationInv'
<1> SUFFICES ASSUME PolicyInv, InitializationInv, [Next]_vars PROVE InitializationInv'
  OBVIOUS
<1> USE DEF InitializationInv, TypeOK
<1>1. CASE UNCHANGED vars
  BY <1>1 DEF vars, policyVars, cellVars, WishInv, CellInv
<1>2. ASSUME NEW t \in Threads, NEW there \in {"idle", "configure", "ensure"},
             Goto(t, there), pc[t] \notin Inside, UNCHANGED <<frozen, cellVars>>,
             configured' \in {0} \cup Counts,
             target' \in [Threads -> Extensions], wish' \in [Threads -> PolicyCounts],
             \A u \in Threads \ {t} : target'[u] = target[u] /\ wish'[u] = wish[u],
             there = "configure" => wish'[t] \in Counts
      PROVE  InitializationInv'
  <2>1. TypeOK' /\ WishInv'
    BY <1>2 DEF cellVars, Goto, WishInv
  <2>2. CellInv'
    BY <1>2, PolicyAssumption DEF PolicyAssumption, cellVars, Goto, CellInv, Inside
  <2> QED
    BY <2>1, <2>2
<1>3. ASSUME NEW t \in Threads, NEW n \in Counts, ConfigureCall(t, n)
      PROVE  InitializationInv'
  <2>1. wish' \in [Threads -> PolicyCounts] /\ wish'[t] = n
        /\ \A u \in Threads \ {t} : wish'[u] = wish[u]
    BY <1>3 DEF ConfigureCall, PolicyCounts
  <2> QED
    BY <1>2, <1>3, <2>1 DEF ConfigureCall, policyVars, Inside
<1>4. ASSUME NEW t \in Threads, NEW x \in Extensions, Operation(t, x)
      PROVE  InitializationInv'
  <2>1. target' \in [Threads -> Extensions]
        /\ \A u \in Threads \ {t} : target'[u] = target[u]
    BY <1>4 DEF Operation
  <2> QED
    BY <1>2, <1>4, <2>1 DEF Operation, policyVars, Inside
<1>5. ASSUME NEW t \in Threads, ThreadStep(t)
      PROVE  InitializationInv'
  <2>1. CASE Configure(t) \/ ConfigureRefused(t) \/ AlreadyRegistered(t)
    <3>1. configured' \in {0} \cup Counts
      BY <2>1 DEF Configure, ConfigureRefused, AlreadyRegistered, policyVars, WishInv
    <3> QED
      BY <1>2, <2>1, <3>1 DEF Configure, ConfigureRefused, AlreadyRegistered, policyVars, Inside
  <2>2. CASE StartInit(t)
    <3>1. target[t] \in Extensions /\ t # NoThread
      BY PolicyAssumption DEF PolicyAssumption
    <3>2. TypeOK' /\ WishInv'
      BY <2>2 DEF StartInit, Goto, policyVars, WishInv
    <3>3. CellInv'
      <4>1. /\ initializing[target[t]] = NoThread
            /\ initializing' = [initializing EXCEPT ![target[t]] = t]
            /\ pc'[t] = IF runtime[target[t]] = 0 THEN "freeze" ELSE "register"
            /\ \A u \in Threads \ {t} : pc'[u] = pc[u]
            /\ UNCHANGED <<runtime, registered, target>>
        BY <2>2 DEF StartInit, Goto, policyVars
      <4>2. \A u \in Threads : pc[u] \in Inside => target[u] # target[t] /\ u # NoThread
        BY <4>1, PolicyAssumption DEF PolicyAssumption, CellInv
      <4>3. \A u \in Threads \ {t} : pc'[u] \in Inside => initializing'[target[u]] = u
        BY <4>1, <4>2 DEF CellInv
      <4>4. \A x \in Extensions \ {target[t]} : initializing'[x] = initializing[x] /\ initializing[x] # t
        BY <2>2, <4>1, PolicyAssumption DEF PolicyAssumption, StartInit, CellInv, Inside
      <4> QED
        BY <3>1, <4>1, <4>3, <4>4 DEF CellInv, Inside
    <3> QED
      BY <3>2, <3>3
  <2>3. CASE Freeze(t)
    <3>1. frozen' \in PolicyCounts /\ wish' = [wish EXCEPT ![t] = frozen']
      BY <2>3, ChosenTypes DEF Freeze
    <3>2. TypeOK' /\ WishInv'
      BY <2>3, <3>1 DEF Freeze, Goto, cellVars, WishInv
    <3>3. CellInv'
      <4>1. /\ pc[t] = "freeze" /\ pc' = [pc EXCEPT ![t] = "build"]
            /\ UNCHANGED <<runtime, registered, initializing, target>>
        BY <2>3 DEF Freeze, Goto, cellVars
      <4> QED
        BY <4>1 DEF CellInv, Inside
    <3> QED
      BY <3>2, <3>3
  <2>4. CASE Build(t)
    <3>1. wish[t] # 0 /\ target[t] \in Extensions /\ initializing[target[t]] = t
      BY <2>4 DEF Build, PolicyInv, BuildsWhatIsFrozen, CellInv, Inside
    <3>2. \A u \in Threads \ {t} : pc[u] \in Inside => target[u] # target[t]
      BY <3>1 DEF CellInv
    <3>3. TypeOK' /\ WishInv'
      BY <2>4 DEF Build, Goto, policyVars, WishInv
    <3>4. CellInv'
      BY <2>4, <3>1, <3>2, PolicyAssumption DEF PolicyAssumption, Build, Goto, policyVars, CellInv, Inside
    <3> QED
      BY <3>3, <3>4
  <2>5. CASE FreezeFails(t) \/ BuildFails(t) \/ Register(t)
    BY <2>5, LeaveInitKeeps DEF FreezeFails, BuildFails, Register, Inside, policyVars
  <2> QED
    BY <1>5, <2>1, <2>2, <2>3, <2>4, <2>5 DEF ThreadStep
<1> QED
  BY <1>1, <1>3, <1>4, <1>5 DEF Next, ThreadNext

LEMMA InitializationInvariant == Spec => []InitializationInv
BY PolicyInvariant, InitializationInit, InitializationStep, PTL DEF Spec

(***************************************************************************)
(* The policy, the cells and the threads keep their types.                 *)
(***************************************************************************)
THEOREM TypeCorrect == Spec => []TypeOK
<1>1. InitializationInv => TypeOK
  BY DEF InitializationInv
<1> QED
  BY <1>1, InitializationInvariant, PTL

(***************************************************************************)
(* What CallsReturn rests on: a call that waits for an extension waits for *)
(* one thread, which is inside the initialization and will leave it; no    *)
(* failure leaves the cell locked, and an extension that is registered has *)
(* its pool.                                                               *)
(***************************************************************************)
NobodyStranded ==
    /\ \A t \in Threads : pc[t] = "ensure" =>
        \/ target[t] \in registered /\ runtime[target[t]] # 0
        \/ initializing[target[t]] = NoThread
        \/ \E u \in Threads \ {t} :
            /\ initializing[target[t]] = u
            /\ pc[u] \in Inside /\ target[u] = target[t]
    /\ \A t, u \in Threads :
        pc[t] \in Inside /\ pc[u] \in Inside /\ target[t] = target[u] => t = u

\* No call is stranded, for any threads and extensions.
THEOREM CallsWaitForWorkers == Spec => []NobodyStranded
<1>1. InitializationInv => NobodyStranded
  BY DEF InitializationInv, TypeOK, CellInv, NobodyStranded, Inside
<1> QED
  BY <1>1, InitializationInvariant, PTL

(***************************************************************************)
(* A pool is started once: no extension ever replaces its RUNTIME, however *)
(* often initialization fails after building it or before.                 *)
(***************************************************************************)
StartedOnce == [][\A x \in Extensions : runtime[x] # 0 => runtime'[x] = runtime[x]]_vars

\* Pools start once, for any threads and extensions.
THEOREM PoolsStartOnce == Spec => StartedOnce
<1>1. InitializationInv /\ [Next]_vars
        => [\A x \in Extensions : runtime[x] # 0 => runtime'[x] = runtime[x]]_vars
  <2> SUFFICES ASSUME InitializationInv, Next, NEW x \in Extensions, runtime[x] # 0
               PROVE  runtime'[x] = runtime[x]
    OBVIOUS
  <2>1. ASSUME NEW t \in Threads, Build(t)
        PROVE  runtime'[x] = runtime[x]
    BY <2>1 DEF Build, InitializationInv, TypeOK, CellInv
  <2>2. ASSUME NEW t \in Threads, ThreadNext(t), ~Build(t)
        PROVE  runtime' = runtime
    BY <2>2 DEF ThreadNext, ThreadStep, ConfigureCall, Operation, Configure, ConfigureRefused,
       AlreadyRegistered, StartInit, Freeze, FreezeFails, BuildFails, Register, cellVars
  <2> QED
    BY <2>1, <2>2 DEF Next
<1> QED
  BY <1>1, InitializationInvariant, PTL DEF Spec, StartedOnce
=============================================================================
