---------------------------- MODULE RuntimePolicy ----------------------------
(***************************************************************************)
(* The worker policy that separately compiled extensions share             *)
(* (packages/rboto/src/rboto/runtime.py) and the runtime each of them      *)
(* starts at its first native operation (rboto-core, runtime.rs).          *)
(*                                                                         *)
(* Every extension has its own RUNTIME and REGISTERED cells; initializing  *)
(* one is exclusive (PyOnceLock) and detaches from the interpreter, so     *)
(* threads that use different extensions, or that call                     *)
(* configure_runtime(), run in between.  The policy is one critical        *)
(* section per call.                                                       *)
(***************************************************************************)
EXTENDS Integers, FiniteSets

CONSTANTS
    Threads,        \* Python threads
    Extensions,     \* native extension modules
    Counts,         \* worker counts the application may choose
    Overrides,      \* values TOKIO_WORKER_THREADS may have
    Unset, Malformed,
    Available,      \* available_parallelism
    NoThread

ASSUME PolicyAssumption ==
    /\ Counts \subseteq Nat \ {0}
    /\ Overrides \subseteq (Nat \ {0}) \cup {Unset, Malformed}
    /\ Available \in Nat \ {0}
    /\ Unset \notin Nat /\ Malformed \notin Nat
    /\ NoThread \notin Threads

VARIABLES
    configured,     \* _configured, 0 for None
    frozen,         \* _frozen, 0 for None
    runtime,        \* each extension's RUNTIME: its worker count, 0 when empty
    registered,     \* extensions whose REGISTERED is set
    initializing,   \* the thread inside each extension's initialization
    pc,             \* what each thread is doing
    target,         \* the extension it uses
    wish            \* the count it configures

policyVars == <<configured, frozen>>
cellVars == <<runtime, registered, initializing>>
vars == <<policyVars, cellVars, pc, target, wish>>

Init ==
    /\ configured = 0
    /\ frozen = 0
    /\ runtime = [x \in Extensions |-> 0]
    /\ registered = {}
    /\ initializing = [x \in Extensions |-> NoThread]
    /\ pc = [t \in Threads |-> "idle"]
    /\ target \in [Threads -> Extensions]
    /\ wish = [t \in Threads |-> 0]

Goto(t, label) == pc' = [pc EXCEPT ![t] = label]

-----------------------------------------------------------------------------
(***************************************************************************)
(* configure_runtime: validation, then one critical section.               *)
(***************************************************************************)
ConfigureCall(t, n) ==
    /\ pc[t] = "idle"
    /\ wish' = [wish EXCEPT ![t] = n]
    /\ Goto(t, "configure")
    /\ UNCHANGED <<policyVars, cellVars, target>>

\* Faulty: accepts any count.
ConfigureUnchecked(t) ==
    /\ pc[t] = "configure"
    /\ configured' = wish[t]
    /\ Goto(t, "idle")
    /\ UNCHANGED <<frozen, cellVars, target, wish>>

Configure(t) ==
    /\ pc[t] = "configure"
    /\ frozen \in {0, wish[t]}
    /\ configured' = wish[t]
    /\ Goto(t, "idle")
    /\ UNCHANGED <<frozen, cellVars, target, wish>>

ConfigureRefused(t) ==
    /\ pc[t] = "configure"
    /\ frozen \notin {0, wish[t]}
    /\ Goto(t, "idle")
    /\ UNCHANGED <<policyVars, cellVars, target, wish>>

-----------------------------------------------------------------------------
(***************************************************************************)
(* ensure_runtime: nothing when registered; otherwise one thread at a time *)
(* freezes the policy, builds the pool and registers it.  A failure leaves *)
(* the cells as they are, and the next operation starts over.              *)
(***************************************************************************)
Operation(t, x) ==
    /\ pc[t] = "idle"
    /\ target' = [target EXCEPT ![t] = x]
    /\ Goto(t, "ensure")
    /\ UNCHANGED <<policyVars, cellVars, wish>>

AlreadyRegistered(t) ==
    /\ pc[t] = "ensure"
    /\ target[t] \in registered
    /\ Goto(t, "idle")
    /\ UNCHANGED <<policyVars, cellVars, target, wish>>

StartInit(t) ==
    /\ pc[t] = "ensure"
    /\ target[t] \notin registered
    /\ initializing[target[t]] = NoThread
    /\ initializing' = [initializing EXCEPT ![target[t]] = t]
    /\ Goto(t, IF runtime[target[t]] = 0 THEN "freeze" ELSE "register")
    /\ UNCHANGED <<policyVars, runtime, registered, target, wish>>

\* The value _freeze_worker_threads settles on, 0 when it cannot.  It reads the
\* environment at every attempt, and the application may change that in between.
Chosen(override) ==
    IF frozen # 0 THEN frozen
    ELSE IF configured # 0 THEN configured
    ELSE IF override = Malformed THEN 0
    ELSE IF override # Unset THEN override
    ELSE IF Available < 2 THEN Available ELSE 2

Freeze(t) ==
    /\ pc[t] = "freeze"
    /\ \E override \in Overrides :
        /\ Chosen(override) # 0
        /\ frozen' = Chosen(override)
        /\ wish' = [wish EXCEPT ![t] = Chosen(override)]
    /\ Goto(t, "build")
    /\ UNCHANGED <<configured, cellVars, target>>

LeaveInit(t) ==
    /\ initializing' = [initializing EXCEPT ![target[t]] = NoThread]
    /\ Goto(t, "idle")

\* Faulty: the cell stays locked.
FreezeFailsLocked(t) ==
    /\ pc[t] = "freeze"
    /\ \E override \in Overrides : Chosen(override) = 0
    /\ Goto(t, "idle")
    /\ UNCHANGED <<policyVars, cellVars, target, wish>>

FreezeFails(t) ==
    /\ pc[t] = "freeze"
    /\ \E override \in Overrides : Chosen(override) = 0
    /\ LeaveInit(t)
    /\ UNCHANGED <<policyVars, runtime, registered, target, wish>>

\* The pool is built with the interpreter released.
Build(t) ==
    /\ pc[t] = "build"
    /\ runtime' = [runtime EXCEPT ![target[t]] = wish[t]]
    /\ Goto(t, "register")
    /\ UNCHANGED <<policyVars, registered, initializing, target, wish>>

\* Faulty: takes the policy back, which others may have used.
BuildFailsThaws(t) ==
    /\ pc[t] = "build"
    /\ frozen' = 0
    /\ LeaveInit(t)
    /\ UNCHANGED <<configured, runtime, registered, target, wish>>

BuildFails(t) ==
    /\ pc[t] = "build"
    /\ LeaveInit(t)
    /\ UNCHANGED <<policyVars, runtime, registered, target, wish>>

Register(t) ==
    /\ pc[t] = "register"
    /\ registered' = registered \cup {target[t]}
    /\ LeaveInit(t)
    /\ UNCHANGED <<policyVars, runtime, target, wish>>

-----------------------------------------------------------------------------
\* Steps a thread takes by itself once it is in a call.
ThreadStep(t) ==
    \/ Configure(t) \/ ConfigureRefused(t)
    \/ AlreadyRegistered(t) \/ StartInit(t) \/ Freeze(t) \/ FreezeFails(t)
    \/ Build(t) \/ BuildFails(t) \/ Register(t)

ThreadNext(t) ==
    \/ ThreadStep(t)
    \/ \E n \in Counts : ConfigureCall(t, n)
    \/ \E x \in Extensions : Operation(t, x)

Next == \E t \in Threads : ThreadNext(t)

Spec == Init /\ [][Next]_vars

\* Threads inside a call run; waiting threads get their turn at the cell.
FairSpec == Spec /\ \A t \in Threads : SF_vars(ThreadStep(t))

-----------------------------------------------------------------------------
PolicyCounts == {0, 1, 2} \cup Counts \cup (Overrides \ {Unset, Malformed})

TypeOK ==
    /\ configured \in {0} \cup Counts
    /\ frozen \in PolicyCounts
    /\ runtime \in [Extensions -> PolicyCounts]
    /\ registered \subseteq Extensions
    /\ initializing \in [Extensions -> Threads \cup {NoThread}]
    /\ pc \in [Threads -> {"idle", "configure", "ensure", "freeze", "build", "register"}]
    /\ target \in [Threads -> Extensions]
    /\ wish \in [Threads -> PolicyCounts]

(***************************************************************************)
(* One policy for all: every pool that was started, in whatever extension, *)
(* order or thread, has the frozen number of workers.                      *)
(***************************************************************************)
PoolsAgree == \A x \in Extensions : runtime[x] # 0 => runtime[x] = frozen

(***************************************************************************)
(* configure_runtime() is honoured: what it accepted last is what pools    *)
(* are started with, however it races with the first operation.            *)
(***************************************************************************)
AcceptedIsFrozen == frozen # 0 /\ configured # 0 => configured = frozen

(***************************************************************************)
(* The policy is frozen once: never thawed or changed, also when building  *)
(* a pool fails.                                                           *)
(***************************************************************************)
FrozenForGood == [][frozen # 0 => frozen' = frozen]_vars

\* A call is never stuck behind an initialization that failed.
CallsReturn == \A t \in Threads : pc[t] = "ensure" ~> pc[t] = "idle"
=============================================================================
