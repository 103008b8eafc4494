----------------------------- MODULE Lifecycle -----------------------------
(***************************************************************************)
(* rboto-core's `Lifecycle` (crates/rboto-core/src/lifecycle.rs): the      *)
(* closed flag and the count of admitted operations behind one mutex, the  *)
(* Notify that announces a change of either, the `Lease` an admitted       *)
(* operation holds, and the `wait_for` loop both sides wait in: operations *)
(* for "closed", callers of aclose() for "idle".                           *)
(*                                                                         *)
(* A critical section of the state mutex is one step; everything between   *)
(* two of them is a step of its own, because Python threads and Tokio      *)
(* workers run in between.  tokio's Notify is the pair `enrolled` (the     *)
(* Notified futures that are enabled) and `woken` (those that              *)
(* notify_waiters has completed); it stores no permit, so a notification   *)
(* reaches exactly the futures that are enrolled when it is sent.          *)
(***************************************************************************)
EXTENDS Integers, FiniteSets

CONSTANTS
    Tasks,    \* native calls that may hold a lease
    Closers   \* calls of aclose()

ASSUME ProcsAssumption ==
    /\ IsFiniteSet(Tasks)
    /\ Tasks \cap Closers = {}

Procs == Tasks \cup Closers

VARIABLES
    closed,     \* State.closed
    active,     \* State.active
    enrolled,   \* processes whose Notified future is enabled and pending
    woken,      \* processes whose Notified future has been completed
    pc          \* where each process stands

lifecycleVars == <<closed, active, enrolled, woken>>

LifecycleInit ==
    /\ closed = FALSE
    /\ active = 0
    /\ enrolled = {}
    /\ woken = {}

Goto(p, label) == pc' = [pc EXCEPT ![p] = label]

(***************************************************************************)
(* The tasks that hold a lease are those past `enter` and not yet past     *)
(* `Drop for Lease`.                                                       *)
(***************************************************************************)
Unleased == {"idle", "spawned", "settled", "returned"}
Holders == {t \in Tasks : pc[t] \notin Unleased}

NotifyWaiters ==
    /\ woken' = woken \cup enrolled
    /\ enrolled' = {}

\* A Notified future that is dropped leaves the waiter list.
Forget(p) ==
    /\ enrolled' = enrolled \ {p}
    /\ woken' = woken \ {p}

\* Faulty: admits operations after closure.
EnterUnchecked ==
    /\ active' = active + 1
    /\ UNCHANGED <<closed, enrolled, woken>>

\* Lifecycle::enter, when it admits; when it refuses it changes nothing.
Enter ==
    /\ ~closed
    /\ active' = active + 1
    /\ UNCHANGED <<closed, enrolled, woken>>

\* Faulty: the last lease goes without a notification.
DropLeaseQuietly ==
    /\ active' = active - 1
    /\ UNCHANGED <<closed, enrolled, woken>>

\* Drop for Lease: the notification is sent while the state lock is held.
DropLease ==
    /\ active' = active - 1
    /\ IF active = 1 THEN NotifyWaiters ELSE UNCHANGED <<enrolled, woken>>
    /\ UNCHANGED closed

\* Lifecycle::close sets the flag, releases the state lock, then notifies.
SetClosed ==
    /\ closed' = TRUE
    /\ UNCHANGED <<active, enrolled, woken>>

\* Faulty: closure is not announced.
NotifyNobody == UNCHANGED lifecycleVars

NotifyClosed ==
    /\ NotifyWaiters
    /\ UNCHANGED <<closed, active>>

IsClosed == closed
IsIdle == active = 0

(***************************************************************************)
(* One turn of wait_for: enrol, test the predicate, await the              *)
(* notification, start over with a new Notified.                           *)
(***************************************************************************)
WaitEnroll(p) ==
    /\ pc[p] = "register"
    /\ enrolled' = enrolled \cup {p}
    /\ woken' = woken \ {p}
    /\ Goto(p, "check")
    /\ UNCHANGED <<closed, active>>

WaitSatisfied(p, predicate, next) ==
    /\ pc[p] = "check"
    /\ predicate
    /\ Forget(p)
    /\ Goto(p, next)
    /\ UNCHANGED <<closed, active>>

WaitUnsatisfied(p, predicate) ==
    /\ pc[p] = "check"
    /\ ~predicate
    /\ Goto(p, "await")
    /\ UNCHANGED lifecycleVars

WaitAgain(p) ==
    /\ pc[p] = "await"
    /\ p \in woken
    /\ Forget(p)
    /\ Goto(p, "register")
    /\ UNCHANGED <<closed, active>>

(***************************************************************************)
(* Lease::run polls wait_for(is_closed) first and the operation's future   *)
(* only when that is pending; when the future is pending too, the task     *)
(* suspends until something wakes it, and polls both again.                *)
(***************************************************************************)
PollWork(t) ==
    /\ pc[t] = "await"
    /\ t \notin woken
    /\ Goto(t, "poll")
    /\ UNCHANGED lifecycleVars

Suspend(t) ==
    /\ pc[t] = "poll"
    /\ Goto(t, "suspended")
    /\ UNCHANGED lifecycleVars

Resume(t) ==
    /\ pc[t] = "suspended"
    /\ Goto(t, "await")
    /\ UNCHANGED lifecycleVars

LifecycleTypeOK ==
    /\ closed \in BOOLEAN
    /\ active \in Nat
    /\ enrolled \subseteq Procs
    /\ woken \subseteq Procs

(***************************************************************************)
(* The count equals the number of leases: it never underflows, and zero    *)
(* means that no admitted operation is left.                               *)
(***************************************************************************)
ActiveCountsLeases == active = Cardinality(Holders)

(***************************************************************************)
(* No lost wake-up: a process that is parked in wait_for on a predicate    *)
(* that already holds has its notification, or the thread that made the    *)
(* predicate true has not sent it yet.                                     *)
(***************************************************************************)
ParkedTask(t) == pc[t] \in {"await", "poll", "suspended"}
Unsent(c) == pc[c] = "notify"

NoLostWakeup ==
    /\ \A t \in Tasks : closed /\ ParkedTask(t) =>
           t \in woken \/ (t \in enrolled /\ \E c \in Closers : Unsent(c))
    /\ \A c \in Closers : IsIdle /\ pc[c] = "await" => c \in woken
=============================================================================
