-------------------------- MODULE ClosableResource --------------------------
(***************************************************************************)
(* What an asynchronous native resource promises its callers: operations   *)
(* are admitted while it is open; closing is terminal; a caller of close   *)
(* is answered only when no admitted operation is left; and closing does   *)
(* not wait for the operations to finish by themselves, they are ended.    *)
(***************************************************************************)
EXTENDS FiniteSets

CONSTANTS Tasks, Closers

VARIABLES
    open,       \* operations are still admitted
    live,       \* admitted operations that have not ended
    waiting,    \* callers of close that wait for an answer
    answered    \* callers of close that have it

absVars == <<open, live, waiting, answered>>

Init ==
    /\ open = TRUE
    /\ live = {}
    /\ waiting = {}
    /\ answered = {}

Admit(t) ==
    /\ open
    /\ t \notin live
    /\ live' = live \cup {t}
    /\ UNCHANGED <<open, waiting, answered>>

End(t) ==
    /\ t \in live
    /\ live' = live \ {t}
    /\ UNCHANGED <<open, waiting, answered>>

Close(c) ==
    /\ c \notin waiting \cup answered
    /\ open' = FALSE
    /\ waiting' = waiting \cup {c}
    /\ UNCHANGED <<live, answered>>

Answer(c) ==
    /\ c \in waiting
    /\ live = {}
    /\ waiting' = waiting \ {c}
    /\ answered' = answered \cup {c}
    /\ UNCHANGED <<open, live>>

\* A caller stops waiting; the resource stays closed.
Abandon(c) ==
    /\ c \in waiting
    /\ waiting' = waiting \ {c}
    /\ UNCHANGED <<open, live, answered>>

Next ==
    \/ \E t \in Tasks : Admit(t) \/ End(t)
    \/ \E c \in Closers : Close(c) \/ Answer(c) \/ Abandon(c)

\* Closing ends the admitted operations and then answers.
Fairness ==
    /\ \A t \in Tasks : WF_absVars(~open /\ End(t))
    /\ \A c \in Closers : WF_absVars(Answer(c))

Spec == Init /\ [][Next]_absVars /\ Fairness
=============================================================================
