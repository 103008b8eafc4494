----------------------------- MODULE PullStream -----------------------------
(***************************************************************************)
(* What a request stream promises: the caller's iterator is advanced only  *)
(* when the consumer asks, once for each ask and never twice at once; an   *)
(* item is handed over before the next is asked for; and after its end,    *)
(* its first failure or the consumer's, it is not asked again.             *)
(***************************************************************************)
EXTENDS Naturals

VARIABLES
    open,       \* the consumer takes part
    over,       \* the source has ended, failed, or given an unusable item
    ask,        \* none; made; inside: the iterator is being advanced
    produced,   \* items of the iterator
    delivered   \* items the consumer has taken

vars == <<open, over, ask, produced, delivered>>

Init ==
    /\ open = TRUE /\ over = FALSE
    /\ ask = "none"
    /\ produced = 0 /\ delivered = 0

Ask ==
    /\ open /\ ~over
    /\ ask = "none" /\ produced = delivered
    /\ ask' = "made"
    /\ UNCHANGED <<open, over, produced, delivered>>

Enter ==
    /\ ask = "made"
    /\ ask' = "inside"
    /\ UNCHANGED <<open, over, produced, delivered>>

\* The iterator produces an item; an unusable one is its last.
Produce ==
    /\ ask # "none"
    /\ ask' = "none"
    /\ produced' = produced + 1
    /\ over' \in {over, TRUE}
    /\ UNCHANGED <<open, delivered>>

\* It ends or fails.
Stop ==
    /\ ask # "none"
    /\ ask' = "none" /\ over' = TRUE
    /\ UNCHANGED <<open, produced, delivered>>

\* The consumer takes the item; one it cannot use ends it.
Take ==
    /\ open
    /\ delivered < produced
    /\ delivered' = delivered + 1
    /\ open' = ~over
    /\ UNCHANGED <<over, ask, produced>>

\* The consumer leaves; what it asked for may not have begun.
Close ==
    /\ open
    /\ open' = FALSE
    /\ ask' \in {ask} \cup (IF ask = "made" THEN {"none"} ELSE {})
    /\ UNCHANGED <<over, produced, delivered>>

\* After that, an advance may be cancelled.
Cancel ==
    /\ ~open
    /\ ask # "none"
    /\ ask' = "none"
    /\ UNCHANGED <<open, over, produced, delivered>>

Next == Ask \/ Enter \/ Produce \/ Stop \/ Take \/ Close \/ Cancel

Spec == Init /\ [][Next]_vars
=============================================================================
