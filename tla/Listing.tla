------------------------------- MODULE Listing -------------------------------
(***************************************************************************)
(* What a paginator promises: the pages of the service's list, in order,   *)
(* each once, one request for each page that is asked for and none ahead   *)
(* of it, and an end only after the last page.                             *)
(***************************************************************************)
EXTENDS Naturals

CONSTANT Last       \* number of pages of the list

VARIABLES
    seen,           \* pages the consumer was given: 1..seen
    phase           \* idle, asked, over or abandoned

Init == seen = 0 /\ phase = "idle"

Ask ==
    /\ phase = "idle" /\ seen < Last
    /\ phase' = "asked"
    /\ UNCHANGED seen

Give ==
    /\ phase = "asked"
    /\ seen' = seen + 1
    /\ phase' = "idle"

End ==
    /\ phase = "idle" /\ seen = Last
    /\ phase' = "over"
    /\ UNCHANGED seen

\* The consumer stops, or a request fails or is cancelled.
Abandon ==
    /\ phase \in {"idle", "asked"}
    /\ phase' = "abandoned"
    /\ UNCHANGED seen

Next == Ask \/ Give \/ End \/ Abandon

Spec == Init /\ [][Next]_<<seen, phase>>
=============================================================================
