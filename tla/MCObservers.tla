----------------------------- MODULE MCObservers -----------------------------
(***************************************************************************)
(* Two calls, of a service with an override and of one without; the second *)
(* client has an observer of its own.  Tasks and threads are alike.        *)
(***************************************************************************)
EXTENDS Observers, TLC

CONSTANTS c1, c2, s3, dynamodb, global, private

MCServiceOf == [c \in Calls |-> IF c = c1 THEN s3 ELSE dynamodb]
MCExplicit == [c \in Calls |-> IF c = c2 THEN private ELSE Unset]
MCSettings ==
    {[level |-> "WARNING", overrides |-> [s \in Services |-> IF s = s3 THEN "OFF" ELSE "NOTSET"]],
     [level |-> "OFF", overrides |-> [s \in Services |-> IF s = s3 THEN "DEBUG" ELSE "NOTSET"]]}

Symmetry == Permutations(Tasks) \cup Permutations(Threads)
=============================================================================
