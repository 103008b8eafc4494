---------------------------- MODULE MCByteStream ----------------------------
(***************************************************************************)
(* The definitions the TLC runs of ByteStream need.                        *)
(***************************************************************************)
EXTENDS ByteStream, TLC

CONSTANTS n1, n2, r1

\* Two iterator advances and one collecting read, and smaller instances.
TwoNexts == {n1, n2}
OneNext == {n1}
OneRead == {r1}
TwoNextsOneRead == {n1, n2, r1}
OneNextOneRead == {n1, r1}

Symmetry == Permutations(TwoNexts) \cup Permutations(Closers)
=============================================================================
