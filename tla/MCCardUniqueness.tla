-------------------------- MODULE MCCardUniqueness --------------------------
(* Small instances of CardUniqueness for TLC.                              *)
EXTENDS CardUniqueness, TLC

CONSTANTS r1, r2, r3, n1, n2, p1, p2

\* Two requests of one process that share two pooled connections.
OneProcess == (r1 :> p1) @@ (r2 :> p1) @@ (n1 :> p1) @@ (n2 :> p1)
\* Two requests that share one connection, a third in a process of its own.
TwoProcesses == (r1 :> p1) @@ (r2 :> p1) @@ (r3 :> p2) @@ (n1 :> p1) @@ (n2 :> p2)

CardSymmetry == Permutations(Card)
=============================================================================
