----------------------------- MODULE MCBinLookup -----------------------------
(* Small instances of BinLookup for TLC.                                   *)
EXTENDS BinLookup, TLC

CONSTANTS b1, b2, l1, l2, v1, q1, q2, p1, p2

OneProcess == [q \in Reader |-> p1]
TwoProcesses == (q1 :> p1) @@ (q2 :> p2)

\* What the readers ask for.
Both == [q \in Reader |-> {b1, b2}]
OnlyB1 == [q \in Reader |-> {b1}]

\* Every run loads the same record of b1.
LoadB1 == [l \in Load |-> {b1}]
PartialB1 == LoadB1
OneVersion == [l \in Load |-> v1]
NoneOf == [l \in Load |-> {}]

\* Once b2 is added to a Bloom filter, the filter has b1 too.
SharedBits == (b1 :> {1}) @@ (b2 :> {1, 2})
=============================================================================
