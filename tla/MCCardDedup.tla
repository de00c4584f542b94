----------------------------- MODULE MCCardDedup -----------------------------
(* Small instances of CardDedup for TLC.                                   *)
EXTENDS CardDedup, TLC

CONSTANTS r1, r2, r3, r4, s1, s2, s3, s4, p1, p2

\* Single calls in two processes, a batch and a run of 999 beside them.
AllKinds == (r1 :> "single") @@ (r2 :> "single") @@ (r3 :> "batch") @@ (r4 :> "all999")
AllSlots == (s1 :> r1) @@ (s2 :> r2) @@ (s3 :> r3) @@ (s4 :> r4)
AllHomes == (r1 :> p1) @@ (r2 :> p2) @@ (r3 :> p1) @@ (r4 :> p2)

CardSymmetry == Permutations(Card)
=============================================================================
