--------------------------- MODULE MCTaskRetention ---------------------------
(* TaskRetention on small instances.                                       *)
EXTENDS TaskRetention, TLC

CONSTANTS t1, t2, x1, x2, p1, p2

OwnThreads == (t1 :> x1) @@ (t2 :> x2)

\* Purges are alike, for runs without a liveness property.
PurgeSymmetry == Permutations(Purges)
=============================================================================
