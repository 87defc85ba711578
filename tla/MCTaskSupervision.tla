-------------------------- MODULE MCTaskSupervision --------------------------
(* TaskSupervision on small instances.                                     *)
EXTENDS TaskSupervision, TLC

CONSTANTS a1, a2, a3, p, c

\* A parent with one child; tasks without children.
ParentAndChild == (p :> None) @@ (c :> p)
Unrelated == [t \in Tasks |-> None]

\* Launches are interchangeable, none is named by a definition.
LaunchSymmetry == Permutations(Agents)
=============================================================================
