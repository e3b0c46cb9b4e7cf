----------------------------- MODULE MCMatching -----------------------------
(* Instances of Matching for TLC: one request, offers of two providers.    *)
EXTENDS Matching, TLC

CONSTANTS r1, o1, o2, o3, p1, p2

\* o1 and o2 compete; o3 is the id p1 gets when he offers again.
MCRequestOf  == [o \in Offers |-> r1]
MCProviderOf == [o \in Offers |-> IF o = o2 THEN p2 ELSE p1]

Symmetry == Permutations(Handlers)
=============================================================================
