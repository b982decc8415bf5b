--------------------------- MODULE MCResearchRuns ---------------------------
(***************************************************************************)
(* A small instance of ResearchRuns for TLC: two documents of one owner.   *)
(***************************************************************************)
EXTENDS ResearchRuns, TLC

CONSTANTS d1, d2, h1, h2, u1

OneOwner == [d \in Docs |-> u1]
ById == [d \in Docs |-> IF d = d1 THEN 1 ELSE 2]
AnyHandler == Permutations(Handlers)
=============================================================================
