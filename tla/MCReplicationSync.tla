------------------------- MODULE MCReplicationSync -------------------------
(***************************************************************************)
(* Small instances of ReplicationSync for TLC.                             *)
(***************************************************************************)
EXTENDS ReplicationSync, TLC

CONSTANTS A, B, d1, d2, h1, h2, pull, replay

Everything == [i \in Instances |-> Docs]
Nothing == [i \in Instances |-> {}]
SecondAtActiveOnly == [i \in Instances |-> IF i = Active THEN Docs ELSE Docs \ {d2}]
\* The passive instance cannot write the first document.
FirstAtPassive == [i \in Instances |-> IF i = Passive THEN {d1} ELSE {}]

Interchangeable == Permutations(Handlers)
=============================================================================
