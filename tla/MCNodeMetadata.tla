--------------------------- MODULE MCNodeMetadata ---------------------------
(* NodeMetadata with two groups, one of which never has a secondary. *)
EXTENDS NodeMetadata, TLC

Node(g, role) == [groupid |-> g, noderole |-> role]

MCRows == {Node(1, "primary"), Node(1, "secondary"), Node(2, "primary")}

\* Group 1 has a primary.
MCInitial == [i \in Ids |-> IF i = 1 THEN Node(1, "primary") ELSE NoRow]

Symmetry == Permutations(Txns)

\* A small catalog for the liveness of statements.
MCOneRow == {Node(1, "secondary")}
MCInitialOne == [i \in Ids |-> Node(1, "secondary")]
=============================================================================
