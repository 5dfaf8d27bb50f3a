------------------------- MODULE MCRebalanceStrategy -------------------------
(* RebalanceStrategy with two names. *)
EXTENDS RebalanceStrategy, TLC

Strategy(default, threshold, minimum, improvement) ==
  [default_strategy |-> default, default_threshold |-> threshold,
   minimum_threshold |-> minimum, improvement_threshold |-> improvement]

\* A default strategy and an ordinary one, with thresholds in order and out of order.
MCRows == {Strategy(default, threshold, 1 - threshold, 0) : default \in BOOLEAN, threshold \in {0, 1}}

\* The strategies that take part in the runs about improvement_threshold.
MCImprovementRows == {Strategy(default, 1, 0, improvement) : default \in BOOLEAN, improvement \in {0, 1}}

MCInitial == [i \in Ids |-> IF i = 1 THEN Strategy(TRUE, 1, 0, 0) ELSE NoRow]
MCInitialNone == [i \in Ids |-> NoRow]

Symmetry == Permutations(Txns)
=============================================================================
