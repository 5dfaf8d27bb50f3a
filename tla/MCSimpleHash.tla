---------------------------- MODULE MCSimpleHash ----------------------------
(* SimpleHash on small tables. *)
EXTENDS SimpleHash

\* Three keys collide on the last bucket of every table, the others are on the
\* buckets next to it: runs wrap around the end.
MCHash == [k \in Keys |-> CASE k \in {"a", "b", "c"} -> 63 [] k = "d" -> 64 [] k = "e" -> 62]
=============================================================================
