-------------------------- MODULE RebalanceStrategy --------------------------
(***************************************************************************)
(* pg_dist_rebalance_strategy, the named strategies of the shard           *)
(* rebalancer, one of which may be the default.  Its trigger "ensures that *)
(* only a single default strategy is possible"; two SQL functions change   *)
(* the table, and so may any statement.                                    *)
(***************************************************************************)
EXTENDS CatalogTxn

CONSTANT Initial    \* the strategies there are at first

\* A row is [default_strategy, default_threshold, minimum_threshold,
\* improvement_threshold]; its key is the name.
Default(r) == r # NoRow /\ r.default_strategy

Defaults(d) == {i \in Ids : Default(d[i])}

SetDefaultFlag(r, flag) == [r EXCEPT !.default_strategy = flag]

\* The row of citus_add_rebalance_strategy: the columns that its INSERT does not list get
\* their defaults, and improvement_threshold is one of them.
Added(default_threshold, minimum_threshold) ==
  [default_strategy |-> FALSE, default_threshold |-> default_threshold,
   minimum_threshold |-> minimum_threshold, improvement_threshold |-> 0]

ASSUME RebalanceStrategyAssumption ==
  /\ Initial \in Table /\ \A i, j \in Defaults(Initial) : i = j
  /\ Rows \subseteq [default_strategy : BOOLEAN, default_threshold : Int,
                    minimum_threshold : Int, improvement_threshold : Int]
  /\ \A r \in Rows : /\ \A flag \in BOOLEAN : SetDefaultFlag(r, flag) \in Rows
                     /\ Added(r.default_threshold, r.minimum_threshold) \in Rows

\* A variant whose test leaves out every UPDATE.
RejectedInsert(old, new, seen) ==
  \/ new.default_threshold < new.minimum_threshold
  \/ new.default_strategy /\ old = NoRow /\ Defaults(seen) # {}

\* pg_dist_rebalance_strategy_trigger_func raises an exception: the thresholds
\* are out of order, or a row becomes the default while there is one.
Rejected(old, new, seen) ==
  \/ new.default_threshold < new.minimum_threshold
  \/ /\ new.default_strategy
     /\ ~(old # NoRow /\ old.default_strategy)
     /\ Defaults(seen) # {}

\* The trigger of an INSERT or UPDATE: the lock, the tests, the change.
Trigger(t) ==
  LET s == stmt[t]
      old == IF s.op = "update" THEN Seen(t)[s.id] ELSE NoRow
  IN /\ pc[t] = "trigger" /\ s.op \in {"insert", "update"}
     /\ ShareRowExclusiveFree(t)
     /\ \/ Rejected(old, s.row, Seen(t)) /\ Forget(t)
        \/ ~Rejected(old, s.row, Seen(t)) /\ Write(t, locks[t] \cup {"SRE"})
     /\ UNCHANGED <<db, snap, changed>>

\* A row that the transaction is to change changed under its snapshot.
Stale(t, i) == t \in RepeatableRead /\ i \in changed[t] /\ mine[t][i] = Same

\* A variant of the function with its two UPDATEs in the other order.
SetDefaultFirst(t) ==
  LET n == stmt[t].id
      seen == Seen(t)
      fails == \/ seen[n] = NoRow \/ Stale(t, n)
               \/ Rejected(seen[n], SetDefaultFlag(seen[n], TRUE), seen)
  IN /\ pc[t] = "trigger" /\ stmt[t].op = "set"
     /\ IF fails
          THEN Forget(t)
          ELSE /\ mine' = [mine EXCEPT ![t][n] = SetDefaultFlag(seen[n], FALSE)]
               /\ rows' = [rows EXCEPT ![t] = @ \cup {n}]
               /\ pc' = [pc EXCEPT ![t] = "ready"]
               /\ UNCHANGED <<stmt, locks>>
     /\ UNCHANGED <<db, snap, changed>>

\* citus_set_default_rebalance_strategy, once it has locked the table: it fails
\* when the strategy does not exist, and makes the default strategies ordinary
\* and then the strategy the default one.  Both UPDATEs run the trigger.
SetDefault(t) ==
  LET n == stmt[t].id
      seen == Seen(t)
      unset == [i \in Ids |-> IF Default(seen[i]) THEN SetDefaultFlag(seen[i], FALSE)
                                                  ELSE seen[i]]
      new == SetDefaultFlag(unset[n], TRUE)
      written == Defaults(seen) \cup {n}
      fails == \/ seen[n] = NoRow
               \/ \E i \in written : Stale(t, i)
               \/ \E i \in Defaults(seen) : Rejected(seen[i], unset[i], seen)
               \/ Rejected(unset[n], new, unset)
  IN /\ pc[t] = "trigger" /\ stmt[t].op = "set"
     /\ IF fails
          THEN Forget(t)
          ELSE /\ mine' = [mine EXCEPT ![t] = [i \in Ids |-> CASE i = n -> new
                                                                [] i \in written \ {n} -> unset[i]
                                                                [] OTHER -> mine[t][i]]]
               /\ rows' = [rows EXCEPT ![t] = @ \cup written]
               /\ pc' = [pc EXCEPT ![t] = "ready"]
               /\ UNCHANGED <<stmt, locks>>
     /\ UNCHANGED <<db, snap, changed>>

Insert(t, i, r) == Statement(t, [op |-> "insert", id |-> i, new |-> i, row |-> r], "re")
Update(t, i, j, r) == Statement(t, [op |-> "update", id |-> i, new |-> j, row |-> r], "re")
Delete(t, i) == Statement(t, [op |-> "delete", id |-> i, new |-> i, row |-> NoRow], "re")

citus_set_default_rebalance_strategy(t, i) ==
  Statement(t, [op |-> "set", id |-> i, new |-> i, row |-> NoRow], "lock")

\* citus_add_rebalance_strategy inserts a row from its arguments.
citus_add_rebalance_strategy(t, i, default_threshold, minimum_threshold, improvement) ==
  Statement(t, [op |-> "insert", id |-> i, new |-> i, asked |-> improvement,
                row |-> Added(default_threshold, minimum_threshold)], "re")

Init == CatalogInit(Initial)

Next ==
  \E t \in Txns :
    \/ \E i \in Ids, r \in Rows :
         \/ Insert(t, i, r)
         \/ \E j \in Ids : Update(t, i, j, r)
         \/ citus_add_rebalance_strategy(t, i, r.default_threshold, r.minimum_threshold,
                                         r.improvement_threshold)
    \/ \E i \in Ids : Delete(t, i) \/ citus_set_default_rebalance_strategy(t, i)
    \/ LockTable(t) \/ GetRowExclusive(t) \/ GetRow(t) \/ Trigger(t) \/ SetDefault(t)
    \/ Commit(t) \/ Rollback(t) \/ DeadlockDetected(t)

Spec == Init /\ [][Next]_vars

-----------------------------------------------------------------------------
(* Properties. *)

Asked == {r.improvement_threshold : r \in Rows}

Statements ==
  [op : {"insert"}, id : Ids, new : Ids, row : Rows, asked : Asked] \cup
  [op : {"insert", "update"}, id : Ids, new : Ids, row : Rows] \cup
  [op : {"delete", "set"}, id : Ids, new : Ids, row : {NoRow}] \cup
  {NoStatement}

\* The variables have their types; a transaction waits for a row or in the trigger
\* only for a statement that needs it, and with the lock that it was given first.
TypeOK ==
  /\ db \in Table
  /\ pc \in [Txns -> {"idle", "ready", "lock", "re", "row", "trigger"}]
  /\ stmt \in [Txns -> Statements]
  /\ locks \in [Txns -> SUBSET {"RE", "SRE"}]
  /\ rows \in [Txns -> SUBSET Ids]
  /\ mine \in [Txns -> [Ids -> Rows \cup {NoRow, Same}]]
  /\ snap \in [Txns -> Table]
  /\ changed \in [Txns -> SUBSET Ids]
  /\ \A t \in Txns :
       /\ pc[t] = "row" => stmt[t].op \in {"update", "delete"}
       /\ pc[t] = "trigger" => /\ stmt[t].op \in {"insert", "update", "set"}
                               /\ "RE" \in locks[t]
                               /\ stmt[t].op = "set" => "SRE" \in locks[t]

\* "Ensures that only a single default strategy is possible": two transactions
\* that each make another strategy the default never both commit it.
SingleDefault == Cardinality(Defaults(db)) <= 1

\* 'changes the default rebalance strategy to the one with the specified name':
\* when the call has returned it is the only default for its transaction, and
\* what others do until the transaction commits does not change that.
DefaultTakesEffect ==
  \A t \in Txns : pc[t] = "ready" /\ stmt[t].op = "set" =>
    Defaults(Latest(t)) = {stmt[t].id}

\* A strategy that is added has the improvement_threshold it was added with.
ImprovementKept ==
  \A t \in Txns : pc[t] = "ready" /\ "asked" \in DOMAIN stmt[t] =>
    Latest(t)[stmt[t].id].improvement_threshold = stmt[t].asked

=============================================================================
