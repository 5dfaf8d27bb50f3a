---------------------------- MODULE NodeMetadata ----------------------------
(***************************************************************************)
(* pg_dist_node, the nodes of a Citus cluster: any number of nodes in a    *)
(* group, one of them primary.  The trigger of the table is all that keeps *)
(* it so, whoever changes the table.                                       *)
(***************************************************************************)
EXTENDS CatalogTxn

CONSTANT Initial    \* the nodes there are at first

\* A row is [groupid, noderole]; its key is nodeid.
Primary(r) == r # NoRow /\ r.noderole = "primary"

PrimariesAlone(d) ==
  \A i, j \in Ids : Primary(d[i]) /\ Primary(d[j]) /\ d[i].groupid = d[j].groupid => i = j

ASSUME NodeMetadataAssumption == Initial \in Table /\ PrimariesAlone(Initial)

\* The query of the trigger finds another primary in the group.
SecondPrimary(t) ==
  LET s == stmt[t]
  IN s.row.noderole = "primary" /\
       \E i \in Ids \ {s.new} : Primary(Seen(t)[i]) /\ Seen(t)[i].groupid = s.row.groupid

\* A variant that does not take the lock.
TriggerWithoutLock(t) ==
  /\ pc[t] = "trigger"
  /\ \/ SecondPrimary(t) /\ Forget(t)
     \/ ~SecondPrimary(t) /\ Write(t, locks[t])
  /\ UNCHANGED <<db, snap, changed>>

\* A variant whose lock ends with the trigger.
TriggerUnlocking(t) ==
  /\ pc[t] = "trigger" /\ ShareRowExclusiveFree(t)
  /\ \/ SecondPrimary(t) /\ Forget(t)
     \/ ~SecondPrimary(t) /\ Write(t, locks[t])
  /\ UNCHANGED <<db, snap, changed>>

\* pg_dist_node_trigger_func: the lock first, then the failure 'there cannot be
\* two primary nodes in a group' or the change of the row.
Trigger(t) ==
  /\ pc[t] = "trigger" /\ ShareRowExclusiveFree(t)
  /\ \/ SecondPrimary(t) /\ Forget(t)
     \/ ~SecondPrimary(t) /\ Write(t, locks[t] \cup {"SRE"})
  /\ UNCHANGED <<db, snap, changed>>

Insert(t, i, r) == Statement(t, [op |-> "insert", id |-> i, new |-> i, row |-> r], "re")
Update(t, i, j, r) == Statement(t, [op |-> "update", id |-> i, new |-> j, row |-> r], "re")
Delete(t, i) == Statement(t, [op |-> "delete", id |-> i, new |-> i, row |-> NoRow], "re")

\* AddNodeMetadata locks the table before it adds the node.
AddNodeMetadata(t, i, r) ==
  Statement(t, [op |-> "insert", id |-> i, new |-> i, row |-> r], "lock")

Init == CatalogInit(Initial)

Next ==
  \E t \in Txns :
    \/ \E i \in Ids, r \in Rows : Insert(t, i, r) \/ AddNodeMetadata(t, i, r)
    \/ \E i, j \in Ids, r \in Rows : Update(t, i, j, r)
    \/ \E i \in Ids : Delete(t, i)
    \/ LockTable(t) \/ GetRowExclusive(t) \/ GetRow(t) \/ Trigger(t)
    \/ Commit(t) \/ Rollback(t) \/ DeadlockDetected(t)

Spec == Init /\ [][Next]_vars

\* Locks are granted in the order they are asked for; a deadlock is detected;
\* and a client ends the transaction it started.
Fairness ==
  \A t \in Txns :
    /\ SF_vars(LockTable(t) \/ GetRowExclusive(t) \/ GetRow(t) \/ Trigger(t))
    /\ SF_vars(Commit(t))
    /\ WF_vars(DeadlockDetected(t))

FairSpec == Spec /\ Fairness

-----------------------------------------------------------------------------
(* Properties. *)

Statements ==
  {NoStatement} \cup
  [op : {"insert", "update"}, id : Ids, new : Ids, row : Rows] \cup
  [op : {"delete"}, id : Ids, new : Ids, row : {NoRow}]

\* The variables have their types, and a transaction that waits for a lock has a
\* statement to run when it gets it.
TypeOK ==
  /\ db \in Table
  /\ pc \in [Txns -> {"idle", "ready", "lock", "re", "row", "trigger"}]
  /\ stmt \in [Txns -> Statements]
  /\ locks \in [Txns -> SUBSET {"RE", "SRE"}]
  /\ rows \in [Txns -> SUBSET Ids]
  /\ mine \in [Txns -> [Ids -> Rows \cup {NoRow, Same}]]
  /\ snap \in [Txns -> Table]
  /\ changed \in [Txns -> SUBSET Ids]
  /\ \A t \in Txns : /\ pc[t] \in {"lock", "re"} => stmt[t] # NoStatement
                     /\ pc[t] = "row" => stmt[t].op \in {"update", "delete"}
                     /\ pc[t] = "trigger" => stmt[t].op \in {"insert", "update"}

\* 'there cannot be two primary nodes in a group': never are two committed,
\* whatever transactions insert, promote, renumber and delete nodes at once.
OnePrimaryPerGroup == PrimariesAlone(db)

\* Deletions need no SHARE ROW EXCLUSIVE lock and the other changes ask for it
\* when they hold ROW EXCLUSIVE already; still, while a transaction has an
\* uncommitted node, no other one can have changed the table.
WritersAlone ==
  \A t \in Txns : (\E i \in Ids : mine[t][i] \in Rows) =>
    \A u \in Txns \ {t} : mine[u] = Untouched

\* Two transactions that ask for the stronger lock while they hold the weaker
\* one wait for each other: the statement of each still ends, by a failure if
\* it must.
StatementsEnd ==
  \A t \in Txns : pc[t] \notin {"idle", "ready"} ~> pc[t] \in {"idle", "ready"}

=============================================================================
