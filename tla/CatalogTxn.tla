----------------------------- MODULE CatalogTxn -----------------------------
(***************************************************************************)
(* Transactions of the server on one catalog table whose consistency is    *)
(* kept by a row trigger that first takes a SHARE ROW EXCLUSIVE lock on    *)
(* the table.  The lock manager and the visibility rules are compiled C    *)
(* code that the repository does not hold: they are modelled from how the  *)
(* SQL functions and the lock modes of storage/lockdefs.h use them.        *)
(*                                                                         *)
(* A statement takes ROW EXCLUSIVE on the table, then the row it changes   *)
(* (insertions excepted), and then runs the trigger, which the module that *)
(* EXTENDS this one defines.  A transaction reads what it wrote itself     *)
(* and, for the rest, what is committed: when the query starts, under READ *)
(* COMMITTED, or when its first statement started, under REPEATABLE READ.  *)
(***************************************************************************)
EXTENDS Integers, FiniteSets

CONSTANTS Txns,
          Ids,              \* values of the table's unique key
          Rows,             \* what a row holds besides
          NoRow, Same,      \* no such row; a row the transaction did not touch
          RepeatableRead    \* the transactions of that isolation level

ASSUME CatalogTxnAssumption ==
  /\ NoRow \notin Rows /\ Same \notin Rows \cup {NoRow}
  /\ RepeatableRead \subseteq Txns

VARIABLES db,        \* the committed table
          pc, stmt,  \* what each transaction does, and its current statement
          locks,     \* its locks on the table: "RE", "SRE"
          rows,      \* the rows it has locked
          mine,      \* what it wrote
          snap,      \* its snapshot
          changed    \* the rows others committed changes of since then

vars == <<db, pc, stmt, locks, rows, mine, snap, changed>>

Table == [Ids -> Rows \cup {NoRow}]

NoStatement == [op |-> "none"]
Untouched == [i \in Ids |-> Same]

\* w over the table d
Overlay(w, d) == [i \in Ids |-> IF w[i] # Same THEN w[i] ELSE d[i]]

\* What a query of t sees, and the latest versions of the rows.
Seen(t) == Overlay(mine[t], IF t \in RepeatableRead THEN snap[t] ELSE db)
Latest(t) == Overlay(mine[t], db)

\* Locks that conflict: "SRE" with both modes, "RE" with "SRE" only.
RowExclusiveFree(t) == \A u \in Txns \ {t} : "SRE" \notin locks[u]
ShareRowExclusiveFree(t) == \A u \in Txns \ {t} : locks[u] = {}
RowFree(t, i) == \A u \in Txns \ {t} : i \notin rows[u]

CatalogInit(d) ==
  /\ db = d
  /\ pc = [t \in Txns |-> "idle"]
  /\ stmt = [t \in Txns |-> NoStatement]
  /\ locks = [t \in Txns |-> {}]
  /\ rows = [t \in Txns |-> {}]
  /\ mine = [t \in Txns |-> Untouched]
  /\ snap = [t \in Txns |-> d]
  /\ changed = [t \in Txns |-> {}]

\* t starts the statement s, its first one if it is idle; next is the first
\* lock that it waits for.
Statement(t, s, next) ==
  /\ pc[t] \in {"idle", "ready"}
  /\ pc' = [pc EXCEPT ![t] = next]
  /\ stmt' = [stmt EXCEPT ![t] = s]
  /\ IF pc[t] = "idle" /\ t \in RepeatableRead
       THEN snap' = [snap EXCEPT ![t] = db] /\ changed' = [changed EXCEPT ![t] = {}]
       ELSE UNCHANGED <<snap, changed>>
  /\ UNCHANGED <<db, locks, rows, mine>>

\* LOCK TABLE ... IN SHARE ROW EXCLUSIVE MODE ahead of any statement.
LockTable(t) ==
  /\ pc[t] = "lock" /\ ShareRowExclusiveFree(t)
  /\ locks' = [locks EXCEPT ![t] = @ \cup {"SRE"}]
  /\ pc' = [pc EXCEPT ![t] = "re"]
  /\ UNCHANGED <<db, stmt, rows, mine, snap, changed>>

\* A variant that runs the trigger on deletions too.
GetRowExclusiveAndTrigger(t) ==
  /\ pc[t] = "re" /\ RowExclusiveFree(t)
  /\ locks' = [locks EXCEPT ![t] = @ \cup {"RE"}]
  /\ pc' = [pc EXCEPT ![t] = IF stmt[t].op = "update" THEN "row" ELSE "trigger"]
  /\ UNCHANGED <<db, stmt, rows, mine, snap, changed>>

\* INSERT, UPDATE and DELETE lock the table in ROW EXCLUSIVE mode.
GetRowExclusive(t) ==
  /\ pc[t] = "re" /\ RowExclusiveFree(t)
  /\ locks' = [locks EXCEPT ![t] = @ \cup {"RE"}]
  /\ pc' = [pc EXCEPT ![t] = IF stmt[t].op \in {"update", "delete"} THEN "row" ELSE "trigger"]
  /\ UNCHANGED <<db, stmt, rows, mine, snap, changed>>

\* The transaction is gone, with everything it wrote.
Forget(t) ==
  /\ pc' = [pc EXCEPT ![t] = "idle"]
  /\ stmt' = [stmt EXCEPT ![t] = NoStatement]
  /\ locks' = [locks EXCEPT ![t] = {}]
  /\ rows' = [rows EXCEPT ![t] = {}]
  /\ mine' = [mine EXCEPT ![t] = Untouched]

\* UPDATE and DELETE lock the row they change when its last writer has ended.
\* Under READ COMMITTED they go on with its latest version, or do nothing when
\* it is gone; under REPEATABLE READ a row that changed is a failure.
GetRow(t) ==
  LET i == stmt[t].id
  IN /\ pc[t] = "row" /\ RowFree(t, i)
     /\ \/ /\ Seen(t)[i] = NoRow
           /\ pc' = [pc EXCEPT ![t] = "ready"]
           /\ UNCHANGED <<stmt, locks, rows, mine>>
        \/ /\ Seen(t)[i] # NoRow
           /\ t \in RepeatableRead /\ i \in changed[t] /\ mine[t][i] = Same
           /\ Forget(t)
        \/ /\ Seen(t)[i] # NoRow
           /\ ~(t \in RepeatableRead /\ i \in changed[t] /\ mine[t][i] = Same)
           /\ rows' = [rows EXCEPT ![t] = @ \cup {i}]
           /\ IF stmt[t].op = "delete"
                THEN /\ mine' = [mine EXCEPT ![t][i] = NoRow]
                     /\ pc' = [pc EXCEPT ![t] = "ready"]
                ELSE /\ pc' = [pc EXCEPT ![t] = "trigger"]
                     /\ UNCHANGED mine
           /\ UNCHANGED <<stmt, locks>>
     /\ UNCHANGED <<db, snap, changed>>

\* The new row of the statement of t, which ends with the locks held; a key that
\* is taken is a failure.
Write(t, held) ==
  LET s == stmt[t]
      taken == Latest(t)[s.new] # NoRow /\ ~(s.op = "update" /\ s.new = s.id)
  IN \/ taken /\ Forget(t)
     \/ /\ ~taken
        /\ mine' = [mine EXCEPT ![t] = [i \in Ids |-> CASE i = s.new -> s.row
                                                         [] i = s.id /\ i # s.new -> NoRow
                                                         [] OTHER -> mine[t][i]]]
        /\ rows' = [rows EXCEPT ![t] = @ \cup {s.new}]
        /\ locks' = [locks EXCEPT ![t] = held]
        /\ pc' = [pc EXCEPT ![t] = "ready"]
        /\ UNCHANGED stmt

Commit(t) ==
  /\ pc[t] = "ready"
  /\ db' = Latest(t)
  /\ changed' = [u \in Txns |-> IF u \in RepeatableRead /\ u # t
                                  THEN changed[u] \cup {i \in Ids : mine[t][i] # Same}
                                  ELSE {}]
  /\ Forget(t)
  /\ UNCHANGED snap

\* ROLLBACK, an error, a cancelled statement, or the end of the session.
Rollback(t) ==
  /\ pc[t] # "idle"
  /\ Forget(t)
  /\ UNCHANGED <<db, snap, changed>>

WaitsFor(t, u) ==
  /\ u # t
  /\ CASE pc[t] = "re" -> "SRE" \in locks[u]
       [] pc[t] = "row" -> stmt[t].id \in rows[u]
       [] pc[t] \in {"lock", "trigger"} -> locks[u] # {}
       [] OTHER -> FALSE

\* t waits for itself through others.
Deadlocked(t) ==
  LET behind[n \in 0..Cardinality(Txns)] ==
        IF n = 0 THEN {u \in Txns : WaitsFor(t, u)}
        ELSE behind[n - 1] \cup {u \in Txns : \E v \in behind[n - 1] : WaitsFor(v, u)}
  IN t \in behind[Cardinality(Txns)]

\* A variant without the check.
DeadlockIgnored(t) == Deadlocked(t) /\ pc[t] = "idle" /\ Rollback(t)

\* The deadlock check of a waiting process fails its transaction.
DeadlockDetected(t) == Deadlocked(t) /\ Rollback(t)

=============================================================================
