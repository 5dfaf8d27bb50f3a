------------------------ MODULE NodeMetadata_proofs ------------------------
(***************************************************************************)
(* For any sets of transactions, nodes and groups: type correctness, the   *)
(* isolation of writers under both isolation levels, and the one primary   *)
(* of a group under READ COMMITTED.                                        *)
(*                                                                         *)
(* CatalogTxn_proofs says what the locks protect.  Here it is enough that  *)
(* the table keeps the one primary that the trigger looked for, as it is   *)
(* committed and as each transaction would commit it.                      *)
(***************************************************************************)
EXTENDS NodeMetadata, CatalogTxn_proofs

\* What a transaction waits for is the statement it has.
StatementInv ==
  /\ stmt \in [Txns -> Statements]
  /\ \A t \in Txns : /\ pc[t] \in {"lock", "re"} => stmt[t] # NoStatement
                     /\ pc[t] = "row" => stmt[t].op \in {"update", "delete"}
                     /\ pc[t] = "trigger" => stmt[t].op \in {"insert", "update"}

LockInv == CatalogInv /\ StatementInv

\* The table and what each transaction would make of it.
AloneInv == PrimariesAlone(db) /\ \A t \in Txns : PrimariesAlone(Latest(t))

-----------------------------------------------------------------------------

LEMMA TypesFollow == LockInv => TypeOK
BY DEF LockInv, CatalogInv, CatalogTypes, StatementInv, TypeOK, Places, Modes, Writes

\* A statement that was started is about nodes of the table.
LEMMA StatementParts ==
  ASSUME StatementInv, NEW t \in Txns, stmt[t].op # "none"
  PROVE  /\ stmt[t].op \in {"insert", "update", "delete"}
         /\ stmt[t].id \in Ids /\ stmt[t].new \in Ids
         /\ stmt[t].op # "delete" => stmt[t].row \in Rows
BY DEF StatementInv, Statements, NoStatement

\* A step that leaves the statements alone, and moves one transaction to a place where
\* its statement is a right one.
LEMMA MoveStatement ==
  ASSUME LockInv, NEW t \in Txns, NEW p, pc' = [pc EXCEPT ![t] = p], stmt' = stmt,
         p \in {"lock", "re"} => stmt[t] # NoStatement,
         p = "row" => stmt[t].op \in {"update", "delete"},
         p = "trigger" => stmt[t].op \in {"insert", "update"}
  PROVE  StatementInv'
BY DEF LockInv, CatalogInv, CatalogTypes, StatementInv

LEMMA NewStatement ==
  ASSUME LockInv, NEW t \in Txns, NEW s \in Statements \ {NoStatement},
         NEW next \in {"re", "lock"}, Statement(t, s, next)
  PROVE  LockInv'
<1>1. CatalogInv'
  BY StatementKeeps DEF LockInv
<1>2. /\ pc'[t] = next /\ stmt'[t] = s /\ stmt' = [stmt EXCEPT ![t] = s]
      /\ \A u \in Txns \ {t} : pc'[u] = pc[u] /\ stmt'[u] = stmt[u]
  BY DEF LockInv, CatalogInv, CatalogTypes, StatementInv, Statement
<1>3. StatementInv'
  BY <1>2 DEF LockInv, StatementInv
<1> QED
  BY <1>1, <1>3 DEF LockInv

LEMMA ForgetStatement ==
  ASSUME LockInv, NEW t \in Txns, Forget(t)
  PROVE  StatementInv'
<1>1. NoStatement \in Statements
  BY DEF Statements
<1>2. /\ pc'[t] = "idle" /\ stmt' = [stmt EXCEPT ![t] = NoStatement]
      /\ \A u \in Txns \ {t} : pc'[u] = pc[u] /\ stmt'[u] = stmt[u]
  BY DEF LockInv, CatalogInv, CatalogTypes, StatementInv, Forget
<1> QED
  BY <1>1, <1>2 DEF LockInv, StatementInv

LEMMA InsertType ==
  ASSUME NEW i \in Ids, NEW r \in Rows
  PROVE  [op |-> "insert", id |-> i, new |-> i, row |-> r] \in Statements \ {NoStatement}
BY DEF Statements, NoStatement

LEMMA UpdateType ==
  ASSUME NEW i \in Ids, NEW j \in Ids, NEW r \in Rows
  PROVE  [op |-> "update", id |-> i, new |-> j, row |-> r] \in Statements \ {NoStatement}
BY DEF Statements, NoStatement

LEMMA DeleteType ==
  ASSUME NEW i \in Ids
  PROVE  [op |-> "delete", id |-> i, new |-> i, row |-> NoRow] \in Statements \ {NoStatement}
BY DEF Statements, NoStatement

\* Types, locks and statements are right at first,
LEMMA LockInit == Init => LockInv
<1> SUFFICES ASSUME Init PROVE LockInv
  OBVIOUS
<1>1. CatalogInv
  BY NodeMetadataAssumption, CatalogStart DEF Init
<1>2. StatementInv
  BY DEF Init, CatalogInit, StatementInv, Statements
<1> QED
  BY <1>1, <1>2 DEF LockInv

\* and every step keeps them so.
LEMMA LockStep == LockInv /\ [Next]_vars => LockInv'
<1> SUFFICES ASSUME LockInv, [Next]_vars PROVE LockInv'
  OBVIOUS
<1>1. ASSUME NEW t \in Txns, NEW i \in Ids, NEW r \in Rows, Insert(t, i, r) \/ AddNodeMetadata(t, i, r)
      PROVE  LockInv'
  BY <1>1, InsertType, NewStatement DEF Insert, AddNodeMetadata
<1>2. ASSUME NEW t \in Txns, NEW i \in Ids, NEW j \in Ids, NEW r \in Rows, Update(t, i, j, r)
      PROVE  LockInv'
  BY <1>2, UpdateType, NewStatement DEF Update
<1>3. ASSUME NEW t \in Txns, NEW i \in Ids, Delete(t, i)
      PROVE  LockInv'
  BY <1>3, DeleteType, NewStatement DEF Delete
<1>4. ASSUME NEW t \in Txns, LockTable(t)
      PROVE  LockInv'
  <2>1. stmt[t] # NoStatement /\ pc' = [pc EXCEPT ![t] = "re"] /\ stmt' = stmt
    BY <1>4 DEF LockInv, StatementInv, LockTable
  <2> QED
    BY <1>4, <2>1, LockTableKeeps, MoveStatement DEF LockInv
<1>5. ASSUME NEW t \in Txns, GetRowExclusive(t)
      PROVE  LockInv'
  <2> DEFINE p == IF stmt[t].op \in {"update", "delete"} THEN "row" ELSE "trigger"
  <2>1. stmt[t].op \in {"insert", "update", "delete"}
    BY <1>5 DEF LockInv, StatementInv, GetRowExclusive, Statements, NoStatement
  <2>2. pc' = [pc EXCEPT ![t] = p] /\ stmt' = stmt
    BY <1>5 DEF GetRowExclusive
  <2>3. StatementInv'
    BY <2>1, <2>2, MoveStatement
  <2> QED
    BY <1>5, <2>3, GetRowExclusiveKeeps DEF LockInv
<1>6. ASSUME NEW t \in Txns, GetRow(t)
      PROVE  LockInv'
  <2>1. stmt[t].op \in {"update", "delete"} /\ stmt[t].id \in Ids
    BY <1>6, StatementParts DEF LockInv, StatementInv, GetRow
  <2>2. CASE Forget(t)
    BY <1>6, <2>1, <2>2, GetRowKeeps, ForgetStatement DEF LockInv
  <2>3. CASE ~Forget(t)
    <3>1. /\ pc' = [pc EXCEPT ![t] = "ready"] \/
               (pc' = [pc EXCEPT ![t] = "trigger"] /\ stmt[t].op # "delete")
          /\ stmt' = stmt
      BY <1>6, <2>3 DEF GetRow
    <3>2. StatementInv'
      BY <2>1, <3>1, MoveStatement
    <3> QED
      BY <1>6, <2>1, <3>2, GetRowKeeps DEF LockInv
  <2> QED
    BY <2>2, <2>3
<1>7. ASSUME NEW t \in Txns, Trigger(t)
      PROVE  LockInv'
  <2>1. /\ stmt[t].new \in Ids /\ stmt[t].row \in Rows
        /\ UNCHANGED <<db, snap, changed>> /\ ShareRowExclusiveFree(t)
    BY <1>7, StatementParts DEF LockInv, StatementInv, Trigger
  <2>2. CASE Forget(t)
    BY <2>1, <2>2, ForgetKeeps, ForgetStatement DEF LockInv, CatalogInv, CatalogTypes
  <2>3. CASE Write(t, locks[t] \cup {"SRE"}) /\ ~Forget(t)
    <3>1. pc' = [pc EXCEPT ![t] = "ready"] /\ stmt' = stmt
      BY <2>3 DEF Write
    <3>2. StatementInv'
      BY <3>1, MoveStatement
    <3> QED
      BY <2>1, <2>3, <3>2, WriteKeeps DEF LockInv
  <2> QED
    BY <1>7, <2>2, <2>3 DEF Trigger
<1>8. ASSUME NEW t \in Txns, Commit(t)
      PROVE  LockInv'
  BY <1>8, CommitKeeps, ForgetStatement DEF LockInv, Commit
<1>9. ASSUME NEW t \in Txns, Rollback(t)
      PROVE  LockInv'
  BY <1>9, RollbackKeeps, ForgetStatement DEF LockInv, Rollback
<1>10. CASE UNCHANGED vars
  BY <1>10, CatalogStutter DEF vars, LockInv, StatementInv
<1> QED
  BY <1>1, <1>2, <1>3, <1>4, <1>5, <1>6, <1>7, <1>8, <1>9, <1>10
     DEF Next, DeadlockDetected

\* Every variable keeps its type.
THEOREM TypeCorrect == Spec => []TypeOK
BY LockInit, LockStep, TypesFollow, PTL DEF Spec

\* While a transaction has an uncommitted node no other one has changed the
\* table, under both isolation levels.
THEOREM OneWriter == Spec => []WritersAlone
<1>1. LockInv => WritersAlone
  <2> SUFFICES ASSUME LockInv, NEW t \in Txns, NEW i \in Ids, mine[t][i] \in Rows,
                      NEW u \in Txns \ {t}
               PROVE  mine[u] = Untouched
    BY DEF WritersAlone
  <2>1. "SRE" \in locks[t]
    BY DEF LockInv, CatalogInv, Protection
  <2>2. mine[u] \in Writes /\ \A j \in Ids : mine[u][j] = Same
    BY <2>1, HolderAlone DEF LockInv, CatalogInv, CatalogTypes
  <2> QED
    BY <2>2 DEF Untouched, Writes
<1> QED
  BY <1>1, LockInit, LockStep, PTL DEF Spec

-----------------------------------------------------------------------------

\* Fewer nodes have no more primaries.
LEMMA FewerNodes ==
  ASSUME NEW c, NEW d, PrimariesAlone(c), \A i \in Ids : d[i] \in {c[i], NoRow}
  PROVE  PrimariesAlone(d)
BY DEF PrimariesAlone, Primary

\* The table stays or is that of a commit, and transactions only lose nodes.
LEMMA AloneShrinks ==
  ASSUME AloneInv, PrimariesAlone(db'), \A u \in Txns : Shrinks(u)
  PROVE  AloneInv'
<1>1. ASSUME NEW u \in Txns
      PROVE  PrimariesAlone(Latest(u)')
  <2>1. CASE \A i \in Ids : Latest(u)'[i] \in {Latest(u)[i], NoRow}
    BY <2>1, FewerNodes DEF AloneInv
  <2>2. CASE \A i \in Ids : Latest(u)'[i] = db'[i]
    BY <2>2, FewerNodes
  <2> QED
    BY <2>1, <2>2 DEF Shrinks
<1>2. \A u \in Txns : PrimariesAlone(Latest(u))'
  BY <1>1 DEF PrimariesAlone, Primary
<1> QED
  BY <1>2 DEF AloneInv, PrimariesAlone, Primary

\* The trigger lets a node pass when the table, as its transaction sees it, has
\* no other primary in the group; and that is the latest table.
LEMMA AloneWrite ==
  ASSUME LockInv, AloneInv, RepeatableRead = {}, NEW t \in Txns, pc[t] = "trigger",
         ~SecondPrimary(t), NEW held, Write(t, held), ~Forget(t), db' = db
  PROVE  AloneInv'
<1> DEFINE s == stmt[t]
<1>1. s.new \in Ids /\ s.row \in Rows
  BY StatementParts DEF LockInv, StatementInv
<1>2. /\ Latest(t)'[s.new] = s.row
      /\ \A i \in Ids \ {s.new} : Latest(t)'[i] \in {Latest(t)[i], NoRow}
      /\ \A u \in Txns \ {t} : Shrinks(u)
  BY <1>1, WriteLatest DEF LockInv
<1>3. Seen(t) = Latest(t)
  BY DEF Seen, Latest
<1>4. PrimariesAlone(Latest(t)) /\ PrimariesAlone(db')
  BY DEF AloneInv
<1>5. Primary(s.row) => \A i \in Ids \ {s.new} :
        ~(Primary(Latest(t)[i]) /\ Latest(t)[i].groupid = s.row.groupid)
  BY <1>3 DEF SecondPrimary, Primary
<1> HIDE DEF s
<1>6. PrimariesAlone(Latest(t)')
  BY <1>1, <1>2, <1>4, <1>5 DEF PrimariesAlone, Primary
<1>7. ASSUME NEW u \in Txns \ {t}
      PROVE  PrimariesAlone(Latest(u)')
  <2>1. CASE \A i \in Ids : Latest(u)'[i] \in {Latest(u)[i], NoRow}
    BY <2>1, FewerNodes DEF AloneInv
  <2>2. CASE \A i \in Ids : Latest(u)'[i] = db'[i]
    BY <1>4, <2>2, FewerNodes
  <2> QED
    BY <1>2, <2>1, <2>2 DEF Shrinks
<1>8. \A u \in Txns : PrimariesAlone(Latest(u))'
  BY <1>6, <1>7 DEF PrimariesAlone, Primary
<1> QED
  BY <1>4, <1>8 DEF AloneInv, PrimariesAlone, Primary

LEMMA AloneInit == Init => AloneInv
<1> SUFFICES ASSUME Init PROVE AloneInv
  OBVIOUS
<1>1. PrimariesAlone(db)
  BY NodeMetadataAssumption DEF Init, CatalogInit
<1>2. \A t \in Txns, i \in Ids : mine[t][i] = Same
  BY DEF Init, CatalogInit, Untouched
<1>3. \A t \in Txns, i \in Ids : Latest(t)[i] = db[i]
  BY <1>2, LatestAt
<1> QED
  BY <1>1, <1>3, FewerNodes DEF AloneInv

LEMMA AloneStep ==
  ASSUME RepeatableRead = {}
  PROVE  LockInv /\ AloneInv /\ [Next]_vars => AloneInv'
<1> SUFFICES ASSUME LockInv, AloneInv, [Next]_vars PROVE AloneInv'
  OBVIOUS
<1> USE DEF LockInv
<1>1. ASSUME db' = db
      PROVE  PrimariesAlone(db')
  BY <1>1 DEF AloneInv
<1>2. ASSUME UNCHANGED <<db, mine>>
      PROVE  AloneInv'
  BY <1>1, <1>2, QuietShrinks, AloneShrinks
<1>3. ASSUME NEW t \in Txns, GetRow(t)
      PROVE  AloneInv'
  <2>1. db' = db
    BY <1>3 DEF GetRow
  <2>2. \A u \in Txns : Shrinks(u)
    BY <1>3, GetRowShrinks
  <2> QED
    BY <1>1, <2>1, <2>2, AloneShrinks
<1>4. ASSUME NEW t \in Txns, Forget(t), db' = db
      PROVE  AloneInv'
  <2>1. \A u \in Txns : Shrinks(u)
    BY <1>4, ForgetShrinks
  <2> QED
    BY <1>1, <1>4, <2>1, AloneShrinks
<1>5. ASSUME NEW t \in Txns, Trigger(t)
      PROVE  AloneInv'
  <2>1. pc[t] = "trigger" /\ db' = db
    BY <1>5 DEF Trigger
  <2> QED
    BY <1>4, <1>5, <2>1, AloneWrite DEF Trigger
<1>6. ASSUME NEW t \in Txns, Rollback(t)
      PROVE  AloneInv'
  BY <1>4, <1>6 DEF Rollback
<1>7. ASSUME NEW t \in Txns, Commit(t)
      PROVE  AloneInv'
  <2>1. \A u \in Txns : Shrinks(u)
    BY <1>7, CommitShrinks
  <2>2. PrimariesAlone(db')
    BY <1>7 DEF AloneInv, Commit
  <2> QED
    BY <2>1, <2>2, AloneShrinks
<1> QED
  BY <1>2, <1>3, <1>5, <1>6, <1>7
     DEF Next, Insert, AddNodeMetadata, Update, Delete, Statement, LockTable,
         GetRowExclusive, DeadlockDetected, vars

\* There are never two primary nodes in a group, when transactions are READ
\* COMMITTED.
THEOREM OnePrimary ==
  ASSUME RepeatableRead = {}
  PROVE  Spec => []OnePrimaryPerGroup
<1>1. LockInv /\ AloneInv => OnePrimaryPerGroup
  BY DEF AloneInv, OnePrimaryPerGroup
<1>2. LockInv /\ AloneInv /\ [Next]_vars => (LockInv /\ AloneInv)'
  BY LockStep, AloneStep
<1> QED
  BY <1>1, <1>2, LockInit, AloneInit, PTL DEF Spec

=============================================================================
