---------------------- MODULE RebalanceStrategy_proofs ----------------------
(***************************************************************************)
(* For any sets of transactions, names and strategies: type correctness,   *)
(* one default strategy at most, and that citus_set_default_rebalance_     *)
(* strategy takes effect, the last two under READ COMMITTED.               *)
(*                                                                         *)
(* CatalogTxn_proofs says what the locks protect.  A call that sets the    *)
(* default holds SHARE ROW EXCLUSIVE before its statement starts, so what  *)
(* it has made of the table stays so until its transaction ends.           *)
(***************************************************************************)
EXTENDS RebalanceStrategy, CatalogTxn_proofs, FiniteSetTheorems

StatementInv ==
  /\ stmt \in [Txns -> Statements]
  /\ \A t \in Txns :
       /\ pc[t] = "lock" => stmt[t].op = "set"
       /\ pc[t] = "re" => stmt[t].op # "none"
       /\ pc[t] = "row" => stmt[t].op \in {"update", "delete"}
       /\ pc[t] = "trigger" => stmt[t].op \in {"insert", "update", "set"}
       /\ pc[t] \in {"re", "trigger", "ready"} /\ stmt[t].op = "set" => "SRE" \in locks[t]

LockInv == CatalogInv /\ StatementInv

-----------------------------------------------------------------------------

LEMMA TypesFollow == LockInv => TypeOK
BY DEF LockInv, CatalogInv, CatalogTypes, Protection, StatementInv, TypeOK, Places, Modes, Writes

\* A statement that was started is about strategies of the table.
LEMMA StatementParts ==
  ASSUME StatementInv, NEW t \in Txns, stmt[t].op # "none"
  PROVE  /\ stmt[t].op \in {"insert", "update", "delete", "set"}
         /\ stmt[t].id \in Ids /\ stmt[t].new \in Ids
         /\ stmt[t].op \in {"insert", "update"} => stmt[t].row \in Rows
BY DEF StatementInv, Statements, NoStatement

\* A step that leaves the statements alone, moves one transaction to a place where its
\* statement is a right one, and takes no lock away.
LEMMA MoveStatement ==
  ASSUME LockInv, NEW t \in Txns, NEW p, pc' = [pc EXCEPT ![t] = p], stmt' = stmt,
         NEW held, locks' = [locks EXCEPT ![t] = held],
         p = "lock" => stmt[t].op = "set",
         p = "re" => stmt[t].op # "none",
         p = "row" => stmt[t].op \in {"update", "delete"},
         p = "trigger" => stmt[t].op \in {"insert", "update", "set"},
         p \in {"re", "trigger", "ready"} /\ stmt[t].op = "set" => "SRE" \in held
  PROVE  StatementInv'
<1>1. /\ pc'[t] = p /\ locks'[t] = held /\ stmt' = stmt
      /\ \A u \in Txns \ {t} : pc'[u] = pc[u] /\ locks'[u] = locks[u]
  BY DEF LockInv, CatalogInv, CatalogTypes
<1> QED
  BY <1>1 DEF LockInv, StatementInv

\* The same when the statement has ended.
LEMMA EndStatement ==
  ASSUME LockInv, NEW t \in Txns, pc' = [pc EXCEPT ![t] = "ready"], stmt' = stmt,
         NEW held, locks' = [locks EXCEPT ![t] = held],
         stmt[t].op = "set" => "SRE" \in held
  PROVE  StatementInv'
<1>1. /\ pc'[t] = "ready" /\ locks'[t] = held /\ stmt' = stmt
      /\ \A u \in Txns \ {t} : pc'[u] = pc[u] /\ locks'[u] = locks[u]
  BY DEF LockInv, CatalogInv, CatalogTypes
<1> QED
  BY <1>1 DEF LockInv, StatementInv

LEMMA NewStatement ==
  ASSUME LockInv, NEW t \in Txns, NEW s \in Statements, s.op # "none",
         NEW next \in {"re", "lock"}, Statement(t, s, next), next = "lock" <=> s.op = "set"
  PROVE  LockInv'
<1>1. CatalogInv'
  BY StatementKeeps DEF LockInv
<1>2. /\ pc'[t] = next /\ stmt'[t] = s /\ stmt' = [stmt EXCEPT ![t] = s] /\ locks' = locks
      /\ \A u \in Txns \ {t} : pc'[u] = pc[u] /\ stmt'[u] = stmt[u]
  BY DEF LockInv, CatalogInv, CatalogTypes, StatementInv, Statement
<1>3. StatementInv'
  BY <1>2 DEF LockInv, StatementInv
<1> QED
  BY <1>1, <1>3 DEF LockInv

LEMMA ForgetStatement ==
  ASSUME LockInv, NEW t \in Txns, Forget(t)
  PROVE  StatementInv'
<1>1. NoStatement \in Statements
  BY DEF Statements
<1>2. /\ pc'[t] = "idle" /\ stmt' = [stmt EXCEPT ![t] = NoStatement]
      /\ \A u \in Txns \ {t} : pc'[u] = pc[u] /\ stmt'[u] = stmt[u] /\ locks'[u] = locks[u]
  BY DEF LockInv, CatalogInv, CatalogTypes, StatementInv, Forget
<1> QED
  BY <1>1, <1>2 DEF LockInv, StatementInv

LEMMA StatementTypes ==
  ASSUME NEW i \in Ids, NEW j \in Ids, NEW r \in Rows
  PROVE  /\ [op |-> "insert", id |-> i, new |-> i, row |-> r] \in Statements
         /\ [op |-> "update", id |-> i, new |-> j, row |-> r] \in Statements
         /\ [op |-> "delete", id |-> i, new |-> i, row |-> NoRow] \in Statements
         /\ [op |-> "set", id |-> i, new |-> i, row |-> NoRow] \in Statements
BY DEF Statements

LEMMA AddedType ==
  ASSUME NEW i \in Ids, NEW r \in Rows
  PROVE  [op |-> "insert", id |-> i, new |-> i, asked |-> r.improvement_threshold,
          row |-> Added(r.default_threshold, r.minimum_threshold)] \in Statements
<1>1. /\ r.improvement_threshold \in Asked
      /\ Added(r.default_threshold, r.minimum_threshold) \in Rows
  BY RebalanceStrategyAssumption DEF Asked
<1> QED
  BY <1>1 DEF Statements

\* What citus_set_default_rebalance_strategy writes when it does not fail.
Unset(t) == [i \in Ids |-> IF Default(Seen(t)[i]) THEN SetDefaultFlag(Seen(t)[i], FALSE)
                                                 ELSE Seen(t)[i]]
WrittenDefault(t) == SetDefaultFlag(Unset(t)[stmt[t].id], TRUE)
WrittenBySet(t) ==
  [i \in Ids |-> CASE i = stmt[t].id -> WrittenDefault(t)
                   [] i \in (Defaults(Seen(t)) \cup {stmt[t].id}) \ {stmt[t].id} -> Unset(t)[i]
                   [] OTHER -> mine[t][i]]

LEMMA SetDefaultEffect ==
  ASSUME NEW t \in Txns, SetDefault(t), ~Forget(t)
  PROVE  /\ Seen(t)[stmt[t].id] # NoRow
         /\ mine' = [mine EXCEPT ![t] = WrittenBySet(t)]
         /\ rows' = [rows EXCEPT ![t] = @ \cup (Defaults(Seen(t)) \cup {stmt[t].id})]
         /\ pc' = [pc EXCEPT ![t] = "ready"] /\ UNCHANGED <<stmt, locks, db, snap, changed>>
         /\ pc[t] = "trigger" /\ stmt[t].op = "set"
BY DEF SetDefault, WrittenBySet, WrittenDefault, Unset

\* A transaction sees strategies.
LEMMA SeenTypes ==
  ASSUME CatalogInv, NEW t \in Txns, NEW i \in Ids
  PROVE  Seen(t)[i] \in Rows \cup {NoRow} /\ Latest(t)[i] \in Rows \cup {NoRow}
<1>1. /\ db[i] \in Rows \cup {NoRow} /\ snap[t][i] \in Rows \cup {NoRow}
      /\ mine[t][i] \in Rows \cup {NoRow, Same}
  BY DEF CatalogInv, CatalogTypes, Table, Writes
<1> QED
  BY <1>1 DEF Seen, Latest, Overlay

\* The flag of a strategy is set or not.
LEMMA Flag ==
  ASSUME NEW r \in Rows, NEW flag \in BOOLEAN
  PROVE  /\ SetDefaultFlag(r, flag) \in Rows
         /\ SetDefaultFlag(r, flag).default_strategy = flag
         /\ Default(SetDefaultFlag(r, flag)) <=> flag
<1>1. SetDefaultFlag(r, flag) \in Rows
  BY RebalanceStrategyAssumption
<1>2. SetDefaultFlag(r, flag).default_strategy = flag
  BY RebalanceStrategyAssumption DEF SetDefaultFlag
<1>3. SetDefaultFlag(r, flag) # NoRow
  BY <1>1, CatalogTxnAssumption
<1> HIDE DEF SetDefaultFlag
<1> QED
  BY <1>1, <1>2, <1>3 DEF Default

LEMMA UnsetTypes ==
  ASSUME CatalogInv, NEW t \in Txns, NEW i \in Ids
  PROVE  /\ Unset(t)[i] \in Rows \cup {NoRow}
         /\ Seen(t)[i] # NoRow => Unset(t)[i] \in Rows
         /\ ~Default(Unset(t)[i])
         /\ ~Default(Seen(t)[i]) => Unset(t)[i] = Seen(t)[i]
<1> DEFINE r == Seen(t)[i]
<1>1. r \in Rows \cup {NoRow}
  BY SeenTypes
<1>2. Unset(t)[i] = IF Default(r) THEN SetDefaultFlag(r, FALSE) ELSE r
  BY DEF Unset
<1> HIDE DEF r
<1>3. CASE Default(r)
  <2>1. r \in Rows
    BY <1>1, <1>3 DEF Default
  <2> QED
    BY <1>2, <1>3, <2>1, Flag DEF r
<1>4. CASE ~Default(r)
  BY <1>1, <1>2, <1>4, CatalogTxnAssumption DEF r
<1> QED
  BY <1>3, <1>4

LEMMA WrittenTypes ==
  ASSUME LockInv, NEW t \in Txns, SetDefault(t), ~Forget(t)
  PROVE  /\ stmt[t].id \in Ids /\ WrittenDefault(t) \in Rows /\ Default(WrittenDefault(t))
         /\ WrittenBySet(t) \in Writes
<1>1. stmt[t].id \in Ids /\ Seen(t)[stmt[t].id] # NoRow
  BY SetDefaultEffect, StatementParts DEF LockInv
<1>2. Unset(t)[stmt[t].id] \in Rows
  BY <1>1, UnsetTypes DEF LockInv
<1>3. WrittenDefault(t) \in Rows /\ Default(WrittenDefault(t))
  BY <1>2, Flag DEF WrittenDefault
<1>4. \A i \in Ids : /\ Unset(t)[i] \in Rows \cup {NoRow}
                     /\ mine[t][i] \in Rows \cup {NoRow, Same}
  BY UnsetTypes DEF LockInv, CatalogInv, CatalogTypes, Writes
<1>5. WrittenBySet(t) \in Writes
  BY <1>3, <1>4 DEF WrittenBySet, Writes
<1> QED
  BY <1>1, <1>3, <1>5

\* Types, locks and statements are right at first,
LEMMA LockInit == Init => LockInv
<1> SUFFICES ASSUME Init PROVE LockInv
  OBVIOUS
<1>1. CatalogInv
  BY RebalanceStrategyAssumption, CatalogStart DEF Init
<1>2. StatementInv
  BY DEF Init, CatalogInit, StatementInv, Statements
<1> QED
  BY <1>1, <1>2 DEF LockInv

\* and every step keeps them so.
LEMMA LockStep == LockInv /\ [Next]_vars => LockInv'
<1> SUFFICES ASSUME LockInv, [Next]_vars PROVE LockInv'
  OBVIOUS
<1>1. ASSUME NEW t \in Txns, NEW i \in Ids, NEW r \in Rows, Insert(t, i, r)
      PROVE  LockInv'
  BY <1>1, StatementTypes, NewStatement DEF Insert
<1>2. ASSUME NEW t \in Txns, NEW i \in Ids, NEW j \in Ids, NEW r \in Rows, Update(t, i, j, r)
      PROVE  LockInv'
  BY <1>2, StatementTypes, NewStatement DEF Update
<1>3. ASSUME NEW t \in Txns, NEW i \in Ids, Delete(t, i)
      PROVE  LockInv'
  <2>1. [op |-> "delete", id |-> i, new |-> i, row |-> NoRow] \in Statements
    BY DEF Statements
  <2> QED
    BY <1>3, <2>1, NewStatement DEF Delete
<1>4. ASSUME NEW t \in Txns, NEW i \in Ids, citus_set_default_rebalance_strategy(t, i)
      PROVE  LockInv'
  <2>1. [op |-> "set", id |-> i, new |-> i, row |-> NoRow] \in Statements
    BY DEF Statements
  <2> QED
    BY <1>4, <2>1, NewStatement DEF citus_set_default_rebalance_strategy
<1>5. ASSUME NEW t \in Txns, NEW i \in Ids, NEW r \in Rows,
             citus_add_rebalance_strategy(t, i, r.default_threshold, r.minimum_threshold,
                                          r.improvement_threshold)
      PROVE  LockInv'
  <2> DEFINE s == [op |-> "insert", id |-> i, new |-> i, asked |-> r.improvement_threshold,
                   row |-> Added(r.default_threshold, r.minimum_threshold)]
  <2>1. s \in Statements /\ s.op = "insert" /\ Statement(t, s, "re")
    BY <1>5, AddedType DEF citus_add_rebalance_strategy
  <2> HIDE DEF s
  <2> QED
    BY <2>1, NewStatement
<1>6. ASSUME NEW t \in Txns, LockTable(t)
      PROVE  LockInv'
  <2> DEFINE held == locks[t] \cup {"SRE"}
  <2>1. /\ pc[t] = "lock" /\ pc' = [pc EXCEPT ![t] = "re"] /\ stmt' = stmt
        /\ locks' = [locks EXCEPT ![t] = held] /\ "SRE" \in held
    BY <1>6 DEF LockTable
  <2>2. stmt[t].op = "set"
    BY <2>1 DEF LockInv, StatementInv
  <2> HIDE DEF held
  <2>3. StatementInv'
    <3> DEFINE p == "re"
    <3>1. /\ pc' = [pc EXCEPT ![t] = p] /\ p # "lock" /\ p # "row" /\ p # "trigger"
          /\ stmt[t].op # "none"
      BY <2>1, <2>2
    <3> HIDE DEF p
    <3> QED
      BY <2>1, <3>1, MoveStatement
  <2> QED
    BY <1>6, <2>3, LockTableKeeps DEF LockInv
<1>7. ASSUME NEW t \in Txns, GetRowExclusive(t)
      PROVE  LockInv'
  <2> DEFINE p == IF stmt[t].op \in {"update", "delete"} THEN "row" ELSE "trigger"
             held == locks[t] \cup {"RE"}
  <2>1. /\ pc[t] = "re" /\ pc' = [pc EXCEPT ![t] = p] /\ stmt' = stmt
        /\ locks' = [locks EXCEPT ![t] = held] /\ ("SRE" \in locks[t] => "SRE" \in held)
    BY <1>7 DEF GetRowExclusive
  <2>2. /\ stmt[t].op \in {"insert", "update", "delete", "set"}
        /\ stmt[t].op = "set" => "SRE" \in locks[t]
    BY <2>1, StatementParts DEF LockInv, StatementInv
  <2>3. /\ p = "row" => stmt[t].op \in {"update", "delete"}
        /\ p = "trigger" => stmt[t].op \in {"insert", "set"}
        /\ p \in {"row", "trigger"}
    BY <2>2
  <2> HIDE DEF held, p
  <2>4. StatementInv'
    BY <2>1, <2>2, <2>3, MoveStatement
  <2> QED
    BY <1>7, <2>4, GetRowExclusiveKeeps DEF LockInv
<1>8. \A t \in Txns : locks = [locks EXCEPT ![t] = locks[t]]
  BY DEF LockInv, CatalogInv, CatalogTypes
<1>9. ASSUME NEW t \in Txns, GetRow(t)
      PROVE  LockInv'
  <2>1. stmt[t].op \in {"update", "delete"} /\ stmt[t].id \in Ids
    BY <1>9, StatementParts DEF LockInv, StatementInv, GetRow
  <2>2. CASE Forget(t)
    BY <1>9, <2>1, <2>2, GetRowKeeps, ForgetStatement DEF LockInv
  <2>3. CASE ~Forget(t)
    <3>1. /\ pc' = [pc EXCEPT ![t] = "ready"] \/
               (pc' = [pc EXCEPT ![t] = "trigger"] /\ stmt[t].op # "delete")
          /\ stmt' = stmt /\ locks' = locks
      BY <1>9, <2>3 DEF GetRow
    <3>2. locks' = [locks EXCEPT ![t] = locks[t]]
      BY <1>8, <3>1
    <3>3. CASE pc' = [pc EXCEPT ![t] = "ready"]
      <4>1. StatementInv'
        BY <2>1, <3>1, <3>2, <3>3, EndStatement
      <4> QED
        BY <1>9, <2>1, <4>1, GetRowKeeps DEF LockInv
    <3>4. CASE pc' = [pc EXCEPT ![t] = "trigger"] /\ stmt[t].op # "delete"
      <4> DEFINE p == "trigger"
                 held == locks[t]
      <4>1. /\ pc' = [pc EXCEPT ![t] = p] /\ p # "lock" /\ p # "row" /\ p # "re"
            /\ stmt[t].op \in {"insert", "update", "set"} /\ stmt[t].op # "set"
            /\ locks' = [locks EXCEPT ![t] = held] /\ stmt' = stmt
        BY <2>1, <3>1, <3>2, <3>4
      <4> HIDE DEF p, held
      <4>2. StatementInv'
        BY <4>1, MoveStatement
      <4> QED
        BY <1>9, <2>1, <4>2, GetRowKeeps DEF LockInv
    <3> QED
      BY <3>1, <3>3, <3>4
  <2> QED
    BY <2>2, <2>3
<1>10. ASSUME NEW t \in Txns, Trigger(t)
       PROVE  LockInv'
  <2>1. /\ stmt[t].new \in Ids /\ stmt[t].row \in Rows /\ stmt[t].op \in {"insert", "update"}
        /\ UNCHANGED <<db, snap, changed>> /\ ShareRowExclusiveFree(t)
    BY <1>10, StatementParts DEF LockInv, StatementInv, Trigger
  <2>2. CASE Forget(t)
    BY <2>1, <2>2, ForgetKeeps, ForgetStatement DEF LockInv, CatalogInv, CatalogTypes
  <2>3. CASE Write(t, locks[t] \cup {"SRE"}) /\ ~Forget(t)
    <3> DEFINE held == locks[t] \cup {"SRE"}
    <3>1. /\ pc' = [pc EXCEPT ![t] = "ready"] /\ stmt' = stmt
          /\ locks' = [locks EXCEPT ![t] = held]
      BY <2>3 DEF Write
    <3> HIDE DEF held
    <3>2. StatementInv'
      BY <2>1, <3>1, EndStatement
    <3> QED
      BY <2>1, <2>3, <3>2, WriteKeeps DEF LockInv
  <2> QED
    BY <1>10, <2>2, <2>3 DEF Trigger
<1>11. ASSUME NEW t \in Txns, SetDefault(t)
       PROVE  LockInv'
  <2>1. CASE Forget(t)
    BY <1>11, <2>1, ForgetKeeps, ForgetStatement DEF SetDefault, LockInv, CatalogInv, CatalogTypes
  <2>2. CASE ~Forget(t)
    <3> DEFINE w == WrittenBySet(t)
               held == locks[t]
               more == Defaults(Seen(t)) \cup {stmt[t].id}
    <3>1. /\ mine' = [mine EXCEPT ![t] = w] /\ rows' = [rows EXCEPT ![t] = @ \cup more]
          /\ pc' = [pc EXCEPT ![t] = "ready"] /\ stmt' = stmt
          /\ locks' = [locks EXCEPT ![t] = held]
          /\ UNCHANGED <<db, snap, changed>> /\ pc[t] = "trigger" /\ stmt[t].op = "set"
      BY <1>8, <1>11, <2>2, SetDefaultEffect
    <3>2. "SRE" \in held /\ held \in SUBSET Modes
      BY <3>1 DEF LockInv, StatementInv, CatalogInv, CatalogTypes
    <3>3. w \in Writes /\ more \in SUBSET Ids
      BY <1>11, <2>2, WrittenTypes DEF Defaults
    <3>4. ShareRowExclusiveFree(t)
      BY <3>2, HolderAlone DEF LockInv, ShareRowExclusiveFree
    <3> HIDE DEF w, held, more
    <3>5. CatalogInv'
      BY <3>1, <3>2, <3>3, <3>4, WritesKeep DEF LockInv
    <3>6. StatementInv'
      BY <3>1, <3>2, EndStatement
    <3> QED
      BY <3>5, <3>6 DEF LockInv
  <2> QED
    BY <2>1, <2>2
<1>12. ASSUME NEW t \in Txns, Commit(t)
       PROVE  LockInv'
  BY <1>12, CommitKeeps, ForgetStatement DEF LockInv, Commit
<1>13. ASSUME NEW t \in Txns, Rollback(t)
       PROVE  LockInv'
  BY <1>13, RollbackKeeps, ForgetStatement DEF LockInv, Rollback
<1>14. CASE UNCHANGED vars
  BY <1>14, CatalogStutter DEF vars, LockInv, StatementInv
<1> QED
  BY <1>1, <1>2, <1>3, <1>4, <1>5, <1>6, <1>7, <1>9, <1>10, <1>11, <1>12, <1>13, <1>14
     DEF Next, DeadlockDetected

\* Every variable keeps its type.
THEOREM TypeCorrect == Spec => []TypeOK
BY LockInit, LockStep, TypesFollow, PTL DEF Spec

-----------------------------------------------------------------------------

AtMostOne(d) == \A i, j \in Ids : Default(d[i]) /\ Default(d[j]) => i = j

\* The table and what each transaction would make of it.
AloneInv == AtMostOne(db) /\ \A t \in Txns : AtMostOne(Latest(t))

\* A call that has returned has made its strategy the only default one.
EffectInv ==
  \A t \in Txns : pc[t] = "ready" /\ stmt[t].op = "set" =>
    \A i \in Ids : Default(Latest(t)[i]) <=> i = stmt[t].id

\* Fewer strategies have no more defaults.
LEMMA FewerStrategies ==
  ASSUME NEW c, NEW d, AtMostOne(c), \A i \in Ids : d[i] \in {c[i], NoRow}
  PROVE  AtMostOne(d)
BY DEF AtMostOne, Default

\* The table stays or is that of a commit, and transactions only lose strategies.
LEMMA AloneShrinks ==
  ASSUME AloneInv, AtMostOne(db'), NEW u \in Txns, Shrinks(u)
  PROVE  AtMostOne(Latest(u)')
<1>1. CASE \A i \in Ids : Latest(u)'[i] \in {Latest(u)[i], NoRow}
  BY <1>1, FewerStrategies DEF AloneInv
<1>2. CASE \A i \in Ids : Latest(u)'[i] = db'[i]
  BY <1>2, FewerStrategies
<1> QED
  BY <1>1, <1>2 DEF Shrinks

LEMMA AloneNext ==
  ASSUME AtMostOne(db'), \A u \in Txns : AtMostOne(Latest(u)')
  PROVE  AloneInv'
<1>1. \A u \in Txns : AtMostOne(Latest(u))'
  BY DEF AtMostOne, Default
<1> QED
  BY <1>1 DEF AloneInv, AtMostOne, Default

\* Under READ COMMITTED a transaction sees the latest table.
LEMMA SeenLatest ==
  ASSUME RepeatableRead = {}, NEW t \in Txns
  PROVE  Seen(t) = Latest(t)
BY DEF Seen, Latest

\* The trigger lets a default strategy pass when there is none, or when it takes the
\* place of the one there is.
LEMMA AloneWrite ==
  ASSUME LockInv, AloneInv, RepeatableRead = {}, NEW t \in Txns, Trigger(t), ~Forget(t)
  PROVE  AloneInv'
<1> DEFINE s == stmt[t]
           old == IF s.op = "update" THEN Seen(t)[s.id] ELSE NoRow
           held == locks[t] \cup {"SRE"}
           L == Latest(t)
           N == Latest(t)'
<1>1. /\ pc[t] = "trigger" /\ s.op \in {"insert", "update"} /\ db' = db
      /\ ~Rejected(old, s.row, Seen(t)) /\ Write(t, held)
  BY DEF Trigger
<1>2. s.new \in Ids /\ s.id \in Ids /\ s.row \in Rows
  BY <1>1, StatementParts DEF LockInv
<1>3. /\ N[s.new] = s.row
      /\ \A i \in Ids \ {s.new} : N[i] = IF i = s.id THEN NoRow ELSE L[i]
      /\ \A u \in Txns \ {t} : Shrinks(u)
  BY <1>1, <1>2, WriteLatest DEF LockInv
<1>4. Seen(t) = L
  BY SeenLatest
<1>5. AtMostOne(L) /\ AtMostOne(db')
  BY <1>1 DEF AloneInv
<1>6. s.row.default_strategy => \A i \in Ids \ {s.new} : i # s.id => ~Default(L[i])
  <2> SUFFICES ASSUME s.row.default_strategy, NEW i \in Ids, i # s.id, Default(L[i])
               PROVE  FALSE
    OBVIOUS
  <2>1. Defaults(Seen(t)) # {}
    BY <1>4 DEF Defaults
  <2>2. old # NoRow /\ old.default_strategy
    BY <1>1, <2>1 DEF Rejected
  <2>3. Default(L[s.id])
    BY <1>4, <2>2 DEF Default
  <2> QED
    BY <1>2, <1>5, <2>3 DEF AtMostOne
<1> HIDE DEF s, L, N, held, old
<1>7. AtMostOne(N)
  <2> SUFFICES ASSUME NEW i \in Ids, NEW j \in Ids, Default(N[i]), Default(N[j]), i # j
               PROVE  FALSE
    BY DEF AtMostOne
  <2>1. \A k \in Ids \ {s.new} : Default(N[k]) => k # s.id /\ N[k] = L[k]
    BY <1>3 DEF Default
  <2>2. CASE i # s.new /\ j # s.new
    BY <1>5, <2>1, <2>2 DEF AtMostOne
  <2>3. CASE i = s.new
    <3>1. s.row.default_strategy
      BY <1>3, <2>3 DEF Default
    <3> QED
      BY <1>6, <2>1, <2>3, <3>1
  <2>4. CASE j = s.new
    <3>1. s.row.default_strategy
      BY <1>3, <2>4 DEF Default
    <3> QED
      BY <1>6, <2>1, <2>4, <3>1
  <2> QED
    BY <2>2, <2>3, <2>4
<1>8. AtMostOne(Latest(t)')
  BY <1>7 DEF N
<1>9. \A u \in Txns : AtMostOne(Latest(u)')
  BY <1>3, <1>5, <1>8, AloneShrinks
<1> QED
  BY <1>5, <1>9, AloneNext

\* What citus_set_default_rebalance_strategy leaves.
LEMMA SetLatest ==
  ASSUME LockInv, RepeatableRead = {}, NEW t \in Txns, SetDefault(t), ~Forget(t)
  PROVE  /\ \A i \in Ids : Default(Latest(t)'[i]) <=> i = stmt[t].id
         /\ \A u \in Txns \ {t} : Shrinks(u)
<1> DEFINE n == stmt[t].id
           w == WrittenBySet(t)
<1>1. mine' = [mine EXCEPT ![t] = w] /\ db' = db
  BY SetDefaultEffect
<1>2. mine'[t] = w /\ \A u \in Txns \ {t} : mine'[u] = mine[u]
  BY <1>1 DEF LockInv, CatalogInv, CatalogTypes
<1>3. n \in Ids /\ WrittenDefault(t) \in Rows /\ Default(WrittenDefault(t))
  BY WrittenTypes
<1>4. Seen(t) = Latest(t)
  BY SeenLatest
<1>5. ASSUME NEW i \in Ids
      PROVE  Default(Latest(t)'[i]) <=> i = n
  <2>1. CASE i = n
    <3>1. w[i] = WrittenDefault(t)
      BY <2>1 DEF WrittenBySet
    <3>2. Latest(t)'[i] = WrittenDefault(t)
      BY <1>2, <1>3, <3>1, LatestAtNext, CatalogTxnAssumption
    <3> QED
      BY <1>3, <2>1, <3>2
  <2>2. CASE i # n /\ Default(Latest(t)[i])
    <3>1. w[i] = Unset(t)[i]
      BY <1>4, <2>2 DEF WrittenBySet, Defaults
    <3>2. Unset(t)[i] \in Rows \cup {NoRow} /\ ~Default(Unset(t)[i])
      BY UnsetTypes DEF LockInv
    <3>3. Latest(t)'[i] = Unset(t)[i]
      BY <1>2, <3>1, <3>2, LatestAtNext, CatalogTxnAssumption
    <3> QED
      BY <2>2, <3>2, <3>3
  <2>3. CASE i # n /\ ~Default(Latest(t)[i])
    <3>1. w[i] = mine[t][i]
      BY <1>4, <2>3 DEF WrittenBySet, Defaults
    <3>2. Latest(t)'[i] = Latest(t)[i]
      BY <1>1, <1>2, <3>1, LatestAt, LatestAtNext
    <3> QED
      BY <2>3, <3>2
  <2> QED
    BY <2>1, <2>2, <2>3
<1>6. ASSUME NEW u \in Txns \ {t}
      PROVE  Shrinks(u)
  <2>1. \A i \in Ids : Latest(u)'[i] = Latest(u)[i]
    BY <1>1, <1>2, LatestAt, LatestAtNext
  <2> QED
    BY <2>1 DEF Shrinks
<1> QED
  BY <1>5, <1>6

LEMMA AloneSet ==
  ASSUME LockInv, AloneInv, RepeatableRead = {}, NEW t \in Txns, SetDefault(t), ~Forget(t)
  PROVE  AloneInv'
<1>1. db' = db
  BY SetDefaultEffect
<1>2. AtMostOne(db')
  BY <1>1 DEF AloneInv
<1>3. AtMostOne(Latest(t)')
  BY SetLatest DEF AtMostOne
<1>4. \A u \in Txns : AtMostOne(Latest(u)')
  BY <1>2, <1>3, SetLatest, AloneShrinks
<1> QED
  BY <1>2, <1>4, AloneNext

LEMMA AloneInit == Init => AloneInv
<1> SUFFICES ASSUME Init PROVE AloneInv
  OBVIOUS
<1>1. AtMostOne(db)
  BY RebalanceStrategyAssumption DEF Init, CatalogInit, AtMostOne, Defaults
<1>2. \A t \in Txns, i \in Ids : mine[t][i] = Same
  BY DEF Init, CatalogInit, Untouched
<1>3. \A t \in Txns, i \in Ids : Latest(t)[i] = db[i]
  BY <1>2, LatestAt
<1> QED
  BY <1>1, <1>3, FewerStrategies DEF AloneInv

LEMMA AloneStep ==
  ASSUME RepeatableRead = {}
  PROVE  LockInv /\ AloneInv /\ [Next]_vars => AloneInv'
<1> SUFFICES ASSUME LockInv, AloneInv, [Next]_vars PROVE AloneInv'
  OBVIOUS
<1> USE DEF LockInv
<1>1. ASSUME AtMostOne(db'), \A u \in Txns : Shrinks(u)
      PROVE  AloneInv'
  BY <1>1, AloneShrinks, AloneNext
<1>2. ASSUME db' = db
      PROVE  AtMostOne(db')
  BY <1>2 DEF AloneInv
<1>3. ASSUME UNCHANGED <<db, mine>>
      PROVE  AloneInv'
  BY <1>1, <1>2, <1>3, QuietShrinks
<1>4. ASSUME NEW t \in Txns, GetRow(t)
      PROVE  AloneInv'
  <2>1. db' = db
    BY <1>4 DEF GetRow
  <2>2. \A u \in Txns : Shrinks(u)
    BY <1>4, GetRowShrinks
  <2> QED
    BY <1>1, <1>2, <2>1, <2>2
<1>5. ASSUME NEW t \in Txns, Forget(t), db' = db
      PROVE  AloneInv'
  <2>1. \A u \in Txns : Shrinks(u)
    BY <1>5, ForgetShrinks
  <2> QED
    BY <1>1, <1>2, <1>5, <2>1
<1>6. ASSUME NEW t \in Txns, Trigger(t)
      PROVE  AloneInv'
  BY <1>5, <1>6, AloneWrite DEF Trigger
<1>7. ASSUME NEW t \in Txns, SetDefault(t)
      PROVE  AloneInv'
  BY <1>5, <1>7, AloneSet DEF SetDefault
<1>8. ASSUME NEW t \in Txns, Rollback(t)
      PROVE  AloneInv'
  BY <1>5, <1>8 DEF Rollback
<1>9. ASSUME NEW t \in Txns, Commit(t)
      PROVE  AloneInv'
  <2>1. \A u \in Txns : Shrinks(u)
    BY <1>9, CommitShrinks
  <2>2. AtMostOne(db')
    BY <1>9 DEF AloneInv, Commit
  <2> QED
    BY <1>1, <2>1, <2>2
<1> QED
  BY <1>3, <1>4, <1>6, <1>7, <1>8, <1>9
     DEF Next, Insert, Update, Delete, citus_set_default_rebalance_strategy,
         citus_add_rebalance_strategy, Statement, LockTable, GetRowExclusive,
         DeadlockDetected, vars

\* There is never more than one default strategy, when transactions are READ COMMITTED.
THEOREM OneDefault ==
  ASSUME RepeatableRead = {}
  PROVE  Spec => []SingleDefault
<1>1. AloneInv => SingleDefault
  <2> SUFFICES ASSUME AloneInv PROVE Cardinality(Defaults(db)) <= 1
    BY DEF SingleDefault
  <2>1. \A i, j \in Defaults(db) : i = j
    BY DEF AloneInv, AtMostOne, Defaults
  <2>2. CASE Defaults(db) = {}
    BY <2>2, FS_EmptySet
  <2>3. CASE Defaults(db) # {}
    <3>1. PICK i : Defaults(db) = {i}
      BY <2>1, <2>3
    <3> QED
      BY <3>1, FS_Singleton
  <2> QED
    BY <2>2, <2>3
<1>2. LockInv /\ AloneInv /\ [Next]_vars => (LockInv /\ AloneInv)'
  BY LockStep, AloneStep
<1> QED
  BY <1>1, <1>2, LockInit, AloneInit, PTL DEF Spec

-----------------------------------------------------------------------------

\* A step of another transaction leaves a call's effect: it has neither locks nor writes
\* that could commit.
LEMMA EffectKept ==
  ASSUME LockInv, EffectInv, NEW u \in Txns, NEW t \in Txns \ {u},
         pc'[t] = pc[t], stmt'[t] = stmt[t], mine'[t] = mine[t],
         db' = db \/ db' = Latest(u),
         pc'[t] = "ready", stmt'[t].op = "set"
  PROVE  \A i \in Ids : Default(Latest(t)'[i]) <=> i = stmt'[t].id
<1>1. "SRE" \in locks[t]
  BY DEF LockInv, StatementInv
<1>2. \A i \in Ids : mine[u][i] = Same
  BY <1>1, HolderAlone DEF LockInv
<1>3. \A i \in Ids : db'[i] = db[i]
  BY <1>2, LatestAt
<1>4. \A i \in Ids : Latest(t)'[i] = Latest(t)[i]
  BY <1>3, LatestAt, LatestAtNext
<1> QED
  BY <1>4 DEF EffectInv

\* A step of u that does not end a call.
LEMMA EffectOf ==
  ASSUME LockInv, EffectInv, NEW u \in Txns,
         \A t \in Txns \ {u} : pc'[t] = pc[t] /\ stmt'[t] = stmt[t] /\ mine'[t] = mine[t],
         db' = db \/ db' = Latest(u),
         pc'[u] = "ready" /\ stmt'[u].op = "set" =>
           \A i \in Ids : Default(Latest(u)'[i]) <=> i = stmt'[u].id
  PROVE  EffectInv'
<1>1. ASSUME NEW t \in Txns, pc'[t] = "ready", stmt'[t].op = "set"
      PROVE  \A i \in Ids : Default(Latest(t)'[i]) <=> i = stmt'[t].id
  <2>1. CASE t = u
    BY <1>1, <2>1
  <2>2. CASE t # u
    BY <1>1, <2>2, EffectKept
  <2> QED
    BY <2>1, <2>2
<1>2. ASSUME NEW t \in Txns, pc'[t] = "ready", stmt'[t].op = "set", NEW i \in Ids
      PROVE  Default(Latest(t)[i])' <=> i = stmt'[t].id
  BY <1>1, <1>2 DEF Default
<1> QED
  BY <1>2 DEF EffectInv

LEMMA EffectForget ==
  ASSUME LockInv, EffectInv, NEW u \in Txns, Forget(u), db' = db \/ db' = Latest(u)
  PROVE  EffectInv'
<1>1. /\ pc'[u] = "idle"
      /\ \A t \in Txns \ {u} : pc'[t] = pc[t] /\ stmt'[t] = stmt[t] /\ mine'[t] = mine[t]
  BY DEF Forget, LockInv, StatementInv, CatalogInv, CatalogTypes
<1> QED
  BY <1>1, EffectOf

LEMMA EffectStatement ==
  ASSUME LockInv, EffectInv, NEW u \in Txns, NEW s, NEW next \in {"re", "lock"},
         Statement(u, s, next)
  PROVE  EffectInv'
<1>1. /\ pc'[u] = next /\ db' = db
      /\ \A t \in Txns \ {u} : pc'[t] = pc[t] /\ stmt'[t] = stmt[t] /\ mine'[t] = mine[t]
  BY DEF Statement, LockInv, StatementInv, CatalogInv, CatalogTypes
<1> QED
  BY <1>1, EffectOf

LEMMA EffectStep ==
  ASSUME RepeatableRead = {}
  PROVE  LockInv /\ EffectInv /\ [Next]_vars => EffectInv'
<1> SUFFICES ASSUME LockInv, EffectInv, [Next]_vars PROVE EffectInv'
  OBVIOUS
<1> USE DEF LockInv, CatalogInv, CatalogTypes, StatementInv
<1>1. ASSUME NEW u \in Txns, LockTable(u) \/ GetRowExclusive(u)
      PROVE  EffectInv'
  <2>1. /\ pc'[u] # "ready" /\ db' = db
        /\ \A t \in Txns \ {u} : pc'[t] = pc[t] /\ stmt'[t] = stmt[t] /\ mine'[t] = mine[t]
    BY <1>1 DEF LockTable, GetRowExclusive
  <2> QED
    BY <2>1, EffectOf
<1>2. ASSUME NEW u \in Txns, GetRow(u)
      PROVE  EffectInv'
  <2>1. CASE Forget(u)
    BY <1>2, <2>1, EffectForget DEF GetRow
  <2>2. CASE ~Forget(u)
    <3>1. stmt[u].op # "set" /\ stmt' = stmt /\ db' = db
      BY <1>2, <2>2 DEF GetRow
    <3>2. \A t \in Txns \ {u} : pc'[t] = pc[t] /\ mine'[t] = mine[t]
      BY <1>2, <2>2 DEF GetRow
    <3> QED
      BY <3>1, <3>2, EffectOf
  <2> QED
    BY <2>1, <2>2
<1>3. ASSUME NEW u \in Txns, Trigger(u)
      PROVE  EffectInv'
  <2>1. CASE Forget(u)
    BY <1>3, <2>1, EffectForget DEF Trigger
  <2>2. CASE ~Forget(u)
    <3>1. stmt[u].op # "set" /\ stmt' = stmt /\ db' = db
      BY <1>3, <2>2 DEF Trigger, Write
    <3>2. \A t \in Txns \ {u} : pc'[t] = pc[t] /\ mine'[t] = mine[t]
      BY <1>3, <2>2 DEF Trigger, Write
    <3> QED
      BY <3>1, <3>2, EffectOf
  <2> QED
    BY <2>1, <2>2
<1>4. ASSUME NEW u \in Txns, SetDefault(u)
      PROVE  EffectInv'
  <2>1. CASE Forget(u)
    BY <1>4, <2>1, EffectForget DEF SetDefault
  <2>2. CASE ~Forget(u)
    <3>1. /\ mine' = [mine EXCEPT ![u] = WrittenBySet(u)]
          /\ pc' = [pc EXCEPT ![u] = "ready"] /\ stmt' = stmt /\ db' = db
      BY <1>4, <2>2, SetDefaultEffect
    <3>2. \A t \in Txns \ {u} : pc'[t] = pc[t] /\ mine'[t] = mine[t]
      BY <3>1
    <3>3. \A i \in Ids : Default(Latest(u)'[i]) <=> i = stmt'[u].id
      BY <1>4, <2>2, <3>1, SetLatest
    <3> QED
      BY <3>1, <3>2, <3>3, EffectOf
  <2> QED
    BY <2>1, <2>2
<1>5. ASSUME NEW u \in Txns, Commit(u) \/ Rollback(u)
      PROVE  EffectInv'
  BY <1>5, EffectForget DEF Commit, Rollback
<1>6. CASE UNCHANGED vars
  <2>1. \A t \in Txns, i \in Ids : Latest(t)'[i] = Latest(t)[i]
    BY <1>6, LatestAt, LatestAtNext DEF vars
  <2>2. ASSUME NEW t \in Txns, pc'[t] = "ready", stmt'[t].op = "set", NEW i \in Ids
        PROVE  Default(Latest(t)[i])' <=> i = stmt'[t].id
    BY <1>6, <2>1, <2>2 DEF vars, EffectInv, Default
  <2> QED
    BY <2>2 DEF EffectInv
<1> QED
  BY <1>1, <1>2, <1>3, <1>4, <1>5, <1>6, EffectStatement
     DEF Next, Insert, Update, Delete, citus_set_default_rebalance_strategy,
         citus_add_rebalance_strategy, DeadlockDetected

\* A call of citus_set_default_rebalance_strategy that has returned has made its strategy
\* the only default one, whatever others do until its transaction commits.
THEOREM EffectLasts ==
  ASSUME RepeatableRead = {}
  PROVE  Spec => []DefaultTakesEffect
<1>1. LockInv /\ EffectInv => DefaultTakesEffect
  <2> SUFFICES ASSUME LockInv, EffectInv, NEW t \in Txns, pc[t] = "ready", stmt[t].op = "set"
               PROVE  Defaults(Latest(t)) = {stmt[t].id}
    BY DEF DefaultTakesEffect
  <2>1. stmt[t].id \in Ids
    BY StatementParts DEF LockInv
  <2> QED
    BY <2>1 DEF EffectInv, Defaults
<1>2. Init => EffectInv
  BY DEF Init, CatalogInit, EffectInv, NoStatement
<1>3. LockInv /\ EffectInv /\ [Next]_vars => (LockInv /\ EffectInv)'
  BY LockStep, EffectStep
<1> QED
  BY <1>1, <1>2, <1>3, LockInit, PTL DEF Spec

=============================================================================
