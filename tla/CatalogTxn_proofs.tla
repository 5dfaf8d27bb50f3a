------------------------- MODULE CatalogTxn_proofs -------------------------
(***************************************************************************)
(* What the locks on a catalog table protect, for any transactions and     *)
(* rows, whatever its trigger looks for.  Who holds SHARE ROW EXCLUSIVE    *)
(* holds it alone; who wrote a row holds it; who only deleted rows holds   *)
(* at least ROW EXCLUSIVE.  So the table as a transaction would commit it  *)
(* is its own business, or others can only delete from it.                 *)
(***************************************************************************)
EXTENDS CatalogTxn, TLAPS

Modes == {"RE", "SRE"}
Places == {"idle", "ready", "lock", "re", "row", "trigger"}
Writes == [Ids -> Rows \cup {NoRow, Same}]

CatalogTypes ==
  /\ db \in Table
  /\ pc \in [Txns -> Places]
  /\ locks \in [Txns -> SUBSET Modes]
  /\ rows \in [Txns -> SUBSET Ids]
  /\ mine \in [Txns -> Writes]
  /\ snap \in [Txns -> Table]
  /\ changed \in [Txns -> SUBSET Ids]

Exclusion ==
  \A t, u \in Txns : t # u /\ "SRE" \in locks[t] => locks[u] = {}

Protection ==
  \A t \in Txns :
    /\ pc[t] \in {"row", "trigger"} => "RE" \in locks[t]
    /\ \A i \in Ids : /\ mine[t][i] \in Rows => "SRE" \in locks[t]
                      /\ mine[t][i] # Same => locks[t] # {}

CatalogInv == CatalogTypes /\ Exclusion /\ Protection

-----------------------------------------------------------------------------

\* Locks that are taken when they are free exclude others.
LEMMA Grant ==
  ASSUME CatalogInv, NEW t \in Txns, NEW held, locks' = [locks EXCEPT ![t] = held],
         \/ ShareRowExclusiveFree(t)
         \/ RowExclusiveFree(t) /\ ("SRE" \in held => "SRE" \in locks[t])
  PROVE  Exclusion'
<1>1. /\ locks'[t] = held
      /\ \A u \in Txns \ {t} : locks'[u] = locks[u]
  BY DEF CatalogInv, CatalogTypes
<1>2. CASE ShareRowExclusiveFree(t)
  BY <1>1, <1>2 DEF CatalogInv, Exclusion, ShareRowExclusiveFree
<1>3. CASE RowExclusiveFree(t) /\ ("SRE" \in held => "SRE" \in locks[t])
  BY <1>1, <1>3 DEF CatalogInv, Exclusion, RowExclusiveFree
<1> QED
  BY <1>2, <1>3

\* A transaction that gets more locks, and does not write, stays protected.
LEMMA MoreLocks ==
  ASSUME CatalogInv, NEW t \in Txns, NEW held,
         locks' = [locks EXCEPT ![t] = held], locks[t] \subseteq held, mine' = mine,
         NEW next, pc' = [pc EXCEPT ![t] = next],
         next \in {"row", "trigger"} => "RE" \in held
  PROVE  Protection'
<1>1. /\ locks'[t] = held /\ pc'[t] = next
      /\ \A u \in Txns \ {t} : locks'[u] = locks[u] /\ pc'[u] = pc[u]
  BY DEF CatalogInv, CatalogTypes
<1> QED
  BY <1>1 DEF CatalogInv, Protection

\* Locks and writes decide, with the types.
LEMMA CatalogStutter ==
  ASSUME CatalogInv, UNCHANGED vars
  PROVE  CatalogInv'
BY DEF vars, CatalogInv, CatalogTypes, Exclusion, Protection

\* The start of a statement.
LEMMA StatementKeeps ==
  ASSUME CatalogInv, NEW t \in Txns, NEW s, NEW next \in {"re", "lock"}, Statement(t, s, next)
  PROVE  CatalogInv'
<1>1. UNCHANGED <<db, locks, rows, mine>> /\ pc' = [pc EXCEPT ![t] = next]
  BY DEF Statement
<1>2. snap' \in [Txns -> Table] /\ changed' \in [Txns -> SUBSET Ids]
  <2>1. CASE UNCHANGED <<snap, changed>>
    BY <2>1 DEF CatalogInv, CatalogTypes
  <2>2. CASE snap' = [snap EXCEPT ![t] = db] /\ changed' = [changed EXCEPT ![t] = {}]
    BY <2>2 DEF CatalogInv, CatalogTypes
  <2> QED
    BY <2>1, <2>2 DEF Statement
<1>3. pc' \in [Txns -> Places]
  BY <1>1 DEF CatalogInv, CatalogTypes, Places
<1>4. \A u \in Txns : pc'[u] \in {"row", "trigger"} => pc'[u] = pc[u]
  BY <1>1 DEF CatalogInv, CatalogTypes
<1> QED
  BY <1>1, <1>2, <1>3, <1>4 DEF CatalogInv, CatalogTypes, Exclusion, Protection

\* LOCK TABLE.
LEMMA LockTableKeeps ==
  ASSUME CatalogInv, NEW t \in Txns, LockTable(t)
  PROVE  CatalogInv'
<1> DEFINE held == locks[t] \cup {"SRE"}
<1>1. /\ locks' = [locks EXCEPT ![t] = held] /\ ShareRowExclusiveFree(t)
      /\ pc' = [pc EXCEPT ![t] = "re"] /\ UNCHANGED <<db, rows, mine, snap, changed>>
  BY DEF LockTable
<1>2. held \in SUBSET Modes /\ locks[t] \subseteq held
  BY DEF CatalogInv, CatalogTypes, Modes
<1> HIDE DEF held
<1>3. Exclusion'
  BY <1>1, Grant
<1>4. Protection'
  BY <1>1, <1>2, MoreLocks
<1>5. CatalogTypes'
  BY <1>1, <1>2 DEF CatalogInv, CatalogTypes, Places
<1> QED
  BY <1>3, <1>4, <1>5 DEF CatalogInv

\* The lock of a statement.
LEMMA GetRowExclusiveKeeps ==
  ASSUME CatalogInv, NEW t \in Txns, GetRowExclusive(t)
  PROVE  CatalogInv'
<1> DEFINE held == locks[t] \cup {"RE"}
           next == IF stmt[t].op \in {"update", "delete"} THEN "row" ELSE "trigger"
<1>1. /\ locks' = [locks EXCEPT ![t] = held] /\ RowExclusiveFree(t)
      /\ pc' = [pc EXCEPT ![t] = next] /\ UNCHANGED <<db, rows, mine, snap, changed>>
  BY DEF GetRowExclusive
<1>2. /\ held \in SUBSET Modes /\ locks[t] \subseteq held /\ "RE" \in held
      /\ "SRE" \in held => "SRE" \in locks[t]
  BY DEF CatalogInv, CatalogTypes, Modes
<1>3. next \in Places
  BY DEF Places
<1> HIDE DEF held, next
<1>4. Exclusion'
  BY <1>1, <1>2, Grant
<1>5. Protection'
  BY <1>1, <1>2, MoreLocks
<1>6. CatalogTypes'
  BY <1>1, <1>2, <1>3 DEF CatalogInv, CatalogTypes
<1> QED
  BY <1>4, <1>5, <1>6 DEF CatalogInv

\* A transaction that is gone has neither locks nor writes; the others keep theirs.
LEMMA ForgetKeeps ==
  ASSUME CatalogInv, NEW t \in Txns, Forget(t), db' \in Table,
         snap' \in [Txns -> Table], changed' \in [Txns -> SUBSET Ids]
  PROVE  CatalogInv'
<1>1. Untouched \in Writes /\ \A i \in Ids : Untouched[i] = Same
  BY DEF Untouched, Writes
<1>2. CatalogTypes'
  BY <1>1 DEF CatalogInv, CatalogTypes, Forget, Places
<1>3. /\ locks'[t] = {} /\ pc'[t] = "idle" /\ mine'[t] = Untouched
      /\ \A u \in Txns \ {t} : locks'[u] = locks[u] /\ pc'[u] = pc[u] /\ mine'[u] = mine[u]
  BY DEF CatalogInv, CatalogTypes, Forget
<1>4. Exclusion' /\ Protection'
  BY <1>1, <1>3, CatalogTxnAssumption DEF CatalogInv, Exclusion, Protection
<1> QED
  BY <1>2, <1>4 DEF CatalogInv

LEMMA RollbackKeeps ==
  ASSUME CatalogInv, NEW t \in Txns, Rollback(t)
  PROVE  CatalogInv'
BY ForgetKeeps DEF Rollback, CatalogInv, CatalogTypes

\* A transaction that holds SHARE ROW EXCLUSIVE in the end may write what it likes.
LEMMA WritesKeep ==
  ASSUME CatalogInv, NEW t \in Txns, NEW w \in Writes, NEW held \in SUBSET Modes,
         NEW more \in SUBSET Ids, "SRE" \in held, ShareRowExclusiveFree(t),
         mine' = [mine EXCEPT ![t] = w], rows' = [rows EXCEPT ![t] = @ \cup more],
         locks' = [locks EXCEPT ![t] = held], pc' = [pc EXCEPT ![t] = "ready"],
         UNCHANGED <<db, snap, changed>>
  PROVE  CatalogInv'
<1>1. CatalogTypes'
  BY DEF CatalogInv, CatalogTypes, Places
<1>2. Exclusion'
  BY Grant
<1>3. /\ locks'[t] = held /\ pc'[t] = "ready"
      /\ \A u \in Txns \ {t} : locks'[u] = locks[u] /\ pc'[u] = pc[u] /\ mine'[u] = mine[u]
  BY DEF CatalogInv, CatalogTypes
<1>4. Protection'
  BY <1>3 DEF CatalogInv, Protection
<1> QED
  BY <1>1, <1>2, <1>4 DEF CatalogInv

\* The change of a row that the trigger lets pass.
LEMMA WriteKeeps ==
  ASSUME CatalogInv, NEW t \in Txns, ShareRowExclusiveFree(t),
         stmt[t].new \in Ids, stmt[t].row \in Rows,
         Write(t, locks[t] \cup {"SRE"}), UNCHANGED <<db, snap, changed>>
  PROVE  CatalogInv'
<1>1. CASE Forget(t)
  BY <1>1, ForgetKeeps DEF CatalogInv, CatalogTypes
<1>2. CASE ~Forget(t)
  <2> DEFINE w == [i \in Ids |-> CASE i = stmt[t].new -> stmt[t].row
                                   [] i = stmt[t].id /\ i # stmt[t].new -> NoRow
                                   [] OTHER -> mine[t][i]]
             held == locks[t] \cup {"SRE"}
             more == {stmt[t].new}
  <2>1. /\ mine' = [mine EXCEPT ![t] = w] /\ rows' = [rows EXCEPT ![t] = @ \cup more]
        /\ locks' = [locks EXCEPT ![t] = held] /\ pc' = [pc EXCEPT ![t] = "ready"]
    BY <1>2 DEF Write
  <2>2. w \in Writes /\ held \in SUBSET Modes /\ more \in SUBSET Ids /\ "SRE" \in held
    BY DEF CatalogInv, CatalogTypes, Writes, Modes
  <2> HIDE DEF w, held, more
  <2> QED
    BY <2>1, <2>2, WritesKeep
<1> QED
  BY <1>1, <1>2

\* The row of an UPDATE or DELETE.
LEMMA GetRowKeeps ==
  ASSUME CatalogInv, NEW t \in Txns, GetRow(t), stmt[t].id \in Ids
  PROVE  CatalogInv'
<1> DEFINE i0 == stmt[t].id
<1>1. pc[t] = "row" /\ "RE" \in locks[t] /\ UNCHANGED <<db, snap, changed>>
  BY DEF GetRow, CatalogInv, Protection
<1>2. CASE Forget(t)
  BY <1>1, <1>2, ForgetKeeps DEF CatalogInv, CatalogTypes
<1>3. ASSUME NEW p \in {"ready", "trigger"}, pc' = [pc EXCEPT ![t] = p],
             UNCHANGED <<locks, mine>>, rows' \in [Txns -> SUBSET Ids]
      PROVE  CatalogInv'
  <2>1. \A u \in Txns : pc'[u] \in {"row", "trigger"} => "RE" \in locks[u]
    BY <1>1, <1>3 DEF CatalogInv, CatalogTypes, Protection
  <2>2. pc' \in [Txns -> Places]
    BY <1>3 DEF CatalogInv, CatalogTypes, Places
  <2> QED
    BY <1>1, <1>3, <2>1, <2>2 DEF CatalogInv, CatalogTypes, Exclusion, Protection
<1>4. rows \in [Txns -> SUBSET Ids] /\ [rows EXCEPT ![t] = @ \cup {i0}] \in [Txns -> SUBSET Ids]
  BY DEF CatalogInv, CatalogTypes
<1>5. CASE /\ mine' = [mine EXCEPT ![t][i0] = NoRow] /\ rows' = [rows EXCEPT ![t] = @ \cup {i0}]
           /\ pc' = [pc EXCEPT ![t] = "ready"] /\ UNCHANGED locks
  <2>1. \A u \in Txns : pc'[u] \in {"row", "trigger"} => "RE" \in locks[u]
    BY <1>1, <1>5 DEF CatalogInv, CatalogTypes, Protection
  <2>2. \A u \in Txns, i \in Ids : mine'[u][i] = mine[u][i] \/ (u = t /\ mine'[u][i] = NoRow)
    BY <1>5 DEF CatalogInv, CatalogTypes, Writes
  <2>3. \A u \in Txns, i \in Ids : /\ mine'[u][i] \in Rows => "SRE" \in locks[u]
                                   /\ mine'[u][i] # Same => locks[u] # {}
    BY <1>1, <2>2, CatalogTxnAssumption DEF CatalogInv, Protection
  <2>4. pc' \in [Txns -> Places] /\ mine' \in [Txns -> Writes]
    BY <1>5 DEF CatalogInv, CatalogTypes, Places, Writes
  <2> QED
    BY <1>1, <1>4, <1>5, <2>1, <2>3, <2>4 DEF CatalogInv, CatalogTypes, Exclusion, Protection
<1>6. CASE pc' = [pc EXCEPT ![t] = "ready"] /\ UNCHANGED <<stmt, locks, rows, mine>>
  BY <1>3, <1>4, <1>6
<1>7. CASE /\ rows' = [rows EXCEPT ![t] = @ \cup {i0}]
           /\ pc' = [pc EXCEPT ![t] = "trigger"] /\ UNCHANGED <<locks, mine>>
  BY <1>3, <1>4, <1>7
<1> QED
  BY <1>2, <1>5, <1>6, <1>7 DEF GetRow

\* A commit.
LEMMA CommitKeeps ==
  ASSUME CatalogInv, NEW t \in Txns, Commit(t)
  PROVE  CatalogInv'
<1>1. db' \in Table
  BY DEF CatalogInv, CatalogTypes, Commit, Latest, Overlay, Table, Writes
<1>2. changed' \in [Txns -> SUBSET Ids] /\ snap' \in [Txns -> Table]
  BY DEF CatalogInv, CatalogTypes, Commit
<1> QED
  BY <1>1, <1>2, ForgetKeeps DEF Commit

\* The start.
LEMMA CatalogStart ==
  ASSUME NEW d \in Table, CatalogInit(d)
  PROVE  CatalogInv
<1>1. Untouched \in Writes /\ \A i \in Ids : Untouched[i] = Same
  BY DEF Untouched, Writes
<1>2. CatalogTypes
  BY <1>1 DEF CatalogInit, CatalogTypes, Places
<1>3. \A t \in Txns : locks[t] = {} /\ pc[t] = "idle" /\ mine[t] = Untouched
  BY DEF CatalogInit
<1> QED
  BY <1>1, <1>2, <1>3, CatalogTxnAssumption DEF CatalogInv, Exclusion, Protection

-----------------------------------------------------------------------------
(* The table as a transaction would commit it. *)

LEMMA LatestAt ==
  ASSUME NEW t \in Txns, NEW i \in Ids
  PROVE  Latest(t)[i] = IF mine[t][i] # Same THEN mine[t][i] ELSE db[i]
BY DEF Latest, Overlay

LEMMA LatestAtNext ==
  ASSUME NEW t \in Txns, NEW i \in Ids
  PROVE  Latest(t)'[i] = IF mine'[t][i] # Same THEN mine'[t][i] ELSE db'[i]
BY DEF Latest, Overlay

\* A step that takes rows from it at most, or leaves the committed table of it.
Shrinks(t) ==
  \/ \A i \in Ids : Latest(t)'[i] \in {Latest(t)[i], NoRow}
  \/ \A i \in Ids : Latest(t)'[i] = db'[i]

\* While one transaction holds SHARE ROW EXCLUSIVE the others have written nothing.
LEMMA HolderAlone ==
  ASSUME CatalogInv, NEW t \in Txns, "SRE" \in locks[t], NEW u \in Txns \ {t}
  PROVE  locks[u] = {} /\ \A i \in Ids : mine[u][i] = Same
<1>1. locks[u] = {}
  BY DEF CatalogInv, Exclusion
<1> QED
  BY <1>1 DEF CatalogInv, Protection

LEMMA QuietShrinks ==
  ASSUME UNCHANGED <<db, mine>>, NEW u \in Txns
  PROVE  Shrinks(u)
BY LatestAt, LatestAtNext DEF Shrinks

\* The end of a transaction without a commit.
LEMMA ForgetShrinks ==
  ASSUME CatalogInv, NEW t \in Txns, Forget(t), db' = db, NEW u \in Txns
  PROVE  Shrinks(u)
<1>1. \A i \in Ids : mine'[t][i] = Same
  BY DEF CatalogInv, CatalogTypes, Forget, Untouched
<1>2. u # t => \A i \in Ids : mine'[u][i] = mine[u][i]
  BY DEF CatalogInv, CatalogTypes, Forget
<1> QED
  BY <1>1, <1>2, LatestAt, LatestAtNext DEF Shrinks

LEMMA GetRowShrinks ==
  ASSUME CatalogInv, NEW t \in Txns, GetRow(t), NEW u \in Txns
  PROVE  db' = db /\ Shrinks(u)
<1>1. db' = db
  BY DEF GetRow
<1>2. CASE Forget(t)
  BY <1>1, <1>2, ForgetShrinks
<1>3. CASE UNCHANGED mine
  BY <1>1, <1>3, QuietShrinks
<1>4. CASE mine' = [mine EXCEPT ![t][stmt[t].id] = NoRow]
  <2>1. \A i \in Ids : mine'[u][i] \in {mine[u][i], NoRow}
    BY <1>4 DEF CatalogInv, CatalogTypes, Writes
  <2>2. \A i \in Ids : Latest(u)'[i] \in {Latest(u)[i], NoRow}
    BY <1>1, <2>1, LatestAt, LatestAtNext, CatalogTxnAssumption
  <2> QED
    BY <1>1, <2>2 DEF Shrinks
<1> QED
  BY <1>2, <1>3, <1>4 DEF GetRow

\* The table of a commit is what its transaction made of it; another transaction has
\* written nothing, or the commit only deletes rows under it.
LEMMA CommitShrinks ==
  ASSUME CatalogInv, NEW t \in Txns, Commit(t), NEW u \in Txns
  PROVE  db' = Latest(t) /\ Shrinks(u)
<1>1. db' = Latest(t) /\ Forget(t)
  BY DEF Commit
<1>2. \A i \in Ids : mine'[t][i] = Same
  BY <1>1 DEF CatalogInv, CatalogTypes, Forget, Untouched
<1>3. CASE u = t
  <2>1. \A i \in Ids : Latest(u)'[i] = db'[i]
    BY <1>2, <1>3, LatestAtNext
  <2> QED
    BY <1>1, <2>1 DEF Shrinks
<1>4. CASE u # t
  <2>1. \A i \in Ids : mine'[u][i] = mine[u][i]
    BY <1>1, <1>4 DEF CatalogInv, CatalogTypes, Forget
  <2>2. CASE "SRE" \in locks[t]
    <3>1. \A i \in Ids : mine[u][i] = Same
      BY <1>4, <2>2, HolderAlone
    <3>2. \A i \in Ids : Latest(u)'[i] = db'[i]
      BY <2>1, <3>1, LatestAtNext
    <3> QED
      BY <1>1, <3>2 DEF Shrinks
  <2>3. CASE "SRE" \notin locks[t]
    <3>1. \A i \in Ids : mine[t][i] \in {NoRow, Same}
      BY <2>3 DEF CatalogInv, CatalogTypes, Protection, Writes
    <3>2. \A i \in Ids : db'[i] \in {db[i], NoRow}
      BY <1>1, <3>1, LatestAt
    <3>3. \A i \in Ids : Latest(u)'[i] \in {Latest(u)[i], NoRow}
      BY <2>1, <3>2, LatestAt, LatestAtNext
    <3> QED
      BY <1>1, <3>3 DEF Shrinks
  <2> QED
    BY <2>2, <2>3
<1> QED
  BY <1>3, <1>4

\* A write of t through the trigger: the new row, and the old one's key gone.
LEMMA WriteLatest ==
  ASSUME CatalogInv, NEW t \in Txns, NEW held, Write(t, held), ~Forget(t), db' = db,
         stmt[t].new \in Ids, stmt[t].row \in Rows
  PROVE  /\ Latest(t)'[stmt[t].new] = stmt[t].row
         /\ \A i \in Ids \ {stmt[t].new} :
              Latest(t)'[i] = IF i = stmt[t].id THEN NoRow ELSE Latest(t)[i]
         /\ \A u \in Txns \ {t} : Shrinks(u)
<1> DEFINE s == stmt[t]
           w == [i \in Ids |-> CASE i = s.new -> s.row
                                 [] i = s.id /\ i # s.new -> NoRow
                                 [] OTHER -> mine[t][i]]
<1>1. mine' = [mine EXCEPT ![t] = w]
  BY DEF Write
<1>2. mine'[t] = w /\ \A u \in Txns \ {t} : mine'[u] = mine[u]
  BY <1>1 DEF CatalogInv, CatalogTypes
<1>3. /\ w[s.new] = s.row
      /\ \A i \in Ids \ {s.new} : w[i] = IF i = s.id THEN NoRow ELSE mine[t][i]
  OBVIOUS
<1> HIDE DEF w, s
<1>4. s.new \in Ids /\ s.row \in Rows
  BY DEF s
<1>5. Latest(t)'[s.new] = s.row
  BY <1>2, <1>3, <1>4, LatestAtNext, CatalogTxnAssumption
<1>6. \A i \in Ids \ {s.new} : Latest(t)'[i] = IF i = s.id THEN NoRow ELSE Latest(t)[i]
  BY <1>2, <1>3, LatestAt, LatestAtNext, CatalogTxnAssumption
<1>7. ASSUME NEW u \in Txns \ {t}
      PROVE  Shrinks(u)
  <2>1. mine'[u] = mine[u]
    BY <1>2
  <2>2. \A i \in Ids : Latest(u)'[i] = Latest(u)[i]
    BY <2>1, LatestAt, LatestAtNext
  <2> QED
    BY <2>2 DEF Shrinks
<1> QED
  BY <1>5, <1>6, <1>7 DEF s

=============================================================================
