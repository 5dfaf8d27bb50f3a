---------------------------- MODULE Parts_proofs ----------------------------
(***************************************************************************)
(* Four parts that share no state: the functions around pg_upgrade, the    *)
(* loops over a list, the sort template, and errors, which go to the       *)
(* innermost block whose body is being executed, because the blocks that   *)
(* are entered save what is to be restored when they are left.             *)
(***************************************************************************)
EXTENDS PgUpgrade, ListLoops, SortTemplate, ErrorHandling, SequenceTheorems,
        NaturalsInduction, WellFoundedInduction, TLAPS

\* A set of naturals that is not empty has a least element.
LEMMA Least ==
  ASSUME NEW T \in SUBSET Nat, T # {}
  PROVE  \E x \in T : \A y \in T : x <= y
<1>1. PICK x \in T : \A y \in T : ~(<<y, x>> \in OpToRel(<, Nat))
  BY NatLessThanWellFounded, WFMin, T \subseteq Nat, Zenon
<1>2. \A y \in T : ~(y < x)
  BY <1>1 DEF OpToRel
<1> QED BY <1>2

-----------------------------------------------------------------------------
(* pg_upgrade. *)

Kept == {"partition", "shard", "node"}
Copied == Kept \cup {"object"}

\* The ids of rows are all below the next ones.
ShardsBelow(rows, shardid) == rows \subseteq [shardid : 0..shardid - 1, table : Tables]
NodesBelow(rows, nodeid, groupid) ==
  rows \subseteq [nodeid : 0..nodeid - 1, groupid : 0..groupid - 1]

\* What the copies of tables hold, as far as there are copies: finitely many ids.
RowsBounded(rows) ==
  /\ "shard" \in DOMAIN rows => \E k \in Nat : ShardsBelow(rows["shard"], k)
  /\ "node" \in DOMAIN rows => \E k \in Nat : NodesBelow(rows["node"], k, k)

\* The metadata that was read at one time.
IsSnapshot(m) == /\ m = [x \in Copied |-> m[x]]
                 /\ RowsBounded(m)

\* Copies of the metadata; those of objects only if each of them has a name.
Agree(rows, m) ==
  \A x \in DOMAIN rows : (x = "object" /\ NULL \in rows[x]) \/ rows[x] = m[x]

\* One of these oids is of no object any more, or their objects are those of m.
SameNames(ids, m) == NULL \in Names(ids) \/ Names(ids) = m["object"]

\* The next ids are fresh while the server is in use; after pg_upgrade the catalogs are
\* empty, no transaction of citus_prepare_pg_upgrade runs and the aggregate is gone.
CatalogInv ==
  /\ seqs \in [shardid : Nat \ {0}, nodeid : Nat \ {0}, groupid : Nat \ {0}]
  /\ catalog = [x \in Kept |-> catalog[x]]
  /\ DOMAIN oids \subseteq Objects
  /\ \A o, p \in DOMAIN oids : oids[o] = oids[p] => o = p
  /\ ~upgraded => /\ ShardsBelow(catalog.shard, seqs.shardid)
                  /\ NodesBelow(catalog.node, seqs.nodeid, seqs.groupid)
  /\ upgraded => prepare = NotRunning /\ ~aggregate

\* What a running citus_prepare_pg_upgrade has copied agrees with the state it began
\* from, unless commits have torn it; without a snapshot, with the state there is.
PrepareInv ==
  prepare # NotRunning =>
    /\ prepare = [next |-> prepare.next, rows |-> prepare.rows,
                  began |-> prepare.began, marked |-> prepare.marked,
                  repeatable |-> prepare.repeatable]
    /\ prepare.next \in 1..5 /\ prepare.repeatable \in BOOLEAN
    /\ DOMAIN prepare.rows = {Copies[i] : i \in 1..prepare.next - 1}
    /\ RowsBounded(prepare.rows)
    /\ prepare.began # Torn => IsSnapshot(prepare.began) /\ Agree(prepare.rows, prepare.began)
    /\ prepare.repeatable => prepare.began # Torn /\ SameNames(prepare.marked, prepare.began)
    /\ ~prepare.repeatable /\ prepare.began # Torn => prepare.began = Metadata

\* While the aggregate is gone there is a backup of every table.
BackupInv ==
  ~aggregate =>
    /\ DOMAIN backup.rows = Copied
    /\ RowsBounded(backup.rows)
    /\ backup.began # Torn => IsSnapshot(backup.began) /\ Agree(backup.rows, backup.began)

UpgradeInv == CatalogInv /\ PrepareInv /\ BackupInv

-----------------------------------------------------------------------------
\* The greatest of ids that are bounded.
LEMMA MaxOfIds ==
  ASSUME NEW ids, NEW k \in Nat, ids \subseteq 0..k - 1, ids # {}
  PROVE  Max(ids) \in ids /\ \A x \in ids : x <= Max(ids)
<1> DEFINE bounds == {b \in Nat : \A x \in ids : x <= b}
<1>1. k \in bounds
  OBVIOUS
<1>2. PICK b \in bounds : \A c \in bounds : b <= c
  BY <1>1, Least
<1>3. b \in ids
  <2> SUFFICES ASSUME b \notin ids PROVE FALSE
    OBVIOUS
  <2>1. \A x \in ids : x \in Nat /\ x <= b /\ x # b
    OBVIOUS
  <2>3. PICK x \in ids : TRUE
    OBVIOUS
  <2>4. b # 0
    BY <2>1, <2>3
  <2>2. b - 1 \in bounds
    BY <2>1, <2>4
  <2> QED BY <1>2, <2>2
<1>4. \E x \in ids : \A y \in ids : x >= y
  BY <1>3
<1> QED BY <1>4 DEF Max

\* The sequence goes on after the greatest id that there is.
LEMMA SetvalFresh ==
  ASSUME NEW ids, NEW k \in Nat, ids \subseteq 0..k - 1, NEW from \in Nat \ {0}
  PROVE  /\ Setval(from, ids) \in Nat \ {0}
         /\ ids \subseteq 0..Setval(from, ids) - 1
<1>1. CASE ids = {}
  BY <1>1 DEF Setval
<1>2. CASE ids # {}
  <2>0. Max(ids) \in ids /\ \A x \in ids : x <= Max(ids)
    BY <1>2, MaxOfIds
  <2> DEFINE m == Max(ids)
  <2> HIDE DEF m
  <2>3. m \in ids /\ \A x \in ids : x <= m
    BY <2>0 DEF m
  <2>4. ids \subseteq Nat /\ m \in Nat
    BY <2>3
  <2>1. Max(ids) \in Nat /\ \A x \in ids : x \in Nat /\ x <= Max(ids)
    BY <2>3, <2>4 DEF m
  <2>2. Setval(from, ids) = Max(ids) + 1
    BY <1>2 DEF Setval
  <2> HIDE DEF Setval
  <2> QED BY <2>1, <2>2
<1> QED BY <1>1, <1>2

LEMMA MetadataIsSnapshot ==
  ASSUME CatalogInv, ~upgraded
  PROVE  IsSnapshot(Metadata)
<1>1. Metadata = [x \in Copied |-> Metadata[x]]
  BY DEF Metadata, Copied, Kept
<1>2. Metadata["shard"] = catalog.shard /\ Metadata["node"] = catalog.node
  BY DEF Metadata
<1>3. seqs.shardid \in Nat /\ seqs.nodeid \in Nat /\ seqs.groupid \in Nat
  BY DEF CatalogInv
<1>4. PICK k \in Nat : seqs.nodeid <= k /\ seqs.groupid <= k
  BY <1>3
<1>5. NodesBelow(catalog.node, k, k)
  BY <1>3, <1>4 DEF CatalogInv, NodesBelow
<1> QED BY <1>1, <1>2, <1>3, <1>5 DEF IsSnapshot, RowsBounded, CatalogInv

\* The catalogs after a commit, which tears what is being copied or keeps its names.
LEMMA CommitStep ==
  ASSUME UpgradeInv, Commits, CatalogInv',
         prepare' = prepare /\ prepare # NotRunning /\ SameNames(prepare.marked, prepare.began)
           => SameNames(prepare.marked, prepare.began)'
  PROVE  UpgradeInv'
<1>1. PrepareInv'
  <2> SUFFICES ASSUME prepare' # NotRunning PROVE PrepareInv'
    BY DEF PrepareInv
  <2>1. prepare # NotRunning
    BY DEF Commits
  <2>2. CASE prepare.repeatable
    <3>1. prepare' = prepare
      BY <2>1, <2>2 DEF Commits
    <3>2. SameNames(prepare.marked, prepare.began)'
      BY <2>1, <2>2, <3>1 DEF PrepareInv, UpgradeInv
    <3>3. Agree(prepare.rows, prepare.began)' <=> Agree(prepare.rows, prepare.began)
      BY <3>1 DEF Agree
    <3> QED BY <2>1, <2>2, <3>1, <3>2, <3>3 DEF PrepareInv, UpgradeInv, RowsBounded, IsSnapshot
  <2>3. CASE ~prepare.repeatable
    <3>1. /\ prepare'.next = prepare.next /\ prepare'.rows = prepare.rows
          /\ prepare'.repeatable = prepare.repeatable /\ prepare'.began = Torn
          /\ prepare' = [next |-> prepare'.next, rows |-> prepare'.rows,
                         began |-> prepare'.began, marked |-> prepare'.marked,
                         repeatable |-> prepare'.repeatable]
      BY <2>1, <2>3 DEF Commits, PrepareInv, UpgradeInv
    <3> QED BY <2>1, <2>3, <3>1 DEF PrepareInv, UpgradeInv, RowsBounded
  <2> QED BY <2>2, <2>3
<1>2. BackupInv'
  BY DEF Commits, BackupInv, UpgradeInv, RowsBounded, IsSnapshot, Agree
<1> QED BY <1>1, <1>2 DEF UpgradeInv

\* Most commits change no oids.
LEMMA SameOids ==
  ASSUME UpgradeInv, Commits, CatalogInv', oids' = oids
  PROVE  UpgradeInv'
<1>1. prepare' = prepare => /\ Names(prepare.marked)' = Names(prepare.marked)
                            /\ prepare'.began = prepare.began
  BY DEF Names
<1>2. prepare' = prepare /\ prepare # NotRunning /\ SameNames(prepare.marked, prepare.began)
        => SameNames(prepare.marked, prepare.began)'
  BY <1>1 DEF SameNames
<1> QED BY <1>2, CommitStep

\* Dropping or creating an object leaves the names of these oids as they are, unless one of
\* the oids is of no object then.
LEMMA NamesStay ==
  ASSUME CatalogInv, NEW ids,
         \/ \E o \in DOMAIN oids : oids' = [p \in DOMAIN oids \ {o} |-> oids[p]]
         \/ \E o, oid : /\ o \notin DOMAIN oids /\ oid \notin ids
                       /\ oids' = [p \in DOMAIN oids \cup {o} |->
                                     IF p = o THEN oid ELSE oids[p]],
         DOMAIN oids' \subseteq Objects
  PROVE  LET new == {o \in DOMAIN oids' : oids'[o] \in ids}
                      \cup (IF ids \subseteq {oids'[o] : o \in DOMAIN oids'} THEN {} ELSE {NULL})
         IN  NULL \in new \/ (new = Names(ids) /\ NULL \notin Names(ids))
<1> DEFINE here == {o \in DOMAIN oids : oids[o] \in ids}
           there == {o \in DOMAIN oids' : oids'[o] \in ids}
           new == there \cup (IF ids \subseteq {oids'[o] : o \in DOMAIN oids'} THEN {} ELSE {NULL})
<1> SUFFICES ASSUME ids \subseteq {oids'[o] : o \in DOMAIN oids'}
             PROVE  new = Names(ids) /\ NULL \notin Names(ids)
  OBVIOUS
<1>1. CASE \E o \in DOMAIN oids : oids' = [p \in DOMAIN oids \ {o} |-> oids[p]]
  <2>1. PICK o \in DOMAIN oids : oids' = [p \in DOMAIN oids \ {o} |-> oids[p]]
    BY <1>1
  <2>2. oids[o] \notin ids
    BY <2>1 DEF CatalogInv
  <2>3. ids \subseteq {oids[p] : p \in DOMAIN oids}
    BY <2>1
  <2>4. there = here
    BY <2>1, <2>2
  <2> QED BY <2>3, <2>4, NullAssumption DEF Names, CatalogInv
<1>2. CASE \E o, oid : /\ o \notin DOMAIN oids /\ oid \notin ids
                      /\ oids' = [p \in DOMAIN oids \cup {o} |->
                                    IF p = o THEN oid ELSE oids[p]]
  <2>1. PICK o, oid : /\ o \notin DOMAIN oids /\ oid \notin ids
                      /\ oids' = [p \in DOMAIN oids \cup {o} |->
                                    IF p = o THEN oid ELSE oids[p]]
    BY <1>2
  <2>2. \A p \in DOMAIN oids : oids'[p] = oids[p] /\ p # o
    BY <2>1
  <2>3. DOMAIN oids' = DOMAIN oids \cup {o} /\ oids'[o] \notin ids
    BY <2>1
  <2>4. ids \subseteq {oids[p] : p \in DOMAIN oids}
    BY <2>2, <2>3
  <2>5. there = here
    BY <2>2, <2>3
  <2> QED BY <2>4, <2>5, NullAssumption DEF Names, CatalogInv
<1> QED BY <1>1, <1>2

LEMMA DistributeTableStep ==
  ASSUME UpgradeInv, NEW t \in Tables, DistributeTable(t)
  PROVE  UpgradeInv'
<1> DEFINE row == [shardid |-> seqs.shardid, table |-> t]
<1>1. /\ seqs'.shardid = seqs.shardid + 1 /\ seqs'.nodeid = seqs.nodeid
      /\ seqs'.groupid = seqs.groupid /\ seqs.shardid \in Nat \ {0}
      /\ seqs' \in [shardid : Nat \ {0}, nodeid : Nat \ {0}, groupid : Nat \ {0}]
  BY DEF UpgradeInv, CatalogInv, DistributeTable
<1>2. /\ catalog'.shard = catalog.shard \cup {row} /\ catalog'.node = catalog.node
      /\ catalog' = [x \in Kept |-> catalog'[x]]
  BY DEF UpgradeInv, CatalogInv, DistributeTable, Kept
<1>3. ~upgraded /\ ~upgraded' /\ oids' = oids /\ aggregate' = aggregate
  BY DEF UpgradeInv, CatalogInv, DistributeTable, Commits
<1>4. /\ ShardsBelow(catalog.shard, seqs.shardid)
      /\ NodesBelow(catalog.node, seqs.nodeid, seqs.groupid)
  BY <1>3 DEF UpgradeInv, CatalogInv
<1>5. ShardsBelow(catalog.shard \cup {row}, seqs.shardid + 1)
  BY <1>1, <1>4 DEF ShardsBelow
<1>6. CatalogInv'
  BY <1>1, <1>2, <1>3, <1>4, <1>5 DEF UpgradeInv, CatalogInv
<1> QED BY <1>3, <1>6, SameOids DEF DistributeTable

LEMMA DropTableStep ==
  ASSUME UpgradeInv, NEW t \in Tables, DropTable(t)
  PROVE  UpgradeInv'
<1>1. CatalogInv'
  BY DEF UpgradeInv, CatalogInv, DropTable, Commits, ShardsBelow, NodesBelow, Kept
<1> QED BY <1>1, SameOids DEF DropTable

LEMMA AddNodeStep ==
  ASSUME UpgradeInv, AddNode
  PROVE  UpgradeInv'
<1> DEFINE row == [nodeid |-> seqs.nodeid, groupid |-> seqs.groupid]
<1>0. seqs \in [shardid : Nat \ {0}, nodeid : Nat \ {0}, groupid : Nat \ {0}]
  BY DEF UpgradeInv, CatalogInv
<1>1. /\ seqs'.nodeid = seqs.nodeid + 1 /\ seqs'.groupid = seqs.groupid + 1
      /\ seqs'.shardid = seqs.shardid /\ seqs.nodeid \in Nat \ {0}
      /\ seqs.groupid \in Nat \ {0}
      /\ seqs' \in [shardid : Nat \ {0}, nodeid : Nat \ {0}, groupid : Nat \ {0}]
  <2>1. seqs' = [seqs EXCEPT !.nodeid = @ + 1, !.groupid = @ + 1]
    BY DEF AddNode
  <2>2. seqs.nodeid \in Nat \ {0} /\ seqs.groupid \in Nat \ {0} /\ seqs.shardid \in Nat \ {0}
    BY <1>0
  <2>3. seqs.nodeid + 1 \in Nat \ {0} /\ seqs.groupid + 1 \in Nat \ {0}
    BY <2>2
  <2>4. seqs' = [shardid |-> seqs.shardid, nodeid |-> seqs.nodeid + 1,
                 groupid |-> seqs.groupid + 1]
    BY ONLY <1>0, <2>1
  <2> QED BY ONLY <2>2, <2>3, <2>4
<1>2. /\ catalog'.node = catalog.node \cup {row} /\ catalog'.shard = catalog.shard
      /\ catalog' = [x \in Kept |-> catalog'[x]]
  BY DEF UpgradeInv, CatalogInv, AddNode, Kept
<1>3. ~upgraded /\ ~upgraded' /\ oids' = oids /\ aggregate' = aggregate
  BY DEF UpgradeInv, CatalogInv, AddNode, Commits
<1>4. /\ ShardsBelow(catalog.shard, seqs.shardid)
      /\ NodesBelow(catalog.node, seqs.nodeid, seqs.groupid)
  BY <1>3 DEF UpgradeInv, CatalogInv
<1>5. NodesBelow(catalog.node \cup {row}, seqs.nodeid + 1, seqs.groupid + 1)
  BY <1>1, <1>4 DEF NodesBelow
<1>6. CatalogInv'
  BY <1>1, <1>2, <1>3, <1>4, <1>5 DEF UpgradeInv, CatalogInv
<1> QED BY <1>3, <1>6, SameOids DEF AddNode

LEMMA RemoveNodeStep ==
  ASSUME UpgradeInv, NEW n \in catalog.node, RemoveNode(n)
  PROVE  UpgradeInv'
<1>1. CatalogInv'
  BY DEF UpgradeInv, CatalogInv, RemoveNode, Commits, ShardsBelow, NodesBelow, Kept
<1> QED BY <1>1, SameOids DEF RemoveNode

LEMMA MarkObjectStep ==
  ASSUME UpgradeInv, NEW o \in DOMAIN oids, MarkObject(o)
  PROVE  UpgradeInv'
<1>1. CatalogInv'
  BY DEF UpgradeInv, CatalogInv, MarkObject, Commits
<1> QED BY <1>1, SameOids DEF MarkObject

LEMMA DropObjectStep ==
  ASSUME UpgradeInv, NEW o \in DOMAIN oids, DropObject(o)
  PROVE  UpgradeInv'
<1>1. CatalogInv'
  BY DEF UpgradeInv, CatalogInv, DropObject, Commits
<1>2. oids' = [p \in DOMAIN oids \ {o} |-> oids[p]]
  BY DEF DropObject
<1>3. prepare' = prepare /\ prepare # NotRunning /\ SameNames(prepare.marked, prepare.began)
        => SameNames(prepare.marked, prepare.began)'
  <2> SUFFICES ASSUME prepare' = prepare, SameNames(prepare.marked, prepare.began)
               PROVE  SameNames(prepare.marked, prepare.began)'
    OBVIOUS
  <2>1. NULL \in Names(prepare.marked)'
        \/ (Names(prepare.marked)' = Names(prepare.marked) /\ NULL \notin Names(prepare.marked))
    BY <1>1, <1>2, NamesStay DEF UpgradeInv, CatalogInv, Names
  <2> QED BY <2>1 DEF SameNames
<1> QED BY <1>1, <1>3, CommitStep DEF DropObject

LEMMA CreateObjectStep ==
  ASSUME UpgradeInv, NEW o \in Objects, NEW oid \in Oids, CreateObject(o, oid)
  PROVE  UpgradeInv'
<1>1. /\ o \notin DOMAIN oids /\ oid \notin prepare.marked
      /\ \A p \in DOMAIN oids : oids[p] # oid
      /\ oids' = [p \in DOMAIN oids \cup {o} |-> IF p = o THEN oid ELSE oids[p]]
  BY DEF CreateObject
<1>2. /\ DOMAIN oids' = DOMAIN oids \cup {o} /\ oids'[o] = oid
      /\ \A p \in DOMAIN oids : oids'[p] = oids[p]
  BY <1>1
<1>3. CatalogInv'
  BY <1>1, <1>2 DEF UpgradeInv, CatalogInv, CreateObject, Commits
<1>4. prepare' = prepare /\ prepare # NotRunning /\ SameNames(prepare.marked, prepare.began)
        => SameNames(prepare.marked, prepare.began)'
  <2> SUFFICES ASSUME prepare' = prepare, SameNames(prepare.marked, prepare.began)
               PROVE  SameNames(prepare.marked, prepare.began)'
    OBVIOUS
  <2>1. NULL \in Names(prepare.marked)'
        \/ (Names(prepare.marked)' = Names(prepare.marked) /\ NULL \notin Names(prepare.marked))
    BY <1>1, <1>3, NamesStay DEF UpgradeInv, CatalogInv, Names
  <2> QED BY <2>1 DEF SameNames
<1> QED BY <1>3, <1>4, CommitStep DEF CreateObject

LEMMA PrepareStartStep ==
  ASSUME UpgradeInv, PrepareStart
  PROVE  UpgradeInv'
<1>1. CatalogInv' /\ BackupInv' /\ Metadata' = Metadata /\ Names(marked)' = Names(marked)
  BY DEF UpgradeInv, CatalogInv, BackupInv, RowsBounded, IsSnapshot, Agree, PrepareStart,
         Preparing, Metadata, Names
<1>2. PICK r \in BOOLEAN :
        prepare' = [next |-> 1, rows |-> << >>, began |-> Metadata, marked |-> marked,
                    repeatable |-> r]
  BY DEF PrepareStart
<1>3. DOMAIN prepare'.rows = {}
  BY <1>2
<1>4. IsSnapshot(Metadata) /\ DOMAIN Metadata # {}
  BY MetadataIsSnapshot DEF UpgradeInv, PrepareStart, IsSnapshot, Copied
<1>5. Metadata # Torn
  BY <1>4 DEF Torn
<1>6. prepare'.marked = marked /\ prepare'.began = Metadata /\ Metadata["object"] = Names(marked)
  BY <1>2 DEF Metadata
<1>7. Names(prepare.marked)' = Names(marked)
  BY <1>6 DEF Names, PrepareStart, Preparing
<1>8. SameNames(prepare.marked, prepare.began)'
  BY <1>6, <1>7 DEF SameNames
<1>9. RowsBounded(prepare.rows)' /\ Agree(prepare.rows, prepare.began)'
  BY <1>3 DEF RowsBounded, Agree
<1>10. IsSnapshot(prepare.began)'
  BY <1>4, <1>6 DEF IsSnapshot, RowsBounded
<1>11. PrepareInv'
  BY <1>1, <1>2, <1>3, <1>5, <1>8, <1>9, <1>10 DEF PrepareInv
<1> QED BY <1>1, <1>11 DEF UpgradeInv

LEMMA CopyStep ==
  ASSUME UpgradeInv, Copy
  PROVE  UpgradeInv'
<1> DEFINE what == Copies[prepare.next]
           renamed == [prepare.began EXCEPT !["object"] = Names(prepare.marked)]
           found == IF prepare.repeatable THEN renamed ELSE Metadata
           n == prepare.next
<1>1. /\ CatalogInv' /\ BackupInv' /\ Metadata' = Metadata
      /\ oids' = oids /\ prepare'.marked = prepare.marked
  BY DEF UpgradeInv, CatalogInv, BackupInv, RowsBounded, IsSnapshot, Agree, Copy, Preparing,
         Metadata, Names, NotRunning, Copies, PrepareInv
<1>2. n \in 1..4 /\ what \in Copied
  BY DEF Copy, Copies, Copied, Kept
<1>3. prepare # NotRunning /\ ~upgraded
  BY <1>2 DEF NotRunning, UpgradeInv, CatalogInv
<1>4. /\ prepare'.next = n + 1 /\ prepare'.rows = WithCopy(prepare.rows, what, found[what])
      /\ prepare'.began = prepare.began /\ prepare'.repeatable = prepare.repeatable
      /\ prepare' = [next |-> prepare'.next, rows |-> prepare'.rows,
                     began |-> prepare'.began, marked |-> prepare'.marked,
                     repeatable |-> prepare'.repeatable]
  BY <1>3 DEF Copy, UpgradeInv, PrepareInv
<1>5. prepare.repeatable => /\ IsSnapshot(prepare.began) /\ prepare.began # Torn
                            /\ SameNames(prepare.marked, prepare.began)
                            /\ DOMAIN prepare.began = Copied
  BY <1>3 DEF UpgradeInv, PrepareInv, IsSnapshot
<1>6. prepare.repeatable => /\ renamed["object"] = Names(prepare.marked)
                            /\ \A x \in Kept : renamed[x] = prepare.began[x]
  BY <1>5 DEF Copied, Kept
<1>7. IsSnapshot(Metadata)
  BY <1>3, MetadataIsSnapshot DEF UpgradeInv
<1>8. /\ \E k \in Nat : ShardsBelow(found["shard"], k)
      /\ \E k \in Nat : NodesBelow(found["node"], k, k)
  <2>1. CASE prepare.repeatable
    BY <1>5, <1>6, <2>1 DEF IsSnapshot, RowsBounded, Copied, Kept
  <2>2. CASE ~prepare.repeatable
    <3>1. "shard" \in DOMAIN Metadata /\ "node" \in DOMAIN Metadata
      BY DEF Metadata
    <3> QED BY <1>7, <2>2, <3>1 DEF IsSnapshot, RowsBounded
  <2> QED BY <2>1, <2>2
<1>9. prepare.began # Torn =>
        (what = "object" /\ NULL \in found[what]) \/ found[what] = prepare.began[what]
  <2>1. CASE prepare.repeatable
    BY <1>2, <1>5, <1>6, <2>1 DEF SameNames, Copied
  <2>2. CASE ~prepare.repeatable
    BY <1>3, <2>2 DEF UpgradeInv, PrepareInv
  <2> QED BY <2>1, <2>2
<1> HIDE DEF found
<1>10. what \notin DOMAIN prepare.rows
  BY <1>2, <1>3 DEF UpgradeInv, PrepareInv, Copies
<1>11. /\ DOMAIN prepare'.rows = {what} \cup DOMAIN prepare.rows
       /\ prepare'.rows[what] = found[what]
       /\ \A x \in DOMAIN prepare.rows : prepare'.rows[x] = prepare.rows[x]
  BY <1>4, <1>10 DEF WithCopy
<1>12. DOMAIN prepare'.rows = {Copies[i] : i \in 1..prepare'.next - 1}
  <2>1. DOMAIN prepare.rows = {Copies[i] : i \in 1..n - 1}
    BY <1>3 DEF UpgradeInv, PrepareInv
  <2>2. {Copies[i] : i \in 1..(n + 1) - 1} = {Copies[i] : i \in 1..n - 1} \cup {Copies[n]}
    <3>1. 1..(n + 1) - 1 = (1..n - 1) \cup {n}
      BY <1>2
    <3> QED BY <3>1
  <2> QED BY <1>4, <1>11, <2>1, <2>2
<1>13. RowsBounded(prepare.rows)'
  BY <1>3, <1>8, <1>11 DEF UpgradeInv, PrepareInv, RowsBounded
<1>14. prepare.began # Torn => Agree(prepare.rows, prepare.began)'
  BY <1>3, <1>4, <1>9, <1>11 DEF UpgradeInv, PrepareInv, Agree
<1>15. prepare.repeatable => SameNames(prepare.marked, prepare.began)'
  BY <1>1, <1>4, <1>5 DEF SameNames, Names
<1>16. IsSnapshot(prepare.began)' <=> IsSnapshot(prepare.began)
  BY <1>4 DEF IsSnapshot, RowsBounded
<1>17. PrepareInv'
  BY <1>1, <1>2, <1>3, <1>4, <1>12, <1>13, <1>14, <1>15, <1>16 DEF UpgradeInv, PrepareInv
<1> QED BY <1>1, <1>17 DEF UpgradeInv

LEMMA PrepareEndStep ==
  ASSUME UpgradeInv, PrepareCommit \/ PrepareAbort
  PROVE  UpgradeInv'
<1>1. CASE PrepareAbort
  BY <1>1 DEF PrepareAbort, Preparing, UpgradeInv, CatalogInv, PrepareInv, BackupInv,
              RowsBounded, IsSnapshot, Agree
<1>2. CASE PrepareCommit
  <2>1. prepare.next = 5
    BY <1>2 DEF PrepareCommit, Copies
  <2>2. prepare # NotRunning
    BY <2>1 DEF NotRunning
  <2>3. DOMAIN prepare.rows = Copied
    BY <2>1, <2>2 DEF UpgradeInv, PrepareInv, Copies, Copied, Kept
  <2>4. BackupInv'
    BY <1>2, <2>2, <2>3 DEF PrepareCommit, UpgradeInv, PrepareInv, BackupInv, RowsBounded,
                            IsSnapshot, Agree
  <2>5. CatalogInv' /\ PrepareInv'
    BY <1>2, <2>2 DEF PrepareCommit, Preparing, UpgradeInv, CatalogInv, PrepareInv
  <2> QED BY <2>4, <2>5 DEF UpgradeInv
<1> QED BY <1>1, <1>2

LEMMA RunPgUpgradeStep ==
  ASSUME UpgradeInv, RunPgUpgrade
  PROVE  UpgradeInv'
<1>1. SeqStart \in [shardid : Nat \ {0}, nodeid : Nat \ {0}, groupid : Nat \ {0}]
  BY DEF SeqStart
<1>2. NoTables = [x \in Kept |-> NoTables[x]]
  BY DEF NoTables, Kept
<1>3. CatalogInv'
  BY <1>1, <1>2 DEF RunPgUpgrade, UpgradeInv, CatalogInv, Assigned
<1>4. PrepareInv' /\ BackupInv'
  BY DEF RunPgUpgrade, UpgradeInv, PrepareInv, BackupInv, RowsBounded, IsSnapshot, Agree
<1> QED BY <1>3, <1>4 DEF UpgradeInv

LEMMA FinishStep ==
  ASSUME UpgradeInv, Finish
  PROVE  UpgradeInv'
<1> DEFINE rows == backup.rows
           shardids == {s.shardid : s \in rows["shard"]}
           nodeids == {n.nodeid : n \in rows["node"]}
           groupids == {n.groupid : n \in rows["node"]}
<1>1. upgraded /\ ~aggregate /\ prepare = NotRunning
  BY DEF Finish, UpgradeInv, CatalogInv
<1>2. DOMAIN rows = Copied /\ RowsBounded(rows)
  BY <1>1 DEF UpgradeInv, BackupInv
<1>3. PICK k \in Nat : ShardsBelow(rows["shard"], k)
  BY <1>2 DEF RowsBounded, Copied, Kept
<1>4. PICK l \in Nat : NodesBelow(rows["node"], l, l)
  BY <1>2 DEF RowsBounded, Copied, Kept
<1>5. shardids \subseteq 0..k - 1 /\ nodeids \subseteq 0..l - 1 /\ groupids \subseteq 0..l - 1
  BY <1>3, <1>4 DEF ShardsBelow, NodesBelow
<1>6. /\ seqs'.shardid = Setval(seqs.shardid, shardids)
      /\ seqs'.nodeid = Setval(seqs.nodeid, nodeids)
      /\ seqs'.groupid = Setval(seqs.groupid, groupids)
      /\ seqs' = [shardid |-> seqs'.shardid, nodeid |-> seqs'.nodeid, groupid |-> seqs'.groupid]
  BY DEF Finish
<1>7. /\ seqs.shardid \in Nat \ {0} /\ seqs.nodeid \in Nat \ {0}
      /\ seqs.groupid \in Nat \ {0}
  BY DEF UpgradeInv, CatalogInv
<1> HIDE DEF rows, shardids, nodeids, groupids
<1>8. /\ seqs'.shardid \in Nat \ {0} /\ shardids \subseteq 0..seqs'.shardid - 1
      /\ seqs'.nodeid \in Nat \ {0} /\ nodeids \subseteq 0..seqs'.nodeid - 1
      /\ seqs'.groupid \in Nat \ {0} /\ groupids \subseteq 0..seqs'.groupid - 1
  BY <1>5, <1>6, <1>7, SetvalFresh
<1>9. ShardsBelow(rows["shard"], seqs'.shardid)
  BY <1>3, <1>8 DEF ShardsBelow, shardids
<1>10. NodesBelow(rows["node"], seqs'.nodeid, seqs'.groupid)
  BY <1>4, <1>8 DEF NodesBelow, nodeids, groupids
<1>11. catalog' = [x \in Kept |-> rows[x]]
  BY DEF Finish, NoTables, Kept, rows
<1>12. CatalogInv'
  BY <1>6, <1>8, <1>9, <1>10, <1>11 DEF Finish, UpgradeInv, CatalogInv, Kept
<1>13. PrepareInv' /\ BackupInv'
  BY <1>1 DEF Finish, PrepareInv, BackupInv
<1> QED BY <1>12, <1>13 DEF UpgradeInv

LEMMA UpgradeInvariant == UpgradeSpec => []UpgradeInv
<1>1. UpgradeInit => UpgradeInv
  <2> SUFFICES ASSUME UpgradeInit PROVE UpgradeInv
    OBVIOUS
  <2>1. /\ catalog.node = {[nodeid |-> 1, groupid |-> 0]} /\ catalog.shard = {}
        /\ catalog = [x \in Kept |-> catalog[x]]
    BY DEF UpgradeInit, NoTables, Kept
  <2>2. /\ seqs = [shardid |-> 1, nodeid |-> 2, groupid |-> 1]
    BY DEF UpgradeInit, SeqStart
  <2>4. [nodeid |-> 1, groupid |-> 0] \in [nodeid : 0..2 - 1, groupid : 0..1 - 1]
    OBVIOUS
  <2>5. /\ ShardsBelow(catalog.shard, seqs.shardid)
        /\ NodesBelow(catalog.node, seqs.nodeid, seqs.groupid)
    BY <2>1, <2>2, <2>4 DEF ShardsBelow, NodesBelow
  <2>6. /\ DOMAIN oids \subseteq Objects
        /\ \A o, p \in DOMAIN oids : oids[o] = oids[p] => o = p
        /\ ~upgraded
    BY DEF UpgradeInit, Assigned
  <2>7. seqs \in [shardid : Nat \ {0}, nodeid : Nat \ {0}, groupid : Nat \ {0}]
    BY ONLY <2>2
  <2>3. CatalogInv
    BY <2>1, <2>5, <2>6, <2>7, Zenon DEF CatalogInv
  <2> QED BY <2>3 DEF UpgradeInit, UpgradeInv, PrepareInv, BackupInv
<1>2. UpgradeInv /\ [UpgradeNext]_upgradeVars => UpgradeInv'
  <2> SUFFICES ASSUME UpgradeInv, [UpgradeNext]_upgradeVars PROVE UpgradeInv'
    OBVIOUS
  <2>1. CASE UNCHANGED upgradeVars
    BY <2>1 DEF upgradeVars, UpgradeInv, CatalogInv, PrepareInv, BackupInv, Metadata, Names,
                RowsBounded, IsSnapshot, Agree, SameNames
  <2>2. CASE FinishFails
    BY <2>1, <2>2 DEF FinishFails
  <2> QED BY <2>1, <2>2, DistributeTableStep, DropTableStep, AddNodeStep, RemoveNodeStep,
             MarkObjectStep, DropObjectStep, CreateObjectStep, PrepareStartStep, CopyStep,
             PrepareEndStep, RunPgUpgradeStep, FinishStep DEF UpgradeNext
<1> QED BY <1>1, <1>2, PTL DEF UpgradeSpec

\* The next ids are fresh, for any tables, objects and bounds: also after the tables were
\* copied while other sessions changed them.
THEOREM IdsStayFresh == UpgradeSpec => []IdsFresh
<1>1. UpgradeInv => IdsFresh
  BY DEF UpgradeInv, CatalogInv, IdsFresh, ShardsBelow, NodesBelow
<1> QED BY <1>1, UpgradeInvariant, PTL

\* When citus_finish_pg_upgrade succeeds, the metadata comes back as it was when the copy
\* began, if that was not torn.
THEOREM MetadataComesBack == UpgradeSpec => MetadataKept
<1> DEFINE Step == upgraded /\ ~upgraded' /\ backup.began # Torn =>
                     /\ Metadata' = backup.began
                     /\ attached' = backup.began.partition /\ attached' \cap dropped = {}
                     /\ marked' = {oids[o] : o \in backup.began.object}
<1>1. UpgradeInv /\ [UpgradeNext]_upgradeVars => [Step]_upgradeVars
  <2> SUFFICES ASSUME UpgradeInv, UpgradeNext, upgraded, ~upgraded', backup.began # Torn
               PROVE  Step
    BY DEF upgradeVars
  <2>1. Finish
    BY DEF UpgradeNext, DistributeTable, DropTable, AddNode, RemoveNode, MarkObject, DropObject,
           CreateObject, Commits, PrepareStart, Copy, PrepareCommit, PrepareAbort, Preparing,
           RunPgUpgrade, FinishFails, upgradeVars
  <2>2. ~aggregate
    BY DEF UpgradeInv, CatalogInv
  <2>3. /\ IsSnapshot(backup.began) /\ Agree(backup.rows, backup.began)
        /\ DOMAIN backup.rows = Copied
    BY <2>2 DEF UpgradeInv, BackupInv
  <2>4. backup.rows["object"] \subseteq DOMAIN oids /\ backup.rows["partition"] \cap dropped = {}
    BY <2>1 DEF Finish, CanRestore
  <2>5. NULL \notin backup.rows["object"]
    BY <2>4, NullAssumption DEF UpgradeInv, CatalogInv
  <2>6. \A x \in Copied : backup.rows[x] = backup.began[x]
    BY <2>3, <2>5 DEF Agree
  <2>7. /\ oids' = oids /\ marked' = {oids[o] : o \in backup.began["object"]}
        /\ attached' = backup.began["partition"] /\ dropped' = dropped
    BY <2>1, <2>6 DEF Finish, Copied, Kept
  <2>8. backup.began["object"] \subseteq DOMAIN oids
    BY <2>4, <2>6 DEF Copied
  <2>9. Names(marked)' = backup.began["object"]
    <3>1. {o \in DOMAIN oids : oids[o] \in marked'} = backup.began["object"]
      BY <2>7, <2>8 DEF UpgradeInv, CatalogInv
    <3>2. marked' \subseteq {oids[o] : o \in DOMAIN oids}
      BY <2>7, <2>8
    <3> QED BY <2>7, <3>1, <3>2 DEF Names
  <2>10. \A x \in Kept : catalog'[x] = backup.began[x]
    BY <2>1, <2>6 DEF Finish, NoTables, Kept, Copied
  <2>11. Metadata' = [x \in Copied |-> backup.began[x]]
    BY <2>9, <2>10 DEF Metadata, Copied, Kept
  <2>12. Metadata' = backup.began
    BY <2>3, <2>11 DEF IsSnapshot
  <2>13. attached' \cap dropped = {}
    BY <2>4, <2>6, <2>7 DEF Copied, Kept
  <2> QED BY <2>7, <2>12, <2>13
<1> QED BY <1>1, UpgradeInvariant, PTL DEF UpgradeSpec, MetadataKept

-----------------------------------------------------------------------------
(* Loops over a list. *)

\* The position of the last element that the body has been executed for, or the one
\* before the next when that is deleted.
Front == IF at_ \in {"body", "deleted"} THEN foreachState.i + 1 ELSE foreachState.i

Seen(x) == \E i \in DOMAIN seen : seen[i] = x

LoopTypeOK ==
  /\ elements \in Seq(1..added) /\ seen \in Seq(1..added)
  /\ added \in Nat /\ start \in Nat
  /\ foreachState \in [nil : BOOLEAN, i : Int]
  /\ at_ \in {"test", "body", "deleted", "over"}

\* Elements differ; those from the start to the front have been seen, in their order, and
\* no other one, and those of another List never.
Differ == \A k, l \in DOMAIN elements : elements[k] = elements[l] => k = l
SeenOnce == \A i, j \in DOMAIN seen : seen[i] = seen[j] => i = j
InPlace ==
  /\ foreachState.i >= (IF at_ = "deleted" THEN start - 1 ELSE start) \/ foreachState.nil
  /\ at_ = "body" => ~foreachState.nil /\ foreachState.i < Len(elements)
  /\ at_ = "over" => foreachState.nil \/ foreachState.i >= Len(elements)
UpToFront ==
  \A k \in DOMAIN elements :
    Seen(elements[k]) <=> ~foreachState.nil /\ k > start /\ k <= Front
InOrder ==
  \A i, j \in DOMAIN seen : \A k, l \in DOMAIN elements :
    seen[i] = elements[k] /\ seen[j] = elements[l] => (i < j <=> k < l)
VisitInv == Differ /\ SeenOnce /\ InPlace /\ UpToFront /\ InOrder

LoopInv == LoopTypeOK /\ VisitInv
-----------------------------------------------------------------------------
\* A sequence without its k-th element.
LEMMA Removed ==
  ASSUME NEW S, NEW q \in Seq(S), NEW k \in 1..Len(q)
  PROVE  LET r == SubSeq(q, 1, k - 1) \o SubSeq(q, k + 1, Len(q))
         IN  /\ r \in Seq(S) /\ Len(r) = Len(q) - 1
             /\ \A i \in 1..Len(q) - 1 : r[i] = IF i < k THEN q[i] ELSE q[i + 1]
<1> DEFINE a == SubSeq(q, 1, k - 1)
           b == SubSeq(q, k + 1, Len(q))
           r == a \o b
<1>1. k \in Nat /\ Len(q) \in Nat /\ 1 <= k /\ k <= Len(q) /\ \A i \in 1..Len(q) : q[i] \in S
  OBVIOUS
<1>2. /\ a \in Seq(S) /\ Len(a) = k - 1 /\ \A i \in 1..k - 1 : a[i] = q[i]
  <2>1. 1 \in Int /\ k - 1 \in Int /\ \A i \in 1..k - 1 : q[i] \in S
    BY <1>1
  <2>2. /\ a \in Seq(S)
        /\ Len(a) = IF 1 <= k - 1 THEN k - 1 - 1 + 1 ELSE 0
        /\ \A i \in 1..k - 1 - 1 + 1 : a[i] = q[1 + i - 1]
    BY <2>1, SubSeqProperties
  <2> HIDE DEF a
  <2> QED BY <1>1, <2>2
<1>3. /\ b \in Seq(S) /\ Len(b) = Len(q) - k /\ \A i \in 1..Len(q) - k : b[i] = q[k + i]
  <2>1. k + 1 \in Int /\ Len(q) \in Int /\ \A i \in k + 1..Len(q) : q[i] \in S
    BY <1>1
  <2>2. /\ b \in Seq(S)
        /\ Len(b) = IF k + 1 <= Len(q) THEN Len(q) - (k + 1) + 1 ELSE 0
        /\ \A i \in 1..Len(q) - (k + 1) + 1 : b[i] = q[k + 1 + i - 1]
    BY <2>1, SubSeqProperties
  <2> HIDE DEF b
  <2> QED BY <1>1, <2>2
<1> HIDE DEF a, b
<1>4. /\ r \in Seq(S) /\ Len(r) = Len(a) + Len(b)
      /\ \A i \in 1..Len(a) + Len(b) : r[i] = IF i <= Len(a) THEN a[i] ELSE b[i - Len(a)]
  BY <1>2, <1>3, ConcatProperties
<1> HIDE DEF r
<1>5. Len(r) = Len(q) - 1
  BY <1>1, <1>2, <1>3, <1>4
<1>6. ASSUME NEW i \in 1..Len(q) - 1 PROVE r[i] = IF i < k THEN q[i] ELSE q[i + 1]
  <2>1. CASE i < k
    BY <1>1, <1>2, <1>3, <1>4, <2>1
  <2>2. CASE ~(i < k)
    <3>1. i - Len(a) \in 1..Len(q) - k /\ k + (i - Len(a)) = i + 1
      BY <1>1, <1>2, <2>2
    <3>2. r[i] = b[i - Len(a)]
      <4>1. i \in 1..Len(a) + Len(b) /\ ~(i <= Len(a))
        BY <1>1, <1>2, <1>3, <2>2
      <4> QED BY <1>4, <4>1
    <3> QED BY <1>3, <2>2, <3>1, <3>2
  <2> QED BY <2>1, <2>2
<1> QED BY <1>4, <1>5, <1>6 DEF r, a, b

\* A sequence with an element more.
LEMMA Inserted ==
  ASSUME NEW S, NEW q \in Seq(S), NEW e \in S, NEW k \in 1..Len(q) + 1
  PROVE  /\ List!InsertAt(q, k, e) \in Seq(S) /\ Len(List!InsertAt(q, k, e)) = Len(q) + 1
         /\ \A i \in 1..Len(q) + 1 : List!InsertAt(q, k, e)[i] =
              IF i < k THEN q[i] ELSE IF i = k THEN e ELSE q[i - 1]
<1> DEFINE a == SubSeq(q, 1, k - 1)
           b == SubSeq(q, k, Len(q))
           c == a \o <<e>>
           r == c \o b
<1>1. k \in Nat /\ Len(q) \in Nat /\ 1 <= k /\ k <= Len(q) + 1 /\ \A i \in 1..Len(q) : q[i] \in S
  OBVIOUS
<1>2. /\ a \in Seq(S) /\ Len(a) = k - 1 /\ \A i \in 1..k - 1 : a[i] = q[i]
  <2>1. 1 \in Int /\ k - 1 \in Int /\ \A i \in 1..k - 1 : q[i] \in S
    BY <1>1
  <2>2. /\ a \in Seq(S)
        /\ Len(a) = IF 1 <= k - 1 THEN k - 1 - 1 + 1 ELSE 0
        /\ \A i \in 1..k - 1 - 1 + 1 : a[i] = q[1 + i - 1]
    BY <2>1, SubSeqProperties
  <2> HIDE DEF a
  <2> QED BY <1>1, <2>2
<1>3. /\ b \in Seq(S) /\ Len(b) = Len(q) - k + 1 /\ \A i \in 1..Len(q) - k + 1 : b[i] = q[k + i - 1]
  <2>1. k \in Int /\ Len(q) \in Int /\ \A i \in k..Len(q) : q[i] \in S
    BY <1>1
  <2>2. /\ b \in Seq(S)
        /\ Len(b) = IF k <= Len(q) THEN Len(q) - k + 1 ELSE 0
        /\ \A i \in 1..Len(q) - k + 1 : b[i] = q[k + i - 1]
    BY <2>1, SubSeqProperties
  <2> HIDE DEF b
  <2> QED BY <1>1, <2>2
<1> HIDE DEF a, b
<1>4. <<e>> \in Seq(S) /\ Len(<<e>>) = 1 /\ <<e>>[1] = e
  OBVIOUS
<1>5. /\ c \in Seq(S) /\ Len(c) = k
      /\ \A i \in 1..k : c[i] = IF i < k THEN q[i] ELSE e
  <2> DEFINE o == <<e>>
  <2>0. o \in Seq(S) /\ Len(o) = 1 /\ o[1] = e
    BY <1>4
  <2> HIDE DEF o
  <2>1. /\ a \o o \in Seq(S) /\ Len(a \o o) = Len(a) + Len(o)
        /\ \A i \in 1..Len(a) + Len(o) : (a \o o)[i] = IF i <= Len(a) THEN a[i] ELSE o[i - Len(a)]
    BY <1>2, <2>0, ConcatProperties
  <2>2. \A i \in 1..k : (a \o o)[i] = IF i < k THEN q[i] ELSE e
    <3> TAKE i \in 1..k
    <3>1. (a \o o)[i] = IF i <= Len(a) THEN a[i] ELSE o[i - Len(a)]
      BY <1>1, <1>2, <2>0, <2>1
    <3> QED BY <1>1, <1>2, <2>0, <3>1
  <2> QED BY <1>1, <1>2, <2>0, <2>1, <2>2 DEF o
<1> HIDE DEF c
<1>6. /\ r \in Seq(S) /\ Len(r) = Len(c) + Len(b)
      /\ \A i \in 1..Len(c) + Len(b) : r[i] = IF i <= Len(c) THEN c[i] ELSE b[i - Len(c)]
  BY <1>3, <1>5, ConcatProperties
<1> HIDE DEF r
<1>7. Len(r) = Len(q) + 1
  BY <1>1, <1>3, <1>5, <1>6
<1>8. ASSUME NEW i \in 1..Len(q) + 1
      PROVE  r[i] = IF i < k THEN q[i] ELSE IF i = k THEN e ELSE q[i - 1]
  <2>0. r[i] = IF i <= k THEN c[i] ELSE b[i - k]
    BY <1>1, <1>3, <1>5, <1>6
  <2>1. CASE i <= k
    BY <1>1, <1>5, <2>0, <2>1
  <2>2. CASE ~(i <= k)
    <3>1. i - k \in 1..Len(q) - k + 1 /\ k + (i - k) - 1 = i - 1
      BY <1>1, <2>2
    <3> QED BY <1>3, <1>1, <2>0, <2>2, <3>1
  <2> QED BY <2>1, <2>2
<1> QED BY <1>6, <1>7, <1>8 DEF r, c, a, b, List!InsertAt

-----------------------------------------------------------------------------
(* The steps. *)

LEMMA StartForeachStep ==
  ASSUME LoopInv, NEW n \in 0..MaxElements, NEW N \in 0..MaxElements, StartForeach(n, N)
  PROVE  LoopInv'
<1>0. n \in Nat /\ N \in Nat
  BY ListLoopsAssumption
<1>1. elements' \in Seq(1..n) /\ Len(elements') = n /\ \A k \in 1..n : elements'[k] = k
  <2>1. elements' = [k \in 1..n |-> k]
    BY DEF StartForeach
  <2>2. [k \in 1..n |-> k] \in Seq(1..n)
    BY <1>0
  <2>3. DOMAIN [k \in 1..n |-> k] = 1..n
    OBVIOUS
  <2> QED BY <1>0, <2>1, <2>2, <2>3
<1>2. LoopTypeOK'
  <2>1. foreachState' \in [nil : BOOLEAN, i : Int]
    BY <1>0 DEF StartForeach
  <2>2. seen' \in Seq(1..n)
    BY DEF StartForeach
  <2> QED BY <1>0, <1>1, <2>1, <2>2 DEF LoopTypeOK, StartForeach
<1>3. VisitInv'
  BY <1>0, <1>1 DEF VisitInv, Differ, SeenOnce, InPlace, UpToFront, InOrder,
                   StartForeach, Seen, Front
<1> QED BY <1>2, <1>3 DEF LoopInv

LEMMA TestStep ==
  ASSUME LoopInv, Test
  PROVE  LoopInv'
<1> DEFINE i == foreachState.i
<1>0. /\ at_ = "test" /\ i \in Int /\ elements \in Seq(1..added) /\ seen \in Seq(1..added)
      /\ elements' = elements /\ foreachState' = foreachState /\ start' = start /\ added' = added
      /\ start \in Nat /\ DOMAIN elements = 1..Len(elements) /\ Len(elements) \in Nat
  BY DEF Test, LoopInv, LoopTypeOK
<1>1. CASE ~(~foreachState.nil /\ i < Len(elements))
  <2>1. at_' = "over" /\ seen' = seen
    BY <1>1 DEF Test
  <2>2. LoopTypeOK'
    BY <1>0, <2>1 DEF LoopInv, LoopTypeOK
  <2>3. VisitInv'
    BY <1>0, <1>1, <2>1 DEF LoopInv, VisitInv, Differ, SeenOnce, InPlace, UpToFront, InOrder, Seen, Front
  <2> QED BY <2>2, <2>3 DEF LoopInv
<1>2. CASE ~foreachState.nil /\ i < Len(elements)
  <2> DEFINE x == elements[i + 1]
  <2>1. at_' = "body" /\ seen' = Append(seen, x)
    BY <1>2 DEF Test
  <2>2. i >= start /\ i + 1 \in DOMAIN elements /\ x \in 1..added
    <3>1. i >= start
      BY <1>0, <1>2 DEF LoopInv, VisitInv, InPlace
    <3> HIDE DEF i
    <3>2. i + 1 \in DOMAIN elements
      BY <1>0, <1>2, <3>1
    <3>3. \A k \in DOMAIN elements : elements[k] \in 1..added
      <4>1. elements \in Seq(1..added)
        BY <1>0
      <4> DEFINE T == 1..added
      <4> HIDE DEF T
      <4>2. elements \in Seq(T)
        BY <4>1 DEF T
      <4>3. \A k \in DOMAIN elements : elements[k] \in T
        BY ONLY <4>2
      <4> QED BY <4>3 DEF T
    <3> QED BY <3>1, <3>2, <3>3
  <2>3. /\ seen' \in Seq(1..added) /\ DOMAIN seen' = 1..Len(seen) + 1 /\ Len(seen) \in Nat
        /\ seen'[Len(seen) + 1] = x /\ \A j \in 1..Len(seen) : seen'[j] = seen[j]
        /\ DOMAIN seen = 1..Len(seen)
    BY <1>0, <2>1, <2>2
  <2>4. LoopTypeOK'
    BY <1>0, <2>1, <2>3 DEF LoopInv, LoopTypeOK
  <2>0. \A k \in DOMAIN elements : Seen(elements[k]) <=> k > start /\ k <= i
    BY <1>0, <1>2 DEF LoopInv, VisitInv, UpToFront, Front
  <2>5. \A j \in 1..Len(seen) : \A k \in DOMAIN elements : seen[j] = elements[k] => k < i + 1
    BY <1>0, <2>0, <2>3 DEF Seen
  <2>6. \A j \in 1..Len(seen) : seen[j] # x
    BY <2>2, <2>5, <1>0
  <2>7. \A k \in DOMAIN elements : (\E j \in DOMAIN seen' : seen'[j] = elements[k]) <=> Seen(elements[k]) \/ k = i + 1
    <3> TAKE k \in DOMAIN elements
    <3>1. elements[k] = x <=> k = i + 1
      BY <1>0, <2>2 DEF LoopInv, VisitInv, Differ
    <3> HIDE DEF x
    <3>2. (\E j \in DOMAIN seen' : seen'[j] = elements[k]) <=> Seen(elements[k]) \/ elements[k] = x
      BY <2>3 DEF Seen
    <3> QED BY <3>1, <3>2
  <2>8. \A k \in DOMAIN elements : (\E j \in DOMAIN seen' : seen'[j] = elements[k]) <=> k > start /\ k <= i + 1
    BY <1>0, <2>0, <2>2, <2>7
  <2>9. \A j, m \in DOMAIN seen' : seen'[j] = seen'[m] => j = m
    BY <2>3, <2>6 DEF LoopInv, VisitInv, SeenOnce
  <2>10. ASSUME NEW j \in DOMAIN seen', NEW m \in DOMAIN seen', NEW k \in DOMAIN elements,
                NEW l \in DOMAIN elements, seen'[j] = elements[k], seen'[m] = elements[l]
         PROVE  j < m <=> k < l
    <3>1. CASE j \in 1..Len(seen) /\ m \in 1..Len(seen)
      BY <2>3, <2>10, <3>1 DEF LoopInv, VisitInv, InOrder
    <3>2. CASE j = Len(seen) + 1
      <4>1. k = i + 1
        BY <2>2, <2>3, <2>10, <3>2 DEF LoopInv, VisitInv, Differ
      <4>2. CASE m = Len(seen) + 1
        <5>1. l = i + 1
          BY <2>2, <2>3, <2>10, <4>2 DEF LoopInv, VisitInv, Differ
        <5> QED BY <3>2, <4>1, <4>2, <5>1, <2>3, <1>0
      <4>3. CASE m \in 1..Len(seen)
        BY <1>0, <2>3, <2>5, <2>10, <3>2, <4>1, <4>3
      <4> QED BY <2>3, <4>2, <4>3
    <3>3. CASE j \in 1..Len(seen) /\ m = Len(seen) + 1
      <4>1. l = i + 1
        BY <2>2, <2>3, <2>10, <3>3 DEF LoopInv, VisitInv, Differ
      <4> QED BY <1>0, <2>3, <2>5, <2>10, <3>3, <4>1
    <3> QED BY <2>3, <3>1, <3>2, <3>3
  <2>12. Differ' /\ SeenOnce' /\ InOrder'
    BY <1>0, <2>9, <2>10 DEF LoopInv, VisitInv, Differ, SeenOnce, InOrder
  <2>13. InPlace'
    BY <1>0, <1>2, <2>1, <2>2 DEF InPlace
  <2>14. UpToFront'
    BY <1>0, <1>2, <2>1, <2>8 DEF UpToFront, Front, Seen
  <2>11. VisitInv'
    BY <2>12, <2>13, <2>14 DEF VisitInv
  <2> QED BY <2>4, <2>11 DEF LoopInv
<1> QED BY <1>1, <1>2

LEMMA DeleteStep ==
  ASSUME LoopInv, foreach_delete_current
  PROVE  LoopInv'
<1> DEFINE i == foreachState.i
           r == SubSeq(elements, 1, (i + 1) - 1) \o SubSeq(elements, (i + 1) + 1, Len(elements))
<1>0. /\ at_ = "body" /\ i \in Int /\ elements \in Seq(1..added) /\ seen \in Seq(1..added)
      /\ start' = start /\ added' = added /\ seen' = seen /\ at_' = "deleted"
      /\ start \in Nat /\ DOMAIN elements = 1..Len(elements) /\ Len(elements) \in Nat
      /\ ~foreachState.nil /\ i < Len(elements) /\ i >= start
  BY DEF foreach_delete_current, LoopInv, LoopTypeOK, VisitInv, InPlace
<1>1. elements' = r
  BY DEF foreach_delete_current, List!RemoveAt
<1>2. i + 1 \in 1..Len(elements)
  BY <1>0
<1>3. /\ r \in Seq(1..added) /\ Len(r) = Len(elements) - 1
      /\ \A k \in 1..Len(elements) - 1 : r[k] = IF k < i + 1 THEN elements[k] ELSE elements[k + 1]
  BY <1>0, <1>2, Removed
<1> HIDE DEF r
<1>4. /\ elements' \in Seq(1..added) /\ DOMAIN elements' = 1..Len(elements) - 1
      /\ \A k \in DOMAIN elements' :
           elements'[k] = IF k < i + 1 THEN elements[k] ELSE elements[k + 1]
  BY <1>0, <1>1, <1>3
<1>5. foreachState' = [nil |-> elements' = << >>, i |-> i - 1]
  BY DEF foreach_delete_current
<1>6. foreachState'.i = i - 1 /\ (foreachState'.nil <=> elements' = << >>)
      /\ foreachState' \in [nil : BOOLEAN, i : Int]
  <2> DEFINE b == elements' = << >>
             j == i - 1
  <2>1. b \in BOOLEAN /\ j \in Int
    BY <1>0
  <2>2. foreachState' = [nil |-> b, i |-> j]
    BY <1>5
  <2>3. (b <=> elements' = << >>) /\ j = i - 1
    OBVIOUS
  <2> HIDE DEF b, j
  <2> QED BY ONLY <2>1, <2>2, <2>3
<1> HIDE DEF i
<1>7. LoopTypeOK'
  BY <1>0, <1>4, <1>6 DEF LoopInv, LoopTypeOK
<1> DEFINE Old(k) == IF k < i + 1 THEN k ELSE k + 1
<1>8. \A k \in DOMAIN elements' : Old(k) \in DOMAIN elements /\ elements'[k] = elements[Old(k)]
  BY <1>0, <1>2, <1>4
<1>9. \A k, l \in DOMAIN elements' : (k < l <=> Old(k) < Old(l)) /\ (Old(k) = Old(l) => k = l)
  BY <1>0, <1>4
<1>10. \A k \in DOMAIN elements' : Seen(elements'[k]) <=> Old(k) > start /\ Old(k) <= i + 1
  BY <1>0, <1>8 DEF LoopInv, VisitInv, UpToFront, Front, i
<1>11. \A k \in DOMAIN elements' : Old(k) > start /\ Old(k) <= i + 1 <=> k > start /\ k <= i
  BY <1>0, <1>4
<1>12. \A k \in DOMAIN elements' : elements' # << >>
  BY <1>4
<1>13. \A k \in DOMAIN elements' :
         (\E j \in DOMAIN seen' : seen'[j] = elements'[k]) <=> ~foreachState'.nil /\ k > start' /\ k <= Front'
  <2>1. (\A k \in DOMAIN elements' : ~foreachState'.nil) /\ Front' = i
    BY <1>0, <1>6, <1>12 DEF Front
  <2> QED BY <1>0, <1>10, <1>11, <2>1 DEF Seen
<1>14. \A k, l \in DOMAIN elements' : elements'[k] = elements'[l] => k = l
  BY <1>8, <1>9 DEF LoopInv, VisitInv, Differ
<1>15. \A j, m \in DOMAIN seen' : \A k, l \in DOMAIN elements' :
         seen'[j] = elements'[k] /\ seen'[m] = elements'[l] => (j < m <=> k < l)
  <2> HIDE DEF Old
  <2> QED BY <1>0, <1>8, <1>9 DEF LoopInv, VisitInv, InOrder
<1>16. Differ' /\ SeenOnce' /\ InOrder'
  BY <1>0, <1>14, <1>15 DEF LoopInv, VisitInv, Differ, SeenOnce, InOrder
<1>17. InPlace'
  BY <1>0, <1>6 DEF InPlace
<1>18. UpToFront'
  BY <1>13 DEF UpToFront, Seen
<1> QED BY <1>7, <1>16, <1>17, <1>18 DEF LoopInv, VisitInv

LEMMA InsertStep ==
  ASSUME LoopInv, NEW index \in 0..MaxElements, InsertBehind(index)
  PROVE  LoopInv'
<1> DEFINE i == foreachState.i
           e == added + 1
           r == List!InsertAt(elements, index + 1, e)
<1>0. /\ at_ \in {"body", "deleted"} /\ i \in Int /\ elements \in Seq(1..added)
      /\ seen \in Seq(1..added)
      /\ start' = start /\ added' = e /\ seen' = seen /\ at_' = at_ /\ foreachState' = foreachState
      /\ start \in Nat /\ DOMAIN elements = 1..Len(elements) /\ Len(elements) \in Nat
      /\ added \in Nat /\ index \in Nat /\ index \in (i + 1)..Len(elements)
      /\ i >= start - 1 \/ foreachState.nil
  BY ListLoopsAssumption DEF InsertBehind, LoopInv, LoopTypeOK, VisitInv, InPlace
<1>1. elements' = r
  BY DEF InsertBehind
<1>2. index + 1 \in 1..Len(elements) + 1
  BY <1>0
<1>3. /\ elements \in Seq(1..e) /\ seen \in Seq(1..e) /\ e \in 1..e
      /\ \A k \in DOMAIN elements : elements[k] # e
      /\ \A j \in DOMAIN seen : seen[j] # e
  <2>1. 1..added \subseteq 1..e /\ e \in 1..e
    BY <1>0
  <2>2. elements \in Seq(1..e) /\ seen \in Seq(1..e)
    BY <1>0, <2>1
  <2>3. (\A k \in DOMAIN elements : elements[k] \in 1..added) /\ \A j \in DOMAIN seen : seen[j] \in 1..added
    BY <1>0
  <2> QED BY <1>0, <2>1, <2>2, <2>3
<1> HIDE DEF e
<1>4. /\ r \in Seq(1..e) /\ Len(r) = Len(elements) + 1
      /\ \A k \in 1..Len(elements) + 1 :
           r[k] = IF k < index + 1 THEN elements[k] ELSE IF k = index + 1 THEN e ELSE elements[k - 1]
  <2>1. index + 1 \in 1..Len(elements) + 1 /\ elements \in Seq(1..e) /\ e \in 1..e
    BY <1>2, <1>3
  <2> DEFINE p == index + 1
         T == 1..e
  <2>2. p \in 1..Len(elements) + 1 /\ elements \in Seq(T) /\ e \in T
    BY <2>1
  <2> HIDE DEF p, T
  <2>3. /\ List!InsertAt(elements, p, e) \in Seq(T)
        /\ Len(List!InsertAt(elements, p, e)) = Len(elements) + 1
        /\ \A k \in 1..Len(elements) + 1 : List!InsertAt(elements, p, e)[k] =
             IF k < p THEN elements[k] ELSE IF k = p THEN e ELSE elements[k - 1]
    BY <2>2, Inserted
  <2> QED BY <2>3 DEF r, p, T
<1> HIDE DEF r, i
<1>5. /\ elements' \in Seq(1..e) /\ DOMAIN elements' = 1..Len(elements) + 1
      /\ \A k \in DOMAIN elements' :
           elements'[k] = IF k < index + 1 THEN elements[k]
                          ELSE IF k = index + 1 THEN e ELSE elements[k - 1]
  BY <1>0, <1>1, <1>4
<1>6. LoopTypeOK'
  BY <1>0, <1>3, <1>5 DEF LoopInv, LoopTypeOK, e
<1> DEFINE Old(k) == IF k < index + 1 THEN k ELSE k - 1
<1>7. \A k \in DOMAIN elements' \ {index + 1} :
        Old(k) \in DOMAIN elements /\ elements'[k] = elements[Old(k)]
  <2> TAKE k \in DOMAIN elements' \ {index + 1}
  <2>1. /\ k \in 1..Len(elements) + 1 /\ k # index + 1 /\ index \in Nat /\ index <= Len(elements)
        /\ elements'[k] = IF k < index + 1 THEN elements[k] ELSE elements[k - 1]
    BY <1>0, <1>2, <1>5
  <2>2. CASE k < index + 1
    BY <1>0, <2>1, <2>2
  <2>3. CASE ~(k < index + 1)
    BY <1>0, <2>1, <2>3
  <2> QED BY <2>2, <2>3
<1>8. \A k, l \in DOMAIN elements' \ {index + 1} :
        (k < l <=> Old(k) < Old(l)) /\ (Old(k) = Old(l) => k = l)
  <2>1. DOMAIN elements' \subseteq Int /\ index \in Int
    BY <1>0, <1>5
  <2>2. \A k, l \in Int \ {index + 1} :
          (k < l <=> Old(k) < Old(l)) /\ (Old(k) = Old(l) => k = l)
    BY <2>1
  <2> HIDE DEF Old
  <2> QED BY <2>1, <2>2
<1>9. index + 1 \in DOMAIN elements' /\ elements'[index + 1] = e
  BY <1>0, <1>2, <1>5
<1>10. \A k \in DOMAIN elements' \ {index + 1} :
         Seen(elements'[k]) <=> ~foreachState.nil /\ Old(k) > start /\ Old(k) <= i + 1
  BY <1>0, <1>7 DEF LoopInv, VisitInv, UpToFront, Front, i
<1>11. \A k \in DOMAIN elements' \ {index + 1} :
         ~foreachState.nil => (Old(k) > start /\ Old(k) <= i + 1 <=> k > start /\ k <= i + 1)
  <2>1. i \in Int /\ start \in Nat /\ index \in Nat /\ index >= i + 1
        /\ (~foreachState.nil => i >= start - 1) /\ DOMAIN elements' \subseteq Nat
    BY <1>0, <1>5
  <2> QED BY <2>1
<1>12. ~Seen(e) /\ ~(index + 1 <= i + 1)
  <2>1. ~Seen(e)
    BY <1>3 DEF Seen
  <2>2. i \in Int /\ index \in Nat /\ index >= i + 1
    BY <1>0
  <2> QED BY <2>1, <2>2
<1>13. \A k \in DOMAIN elements' :
         (\E j \in DOMAIN seen' : seen'[j] = elements'[k]) <=> ~foreachState'.nil /\ k > start' /\ k <= Front'
  <2> HIDE DEF Old
  <2>1. Front' = i + 1 /\ foreachState' = foreachState /\ start' = start /\ seen' = seen
    BY <1>0 DEF Front, i
  <2>2. \A k \in DOMAIN elements' : (\E j \in DOMAIN seen' : seen'[j] = elements'[k]) <=> Seen(elements'[k])
    BY <2>1 DEF Seen
  <2> TAKE k \in DOMAIN elements'
  <2>3. CASE k = index + 1
    BY <1>9, <1>12, <2>1, <2>2, <2>3
  <2>4. CASE k # index + 1
    BY <1>10, <1>11, <2>1, <2>2, <2>4
  <2> QED BY <2>3, <2>4
<1>14. \A k, l \in DOMAIN elements' : elements'[k] = elements'[l] => k = l
  <2> HIDE DEF Old
  <2> SUFFICES ASSUME NEW k \in DOMAIN elements', NEW l \in DOMAIN elements',
                      elements'[k] = elements'[l]
               PROVE  k = l
    OBVIOUS
  <2>1. CASE k # index + 1 /\ l # index + 1
    BY <1>7, <1>8, <2>1 DEF LoopInv, VisitInv, Differ
  <2>2. CASE k = index + 1 \/ l = index + 1
    BY <1>3, <1>7, <1>9, <2>2
  <2> QED BY <2>1, <2>2
<1>15. \A j, m \in DOMAIN seen' : \A k, l \in DOMAIN elements' :
         seen'[j] = elements'[k] /\ seen'[m] = elements'[l] => (j < m <=> k < l)
  <2> SUFFICES ASSUME NEW j \in DOMAIN seen', NEW m \in DOMAIN seen', NEW k \in DOMAIN elements',
                      NEW l \in DOMAIN elements', seen'[j] = elements'[k], seen'[m] = elements'[l]
               PROVE  j < m <=> k < l
    OBVIOUS
  <2> HIDE DEF Old
  <2>0. seen' = seen
    BY <1>0
  <2>1. k # index + 1 /\ l # index + 1
    BY <1>3, <1>9, <2>0
  <2>2. Old(k) \in DOMAIN elements /\ Old(l) \in DOMAIN elements
        /\ elements'[k] = elements[Old(k)] /\ elements'[l] = elements[Old(l)]
    BY <1>7, <2>1
  <2>3. j < m <=> Old(k) < Old(l)
    BY <2>0, <2>2 DEF LoopInv, VisitInv, InOrder
  <2> QED BY <1>8, <2>1, <2>3
<1>16. Differ' /\ SeenOnce' /\ InOrder'
  BY <1>0, <1>14, <1>15 DEF LoopInv, VisitInv, Differ, SeenOnce, InOrder
<1>17. InPlace'
  <2>1. Len(elements') = Len(elements) + 1
    BY <1>1, <1>4
  <2> QED BY <1>0, <2>1 DEF LoopInv, VisitInv, InPlace, i
<1>18. UpToFront'
  BY <1>13 DEF UpToFront, Seen
<1> QED BY <1>6, <1>16, <1>17, <1>18 DEF LoopInv, VisitInv

LEMMA IncrementStep ==
  ASSUME LoopInv, Increment
  PROVE  LoopInv'
<1>1. foreachState' = [nil |-> foreachState.nil, i |-> foreachState.i + 1] /\ foreachState.i \in Int
  BY DEF LoopInv, LoopTypeOK, Increment
<1>0. foreachState' \in [nil : BOOLEAN, i : Int]
  BY <1>1 DEF LoopInv, LoopTypeOK
<1>2. LoopTypeOK'
  BY <1>0 DEF LoopInv, LoopTypeOK, Increment
<1>3. VisitInv'
  BY <1>1 DEF LoopInv, LoopTypeOK, VisitInv, Increment, Seen, Front, Differ, SeenOnce, InPlace,
              UpToFront, InOrder
<1> QED BY <1>2, <1>3 DEF LoopInv

LEMMA LoopInvariant == ListSpec => []LoopInv
<1>1. ListInit => LoopInv
  BY DEF ListInit, LoopInv, LoopTypeOK, VisitInv, Differ, SeenOnce, InPlace, UpToFront, InOrder,
         Seen, Front
<1>2. LoopInv /\ [ListNext]_listVars => LoopInv'
  <2> SUFFICES ASSUME LoopInv, [ListNext]_listVars PROVE LoopInv'
    OBVIOUS
  <2>1. CASE UNCHANGED listVars
    BY <2>1 DEF listVars, LoopInv, LoopTypeOK, VisitInv, Differ, SeenOnce, InPlace, UpToFront, InOrder,
         Seen, Front
  <2> QED BY <2>1, StartForeachStep, TestStep, DeleteStep, InsertStep, IncrementStep DEF ListNext
<1> QED BY <1>1, <1>2, PTL DEF ListSpec

\* A loop visits each element once and in order, for lists of any length and any deletions
\* and insertions.
THEOREM LoopsVisitEach == ListSpec => []VisitsEach
<1>1. LoopInv => VisitsEach
  BY DEF LoopInv, LoopTypeOK, VisitInv, Differ, SeenOnce, InPlace, UpToFront, InOrder,
         VisitsEach, Seen, Front
<1> QED BY <1>1, LoopInvariant, PTL

-----------------------------------------------------------------------------
(* The sort template. *)

Segments == [a : Nat \ {0}, n : Nat]
In(s, i) == s.a <= i /\ i <= s.a + s.n - 1
Within(s) == s.a + s.n - 1 <= Len(data)
Apart(s, t) == s.a + s.n <= t.a \/ t.a + t.n <= s.a

SortTypeOK ==
  /\ data \in Seq(Int) /\ sane \in BOOLEAN
  /\ at \in {"idle", "insertion", "presorted", "pivot", "left", "right", "return", "done"}
  /\ seg \in Segments /\ stack \in Seq(Segments)
  /\ ptr4 \in [pa : Int, pb : Int, pc : Int, pd : Int]
  /\ scan \in [pm : Int, pl : Int]

\* The segments are in the array, and what a loop goes through in the segment.
SegmentInv ==
  /\ Within(seg) /\ \A k \in DOMAIN stack : Within(stack[k])
  /\ at \in {"presorted", "pivot", "left", "right"} => seg.n >= Insertion
  /\ at = "return" => seg.n <= 1
  /\ at \in {"idle", "done"} => stack = << >>
ScanInv ==
  /\ at = "insertion" => /\ seg.a <= scan.pl /\ scan.pl <= scan.pm
                         /\ scan.pm > Last => scan.pl = scan.pm
  /\ at = "presorted" => scan.pm > seg.a
PointerInv ==
  at \in {"left", "right"} =>
    /\ seg.a < ptr4.pa /\ ptr4.pa <= ptr4.pb /\ ptr4.pb <= Last + 1
    /\ seg.a <= ptr4.pc /\ ptr4.pc <= ptr4.pd /\ ptr4.pd <= Last
    /\ ptr4.pb <= ptr4.pc + (IF sane THEN 1 ELSE 2)

\* What a call sorts is at most half of what its caller does.
DepthInv ==
  /\ seg.n * TwoTo(Len(stack)) <= Len(data)
  /\ \A k \in DOMAIN stack : stack[k].n * TwoTo(k - 1) <= Len(data)

\* Two positions of a segment that is yet to be sorted.
Pending(i, j) == \/ In(seg, i) /\ In(seg, j)
                 \/ \E k \in DOMAIN stack : In(stack[k], i) /\ In(stack[k], j)

Disjoint ==
  /\ \A k \in DOMAIN stack : Apart(seg, stack[k])
  /\ \A k, l \in DOMAIN stack : k # l => Apart(stack[k], stack[l])

\* Elements are in order unless they are of one segment.
Separated == \A i, j \in 1..Len(data) : i < j => Pending(i, j) \/ data[i] <= data[j]

\* How far the loops have come.
ScanOrder ==
  /\ at = "insertion" =>
       \A i, j \in seg.a..Last : i < j /\ j <= scan.pm /\ j # scan.pl => data[i] <= data[j]
  /\ at = "presorted" =>
       \A i, j \in seg.a..Last : i < j /\ j < scan.pm => data[i] <= data[j]
  /\ at = "done" => \A i, j \in 1..Len(data) : i < j => data[i] <= data[j]
PartitionOrder ==
  /\ at \in {"left", "right"} =>
       \A k \in seg.a..Last :
         /\ k < ptr4.pa \/ k > ptr4.pd => data[k] = data[seg.a]
         /\ ptr4.pa <= k /\ k < ptr4.pb => data[k] < data[seg.a]
         /\ ptr4.pc < k /\ k <= ptr4.pd => data[k] > data[seg.a]
  /\ at = "right" /\ ptr4.pb <= ptr4.pc => data[ptr4.pb] > data[seg.a]

OrderInv == sane => Disjoint /\ Separated /\ ScanOrder /\ PartitionOrder

BoundsInv == SortTypeOK /\ SegmentInv /\ ScanInv /\ PointerInv

-----------------------------------------------------------------------------
(* Recursion and arithmetic. *)

\* What is made of s by one step after another.
IsPath(f, S, s, n, step) ==
  f \in [0..n -> S] /\ f[0] = s /\ \A k \in 1..n : f[k] = step[k][f[k - 1]]

LEMMA Iterated ==
  ASSUME NEW S, NEW s \in S, NEW n \in Nat, NEW step \in [1..n -> [S -> S]]
  PROVE  \E f : IsPath(f, S, s, n, step)
<1> DEFINE Path(m, f) == f[0] = s /\ \A k \in 1..m : f[k] = step[k][f[k - 1]]
           T == {m \in 0..n : ~\E f \in [0..m -> S] : Path(m, f)}
<1>1. T = {}
  <2> SUFFICES ASSUME T # {} PROVE FALSE
    OBVIOUS
  <2>1. PICK m \in T : \A k \in T : m <= k
    <3>1. T \in SUBSET Nat
      OBVIOUS
    <3> QED BY <3>1, Least
  <2>2. CASE m = 0
    <3>1. [k \in 0..0 |-> s] \in [0..m -> S] /\ Path(m, [k \in 0..0 |-> s])
      BY <2>2
    <3> QED BY <2>1, <3>1
  <2>3. CASE m # 0
    <3>1. m \in 1..n /\ m - 1 \in 0..n /\ m - 1 \notin T
      <4>1. m \in 0..n
        BY <2>1
      <4>2. m \in 1..n /\ m - 1 \in 0..n /\ ~(m <= m - 1)
        BY <4>1, <2>3
      <4> HIDE DEF T
      <4> QED BY <2>1, <4>2
    <3>2. PICK f \in [0..m - 1 -> S] : Path(m - 1, f)
      BY <3>1
    <3> DEFINE g == [k \in 0..m |-> IF k = m THEN step[m][f[m - 1]] ELSE f[k]]
    <3>3. f[m - 1] \in S /\ step[m][f[m - 1]] \in S
      <4>1. m - 1 \in 0..m - 1
        BY <3>1
      <4>2. f[m - 1] \in S
        BY <3>2, <4>1
      <4>3. step[m] \in [S -> S]
        BY <3>1
      <4> QED BY <4>2, <4>3
    <3>4. g \in [0..m -> S]
      <4>1. \A k \in 0..m : k # m => k \in 0..m - 1
        BY <3>1
      <4> QED BY <3>2, <3>3, <4>1
    <3>5. g[0] = s
      BY <3>1, <3>2
    <3>6. ASSUME NEW k \in 1..m PROVE g[k] = step[k][g[k - 1]]
      <4>1. CASE k = m
        BY <3>1, <4>1
      <4>2. CASE k # m
        <5>1. k \in 1..m - 1 /\ k \in 0..m /\ k - 1 \in 0..m /\ k - 1 # m
          BY <3>1, <4>2
        <5>2. g[k] = f[k] /\ g[k - 1] = f[k - 1]
          BY <4>2, <5>1
        <5> QED BY <3>2, <5>1, <5>2
      <4> QED BY <4>1, <4>2
    <3> HIDE DEF g
    <3>7. Path(m, g)
      BY <3>5, <3>6
    <3> QED BY <2>1, <3>4, <3>7
  <2> QED BY <2>2, <2>3
<1>2. n \in 0..n /\ n \notin T
  BY <1>1
<1>3. PICK f \in [0..n -> S] : Path(n, f)
  BY <1>2
<1> QED BY <1>3 DEF IsPath

\* A sequence is its elements.
LEMMA SequenceIs ==
  ASSUME NEW e \in Seq(Int)
  PROVE  e = [k \in 1..Len(e) |-> e[k]]
  OBVIOUS

\* The powers of two.
LEMMA TwoToIs ==
  ASSUME NEW n \in Nat
  PROVE  \E f \in [0..n -> Nat \ {0}] : /\ f[0] = 1 /\ \A k \in 1..n : f[k] = 2 * f[k - 1]
                                    /\ TwoTo(n) = f[n]
<1> DEFINE Step(f) == [k \in 0..n |-> IF k = 0 THEN 1 ELSE 2 * f[k - 1]]
           power == CHOOSE f : f = Step(f)
           P == Nat \ {0}
           step == [k \in 1..n |-> [x \in P |-> 2 * x]]
<1>1. PICK f \in [0..n -> P] : f[0] = 1 /\ \A k \in 1..n : f[k] = step[k][f[k - 1]]
  <2>1. 1 \in P /\ step \in [1..n -> [P -> P]]
    OBVIOUS
  <2> HIDE DEF P, step
  <2>2. PICK f : IsPath(f, P, 1, n, step)
    BY <2>1, Iterated
  <2> QED BY <2>2 DEF IsPath
<1>2. ASSUME NEW k \in 1..n PROVE k - 1 \in 0..n /\ f[k - 1] \in P /\ f[k] = 2 * f[k - 1]
  <2>1. k - 1 \in 0..n
    OBVIOUS
  <2>2. f[k - 1] \in P /\ f[k] = step[k][f[k - 1]]
    BY <1>1, <2>1
  <2>3. step[k] = [x \in P |-> 2 * x]
    OBVIOUS
  <2> HIDE DEF P, step
  <2> QED BY <2>1, <2>2, <2>3
<1>3. f = Step(f)
  BY <1>1, <1>2
<1>4. power = Step(power)
  BY <1>3
<1>5. TwoTo(n) = power[n]
  BY DEF TwoTo
<1> HIDE DEF power
<1>6. \A k \in 0..n : power[k] = f[k]
  <2> DEFINE T == {k \in 0..n : power[k] # f[k]}
  <2> SUFFICES ASSUME T # {} PROVE FALSE
    OBVIOUS
  <2>1. PICK k \in T : \A j \in T : k <= j
    <3>1. T \in SUBSET Nat
      OBVIOUS
    <3> QED BY <3>1, Least
  <2>2. k \in 0..n /\ power[k] # f[k] /\ power[k] = Step(power)[k] /\ f[k] = Step(f)[k]
    BY <1>3, <1>4, <2>1
  <2>3. k # 0
    BY <2>2
  <2>4. k - 1 \in 0..n /\ k - 1 \notin T
    BY <2>1, <2>2, <2>3
  <2> QED BY <2>2, <2>3, <2>4
<1> HIDE DEF step
<1>7. n \in 0..n /\ f[0] = 1 /\ \A k \in 1..n : f[k] = 2 * f[k - 1]
  BY <1>1, <1>2
<1> QED BY <1>1, <1>5, <1>6, <1>7

LEMMA TwoToValues ==
  /\ TwoTo(0) = 1
  /\ \A n \in Nat : TwoTo(n) \in Nat \ {0} /\ TwoTo(n + 1) = 2 * TwoTo(n)
<1>1. TwoTo(0) = 1
  BY TwoToIs
<1>2. ASSUME NEW n \in Nat PROVE TwoTo(n) \in Nat \ {0} /\ TwoTo(n + 1) = 2 * TwoTo(n)
  <2>1. PICK f \in [0..n -> Nat \ {0}] : /\ f[0] = 1 /\ \A k \in 1..n : f[k] = 2 * f[k - 1]
                                       /\ TwoTo(n) = f[n]
    BY TwoToIs
  <2>2. PICK g \in [0..n + 1 -> Nat \ {0}] :
          /\ g[0] = 1 /\ \A k \in 1..n + 1 : g[k] = 2 * g[k - 1]
          /\ TwoTo(n + 1) = g[n + 1]
    <3>1. n + 1 \in Nat
      OBVIOUS
    <3> QED BY ONLY <3>1, TwoToIs
  <2>3. \A k \in 0..n : f[k] = g[k]
    <3> DEFINE T == {k \in 0..n : f[k] # g[k]}
    <3> SUFFICES ASSUME T # {} PROVE FALSE
      OBVIOUS
    <3>1. PICK k \in T : \A j \in T : k <= j
      <4>1. T \in SUBSET Nat
        OBVIOUS
      <4> QED BY <4>1, Least
    <3>2. k # 0
      BY <2>1, <2>2, <3>1
    <3>3. k - 1 \in 0..n /\ k - 1 \notin T /\ k \in 1..n /\ k \in 1..n + 1
      BY <3>1, <3>2
    <3> QED BY <2>1, <2>2, <3>1, <3>3
  <2>4. n \in 0..n /\ n + 1 \in 1..n + 1 /\ (n + 1) - 1 = n
    OBVIOUS
  <2> QED BY <2>1, <2>2, <2>3, <2>4
<1> QED BY <1>1, <1>2

-----------------------------------------------------------------------------
(* Exchanges. *)

LEMMA SwappedIs ==
  ASSUME NEW d \in Seq(Int), NEW i \in 1..Len(d), NEW j \in 1..Len(d)
  PROVE  /\ Swapped(d, i, j) \in Seq(Int) /\ Len(Swapped(d, i, j)) = Len(d)
         /\ \A k \in 1..Len(d) :
              Swapped(d, i, j)[k] = IF k = j THEN d[i] ELSE IF k = i THEN d[j] ELSE d[k]
<1>1. Len(d) \in Nat /\ DOMAIN d = 1..Len(d) /\ d[i] \in Int /\ d[j] \in Int
  OBVIOUS
<1>2. Swapped(d, i, j) =
        [k \in 1..Len(d) |-> IF k = j THEN d[i] ELSE IF k = i THEN d[j] ELSE d[k]]
  BY <1>1 DEF Swapped
<1>3. \A k \in 1..Len(d) : d[k] \in Int
  OBVIOUS
<1>4. [k \in 1..Len(d) |-> IF k = j THEN d[i] ELSE IF k = i THEN d[j] ELSE d[k]] \in Seq(Int)
  BY <1>1, <1>3
<1> QED BY <1>1, <1>2, <1>4

\* The blocks, exchanged one element after the other.
OneByOne(f, d, i, j, n) ==
  /\ f[0] = d /\ f[n] = BlockSwapped(d, i, j, n)
  /\ \A k \in 0..n : f[k] \in Seq(Int) /\ Len(f[k]) = Len(d)
  /\ \A k \in 1..n : f[k] = Swapped(f[k - 1], i + k - 1, j + k - 1)

LEMMA BlockSwappedIs ==
  ASSUME NEW d \in Seq(Int), NEW n \in Nat, NEW i \in Int, NEW j \in Int,
         n > 0 => i >= 1 /\ j >= 1 /\ i + n - 1 <= Len(d) /\ j + n - 1 <= Len(d)
  PROVE  \E f : OneByOne(f, d, i, j, n)
<1> DEFINE S == {e \in Seq(Int) : Len(e) = Len(d)}
           Step(f) == [k \in 0..n |-> IF k = 0 THEN d ELSE Swapped(f[k - 1], i + k - 1, j + k - 1)]
           after == CHOOSE f : f = Step(f)
           step == [k \in 1..n |-> [e \in S |-> Swapped(e, i + k - 1, j + k - 1)]]
<1>1. step \in [1..n -> [S -> S]]
  <2> SUFFICES ASSUME NEW k \in 1..n, NEW e \in S PROVE Swapped(e, i + k - 1, j + k - 1) \in S
    OBVIOUS
  <2>1. Len(d) \in Nat
    OBVIOUS
  <2>2. i + k - 1 \in 1..Len(e) /\ j + k - 1 \in 1..Len(e)
    BY <2>1
  <2> QED BY <2>2, SwappedIs
<1>2. PICK f \in [0..n -> S] : f[0] = d /\ \A k \in 1..n : f[k] = step[k][f[k - 1]]
  <2>1. d \in S
    OBVIOUS
  <2> HIDE DEF S, step
  <2>2. n \in Nat
    OBVIOUS
  <2>3. PICK f : IsPath(f, S, d, n, step)
    BY ONLY <1>1, <2>1, <2>2, Iterated
  <2> QED BY <2>3 DEF IsPath
<1>3. ASSUME NEW k \in 1..n
      PROVE  /\ k - 1 \in 0..n /\ f[k - 1] \in S
             /\ f[k] = Swapped(f[k - 1], i + k - 1, j + k - 1)
  <2>1. k - 1 \in 0..n
    OBVIOUS
  <2>2. f[k - 1] \in S /\ f[k] = step[k][f[k - 1]]
    BY <1>2, <2>1
  <2>3. step[k] = [e \in S |-> Swapped(e, i + k - 1, j + k - 1)]
    OBVIOUS
  <2> HIDE DEF S, step
  <2> QED BY <2>1, <2>2, <2>3
<1>4. f = Step(f)
  BY <1>2, <1>3
<1>5. after = Step(after)
  BY <1>4
<1>6. BlockSwapped(d, i, j, n) = [k \in DOMAIN d |-> after[n][k]]
  BY DEF BlockSwapped
<1> HIDE DEF after
<1>7. \A k \in 0..n : after[k] = f[k]
  <2> DEFINE T == {k \in 0..n : after[k] # f[k]}
  <2> SUFFICES ASSUME T # {} PROVE FALSE
    OBVIOUS
  <2>1. PICK k \in T : \A m \in T : k <= m
    <3>1. T \in SUBSET Nat
      OBVIOUS
    <3> QED BY <3>1, Least
  <2>2. k \in 0..n /\ after[k] # f[k] /\ after[k] = Step(after)[k] /\ f[k] = Step(f)[k]
    BY <1>4, <1>5, <2>1
  <2>3. k # 0
    BY <2>2
  <2>4. k - 1 \in 0..n /\ ~(k <= k - 1)
    BY <2>2, <2>3
  <2>5. k - 1 \notin T
    BY <2>1, <2>4
  <2> QED BY <2>2, <2>3, <2>4, <2>5
<1>8. f[n] \in S
  BY <1>2
<1>9. BlockSwapped(d, i, j, n) = f[n]
  <2>1. after[n] = f[n]
    BY <1>7
  <2>2. DOMAIN d = 1..Len(d) /\ DOMAIN f[n] = 1..Len(d)
    BY <1>8
  <2>3. f[n] = [k \in 1..Len(d) |-> f[n][k]]
    BY <1>8, SequenceIs
  <2> QED BY <1>6, <2>1, <2>2, <2>3
<1>10. \A k \in 0..n : f[k] \in Seq(Int) /\ Len(f[k]) = Len(d)
  BY <1>2
<1> HIDE DEF S, step
<1> QED BY <1>2, <1>3, <1>9, <1>10 DEF OneByOne

\* What is at k when the first m elements of the blocks have changed places.
Moved(d, i, j, m, k) ==
  IF i <= k /\ k < i + m THEN d[k - i + j]
  ELSE IF j <= k /\ k < j + m THEN d[k - j + i] ELSE d[k]

LEMMA OneMoreMoved ==
  ASSUME NEW d \in Seq(Int), NEW e \in Seq(Int), Len(e) = Len(d), NEW n \in Nat,
         NEW i \in Int, NEW j \in Int, i >= 1, i + n <= j, j + n - 1 <= Len(d),
         NEW m \in 1..n, \A l \in 1..Len(d) : e[l] = Moved(d, i, j, m - 1, l)
  PROVE  \A k \in 1..Len(d) :
           Swapped(e, i + m - 1, j + m - 1)[k] = Moved(d, i, j, m, k)
<1> TAKE k \in 1..Len(d)
<1> DEFINE p == i + m - 1
           q == j + m - 1
<1>0. Len(d) \in Nat
  OBVIOUS
<1>1. /\ m \in Int /\ k \in Int /\ Len(d) \in Int /\ n \in Int /\ i \in Int /\ j \in Int
      /\ 1 <= m /\ m <= n /\ i >= 1 /\ i + n <= j /\ j + n - 1 <= Len(d)
  BY <1>0
<1>2. p \in 1..Len(d) /\ q \in 1..Len(d) /\ p < j /\ q >= j
  BY ONLY <1>1
<1>3. Swapped(e, p, q)[k] = IF k = q THEN e[p] ELSE IF k = p THEN e[q] ELSE e[k]
  <2> HIDE DEF p, q
  <2>1. e \in Seq(Int) /\ p \in 1..Len(e) /\ q \in 1..Len(e) /\ k \in 1..Len(e)
    BY <1>2
  <2>2. \A l \in 1..Len(e) :
          Swapped(e, p, q)[l] = IF l = q THEN e[p] ELSE IF l = p THEN e[q] ELSE e[l]
    BY ONLY <2>1, SwappedIs
  <2> QED BY <2>1, <2>2
<1>4. Moved(d, i, j, m - 1, p) = d[p] /\ Moved(d, i, j, m - 1, q) = d[q]
  <2>1. ~(i <= p /\ p < i + (m - 1)) /\ ~(j <= p /\ p < j + (m - 1))
    BY ONLY <1>1
  <2>2. ~(i <= q /\ q < i + (m - 1)) /\ ~(j <= q /\ q < j + (m - 1))
    BY ONLY <1>1
  <2> HIDE DEF p, q
  <2> QED BY <2>1, <2>2 DEF Moved
<1>5. Moved(d, i, j, m, k) = IF k = q THEN d[p] ELSE IF k = p THEN d[q] ELSE Moved(d, i, j, m - 1, k)
  <2>1. CASE k = q
    <3>1. ~(i <= k /\ k < i + m) /\ j <= k /\ k < j + m /\ k - j + i = p /\ k # p
      BY ONLY <1>1, <2>1
    <3> HIDE DEF p, q
    <3> QED BY <3>1, <2>1 DEF Moved
  <2>2. CASE k = p
    <3>1. i <= k /\ k < i + m /\ k - i + j = q /\ k # q
      BY ONLY <1>1, <2>2
    <3> HIDE DEF p, q
    <3> QED BY <3>1, <2>2 DEF Moved
  <2>3. CASE k # p /\ k # q
    <3>1. (i <= k /\ k < i + m) <=> (i <= k /\ k < i + (m - 1))
      BY ONLY <1>1, <2>3
    <3>2. (j <= k /\ k < j + m) <=> (j <= k /\ k < j + (m - 1))
      BY ONLY <1>1, <2>3
    <3> HIDE DEF p, q
    <3> QED BY <3>1, <3>2, <2>3 DEF Moved
  <2> QED BY <2>1, <2>2, <2>3
<1> HIDE DEF p, q
<1>6. e[p] = d[p] /\ e[q] = d[q] /\ e[k] = Moved(d, i, j, m - 1, k)
  BY <1>2, <1>4
<1> QED BY <1>3, <1>5, <1>6 DEF p, q

\* Blocks that share no element change places.
LEMMA BlocksExchanged ==
  ASSUME NEW d \in Seq(Int), NEW n \in Nat, NEW i \in Int, NEW j \in Int,
         n > 0 => i >= 1 /\ i + n <= j /\ j + n - 1 <= Len(d)
  PROVE  /\ BlockSwapped(d, i, j, n) \in Seq(Int) /\ Len(BlockSwapped(d, i, j, n)) = Len(d)
         /\ \A k \in 1..Len(d) : BlockSwapped(d, i, j, n)[k] = Moved(d, i, j, n, k)
<1>0. Len(d) \in Nat
  OBVIOUS
<1>1. PICK f : OneByOne(f, d, i, j, n)
  <2>1. n > 0 => i >= 1 /\ j >= 1 /\ i + n - 1 <= Len(d) /\ j + n - 1 <= Len(d)
    BY <1>0
  <2> QED BY <2>1, BlockSwappedIs
<1> DEFINE AsMoved(m) == \A k \in 1..Len(d) : f[m][k] = Moved(d, i, j, m, k)
           T == {m \in 0..n : ~AsMoved(m)}
<1>2. T = {}
  <2> SUFFICES ASSUME T # {} PROVE FALSE
    OBVIOUS
  <2>1. PICK m \in T : \A l \in T : m <= l
    <3>1. T \in SUBSET Nat
      OBVIOUS
    <3> HIDE DEF T
    <3> QED BY <3>1, Least
  <2>2. m \in 0..n /\ ~AsMoved(m)
    OBVIOUS
  <2>3. CASE m = 0
    <3>1. \A k \in 1..Len(d) : ~(i <= k /\ k < i + 0) /\ ~(j <= k /\ k < j + 0)
      BY <1>0
    <3>2. AsMoved(0)
      BY <1>1, <3>1 DEF OneByOne, Moved
    <3> QED BY <2>2, <2>3, <3>2
  <2>4. CASE m # 0
    <3>1. m \in 1..n /\ m - 1 \in 0..n /\ ~(m <= m - 1)
      BY <2>2, <2>4
    <3>2. AsMoved(m - 1)
      BY <2>1, <3>1
    <3>3. /\ f[m - 1] \in Seq(Int) /\ Len(f[m - 1]) = Len(d)
          /\ f[m] = Swapped(f[m - 1], i + m - 1, j + m - 1)
      BY <1>1, <3>1 DEF OneByOne
    <3>4. i >= 1 /\ i + n <= j /\ j + n - 1 <= Len(d)
      BY <3>1
    <3> DEFINE e == f[m - 1]
    <3>5. e \in Seq(Int) /\ Len(e) = Len(d) /\ \A l \in 1..Len(d) : e[l] = Moved(d, i, j, m - 1, l)
      BY <3>2, <3>3
    <3> HIDE DEF e
    <3>6. \A k \in 1..Len(d) : Swapped(e, i + m - 1, j + m - 1)[k] = Moved(d, i, j, m, k)
      BY ONLY d \in Seq(Int), n \in Nat, i \in Int, j \in Int, <3>1, <3>4, <3>5, OneMoreMoved
    <3>7. AsMoved(m)
      BY <3>3, <3>6 DEF e
    <3> QED BY <2>2, <3>7
  <2> QED BY <2>3, <2>4
<1>3. n \in 0..n
  OBVIOUS
<1>4. AsMoved(n)
  BY <1>2, <1>3
<1> QED BY <1>1, <1>3, <1>4 DEF OneByOne

\* The elements of d from a to z, with the equal ones moved from both ends.
GatheredOf(d, a, pa, pb, pc, pd, z) ==
  LET d1 == Lesser(pa - a, pb - pa)
      d2 == Lesser(pd - pc, z - pd)
  IN BlockSwapped(BlockSwapped(d, a, pb - d1, d1), pb, z + 1 - d2, d2)

\* The lesser ones are first in g, the equal ones in the middle, the greater ones last.
TakenFrom(g, d, a, pa, pb, pc, pd, z) ==
  LET less == pb - pa
      greater == pd - pc
  IN \A k \in 1..Len(d) :
       /\ k < a \/ k > z => g[k] = d[k]
       /\ a <= k /\ k < a + less => \E m \in pa..pb - 1 : g[k] = d[m]
       /\ a + less <= k /\ k < pb => \E m \in a..pa - 1 : g[k] = d[m]
       /\ pb <= k /\ k <= z - greater => \E m \in pd + 1..z : g[k] = d[m]
       /\ z - greater < k /\ k <= z => \E m \in pc + 1..pd : g[k] = d[m]

LEMMA GatheredIs ==
  ASSUME NEW d \in Seq(Int), NEW a \in Nat, NEW pa \in Int, NEW pb \in Int, NEW pc \in Int,
         NEW pd \in Int, NEW z \in Int, a >= 1, a < pa, pa <= pb, pb = pc + 1, pc <= pd, pd <= z,
         z <= Len(d)
  PROVE  TakenFrom(GatheredOf(d, a, pa, pb, pc, pd, z), d, a, pa, pb, pc, pd, z)
<1> DEFINE d1 == Lesser(pa - a, pb - pa)
           d2 == Lesser(pd - pc, z - pd)
           less == pb - pa
           greater == pd - pc
           e == BlockSwapped(d, a, pb - d1, d1)
           g == BlockSwapped(e, pb, z + 1 - d2, d2)
<1>0. Len(d) \in Nat
  OBVIOUS
<1>11. /\ Len(d) \in Int /\ a \in Int /\ pa \in Int /\ pb \in Int /\ pc \in Int /\ pd \in Int
       /\ z \in Int /\ a >= 1 /\ a < pa /\ pa <= pb /\ pb = pc + 1 /\ pc <= pd /\ pd <= z /\ z <= Len(d)
  BY <1>0
<1>1. /\ d1 \in Nat /\ d1 <= pa - a /\ d1 <= less /\ (d1 = pa - a \/ d1 = less)
      /\ d2 \in Nat /\ d2 <= greater /\ d2 <= z - pd /\ (d2 = greater \/ d2 = z - pd)
  BY DEF Lesser
<1> HIDE DEF d1, d2
<1>2. /\ e \in Seq(Int) /\ Len(e) = Len(d)
      /\ \A k \in 1..Len(d) : e[k] = IF a <= k /\ k < a + d1 THEN d[k - a + (pb - d1)]
                                   ELSE IF pb - d1 <= k /\ k < (pb - d1) + d1
                                   THEN d[k - (pb - d1) + a] ELSE d[k]
  <2> DEFINE j == pb - d1
  <2>1. j \in Int /\ a \in Int /\ (d1 > 0 => a >= 1 /\ a + d1 <= j /\ j + d1 - 1 <= Len(d))
    BY <1>0, <1>1
  <2> HIDE DEF j
  <2>2. /\ BlockSwapped(d, a, j, d1) \in Seq(Int) /\ Len(BlockSwapped(d, a, j, d1)) = Len(d)
         /\ \A k \in 1..Len(d) :
              BlockSwapped(d, a, j, d1)[k] = Moved(d, a, j, d1, k)
    <3>1. d \in Seq(Int) /\ d1 \in Nat
      BY <1>1
    <3> QED BY ONLY <3>1, <2>1, BlocksExchanged
  <2> QED BY <2>2 DEF j, Moved
<1> HIDE DEF e
<1>3. \A k \in 1..Len(d) : g[k] = IF pb <= k /\ k < pb + d2 THEN e[k - pb + (z + 1 - d2)]
                                   ELSE IF z + 1 - d2 <= k /\ k < (z + 1 - d2) + d2
                                   THEN e[k - (z + 1 - d2) + pb] ELSE e[k]
  <2> DEFINE j == z + 1 - d2
  <2>1. j \in Int /\ pb \in Int /\ (d2 > 0 => pb >= 1 /\ pb + d2 <= j /\ j + d2 - 1 <= Len(e))
    <3>1. Len(e) = Len(d)
      BY <1>2
    <3> QED BY ONLY <1>1, <1>11, <3>1 DEF j, less, greater
  <2> HIDE DEF j
  <2>2. \A k \in 1..Len(e) :
              BlockSwapped(e, pb, j, d2)[k] = Moved(e, pb, j, d2, k)
    <3>1. e \in Seq(Int) /\ d2 \in Nat
      BY <1>1, <1>2
    <3> QED BY ONLY <3>1, <2>1, BlocksExchanged
  <2> QED BY <1>2, <2>2 DEF j, Moved
<1> HIDE DEF g
<1>4. \A k \in 1..Len(d) : k < pb \/ k > z => g[k] = e[k]
  BY <1>0, <1>1, <1>3
<1>5. \A k \in 1..Len(d) : k < a \/ k >= pb => e[k] = d[k]
  <2> TAKE k \in 1..Len(d)
  <2> HAVE k < a \/ k >= pb
  <2>1. ~(a <= k /\ k < a + d1) /\ ~(pb - d1 <= k /\ k < (pb - d1) + d1)
    <3>1. k \in Int /\ d1 \in Int /\ d1 >= 0 /\ d1 <= pb - pa /\ d1 <= pa - a /\ (k < a \/ k >= pb)
      BY <1>1
    <3> QED BY ONLY <1>11, <3>1
  <2> QED BY <1>2, <2>1
<1> SUFFICES ASSUME NEW k \in 1..Len(d)
             PROVE  /\ k < a \/ k > z => g[k] = d[k]
                    /\ a <= k /\ k < a + less => \E m \in pa..pb - 1 : g[k] = d[m]
                    /\ a + less <= k /\ k < pb => \E m \in a..pa - 1 : g[k] = d[m]
                    /\ pb <= k /\ k <= z - greater => \E m \in pd + 1..z : g[k] = d[m]
                    /\ z - greater < k /\ k <= z => \E m \in pc + 1..pd : g[k] = d[m]
  BY DEF g, e, d1, d2, GatheredOf, TakenFrom
<1>6. k < a \/ k > z => g[k] = d[k]
  <2> HAVE k < a \/ k > z
  <2>1. (k < pb \/ k > z) /\ (k < a \/ k >= pb)
    BY <1>11
  <2> QED BY <1>4, <1>5, <2>1
<1>7. ASSUME a <= k, k < a + less PROVE \E m \in pa..pb - 1 : g[k] = d[m]
  <2>1. g[k] = e[k]
    <3>1. k < pb
      BY <1>7, <1>11
    <3> QED BY <1>4, <3>1
  <2>2. CASE k < a + d1
    <3>1. e[k] = d[k - a + (pb - d1)]
      BY <1>2, <1>7, <2>2
    <3>2. k - a + (pb - d1) \in pa..pb - 1
      BY <1>0, <1>1, <1>7, <2>2
    <3> QED BY <2>1, <3>1, <3>2
  <2>3. CASE k >= a + d1
    <3>1. k < pb - d1 /\ k \in pa..pb - 1
      BY <1>0, <1>1, <1>7, <2>3
    <3>2. e[k] = d[k]
      BY <1>0, <1>1, <1>2, <1>7, <2>3, <3>1
    <3> QED BY <2>1, <3>1, <3>2
  <2>4. k < a + d1 \/ k >= a + d1
    BY <1>1, <1>11
  <2> QED BY <2>2, <2>3, <2>4
<1>8. ASSUME a + less <= k, k < pb PROVE \E m \in a..pa - 1 : g[k] = d[m]
  <2>1. g[k] = e[k]
    BY <1>4, <1>8
  <2>2. CASE k >= pb - d1
    <3>1. ~(k < a + d1)
      BY <1>0, <1>1, <1>8, <2>2
    <3>2. k < (pb - d1) + d1
      BY <1>0, <1>1, <1>8
    <3>3. e[k] = d[k - (pb - d1) + a]
      BY <1>2, <2>2, <3>1, <3>2
    <3>4. k - (pb - d1) + a \in a..pa - 1
      BY <1>0, <1>1, <1>8, <2>2
    <3> QED BY <2>1, <3>3, <3>4
  <2>3. CASE k < pb - d1
    <3>1. k >= a + d1 /\ k \in a..pa - 1
      BY <1>0, <1>1, <1>8, <2>3
    <3>2. e[k] = d[k]
      BY <1>0, <1>1, <1>2, <1>8, <2>3, <3>1
    <3> QED BY <2>1, <3>1, <3>2
  <2>4. k >= pb - d1 \/ k < pb - d1
    BY <1>0, <1>1
  <2> QED BY <2>2, <2>3, <2>4
<1>9. ASSUME pb <= k, k <= z - greater PROVE \E m \in pd + 1..z : g[k] = d[m]
  <2>1. CASE k < pb + d2
    <3> DEFINE m == k - pb + (z + 1 - d2)
    <3>1. g[k] = e[m]
      BY <1>3, <1>9, <2>1
    <3>2. m \in pd + 1..z /\ m >= pb /\ m \in 1..Len(d)
      BY <1>0, <1>1, <1>9, <2>1
    <3> HIDE DEF m
    <3> QED BY <1>5, <3>1, <3>2
  <2>2. CASE k >= pb + d2
    <3>1. k < z + 1 - d2 /\ k \in pd + 1..z
      BY <1>0, <1>1, <1>9, <2>2
    <3>2. g[k] = e[k] /\ e[k] = d[k]
      BY <1>0, <1>1, <1>3, <1>5, <1>9, <2>2, <3>1
    <3> QED BY <3>1, <3>2
  <2>3. k < pb + d2 \/ k >= pb + d2
    BY <1>1, <1>11
  <2> QED BY <2>1, <2>2, <2>3
<1>10. ASSUME z - greater < k, k <= z PROVE \E m \in pc + 1..pd : g[k] = d[m]
  <2>1. CASE k >= z + 1 - d2
    <3> DEFINE m == k - (z + 1 - d2) + pb
    <3>1. ~(k < pb + d2) /\ k < (z + 1 - d2) + d2
      BY <1>0, <1>1, <1>10, <2>1
    <3>2. g[k] = e[m]
      BY <1>3, <2>1, <3>1
    <3>3. m \in pc + 1..pd /\ m >= pb /\ m \in 1..Len(d)
      BY <1>0, <1>1, <1>10, <2>1
    <3> HIDE DEF m
    <3> QED BY <1>5, <3>2, <3>3
  <2>2. CASE k < z + 1 - d2
    <3>1. k >= pb + d2 /\ k \in pc + 1..pd
      BY <1>0, <1>1, <1>10, <2>2
    <3>2. g[k] = e[k] /\ e[k] = d[k]
      BY <1>0, <1>1, <1>3, <1>5, <1>10, <2>2, <3>1
    <3> QED BY <3>1, <3>2
  <2>3. k >= z + 1 - d2 \/ k < z + 1 - d2
    BY <1>1, <1>11
  <2> QED BY <2>1, <2>2, <2>3
<1> QED BY <1>6, <1>7, <1>8, <1>9, <1>10

-----------------------------------------------------------------------------
(* Segments and what waits. *)

\* The numbers of the state.
LEMMA Numbers ==
  ASSUME SortTypeOK
  PROVE  /\ seg.a \in Nat /\ seg.a >= 1 /\ seg.n \in Nat /\ Last \in Int /\ Len(data) \in Nat
         /\ Last = seg.a + seg.n - 1 /\ DOMAIN data = 1..Len(data)
         /\ ptr4.pa \in Int /\ ptr4.pb \in Int /\ ptr4.pc \in Int /\ ptr4.pd \in Int
         /\ scan.pm \in Int /\ scan.pl \in Int
         /\ Len(stack) \in Nat /\ DOMAIN stack = 1..Len(stack)
         /\ \A k \in 1..Len(stack) : /\ stack[k] \in Segments /\ stack[k].a \in Nat
                                    /\ stack[k].a >= 1 /\ stack[k].n \in Nat
         /\ \A k \in 1..Len(data) : data[k] \in Int
<1>1. Len(stack) \in Nat /\ DOMAIN stack = 1..Len(stack)
  BY DEF SortTypeOK
<1>2. \A k \in 1..Len(stack) : stack[k] \in Segments
  BY DEF SortTypeOK
<1>3. \A s \in Segments : s.a \in Nat /\ s.a >= 1 /\ s.n \in Nat
  BY DEF Segments
<1>4. seg \in Segments
  BY DEF SortTypeOK
<1>5. Len(data) \in Nat /\ DOMAIN data = 1..Len(data) /\ \A k \in 1..Len(data) : data[k] \in Int
  BY DEF SortTypeOK
<1>6. /\ ptr4.pa \in Int /\ ptr4.pb \in Int /\ ptr4.pc \in Int /\ ptr4.pd \in Int
      /\ scan.pm \in Int /\ scan.pl \in Int
  BY DEF SortTypeOK
<1>7. Last \in Int /\ Last = seg.a + seg.n - 1
  BY <1>3, <1>4 DEF Last
<1>8. seg.a \in Nat /\ seg.a >= 1 /\ seg.n \in Nat
  BY <1>3, <1>4
<1>9. \A k \in 1..Len(stack) : /\ stack[k] \in Segments /\ stack[k].a \in Nat
                               /\ stack[k].a >= 1 /\ stack[k].n \in Nat
  BY <1>2, <1>3
<1> QED BY ONLY <1>1, <1>5, <1>6, <1>7, <1>8, <1>9

LEMMA LoopSets ==
  ASSUME NEW s \in Segments, Loop(s)
  PROVE  /\ seg' = s /\ at' \in {"insertion", "presorted"}
         /\ scan' \in [pm : Int, pl : Int] /\ scan'.pm = s.a + 1
         /\ at' = "insertion" => scan'.pl = s.a + 1
         /\ at' = "presorted" => s.n >= Insertion
<1>1. s.a \in Nat /\ s.n \in Nat
  BY DEF Segments
<1>2. Insertion \in Nat
  BY SortAssumption
<1> QED BY <1>1, <1>2 DEF Loop

\* The caller's segment is taken from the stack.
LEMMA Popped ==
  ASSUME NEW S, NEW q \in Seq(S), q # << >>
  PROVE  LET r == SubSeq(q, 1, Len(q) - 1)
         IN  /\ r \in Seq(S) /\ Len(r) = Len(q) - 1 /\ Len(q) \in Nat /\ Len(q) >= 1
             /\ q[Len(q)] \in S /\ \A k \in 1..Len(q) - 1 : r[k] = q[k]
<1>1. Len(q) \in Nat /\ Len(q) >= 1 /\ q[Len(q)] \in S
  OBVIOUS
<1>2. \A k \in 1..Len(q) - 1 : q[k] \in S
  BY <1>1
<1>3. /\ SubSeq(q, 1, Len(q) - 1) \in Seq(S)
      /\ Len(SubSeq(q, 1, Len(q) - 1)) = IF 1 <= Len(q) - 1 THEN Len(q) - 1 - 1 + 1 ELSE 0
      /\ \A k \in 1..Len(q) - 1 - 1 + 1 : SubSeq(q, 1, Len(q) - 1)[k] = q[1 + k - 1]
  <2>1. 1 \in Int /\ Len(q) - 1 \in Int
    BY <1>1
  <2> QED BY <1>2, <2>1, SubSeqProperties
<1>4. Len(SubSeq(q, 1, Len(q) - 1)) = Len(q) - 1
  <2> DEFINE n == Len(q)
             l == Len(SubSeq(q, 1, n - 1))
  <2>1. n \in Nat /\ n >= 1 /\ l = IF 1 <= n - 1 THEN n - 1 - 1 + 1 ELSE 0
    BY <1>1, <1>3
  <2> HIDE DEF n, l
  <2>2. l = n - 1
    BY ONLY <2>1
  <2> QED BY <2>2 DEF n, l
<1>5. \A k \in 1..Len(q) - 1 : k \in 1..Len(q) - 1 - 1 + 1 /\ 1 + k - 1 = k
  BY <1>1
<1>6. \A k \in 1..Len(q) - 1 : SubSeq(q, 1, Len(q) - 1)[k] = q[k]
  BY <1>3, <1>5
<1> QED BY <1>1, <1>3, <1>4, <1>6

LEMMA ReturnBounds ==
  ASSUME BoundsInv, DepthInv, ReturnFrom, data' = data, sane' = sane, ptr4' = ptr4
  PROVE  BoundsInv' /\ DepthInv'
<1> USE DEF BoundsInv
<1>1. CASE stack = << >>
  <2>1. at' = "done" /\ seg' = seg /\ scan' = scan /\ stack' = stack
    BY <1>1 DEF ReturnFrom
  <2>2. SortTypeOK'
    BY <2>1 DEF SortTypeOK
  <2>3. SegmentInv' /\ ScanInv' /\ PointerInv'
    BY <1>1, <2>1 DEF SegmentInv, ScanInv, PointerInv, Within
  <2>4. DepthInv'
    BY <2>1 DEF DepthInv
  <2> QED BY <2>2, <2>3, <2>4
<1>2. CASE stack # << >>
  <2> DEFINE s == stack[Len(stack)]
  <2>1. /\ stack' = SubSeq(stack, 1, Len(stack) - 1)
        /\ IF s.n > 1 THEN Loop(s) ELSE at' = "return" /\ seg' = s /\ UNCHANGED scan
    BY <1>2 DEF ReturnFrom
  <2>2. /\ stack' \in Seq(Segments) /\ Len(stack') = Len(stack) - 1
        /\ Len(stack) \in Nat /\ Len(stack) >= 1 /\ s \in Segments
        /\ \A k \in 1..Len(stack) - 1 : stack'[k] = stack[k]
    <3>1. stack \in Seq(Segments)
      BY DEF SortTypeOK
    <3> QED BY <1>2, <2>1, <3>1, Popped
  <2>3. s.a \in Nat /\ s.n \in Nat /\ s.a >= 1 /\ Within(s) /\ s.a + s.n - 1 <= Len(data')
    <3>1. Len(stack) \in DOMAIN stack
      BY <2>2
    <3>2. Within(s)
      BY <3>1 DEF SegmentInv
    <3> QED BY <2>2, <3>2 DEF Segments, Within
  <2>4. seg' = s
    BY <2>1 DEF Loop
  <2>5. \A k \in DOMAIN stack' : stack'[k] = stack[k] /\ k \in DOMAIN stack /\ k \in Nat
    BY <2>2
  <2>6. DepthInv'
    <3>1. s.n * TwoTo(Len(stack) - 1) <= Len(data)
      BY <2>2 DEF DepthInv
    <3> HIDE DEF s
    <3> QED BY <2>2, <2>4, <2>5, <3>1 DEF DepthInv
  <2>7. CASE s.n > 1
    <3>1. /\ at' \in {"insertion", "presorted"}
          /\ scan' \in [pm : Int, pl : Int] /\ scan'.pm = s.a + 1
          /\ at' = "insertion" => scan'.pl = s.a + 1
          /\ at' = "presorted" => s.n >= Insertion
      BY <2>1, <2>2, <2>7, LoopSets
    <3> HIDE DEF s
    <3>2. SortTypeOK'
      BY <2>2, <2>4, <3>1 DEF SortTypeOK
    <3>3. SegmentInv'
      BY <2>3, <2>4, <2>5, <3>1 DEF SegmentInv, Within
    <3>4. ScanInv' /\ PointerInv'
      BY <2>3, <2>4, <3>1 DEF ScanInv, PointerInv
    <3> QED BY <2>6, <3>2, <3>3, <3>4
  <2>8. CASE ~(s.n > 1)
    <3>1. at' = "return" /\ scan' = scan /\ s.n <= 1
      BY <2>1, <2>3, <2>8
    <3> HIDE DEF s
    <3>2. SortTypeOK'
      BY <2>2, <2>4, <3>1 DEF SortTypeOK
    <3>3. SegmentInv'
      BY <2>3, <2>4, <2>5, <3>1 DEF SegmentInv, Within
    <3>4. ScanInv' /\ PointerInv'
      BY <3>1 DEF ScanInv, PointerInv
    <3> QED BY <2>6, <3>2, <3>3, <3>4
  <2> QED BY <2>7, <2>8
<1> QED BY <1>1, <1>2

LEMMA ReturnOrder ==
  ASSUME BoundsInv, OrderInv, ReturnFrom, data' = data, sane' = sane, ptr4' = ptr4,
         sane => \A i, j \in seg.a..Last : i < j => data[i] <= data[j]
  PROVE  OrderInv'
<1> USE DEF BoundsInv
<1> SUFFICES ASSUME sane PROVE (Disjoint /\ Separated /\ ScanOrder /\ PartitionOrder)'
  BY DEF OrderInv
<1>1. /\ Disjoint /\ Separated /\ \A i, j \in seg.a..Last : i < j => data[i] <= data[j]
  BY DEF OrderInv
<1>2. \A i, j \in 1..Len(data) : i < j /\ In(seg, i) /\ In(seg, j) => data[i] <= data[j]
  <2>1. \A i \in 1..Len(data) : In(seg, i) => i \in seg.a..Last
    BY Numbers DEF In
  <2> QED BY <1>1, <2>1
<1>3. CASE stack = << >>
  <2>1. at' = "done" /\ seg' = seg /\ scan' = scan /\ stack' = stack
    BY <1>3 DEF ReturnFrom
  <2>2. \A i, j \in 1..Len(data) : i < j => data[i] <= data[j]
    BY <1>1, <1>2, <1>3 DEF Separated, Pending
  <2>3. Disjoint'
    BY <1>3, <2>1 DEF Disjoint
  <2>4. Separated'
    BY <2>2 DEF Separated
  <2>5. ScanOrder' /\ PartitionOrder'
    BY <2>1, <2>2 DEF ScanOrder, PartitionOrder
  <2> QED BY <2>3, <2>4, <2>5
<1>4. CASE stack # << >>
  <2> DEFINE s == stack[Len(stack)]
  <2>1. /\ stack' = SubSeq(stack, 1, Len(stack) - 1)
        /\ IF s.n > 1 THEN Loop(s) ELSE at' = "return" /\ seg' = s /\ UNCHANGED scan
    BY <1>4 DEF ReturnFrom
  <2>2. /\ stack' \in Seq(Segments) /\ Len(stack') = Len(stack) - 1
        /\ Len(stack) \in Nat /\ Len(stack) >= 1 /\ s \in Segments
        /\ \A k \in 1..Len(stack) - 1 : stack'[k] = stack[k]
    <3>1. stack \in Seq(Segments)
      BY DEF SortTypeOK
    <3> QED BY <1>4, <2>1, <3>1, Popped
  <2>3. s.a \in Nat /\ s.n \in Nat /\ s.a >= 1
    BY <2>2 DEF Segments
  <2>4. seg' = s
    BY <2>1 DEF Loop
  <2>5. /\ \A k \in DOMAIN stack' : stack'[k] = stack[k] /\ k \in DOMAIN stack /\ k # Len(stack)
        /\ \A k \in DOMAIN stack : k # Len(stack) => k \in DOMAIN stack' /\ stack'[k] = stack[k]
        /\ Len(stack) \in DOMAIN stack
    <3>1. DOMAIN stack = 1..Len(stack) /\ DOMAIN stack' = 1..Len(stack) - 1
      BY <2>2, Numbers
    <3>2. Len(stack) \in Nat /\ Len(stack) >= 1 /\ \A k \in 1..Len(stack) - 1 : stack'[k] = stack[k]
      BY <2>2
    <3>3. /\ \A k \in 1..Len(stack) - 1 : k \in 1..Len(stack) /\ k # Len(stack)
          /\ \A k \in 1..Len(stack) : k # Len(stack) => k \in 1..Len(stack) - 1
          /\ Len(stack) \in 1..Len(stack)
      BY <3>2
    <3> QED BY ONLY <3>1, <3>2, <3>3
  <2>6. Disjoint'
    BY <1>1, <2>4, <2>5 DEF Disjoint, Apart
  <2>7. Separated'
    <3> SUFFICES ASSUME NEW i \in 1..Len(data), NEW j \in 1..Len(data), i < j,
                        ~(data[i] <= data[j])
                 PROVE  Pending(i, j)'
      BY DEF Separated
    <3>1. ~(In(seg, i) /\ In(seg, j))
      BY <1>2
    <3>2. PICK k \in DOMAIN stack : In(stack[k], i) /\ In(stack[k], j)
      BY <1>1, <3>1 DEF Separated, Pending
    <3> QED BY <2>4, <2>5, <3>2 DEF Pending, In
  <2>8. PartitionOrder' /\ ScanOrder'
    <3>1. CASE s.n > 1
      <4>1. /\ at' \in {"insertion", "presorted"} /\ scan'.pm = s.a + 1
            /\ at' = "insertion" => scan'.pl = s.a + 1
        BY <2>1, <2>2, <3>1, LoopSets
      <4>2. \A i, j \in s.a..s.a + s.n - 1 : i < j => j >= s.a + 1
        BY <2>3
      <4> HIDE DEF s
      <4>3. \A i, j \in s.a..s.a + s.n - 1 : i < j /\ j <= s.a + 1 => j = s.a + 1
        BY <2>3, <4>2
      <4>4. \A i, j \in s.a..s.a + s.n - 1 : ~(i < j /\ j < s.a + 1)
        BY <2>3, <4>2
      <4> QED BY <2>4, <4>1, <4>3, <4>4 DEF ScanOrder, PartitionOrder, Last
    <3>2. CASE ~(s.n > 1)
      BY <2>1, <3>2 DEF ScanOrder, PartitionOrder
    <3> QED BY <3>1, <3>2
  <2> QED BY <2>6, <2>7, <2>8
<1> QED BY <1>3, <1>4

\* What a call or the return to a caller begins with.
LEMMA Entered ==
  ASSUME SortTypeOK, NEW s \in Segments,
         IF s.n > 1 THEN Loop(s) ELSE at' = "return" /\ seg' = s /\ UNCHANGED scan
  PROVE  /\ seg' = s /\ at' \in {"insertion", "presorted", "return"}
         /\ at' = "presorted" => s.n >= Insertion
         /\ at' = "return" => s.n <= 1
         /\ scan' \in [pm : Int, pl : Int]
         /\ ScanInv' /\ PointerInv' /\ ScanOrder' /\ PartitionOrder'
<1>1. s.a \in Nat /\ s.n \in Nat /\ s.a >= 1
  BY DEF Segments
<1>2. CASE s.n > 1
  <2>1. /\ seg' = s /\ at' \in {"insertion", "presorted"}
        /\ scan' \in [pm : Int, pl : Int] /\ scan'.pm = s.a + 1
        /\ at' = "insertion" => scan'.pl = s.a + 1
        /\ at' = "presorted" => s.n >= Insertion
    BY <1>2, LoopSets
  <2>2. \A i, j \in s.a..s.a + s.n - 1 : i < j => j >= s.a + 1
    BY <1>1
  <2>3. \A i, j \in s.a..s.a + s.n - 1 : i < j /\ j <= s.a + 1 => j = s.a + 1
    BY <1>1, <2>2
  <2>4. \A i, j \in s.a..s.a + s.n - 1 : ~(i < j /\ j < s.a + 1)
    BY <1>1, <2>2
  <2>5. ScanOrder' /\ PartitionOrder'
    BY <2>1, <2>3, <2>4 DEF ScanOrder, PartitionOrder, Last
  <2>6. ScanInv' /\ PointerInv'
    BY <1>1, <2>1 DEF ScanInv, PointerInv
  <2> QED BY <2>1, <2>5, <2>6
<1>3. CASE ~(s.n > 1)
  <2>1. at' = "return" /\ seg' = s /\ scan' = scan /\ s.n <= 1
    BY <1>1, <1>3
  <2> QED BY <2>1 DEF SortTypeOK, ScanOrder, PartitionOrder, ScanInv, PointerInv
<1> QED BY <1>2, <1>3

\* Elements that change places within the segment keep their order with all others.
LEMMA Rearranged ==
  ASSUME SortTypeOK, SegmentInv, Disjoint, Separated, data' \in Seq(Int), Len(data') = Len(data),
         \A k \in 1..Len(data) : ~In(seg, k) => data'[k] = data[k],
         \A k \in 1..Len(data) : In(seg, k) => \E m \in seg.a..Last : data'[k] = data[m]
  PROVE  \A i, j \in 1..Len(data) : i < j => Pending(i, j) \/ data'[i] <= data'[j]
<1>0. Len(data) \in Nat /\ seg.a \in Nat /\ seg.a >= 1 /\ seg.n \in Nat /\ Last = seg.a + seg.n - 1
  BY Numbers
<1>1. \A m \in seg.a..Last : m \in 1..Len(data) /\ In(seg, m)
  BY <1>0 DEF SegmentInv, Within, In
<1>2. ASSUME NEW m \in 1..Len(data), NEW k \in 1..Len(data), In(seg, m), ~In(seg, k)
      PROVE  ~Pending(m, k) /\ ~Pending(k, m)
  <2>1. ASSUME NEW l \in DOMAIN stack, In(stack[l], m) PROVE FALSE
    <3>1. Apart(seg, stack[l])
      BY DEF Disjoint
    <3>2. stack[l].a \in Nat /\ stack[l].n \in Nat
      BY Numbers
    <3>3. /\ seg.a <= m /\ m <= seg.a + seg.n - 1
          /\ stack[l].a <= m /\ m <= stack[l].a + stack[l].n - 1
      BY <1>2, <2>1 DEF In
    <3>4. seg.a + seg.n <= stack[l].a \/ stack[l].a + stack[l].n <= seg.a
      BY <3>1 DEF Apart
    <3>5. m \in Int /\ seg.a \in Int /\ seg.n \in Int /\ stack[l].a \in Int /\ stack[l].n \in Int
      BY <1>0, <3>2
    <3> QED BY ONLY <3>3, <3>4, <3>5
  <2> QED BY <1>2, <2>1 DEF Pending
<1> SUFFICES ASSUME NEW i \in 1..Len(data), NEW j \in 1..Len(data), i < j, ~Pending(i, j)
             PROVE  data'[i] <= data'[j]
  OBVIOUS
<1>3. CASE ~In(seg, i) /\ ~In(seg, j)
  BY <1>3 DEF Separated
<1>4. CASE In(seg, i) /\ ~In(seg, j)
  <2>1. PICK m \in seg.a..Last : data'[i] = data[m]
    BY <1>4
  <2>2. m \in 1..Len(data) /\ In(seg, m) /\ m < j
    <3>1. m < j
      BY <1>0, <1>4 DEF In
    <3> QED BY <1>1, <3>1
  <2>3. data[m] <= data[j]
    BY <1>2, <1>4, <2>2 DEF Separated
  <2> QED BY <1>4, <2>1, <2>3
<1>5. CASE ~In(seg, i) /\ In(seg, j)
  <2>1. PICK m \in seg.a..Last : data'[j] = data[m]
    BY <1>5
  <2>2. m \in 1..Len(data) /\ In(seg, m) /\ i < m
    <3>1. i < m
      BY <1>0, <1>5 DEF In
    <3> QED BY <1>1, <3>1
  <2>3. data[i] <= data[m]
    BY <1>2, <1>5, <2>2 DEF Separated
  <2> QED BY <1>5, <2>1, <2>3
<1>6. CASE In(seg, i) /\ In(seg, j)
  BY <1>6 DEF Pending
<1> QED BY <1>3, <1>4, <1>5, <1>6

\* So do two of them.
LEMMA SwapInSegment ==
  ASSUME SortTypeOK, SegmentInv, NEW i \in seg.a..Last, NEW j \in seg.a..Last,
         data' = Swapped(data, i, j), seg' = seg, stack' = stack
  PROVE  /\ data' \in Seq(Int) /\ Len(data') = Len(data) /\ data'[i] \in Int /\ data'[j] \in Int
         /\ \A k \in seg.a..Last :
              data'[k] = IF k = j THEN data[i] ELSE IF k = i THEN data[j] ELSE data[k]
         /\ Disjoint /\ Separated => (Disjoint /\ Separated)'
<1>0. Len(data) \in Nat /\ seg.a \in Nat /\ seg.a >= 1 /\ seg.n \in Nat /\ Last = seg.a + seg.n - 1
  BY Numbers
<1>1. \A m \in seg.a..Last : m \in 1..Len(data) /\ In(seg, m)
  BY <1>0 DEF SegmentInv, Within, In
<1>2. /\ data' \in Seq(Int) /\ Len(data') = Len(data)
      /\ \A k \in 1..Len(data) :
           data'[k] = IF k = j THEN data[i] ELSE IF k = i THEN data[j] ELSE data[k]
  <2>1. data \in Seq(Int) /\ i \in 1..Len(data) /\ j \in 1..Len(data)
    BY <1>1 DEF SortTypeOK
  <2>2. /\ Swapped(data, i, j) \in Seq(Int) /\ Len(Swapped(data, i, j)) = Len(data)
        /\ \A k \in 1..Len(data) :
             Swapped(data, i, j)[k] = IF k = j THEN data[i] ELSE IF k = i THEN data[j] ELSE data[k]
    BY ONLY <2>1, SwappedIs
  <2> QED BY <2>2
<1>3. \A k \in 1..Len(data) : ~In(seg, k) => data'[k] = data[k]
  BY <1>1, <1>2
<1>4. \A k \in 1..Len(data) : In(seg, k) => \E m \in seg.a..Last : data'[k] = data[m]
  <2> SUFFICES ASSUME NEW k \in 1..Len(data), In(seg, k)
               PROVE  \E m \in seg.a..Last : data'[k] = data[m]
    OBVIOUS
  <2>1. k \in seg.a..Last
    BY <1>0 DEF In
  <2> QED BY <1>2, <2>1
<1>5. ASSUME Disjoint, Separated PROVE (Disjoint /\ Separated)'
  <2>1. \A k, l \in 1..Len(data) : k < l => Pending(k, l) \/ data'[k] <= data'[l]
    BY <1>2, <1>3, <1>4, <1>5, Rearranged
  <2>2. Separated'
    BY <1>2, <2>1 DEF Separated, Pending
  <2>3. Disjoint'
    BY <1>5 DEF Disjoint
  <2> QED BY <2>2, <2>3
<1>6. data'[i] \in Int /\ data'[j] \in Int
  BY <1>1, <1>2
<1> QED BY <1>1, <1>2, <1>5, <1>6

-----------------------------------------------------------------------------
(* The steps. *)

\* What a comparison can be, and what it says when the comparator is that of the order.
LEMMA Compared ==
  ASSUME SortTypeOK, NEW i \in 1..Len(data), NEW j \in 1..Len(data), NEW r \in Compare(i, j)
  PROVE  /\ r \in {-1, 0, 1} /\ data[i] \in Int /\ data[j] \in Int
         /\ sane => /\ r < 0 <=> data[i] < data[j]
                    /\ r = 0 <=> data[i] = data[j]
                    /\ r > 0 <=> data[i] > data[j]
<1>1. data[i] \in Int /\ data[j] \in Int
  BY Numbers
<1> QED BY <1>1 DEF Compare

\* The positions of the segment are those of elements.
LEMMA Inside ==
  ASSUME SortTypeOK, SegmentInv
  PROVE  /\ \A k \in seg.a..Last : k \in 1..Len(data) /\ k \in Int /\ data[k] \in Int /\ In(seg, k)
         /\ Last <= Len(data) /\ seg.a >= 1 /\ seg.a \in Int /\ Last \in Int
<1>1. Last <= Len(data) /\ seg.a >= 1 /\ seg.a \in Int /\ Last \in Int /\ Len(data) \in Nat
  BY Numbers DEF SegmentInv, Within
<1>2. \A k \in seg.a..Last : k \in 1..Len(data) /\ k \in Int
  BY <1>1
<1> QED BY <1>1, <1>2, Numbers DEF In

LEMMA StartSortStep ==
  ASSUME BoundsInv, StartSort
  PROVE  BoundsInv' /\ DepthInv' /\ OrderInv'
<1> USE DEF BoundsInv
<1>1. PICK input \in Inputs : /\ data' = input.keys /\ sane' = input.sane
                         /\ Loop([a |-> 1, n |-> Len(input.keys)])
  BY DEF StartSort
<1>2. data' \in Seq(Int) /\ sane' \in BOOLEAN /\ Len(data') \in Nat
  BY <1>1, SortAssumption
<1> DEFINE s == [a |-> 1, n |-> Len(data')]
<1>3. s \in Segments /\ s.a = 1 /\ s.n = Len(data') /\ Loop(s)
  BY <1>1, <1>2 DEF Segments
<1>4. stack = << >> /\ stack' = << >> /\ ptr4' = ptr4 /\ DOMAIN stack' = {} /\ Len(stack') = 0
  BY DEF StartSort, SegmentInv
<1> HIDE DEF s
<1>5. /\ seg' = s /\ at' \in {"insertion", "presorted"}
      /\ scan' \in [pm : Int, pl : Int] /\ scan'.pm = 2
      /\ at' = "insertion" => scan'.pl = 2
      /\ at' = "presorted" => s.n >= Insertion
  BY <1>3, LoopSets
<1>6. SortTypeOK'
  BY <1>2, <1>3, <1>4, <1>5 DEF SortTypeOK
<1>7. SegmentInv' /\ ScanInv' /\ PointerInv'
  BY <1>2, <1>3, <1>4, <1>5 DEF SegmentInv, ScanInv, PointerInv, Within
<1>8. DepthInv'
  <2>1. TwoTo(0) = 1 /\ seg'.n = Len(data') /\ Len(data') * 1 <= Len(data')
    BY <1>2, <1>3, <1>5, TwoToValues
  <2> QED BY <1>4, <2>1 DEF DepthInv
<1>9. Disjoint' /\ Separated'
  BY <1>2, <1>3, <1>4, <1>5 DEF Disjoint, Separated, Pending, In
<1>10. ScanOrder' /\ PartitionOrder'
  <2>1. \A i, j \in 1..s.n : i < j => j >= 2
    BY <1>2, <1>3
  <2>2. \A i, j \in 1..1 + s.n - 1 : ~(i < j /\ j <= 2 /\ j # 2) /\ ~(i < j /\ j < 2)
    BY <1>2, <1>3, <2>1
  <2> QED BY <1>3, <1>5, <2>2 DEF ScanOrder, PartitionOrder, Last
<1> QED BY <1>6, <1>7, <1>8, <1>9, <1>10 DEF OrderInv

\* As long as neither the segment nor what waits changes, and the array keeps its length.
LEMMA SameSegments ==
  ASSUME BoundsInv, DepthInv, seg' = seg, stack' = stack, data' \in Seq(Int),
         Len(data') = Len(data), sane' = sane,
         at' \in {"insertion", "presorted", "pivot", "left", "right"},
         at' # "insertion" => seg.n >= Insertion,
         scan' \in [pm : Int, pl : Int], ptr4' \in [pa : Int, pb : Int, pc : Int, pd : Int]
  PROVE  SortTypeOK' /\ SegmentInv' /\ DepthInv'
<1> USE DEF BoundsInv
<1>1. SortTypeOK'
  BY DEF SortTypeOK
<1>2. SegmentInv'
  BY DEF SegmentInv, Within
<1>3. DepthInv'
  BY DEF DepthInv
<1> QED BY <1>1, <1>2, <1>3

LEMMA InsertionStepStep ==
  ASSUME BoundsInv, DepthInv, OrderInv, InsertionStep
  PROVE  BoundsInv' /\ DepthInv' /\ OrderInv'
<1> USE DEF BoundsInv
<1>1. /\ at = "insertion" /\ at' = at /\ sane' = sane /\ seg' = seg /\ ptr4' = ptr4 /\ stack' = stack
      /\ scan.pm <= Last /\ seg.a <= scan.pl /\ scan.pl <= scan.pm
      /\ scan.pm \in Int /\ scan.pl \in Int /\ seg.a \in Int /\ Last \in Int /\ Last' = Last
      /\ sane \in BOOLEAN
  BY Numbers DEF InsertionStep, ScanInv, Last, SortTypeOK
<1>2. CASE /\ scan.pl > seg.a
           /\ \E r \in Compare(scan.pl - 1, scan.pl) : r > 0
           /\ data' = Swapped(data, scan.pl, scan.pl - 1)
           /\ scan' = [scan EXCEPT !.pl = @ - 1]
  <2>1. scan.pl \in seg.a..Last /\ scan.pl - 1 \in seg.a..Last
    BY <1>1, <1>2
  <2>2. scan' \in [pm : Int, pl : Int] /\ scan'.pm = scan.pm /\ scan'.pl = scan.pl - 1
    <3>1. scan' = [scan EXCEPT !.pl = @ - 1] /\ scan \in [pm : Int, pl : Int]
      BY <1>2 DEF SortTypeOK
    <3> QED BY ONLY <3>1
  <2> DEFINE p == scan.pl
             q == scan.pl - 1
  <2>3. /\ data' \in Seq(Int) /\ Len(data') = Len(data)
        /\ \A k \in seg.a..Last : data'[k] = IF k = q THEN data[p] ELSE IF k = p THEN data[q] ELSE data[k]
        /\ Disjoint /\ Separated => (Disjoint /\ Separated)'
    <3>1. p \in seg.a..Last /\ q \in seg.a..Last /\ data' = Swapped(data, p, q)
      BY <1>2, <2>1
    <3> HIDE DEF p, q
    <3>2. SortTypeOK /\ SegmentInv /\ seg' = seg /\ stack' = stack
      BY <1>1
    <3> QED BY ONLY <3>1, <3>2, SwapInSegment
  <2>4. SortTypeOK' /\ SegmentInv' /\ DepthInv'
    BY <1>1, <2>2, <2>3, SameSegments DEF SortTypeOK
  <2>5. ScanInv' /\ PointerInv'
    BY <1>1, <1>2, <2>2 DEF ScanInv, PointerInv
  <2>6. ASSUME sane PROVE ScanOrder' /\ PartitionOrder'
    <3>1. data[q] > data[p]
      BY <1>2, <2>1, <2>6, Compared, Inside
    <3>2. \A i, j \in seg.a..Last : i < j /\ j <= scan.pm /\ j # p => data[i] <= data[j]
      BY <1>1, <2>6 DEF OrderInv, ScanOrder
    <3>3. p \in Int /\ q = p - 1 /\ p \in seg.a..Last /\ q \in seg.a..Last /\ p <= scan.pm
      BY <1>1, <2>1
    <3>4. \A k \in seg.a..Last : data[k] \in Int /\ k \in Int
      BY Inside
    <3> HIDE DEF p, q
    <3>5. ASSUME NEW i \in seg.a..Last, NEW j \in seg.a..Last, i < j, j <= scan.pm, j # q
          PROVE  data'[i] <= data'[j]
      <4>1. CASE j = p
        <5>1. i = q \/ i < q
          BY <3>3, <3>4, <3>5, <4>1
        <5>2. i # p /\ q < p /\ q # p /\ q <= scan.pm
          BY <1>1, <3>3, <3>4, <3>5, <4>1
        <5>3. i < q => data[i] <= data[q]
          BY <3>2, <3>3, <5>2
        <5> QED BY <2>3, <3>1, <3>3, <3>4, <4>1, <5>1, <5>2, <5>3
      <4>2. CASE j # p
        <5>1. data'[j] = data[j]
          BY <2>3, <3>5, <4>2
        <5>2. data[i] <= data[j]
          BY <3>2, <3>5, <4>2
        <5>3. q < p
          BY <3>3
        <5>4. i = p => q < j
          BY <3>3, <3>4, <3>5, <5>3
        <5>5. i = q => p < j
          BY <3>3, <3>4, <3>5, <4>2
        <5>6. i = p => data[q] <= data[j]
          BY <3>2, <3>3, <3>5, <4>2, <5>4
        <5>7. i = q => data[p] <= data[j]
          BY <3>2, <3>3, <3>5, <4>2, <5>5
        <5> QED BY <2>3, <5>1, <5>2, <5>6, <5>7
      <4> QED BY <4>1, <4>2
    <3>6. ScanOrder'
      BY <1>1, <2>2, <3>5 DEF ScanOrder, q
    <3> QED BY <1>1, <3>6 DEF PartitionOrder
  <2> QED BY <1>1, <2>3, <2>4, <2>5, <2>6 DEF OrderInv
<1>3. CASE /\ scan.pl > seg.a => \E r \in Compare(scan.pl - 1, scan.pl) : r <= 0
           /\ scan' = [pm |-> scan.pm + 1, pl |-> scan.pm + 1]
           /\ UNCHANGED data
  <2>1. SortTypeOK' /\ SegmentInv' /\ DepthInv'
    BY <1>1, <1>3, SameSegments DEF SortTypeOK
  <2>2. ScanInv' /\ PointerInv'
    BY <1>1, <1>3 DEF ScanInv, PointerInv
  <2>3. ASSUME sane PROVE ScanOrder' /\ PartitionOrder'
    <3> DEFINE p == scan.pl
               q == scan.pl - 1
    <3>1. p > seg.a => data[q] <= data[p]
      <4>1. ASSUME p > seg.a PROVE p \in 1..Len(data) /\ q \in 1..Len(data)
        <5>1. p \in seg.a..Last /\ q \in seg.a..Last
          BY <1>1, <4>1
        <5> QED BY <5>1, Inside
      <4>2. ASSUME p > seg.a PROVE \E r \in Compare(q, p) : r <= 0
        BY <1>3, <4>2
      <4> HIDE DEF p, q
      <4> QED BY <2>3, <4>1, <4>2, Compared
    <3>2. \A i, j \in seg.a..Last : i < j /\ j <= scan.pm /\ j # p => data[i] <= data[j]
      BY <1>1, <2>3 DEF OrderInv, ScanOrder
    <3>3. p \in Int /\ q = p - 1 /\ seg.a <= p /\ p <= Last /\ p <= scan.pm
      BY <1>1
    <3>4. \A k \in seg.a..Last : data[k] \in Int /\ k \in Int
      BY Inside
    <3> HIDE DEF p, q
    <3>5. ASSUME NEW i \in seg.a..Last, NEW j \in seg.a..Last, i < j, j <= scan.pm
          PROVE  data[i] <= data[j]
      <4>1. CASE j = p
        <5>1. (i = q \/ i < q) /\ p > seg.a /\ q \in seg.a..Last /\ q # p /\ q <= scan.pm
          BY <1>1, <3>3, <3>4, <3>5, <4>1
        <5>2. i < q => data[i] <= data[q]
          BY <3>2, <5>1
        <5> QED BY <3>1, <3>4, <3>5, <4>1, <5>1, <5>2
      <4> QED BY <3>2, <3>5, <4>1
    <3>6. \A j \in seg.a..Last : j <= scan.pm + 1 /\ j # scan.pm + 1 => j <= scan.pm
      BY <1>1
    <3>7. scan'.pm = scan.pm + 1 /\ scan'.pl = scan.pm + 1 /\ data' = data
      BY <1>3
    <3>8. ScanOrder'
      BY <1>1, <3>5, <3>6, <3>7 DEF ScanOrder
    <3> QED BY <1>1, <3>8 DEF PartitionOrder
  <2>4. OrderInv /\ sane => Disjoint' /\ Separated'
    BY <1>1, <1>3 DEF OrderInv, Disjoint, Separated, Pending
  <2> QED BY <1>1, <2>1, <2>2, <2>3, <2>4 DEF OrderInv
<1> QED BY <1>2, <1>3 DEF InsertionStep

LEMMA InsertionEndStep ==
  ASSUME BoundsInv, DepthInv, OrderInv, InsertionEnd
  PROVE  BoundsInv' /\ DepthInv' /\ OrderInv'
<1>1. /\ at = "insertion" /\ ReturnFrom /\ data' = data /\ sane' = sane /\ ptr4' = ptr4
      /\ scan.pm > Last /\ scan.pl = scan.pm
  BY DEF InsertionEnd, BoundsInv, ScanInv
<1>2. scan.pm \in Int /\ seg.a \in Int /\ Last \in Int
  BY Numbers DEF BoundsInv
<1>3. sane => \A i, j \in seg.a..Last : i < j => data[i] <= data[j]
  BY <1>1, <1>2 DEF OrderInv, ScanOrder
<1> QED BY <1>1, <1>3, ReturnBounds, ReturnOrder

LEMMA PresortedStepStep ==
  ASSUME BoundsInv, DepthInv, OrderInv, PresortedStep
  PROVE  BoundsInv' /\ DepthInv' /\ OrderInv'
<1> USE DEF BoundsInv
<1>1. /\ at = "presorted" /\ sane' = sane /\ seg' = seg /\ ptr4' = ptr4 /\ stack' = stack
      /\ data' = data /\ scan.pm <= Last /\ seg.a < scan.pm /\ seg.n >= Insertion
      /\ scan.pm \in Int /\ scan.pl \in Int /\ seg.a \in Int /\ Last \in Int /\ Last' = Last
  BY Numbers DEF PresortedStep, ScanInv, SegmentInv, Last
<1>2. PICK r \in Compare(scan.pm - 1, scan.pm) :
        IF r > 0 THEN at' = "pivot" /\ UNCHANGED scan
                 ELSE at' = at /\ scan' = [scan EXCEPT !.pm = @ + 1]
  BY DEF PresortedStep
<1>3. Disjoint /\ Separated => Disjoint' /\ Separated'
  BY <1>1 DEF Disjoint, Separated, Pending
<1>4. CASE r > 0
  <2>1. at' = "pivot" /\ scan' = scan
    BY <1>2, <1>4
  <2>2. SortTypeOK' /\ SegmentInv' /\ DepthInv'
    BY <1>1, <2>1, SameSegments DEF SortTypeOK
  <2>3. ScanInv' /\ PointerInv' /\ ScanOrder' /\ PartitionOrder'
    BY <1>1, <2>1 DEF ScanInv, PointerInv, ScanOrder, PartitionOrder
  <2> QED BY <1>1, <1>3, <2>2, <2>3 DEF OrderInv
<1>5. CASE ~(r > 0)
  <2>1. /\ at' = "presorted" /\ scan'.pm = scan.pm + 1 /\ scan' \in [pm : Int, pl : Int]
    BY <1>1, <1>2, <1>5 DEF SortTypeOK
  <2>2. SortTypeOK' /\ SegmentInv' /\ DepthInv'
    BY <1>1, <2>1, SameSegments DEF SortTypeOK
  <2>3. ScanInv' /\ PointerInv'
    BY <1>1, <2>1 DEF ScanInv, PointerInv
  <2>4. ASSUME sane PROVE ScanOrder' /\ PartitionOrder'
    <3> DEFINE q == scan.pm - 1
               p == scan.pm
    <3>1. p \in seg.a..Last /\ q \in seg.a..Last /\ p \in Int /\ q = p - 1
      BY <1>1
    <3>2. data[q] <= data[p]
      <4>1. p \in 1..Len(data) /\ q \in 1..Len(data) /\ r \in Compare(q, p)
        BY <1>2, <3>1, Inside
      <4> HIDE DEF p, q
      <4>2. r \in {-1, 0, 1} /\ data[q] \in Int /\ data[p] \in Int /\ (r > 0 <=> data[q] > data[p])
        BY <2>4, <4>1, Compared
      <4> QED BY <1>5, <4>2
    <3>3. \A i, j \in seg.a..Last : i < j /\ j < p => data[i] <= data[j]
      BY <1>1, <2>4 DEF OrderInv, ScanOrder
    <3>4. \A k \in seg.a..Last : data[k] \in Int /\ k \in Int
      BY Inside
    <3> HIDE DEF p, q
    <3>5. ASSUME NEW i \in seg.a..Last, NEW j \in seg.a..Last, i < j, j < p + 1
          PROVE  data[i] <= data[j]
      <4>1. CASE j = p
        <5>1. (i = q \/ i < q) /\ q < p
          BY <3>1, <3>4, <3>5, <4>1
        <5>2. i < q => data[i] <= data[q]
          BY <3>1, <3>3, <5>1
        <5> QED BY <3>1, <3>2, <3>4, <3>5, <4>1, <5>1, <5>2
      <4>2. CASE j # p
        <5>1. j < p
          BY <3>1, <3>4, <3>5, <4>2
        <5> QED BY <3>3, <3>5, <5>1
      <4> QED BY <4>1, <4>2
    <3>6. ScanOrder'
      BY <1>1, <2>1, <3>5 DEF ScanOrder, p
    <3> QED BY <2>1, <3>6 DEF PartitionOrder
  <2> QED BY <1>1, <1>3, <2>2, <2>3, <2>4 DEF OrderInv
<1> QED BY <1>4, <1>5

LEMMA PresortedEndStep ==
  ASSUME BoundsInv, DepthInv, OrderInv, PresortedEnd
  PROVE  BoundsInv' /\ DepthInv' /\ OrderInv'
<1>1. /\ at = "presorted" /\ ReturnFrom /\ data' = data /\ sane' = sane /\ ptr4' = ptr4
      /\ scan.pm > Last
  BY DEF PresortedEnd
<1>2. scan.pm \in Int /\ seg.a \in Int /\ Last \in Int
  BY Numbers DEF BoundsInv
<1>3. sane => \A i, j \in seg.a..Last : i < j => data[i] <= data[j]
  BY <1>1, <1>2 DEF OrderInv, ScanOrder
<1> QED BY <1>1, <1>3, ReturnBounds, ReturnOrder

LEMMA GoOnStep ==
  ASSUME BoundsInv, DepthInv, OrderInv, GoOn
  PROVE  BoundsInv' /\ DepthInv' /\ OrderInv'
<1>1. /\ at = "return" /\ ReturnFrom /\ data' = data /\ sane' = sane /\ ptr4' = ptr4
      /\ seg.n <= 1
  BY DEF GoOn, BoundsInv, SegmentInv
<1>2. seg.a \in Nat /\ seg.n \in Nat /\ Last = seg.a + seg.n - 1
  BY Numbers DEF BoundsInv
<1>3. \A i, j \in seg.a..Last : ~(i < j)
  BY <1>1, <1>2
<1> QED BY <1>1, <1>3, ReturnBounds, ReturnOrder

LEMMA EndSortStep ==
  ASSUME BoundsInv, EndSort
  PROVE  BoundsInv' /\ DepthInv' /\ OrderInv'
<1>1. /\ at' = "idle" /\ data' = << >> /\ sane' = TRUE /\ Len(data') = 0 /\ DOMAIN stack' = {}
      /\ seg' = [a |-> 1, n |-> 0] /\ ptr4' = Nowhere /\ scan' = Begin /\ stack' = << >>
      /\ Len(stack') = 0
  BY DEF EndSort
<1>2. SortTypeOK'
  BY <1>1 DEF SortTypeOK, Segments, Nowhere, Begin
<1>3. SegmentInv' /\ ScanInv' /\ PointerInv'
  BY <1>1 DEF SegmentInv, ScanInv, PointerInv, Within
<1>4. DepthInv'
  BY <1>1, TwoToValues DEF DepthInv
<1>5. Disjoint' /\ Separated' /\ ScanOrder' /\ PartitionOrder'
  BY <1>1 DEF Disjoint, Separated, ScanOrder, PartitionOrder, Pending
<1> QED BY <1>2, <1>3, <1>4, <1>5 DEF BoundsInv, OrderInv

\* The pivot is an element of the segment.
LEMMA PivotInside ==
  ASSUME SortTypeOK, seg.n >= Insertion, NEW m \in Pivots
  PROVE  m \in seg.a..Last
<1> DEFINE n == seg.n
           a == seg.a
           h == n \div 2
           d == n \div 8
<1>1. n \in Int /\ n >= 3 /\ a \in Int /\ Last = a + n - 1
  BY Numbers, SortAssumption
<1>2. h \in Int /\ 2 * h <= n /\ n <= 2 * h + 1
  <2> HIDE DEF n
  <2> QED BY <1>1
<1>3. d \in Int /\ 8 * d <= n /\ n <= 8 * d + 7
  <2> HIDE DEF n
  <2> QED BY <1>1
<1>4. \A x, y, z \in Int : \A k \in Med3(x, y, z) : k = x \/ k = y \/ k = z
  BY DEF Med3
<1>5. m \in {a + h} \/ m \in Med3(a, a + h, Last)
      \/ (n > Ninther /\ \E pl \in Med3(a, a + d, a + 2 * d), pm \in Med3((a + h) - d, a + h, a + h + d),
                            pn \in Med3(Last - 2 * d, Last - d, Last) : m \in Med3(pl, pm, pn))
  <2> DEFINE T == Med3Of(Med3(a, a + d, a + 2 * d), Med3((a + h) - d, a + h, a + h + d),
                         Med3(Last - 2 * d, Last - d, Last))
             M == Med3(a, a + h, Last)
  <2>1. Pivots = IF n <= Insertion THEN {a + h} ELSE IF n <= Ninther THEN M ELSE T
    BY DEF Pivots
  <2>2. n \in Int /\ Ninther \in Int
    BY <1>1, SortAssumption
  <2>3. m \in T => \E pl \in Med3(a, a + d, a + 2 * d), pm \in Med3((a + h) - d, a + h, a + h + d),
                      pn \in Med3(Last - 2 * d, Last - d, Last) : m \in Med3(pl, pm, pn)
    <3> HIDE DEF n, a, h, d
    <3> QED BY DEF Med3Of
  <2> HIDE DEF T, M, n
  <2>4. m \in {a + h} \/ m \in M \/ (n > Ninther /\ m \in T)
    BY <2>1, <2>2
  <2> QED BY <2>3, <2>4 DEF M, n
<1> HIDE DEF n, a, h, d
<1>6. \A k \in Int : k = a \/ k = a + h \/ k = Last => k \in a..Last
  BY ONLY <1>1, <1>2
<1>7. CASE m = a + h
  <2>1. m \in a..Last
    BY ONLY <1>1, <1>2, <1>7
  <2> QED BY <2>1 DEF a
<1>8. CASE m \in Med3(a, a + h, Last)
  <2>1. m = a \/ m = a + h \/ m = Last
    BY <1>1, <1>2, <1>4, <1>8
  <2>2. m \in a..Last
    BY ONLY <1>1, <1>2, <2>1
  <2> QED BY <2>2 DEF a
<1>9. ASSUME NEW pl \in Med3(a, a + d, a + 2 * d), NEW pm \in Med3((a + h) - d, a + h, a + h + d),
             NEW pn \in Med3(Last - 2 * d, Last - d, Last), m \in Med3(pl, pm, pn), n > Ninther
      PROVE  m \in a..Last
  <2>1. pl = a \/ pl = a + d \/ pl = a + 2 * d
    <3>1. a \in Int /\ a + d \in Int /\ a + 2 * d \in Int
      BY <1>1, <1>3
    <3> QED BY <1>4, <3>1
  <2>2. pm = (a + h) - d \/ pm = a + h \/ pm = a + h + d
    <3>1. (a + h) - d \in Int /\ a + h \in Int /\ a + h + d \in Int
      BY <1>1, <1>2, <1>3
    <3> QED BY <1>4, <3>1
  <2>3. pn = Last - 2 * d \/ pn = Last - d \/ pn = Last
    <3>1. Last - 2 * d \in Int /\ Last - d \in Int /\ Last \in Int
      BY <1>1, <1>3
    <3> QED BY <1>4, <3>1
  <2>4. n > 8
    BY <1>1, <1>9, SortAssumption
  <2>5. pl \in a..Last
    BY ONLY <1>1, <1>2, <1>3, <2>1, <2>4
  <2>6. pm \in a..Last
    BY ONLY <1>1, <1>2, <1>3, <2>2, <2>4
  <2>7. pn \in a..Last
    BY ONLY <1>1, <1>2, <1>3, <2>3, <2>4
  <2>8. m = pl \/ m = pm \/ m = pn
    <3>1. pl \in Int /\ pm \in Int /\ pn \in Int
      BY <1>1, <2>5, <2>6, <2>7
    <3> QED BY <1>4, <1>9, <3>1
  <2> QED BY <2>5, <2>6, <2>7, <2>8
<1>10. m \in a..Last
  BY <1>5, <1>7, <1>8, <1>9 DEF a
<1> QED BY <1>10 DEF a

LEMMA ChoosePivotStep ==
  ASSUME BoundsInv, DepthInv, OrderInv, ChoosePivot
  PROVE  BoundsInv' /\ DepthInv' /\ OrderInv'
<1> USE DEF BoundsInv
<1>1. /\ at = "pivot" /\ at' = "left" /\ sane' = sane /\ seg' = seg /\ scan' = scan /\ stack' = stack
      /\ ptr4' = [pa |-> seg.a + 1, pb |-> seg.a + 1, pc |-> Last, pd |-> Last]
      /\ seg.n >= Insertion
  BY DEF ChoosePivot, SegmentInv
<1>2. PICK pm \in Pivots : data' = Swapped(data, seg.a, pm)
  BY DEF ChoosePivot
<1>3. /\ seg.a \in Int /\ Last \in Int /\ seg.n \in Int /\ Last = seg.a + seg.n - 1 /\ seg.n >= 3
      /\ Last' = Last
  BY <1>1, Numbers, SortAssumption DEF Last
<1>4. pm \in seg.a..Last /\ seg.a \in seg.a..Last
  BY <1>1, <1>3, PivotInside
<1>5. /\ data' \in Seq(Int) /\ Len(data') = Len(data)
      /\ Disjoint /\ Separated => (Disjoint /\ Separated)'
  <2>1. SortTypeOK /\ SegmentInv /\ seg' = seg /\ stack' = stack
    BY <1>1
  <2> QED BY ONLY <1>2, <1>4, <2>1, SwapInSegment
<1>6. /\ ptr4' \in [pa : Int, pb : Int, pc : Int, pd : Int] /\ scan' \in [pm : Int, pl : Int]
      /\ ptr4'.pa = seg.a + 1 /\ ptr4'.pb = seg.a + 1 /\ ptr4'.pc = Last /\ ptr4'.pd = Last
  BY <1>1, <1>3 DEF SortTypeOK
<1>7. SortTypeOK' /\ SegmentInv' /\ DepthInv'
  BY <1>1, <1>5, <1>6, SameSegments
<1>8. ScanInv' /\ PointerInv'
  BY <1>1, <1>3, <1>6 DEF ScanInv, PointerInv
<1>9. ScanOrder' /\ PartitionOrder'
  <2>1. \A k \in seg.a..Last : /\ k < seg.a + 1 \/ k > Last => k = seg.a
                              /\ ~(seg.a + 1 <= k /\ k < seg.a + 1) /\ ~(Last < k /\ k <= Last)
    BY <1>3
  <2> QED BY <1>1, <1>3, <1>6, <2>1 DEF ScanOrder, PartitionOrder
<1> QED BY <1>1, <1>5, <1>7, <1>8, <1>9 DEF OrderInv

\* The pointers of the partition, within the segment.
LEMMA Pointers ==
  ASSUME SortTypeOK, PointerInv, at \in {"left", "right"}
  PROVE  /\ seg.a \in Int /\ Last \in Int /\ Last' = seg'.a + seg'.n - 1
         /\ ptr4.pa \in Int /\ ptr4.pb \in Int /\ ptr4.pc \in Int /\ ptr4.pd \in Int
         /\ seg.a < ptr4.pa /\ ptr4.pa <= ptr4.pb /\ ptr4.pb <= Last + 1
         /\ seg.a <= ptr4.pc /\ ptr4.pc <= ptr4.pd /\ ptr4.pd <= Last
         /\ ptr4.pb <= ptr4.pc + 2 /\ (sane => ptr4.pb <= ptr4.pc + 1)
<1>1. /\ seg.a \in Int /\ Last \in Int
      /\ ptr4.pa \in Int /\ ptr4.pb \in Int /\ ptr4.pc \in Int /\ ptr4.pd \in Int
  BY Numbers
<1> QED BY <1>1 DEF PointerInv, Last

\* Pointers that move leave the others.
LEMMA PointersSet ==
  ASSUME NEW f \in [pa : Int, pb : Int, pc : Int, pd : Int], NEW x \in Int, NEW y \in Int
  PROVE  /\ [f EXCEPT !.pa = x, !.pb = y] = [pa |-> x, pb |-> y, pc |-> f.pc, pd |-> f.pd]
         /\ [f EXCEPT !.pd = x, !.pc = y] = [pa |-> f.pa, pb |-> f.pb, pc |-> y, pd |-> x]
         /\ [f EXCEPT !.pb = x, !.pc = y] = [pa |-> f.pa, pb |-> x, pc |-> y, pd |-> f.pd]
<1> DEFINE g == [f EXCEPT !.pa = x]
           h == [f EXCEPT !.pd = x]
           k == [f EXCEPT !.pb = x]
<1>1. /\ g = [pa |-> x, pb |-> f.pb, pc |-> f.pc, pd |-> f.pd]
      /\ h = [pa |-> f.pa, pb |-> f.pb, pc |-> f.pc, pd |-> x]
      /\ k = [pa |-> f.pa, pb |-> x, pc |-> f.pc, pd |-> f.pd]
  <2>1. g = [pa |-> x, pb |-> f.pb, pc |-> f.pc, pd |-> f.pd]
    OBVIOUS
  <2>2. h = [pa |-> f.pa, pb |-> f.pb, pc |-> f.pc, pd |-> x]
    OBVIOUS
  <2>3. k = [pa |-> f.pa, pb |-> x, pc |-> f.pc, pd |-> f.pd]
    OBVIOUS
  <2> QED BY <2>1, <2>2, <2>3
<1> HIDE DEF g, h, k
<1>2. [g EXCEPT !.pb = y] = [pa |-> x, pb |-> y, pc |-> f.pc, pd |-> f.pd]
  BY <1>1
<1>3. [h EXCEPT !.pc = y] = [pa |-> f.pa, pb |-> f.pb, pc |-> y, pd |-> x]
  BY <1>1
<1>4. [k EXCEPT !.pc = y] = [pa |-> f.pa, pb |-> x, pc |-> y, pd |-> f.pd]
  BY <1>1
<1> QED BY <1>2, <1>3, <1>4 DEF g, h, k

LEMMA LeftStep ==
  ASSUME BoundsInv, DepthInv, OrderInv, Left
  PROVE  BoundsInv' /\ DepthInv' /\ OrderInv'
<1> USE DEF BoundsInv
<1> DEFINE a == seg.a
           pa == ptr4.pa
           pb == ptr4.pb
           pc == ptr4.pc
           pd == ptr4.pd
<1>1. /\ at = "left" /\ at' = at /\ sane' = sane /\ seg' = seg /\ scan' = scan /\ stack' = stack
      /\ pb <= pc /\ seg.n >= Insertion /\ Last' = Last
  BY DEF Left, SegmentInv, Last
<1>2. PICK r \in Compare(pb, a) :
       /\ r <= 0
       /\ data' = IF r = 0 THEN Swapped(data, pa, pb) ELSE data
       /\ ptr4' = [ptr4 EXCEPT !.pa = IF r = 0 THEN @ + 1 ELSE @, !.pb = @ + 1]
  BY DEF Left
<1>3. /\ a \in Int /\ Last \in Int /\ pa \in Int /\ pb \in Int /\ pc \in Int /\ pd \in Int
      /\ a < pa /\ pa <= pb /\ pb <= Last + 1 /\ a <= pc /\ pc <= pd /\ pd <= Last
  BY <1>1, Pointers
<1>4. pa \in a..Last /\ pb \in a..Last /\ a \in a..Last
  BY <1>1, <1>3
<1>5. \A k \in a..Last : k \in Int /\ data[k] \in Int
  BY Inside
<1>6. /\ r \in {-1, 0, 1}
      /\ sane => (r < 0 <=> data[pb] < data[a]) /\ (r = 0 <=> data[pb] = data[a])
  <2>1. pb \in 1..Len(data) /\ a \in 1..Len(data)
    BY <1>4, Inside
  <2> HIDE DEF a, pb
  <2> QED BY <1>2, <2>1, Compared
<1>7. /\ ptr4' \in [pa : Int, pb : Int, pc : Int, pd : Int]
      /\ ptr4'.pa = IF r = 0 THEN pa + 1 ELSE pa
      /\ ptr4'.pb = pb + 1 /\ ptr4'.pc = pc /\ ptr4'.pd = pd
  <2>1. ptr4 \in [pa : Int, pb : Int, pc : Int, pd : Int]
    BY DEF SortTypeOK
  <2>2. ptr4' = [ptr4 EXCEPT !.pa = IF r = 0 THEN @ + 1 ELSE @, !.pb = @ + 1]
    BY <1>2
  <2> DEFINE x == IF r = 0 THEN pa + 1 ELSE pa
             y == pb + 1
  <2>3. ptr4' = [ptr4 EXCEPT !.pa = x, !.pb = y] /\ x \in Int /\ y \in Int
    BY <1>3, <2>2
  <2> HIDE DEF x, y
  <2>4. ptr4' = [pa |-> x, pb |-> y, pc |-> pc, pd |-> pd]
    BY ONLY <2>1, <2>3, PointersSet DEF pa, pb, pc, pd
  <2>5. ptr4' \in [pa : Int, pb : Int, pc : Int, pd : Int]
    BY <1>3, <2>3, <2>4
  <2> QED BY ONLY <2>4, <2>5 DEF x, y
<1>8. /\ data' \in Seq(Int) /\ Len(data') = Len(data)
      /\ \A k \in a..Last : data'[k] = IF r = 0 /\ k = pb THEN data[pa]
                                      ELSE IF r = 0 /\ k = pa THEN data[pb] ELSE data[k]
      /\ Disjoint /\ Separated => (Disjoint /\ Separated)'
  <2>1. CASE r = 0
    <3>1. data' = Swapped(data, pa, pb)
      BY <1>2, <2>1
    <3>2. SortTypeOK /\ SegmentInv /\ seg' = seg /\ stack' = stack
      BY <1>1
    <3>3. pa \in seg.a..Last /\ pb \in seg.a..Last
      BY <1>4
    <3> HIDE DEF pa, pb
    <3>4. /\ data' \in Seq(Int) /\ Len(data') = Len(data)
          /\ \A k \in seg.a..Last : data'[k] = IF k = pb THEN data[pa]
                                              ELSE IF k = pa THEN data[pb] ELSE data[k]
          /\ Disjoint /\ Separated => (Disjoint /\ Separated)'
      BY ONLY <3>1, <3>2, <3>3, SwapInSegment
    <3> QED BY <2>1, <3>4
  <2>2. CASE r # 0
    <3>1. data' = data
      BY <1>2, <2>2
    <3>2. Disjoint /\ Separated => (Disjoint /\ Separated)'
      BY <1>1, <3>1 DEF Disjoint, Separated, Pending
    <3> QED BY <2>2, <3>1, <3>2 DEF SortTypeOK
  <2> QED BY <2>1, <2>2
<1> HIDE DEF a, pa, pb, pc, pd
<1>9. SortTypeOK' /\ SegmentInv' /\ DepthInv'
  BY <1>1, <1>7, <1>8, SameSegments DEF SortTypeOK
<1>10. ScanInv' /\ PointerInv'
  BY <1>1, <1>3, <1>7 DEF ScanInv, PointerInv, a
<1>11. ASSUME sane PROVE ScanOrder' /\ PartitionOrder'
  <2>1. ASSUME NEW k \in a..Last
        PROVE  /\ k < pa \/ k > pd => data[k] = data[a]
               /\ pa <= k /\ k < pb => data[k] < data[a]
               /\ pc < k /\ k <= pd => data[k] > data[a]
    BY <1>1, <1>11 DEF OrderInv, PartitionOrder, a, pa, pb, pc, pd
  <2>2. data'[a] = data[a]
    BY <1>3, <1>4, <1>8
  <2>3. ASSUME NEW k \in a..Last
        PROVE  /\ k < ptr4'.pa \/ k > ptr4'.pd => data'[k] = data'[a]
               /\ ptr4'.pa <= k /\ k < ptr4'.pb => data'[k] < data'[a]
               /\ ptr4'.pc < k /\ k <= ptr4'.pd => data'[k] > data'[a]
    <3>1. CASE r = 0
      <4>1. data[pb] = data[a] /\ ptr4'.pa = pa + 1
        BY <1>6, <1>7, <1>11, <3>1
      <4>2. pa < pb => data[pa] < data[a]
        BY <1>3, <1>4, <2>1
      <4>3. k \in Int /\ (k < pa + 1 <=> k < pa \/ k = pa) /\ (k < pb + 1 <=> k < pb \/ k = pb)
            /\ (pa + 1 <= k <=> pa <= k /\ k # pa) /\ (k = pb \/ k = pa => k <= pc /\ k <= pd)
            /\ (k = pb => pa <= k)
        BY <1>1, <1>3, <1>5 DEF pb, pc
      <4>4. CASE k = pb
        BY <1>3, <1>7, <1>8, <2>2, <3>1, <4>1, <4>2, <4>3, <4>4
      <4>5. CASE k # pb /\ k = pa
        BY <1>3, <1>7, <1>8, <2>2, <3>1, <4>1, <4>3, <4>5
      <4>6. CASE k # pb /\ k # pa
        <5>1. data'[k] = data[k]
          BY <1>8, <4>6
        <5> QED BY <1>7, <2>1, <2>2, <4>1, <4>3, <4>6, <5>1
      <4> QED BY <4>4, <4>5, <4>6
    <3>2. CASE r # 0
      <4>1. data[pb] < data[a] /\ ptr4'.pa = pa /\ data'[k] = data[k]
        BY <1>2, <1>6, <1>7, <1>8, <1>11, <3>2
      <4>2. k \in Int /\ (k < pb + 1 <=> k < pb \/ k = pb)
        BY <1>3, <1>5
      <4> QED BY <1>7, <2>1, <2>2, <4>1, <4>2
    <3> QED BY <3>1, <3>2
  <2> QED BY <1>1, <2>3 DEF ScanOrder, PartitionOrder, a
<1> QED BY <1>1, <1>8, <1>9, <1>10, <1>11 DEF OrderInv

LEMMA LeftEndStep ==
  ASSUME BoundsInv, DepthInv, OrderInv, LeftEnd
  PROVE  BoundsInv' /\ DepthInv' /\ OrderInv'
<1> USE DEF BoundsInv
<1>1. /\ at = "left" /\ at' = "right" /\ sane' = sane /\ seg' = seg /\ scan' = scan
      /\ stack' = stack /\ data' = data /\ ptr4' = ptr4 /\ seg.n >= Insertion /\ Last' = Last
      /\ ptr4.pb <= ptr4.pc => \E r \in Compare(ptr4.pb, seg.a) : r > 0
  BY DEF LeftEnd, SegmentInv, Last
<1>2. SortTypeOK' /\ SegmentInv' /\ DepthInv'
  BY <1>1, SameSegments DEF SortTypeOK
<1>3. ScanInv' /\ PointerInv'
  BY <1>1 DEF ScanInv, PointerInv
<1>4. ASSUME sane PROVE ScanOrder' /\ PartitionOrder'
  <2>1. ASSUME ptr4.pb <= ptr4.pc PROVE data[ptr4.pb] > data[seg.a]
    <3>1. ptr4.pb \in seg.a..Last /\ seg.a \in seg.a..Last
      BY <1>1, <2>1, Pointers
    <3>2. ptr4.pb \in 1..Len(data) /\ seg.a \in 1..Len(data)
      BY <3>1, Inside
    <3> QED BY <1>1, <1>4, <2>1, <3>2, Compared
  <2> QED BY <1>1, <1>4, <2>1 DEF OrderInv, ScanOrder, PartitionOrder
<1>5. Disjoint /\ Separated => (Disjoint /\ Separated)'
  BY <1>1 DEF Disjoint, Separated, Pending
<1> QED BY <1>1, <1>2, <1>3, <1>4, <1>5 DEF OrderInv

LEMMA RightStep ==
  ASSUME BoundsInv, DepthInv, OrderInv, Right
  PROVE  BoundsInv' /\ DepthInv' /\ OrderInv'
<1> USE DEF BoundsInv
<1> DEFINE a == seg.a
           pa == ptr4.pa
           pb == ptr4.pb
           pc == ptr4.pc
           pd == ptr4.pd
<1>1. /\ at = "right" /\ at' = at /\ sane' = sane /\ seg' = seg /\ scan' = scan /\ stack' = stack
      /\ pb <= pc /\ seg.n >= Insertion /\ Last' = Last
  BY DEF Right, SegmentInv, Last
<1>2. PICK r \in Compare(pc, a) :
       /\ r >= 0
       /\ data' = IF r = 0 THEN Swapped(data, pc, pd) ELSE data
       /\ ptr4' = [ptr4 EXCEPT !.pd = IF r = 0 THEN @ - 1 ELSE @, !.pc = @ - 1]
  BY DEF Right
<1>3. /\ a \in Int /\ Last \in Int /\ pa \in Int /\ pb \in Int /\ pc \in Int /\ pd \in Int
      /\ a < pa /\ pa <= pb /\ pb <= Last + 1 /\ a <= pc /\ pc <= pd /\ pd <= Last
  BY <1>1, Pointers
<1>4. pc \in a..Last /\ pd \in a..Last /\ a \in a..Last /\ pb \in a..Last
  BY <1>1, <1>3
<1>5. \A k \in a..Last : k \in Int /\ data[k] \in Int
  BY Inside
<1>6. /\ r \in {-1, 0, 1}
      /\ sane => (r > 0 <=> data[pc] > data[a]) /\ (r = 0 <=> data[pc] = data[a])
  <2>1. pc \in 1..Len(data) /\ a \in 1..Len(data)
    BY <1>4, Inside
  <2> HIDE DEF a, pc
  <2> QED BY <1>2, <2>1, Compared
<1>7. /\ ptr4' \in [pa : Int, pb : Int, pc : Int, pd : Int]
      /\ ptr4'.pd = IF r = 0 THEN pd - 1 ELSE pd
      /\ ptr4'.pc = pc - 1 /\ ptr4'.pa = pa /\ ptr4'.pb = pb
  <2>1. ptr4 \in [pa : Int, pb : Int, pc : Int, pd : Int]
    BY DEF SortTypeOK
  <2>2. ptr4' = [ptr4 EXCEPT !.pd = IF r = 0 THEN @ - 1 ELSE @, !.pc = @ - 1]
    BY <1>2
  <2> DEFINE x == IF r = 0 THEN pd - 1 ELSE pd
             y == pc - 1
  <2>3. ptr4' = [ptr4 EXCEPT !.pd = x, !.pc = y] /\ x \in Int /\ y \in Int
    BY <1>3, <2>2
  <2> HIDE DEF x, y
  <2>4. ptr4' = [pa |-> pa, pb |-> pb, pc |-> y, pd |-> x]
    BY ONLY <2>1, <2>3, PointersSet DEF pa, pb, pc, pd
  <2>5. ptr4' \in [pa : Int, pb : Int, pc : Int, pd : Int]
    BY <1>3, <2>3, <2>4
  <2> QED BY ONLY <2>4, <2>5 DEF x, y
<1>8. /\ data' \in Seq(Int) /\ Len(data') = Len(data)
      /\ \A k \in a..Last : data'[k] = IF r = 0 /\ k = pd THEN data[pc]
                                      ELSE IF r = 0 /\ k = pc THEN data[pd] ELSE data[k]
      /\ Disjoint /\ Separated => (Disjoint /\ Separated)'
  <2>1. CASE r = 0
    <3>1. data' = Swapped(data, pc, pd)
      BY <1>2, <2>1
    <3>2. SortTypeOK /\ SegmentInv /\ seg' = seg /\ stack' = stack
      BY <1>1
    <3>3. pc \in seg.a..Last /\ pd \in seg.a..Last
      BY <1>4
    <3> HIDE DEF pc, pd
    <3>4. /\ data' \in Seq(Int) /\ Len(data') = Len(data)
          /\ \A k \in seg.a..Last : data'[k] = IF k = pd THEN data[pc]
                                              ELSE IF k = pc THEN data[pd] ELSE data[k]
          /\ Disjoint /\ Separated => (Disjoint /\ Separated)'
      BY ONLY <3>1, <3>2, <3>3, SwapInSegment
    <3> QED BY <2>1, <3>4
  <2>2. CASE r # 0
    <3>1. data' = data
      BY <1>2, <2>2
    <3>2. Disjoint /\ Separated => (Disjoint /\ Separated)'
      BY <1>1, <3>1 DEF Disjoint, Separated, Pending
    <3> QED BY <2>2, <3>1, <3>2 DEF SortTypeOK
  <2> QED BY <2>1, <2>2
<1>12. pb <= pc
  BY <1>1
<1> HIDE DEF a, pa, pb, pc, pd
<1>9. SortTypeOK' /\ SegmentInv' /\ DepthInv'
  BY <1>1, <1>7, <1>8, SameSegments DEF SortTypeOK
<1>10. ScanInv' /\ PointerInv'
  BY <1>1, <1>3, <1>7, <1>12 DEF ScanInv, PointerInv, a
<1>11. ASSUME sane PROVE ScanOrder' /\ PartitionOrder'
  <2>1. ASSUME NEW k \in a..Last
        PROVE  /\ k < pa \/ k > pd => data[k] = data[a]
               /\ pa <= k /\ k < pb => data[k] < data[a]
               /\ pc < k /\ k <= pd => data[k] > data[a]
    BY <1>1, <1>11 DEF OrderInv, PartitionOrder, a, pa, pb, pc, pd
  <2>2. data'[a] = data[a]
    BY <1>3, <1>4, <1>8, <1>12
  <2>3. ASSUME NEW k \in a..Last
        PROVE  /\ k < ptr4'.pa \/ k > ptr4'.pd => data'[k] = data'[a]
               /\ ptr4'.pa <= k /\ k < ptr4'.pb => data'[k] < data'[a]
               /\ ptr4'.pc < k /\ k <= ptr4'.pd => data'[k] > data'[a]
    <3>1. CASE r = 0
      <4>1. data[pc] = data[a] /\ ptr4'.pd = pd - 1
        BY <1>6, <1>7, <1>11, <3>1
      <4>2. pc < pd => data[pd] > data[a]
        BY <1>3, <1>4, <2>1
      <4>3. k \in Int /\ (k > pd - 1 <=> k > pd \/ k = pd) /\ (pc - 1 < k <=> pc < k \/ k = pc)
            /\ (k <= pd - 1 <=> k <= pd /\ k # pd) /\ (k = pc \/ k = pd => k >= pb /\ k >= pa)
            /\ (k = pc => k <= pd)
        BY <1>3, <1>5, <1>12
      <4>4. CASE k = pd
        BY <1>3, <1>7, <1>8, <2>2, <3>1, <4>1, <4>2, <4>3, <4>4
      <4>5. CASE k # pd /\ k = pc
        BY <1>3, <1>7, <1>8, <2>2, <3>1, <4>1, <4>2, <4>3, <4>5
      <4>6. CASE k # pc /\ k # pd
        <5>1. data'[k] = data[k]
          BY <1>8, <4>6
        <5> QED BY <1>7, <2>1, <2>2, <4>1, <4>3, <4>6, <5>1
      <4> QED BY <4>4, <4>5, <4>6
    <3>2. CASE r # 0
      <4>1. data[pc] > data[a] /\ ptr4'.pd = pd /\ data'[k] = data[k]
        BY <1>2, <1>6, <1>7, <1>8, <1>11, <3>2
      <4>2. k \in Int /\ (pc - 1 < k <=> pc < k \/ k = pc)
        BY <1>3, <1>5
      <4> QED BY <1>7, <2>1, <2>2, <4>1, <4>2
    <3> QED BY <3>1, <3>2
  <2>4. ASSUME ptr4'.pb <= ptr4'.pc PROVE data'[pb] > data'[a]
    <3>1. pb < pc /\ pb # pd
      BY <1>3, <1>7, <2>4
    <3>2. data[pb] > data[a]
      BY <1>1, <1>11 DEF OrderInv, PartitionOrder, a, pb, pc
    <3> QED BY <1>3, <1>4, <1>8, <2>2, <3>1, <3>2
  <2> QED BY <1>1, <1>7, <2>3, <2>4 DEF ScanOrder, PartitionOrder, a
<1> QED BY <1>1, <1>8, <1>9, <1>10, <1>11 DEF OrderInv

LEMMA ExchangeStep ==
  ASSUME BoundsInv, DepthInv, OrderInv, Exchange
  PROVE  BoundsInv' /\ DepthInv' /\ OrderInv'
<1> USE DEF BoundsInv
<1> DEFINE a == seg.a
           pa == ptr4.pa
           pb == ptr4.pb
           pc == ptr4.pc
           pd == ptr4.pd
<1>1. /\ at = "right" /\ at' = "left" /\ sane' = sane /\ seg' = seg /\ scan' = scan /\ stack' = stack
      /\ seg.n >= Insertion /\ Last' = Last /\ data' = Swapped(data, pb, pc)
  BY DEF Exchange, SegmentInv, Last
<1>2. PICK r \in Compare(pc, a) : r < 0
  BY DEF Exchange
<1>3. /\ a \in Int /\ Last \in Int /\ pa \in Int /\ pb \in Int /\ pc \in Int /\ pd \in Int
      /\ a < pa /\ pa <= pb /\ pb <= Last + 1 /\ a <= pc /\ pc <= pd /\ pd <= Last
      /\ pb <= pc
  BY <1>1, Pointers DEF Exchange
<1>4. pc \in a..Last /\ a \in a..Last /\ pb \in a..Last
  BY <1>3
<1>5. \A k \in a..Last : k \in Int /\ data[k] \in Int
  BY Inside
<1>6. sane => data[pc] < data[a]
  <2>1. pc \in 1..Len(data) /\ a \in 1..Len(data)
    BY <1>4, Inside
  <2> HIDE DEF a, pc
  <2> QED BY <1>2, <2>1, Compared
<1>7. /\ ptr4' \in [pa : Int, pb : Int, pc : Int, pd : Int]
      /\ ptr4'.pd = pd /\ ptr4'.pc = pc - 1 /\ ptr4'.pa = pa /\ ptr4'.pb = pb + 1
  <2>1. ptr4 \in [pa : Int, pb : Int, pc : Int, pd : Int]
    BY DEF SortTypeOK
  <2>2. ptr4' = [ptr4 EXCEPT !.pb = @ + 1, !.pc = @ - 1]
    BY DEF Exchange
  <2> DEFINE x == pb + 1
             y == pc - 1
  <2>3. ptr4' = [ptr4 EXCEPT !.pb = x, !.pc = y] /\ x \in Int /\ y \in Int
    BY <1>3, <2>2
  <2> HIDE DEF x, y
  <2>4. ptr4' = [pa |-> pa, pb |-> x, pc |-> y, pd |-> pd]
    BY ONLY <2>1, <2>3, PointersSet DEF pa, pb, pc, pd
  <2>5. ptr4' \in [pa : Int, pb : Int, pc : Int, pd : Int]
    BY <1>3, <2>3, <2>4
  <2> QED BY ONLY <2>4, <2>5 DEF x, y
<1>8. /\ data' \in Seq(Int) /\ Len(data') = Len(data)
      /\ \A k \in a..Last : data'[k] = IF k = pc THEN data[pb] ELSE IF k = pb THEN data[pc] ELSE data[k]
      /\ Disjoint /\ Separated => (Disjoint /\ Separated)'
  <2>1. SortTypeOK /\ SegmentInv /\ seg' = seg /\ stack' = stack /\ data' = Swapped(data, pb, pc)
    BY <1>1
  <2>2. pb \in seg.a..Last /\ pc \in seg.a..Last
    BY <1>4
  <2> HIDE DEF pb, pc
  <2> QED BY ONLY <2>1, <2>2, SwapInSegment DEF a
<1>9. sane => data[pb] > data[a]
  BY <1>1, <1>3 DEF OrderInv, PartitionOrder
<1>10. sane => pb < pc
  <2> HIDE DEF a, pb, pc
  <2> QED BY <1>3, <1>4, <1>5, <1>6, <1>9
<1>11. ASSUME sane, NEW k \in a..Last
       PROVE  /\ k < pa \/ k > pd => data[k] = data[a]
              /\ pa <= k /\ k < pb => data[k] < data[a]
              /\ pc < k /\ k <= pd => data[k] > data[a]
  BY <1>1, <1>11 DEF OrderInv, PartitionOrder, a, pa, pb, pc, pd
<1> HIDE DEF a, pa, pb, pc, pd
<1>12. SortTypeOK' /\ SegmentInv' /\ DepthInv'
  BY <1>1, <1>7, <1>8, SameSegments DEF SortTypeOK
<1>13. ScanInv' /\ PointerInv'
  <2>1. pb + 1 <= Last + 1 /\ a <= pc - 1 /\ pc - 1 <= pd /\ pa <= pb + 1 /\ pb + 1 <= pc - 1 + 2
    BY <1>3
  <2>2. sane => pb + 1 <= pc - 1 + 1
    BY <1>3, <1>10
  <2> QED BY <1>1, <1>3, <1>7, <2>1, <2>2 DEF ScanInv, PointerInv, a
<1>14. ASSUME sane PROVE ScanOrder' /\ PartitionOrder'
  <2>1. data'[a] = data[a]
    BY <1>3, <1>4, <1>8
  <2>2. ASSUME NEW k \in a..Last
        PROVE  /\ k < pa \/ k > pd => data'[k] = data'[a]
               /\ pa <= k /\ k < pb + 1 => data'[k] < data'[a]
               /\ pc - 1 < k /\ k <= pd => data'[k] > data'[a]
    <3>1. k \in Int /\ (k < pb + 1 <=> k < pb \/ k = pb) /\ (pc - 1 < k <=> pc < k \/ k = pc)
          /\ (k = pb \/ k = pc => pa <= k /\ k <= pd) /\ pb < pc
      BY <1>3, <1>5, <1>10, <1>14
    <3>2. CASE k = pb
      BY <1>3, <1>6, <1>8, <1>14, <2>1, <3>1, <3>2
    <3>3. CASE k = pc
      BY <1>3, <1>8, <1>9, <1>14, <2>1, <3>1, <3>3
    <3>4. CASE k # pb /\ k # pc
      BY <1>8, <1>11, <1>14, <2>1, <3>1, <3>4
    <3> QED BY <3>2, <3>3, <3>4
  <2> QED BY <1>1, <1>7, <2>2 DEF ScanOrder, PartitionOrder, a
<1> QED BY <1>1, <1>8, <1>12, <1>13, <1>14 DEF OrderInv

\* Half of a segment, twice as deep.
LEMMA Products ==
  ASSUME NEW x \in Nat, NEW n \in Nat, NEW t \in Nat, NEW l \in Nat, n * t <= l
  PROVE  /\ x <= n => x * t <= l
         /\ 2 * x <= n => x * (2 * t) <= l
<1>1. \A y \in Nat : y <= n => y * t <= l
  <2> SUFFICES ASSUME NEW y \in Nat, y <= n PROVE y * t <= l
    OBVIOUS
  <2>1. PICK e \in Nat : n = y + e
    <3>1. n - y \in Nat /\ n = y + (n - y)
      OBVIOUS
    <3> QED BY <3>1
  <2>2. n * t = y * t + e * t /\ y * t \in Nat /\ e * t \in Nat
    BY <2>1
  <2> QED BY <2>2
<1>2. x * (2 * t) = (2 * x) * t /\ 2 * x \in Nat
  OBVIOUS
<1> QED BY <1>1, <1>2

\* Gathering the equal elements stays in the array, also when the pointers passed
\* each other by two and the blocks share an element.
LEMMA GatheredInBounds ==
  ASSUME SortTypeOK, SegmentInv, PointerInv, at = "right"
  PROVE  Gathered \in Seq(Int) /\ Len(Gathered) = Len(data)
<1> DEFINE a == seg.a
           pa == ptr4.pa
           pb == ptr4.pb
           pc == ptr4.pc
           pd == ptr4.pd
           d1 == Lesser(pa - a, pb - pa)
           d2 == Lesser(pd - pc, Last - pd)
           i2 == Last + 1 - d2
           i1 == pb - d1
           e == BlockSwapped(data, a, i1, d1)
<1>1. /\ a \in Int /\ Last \in Int /\ pa \in Int /\ pb \in Int /\ pc \in Int /\ pd \in Int
      /\ a < pa /\ pa <= pb /\ pb <= Last + 1 /\ a <= pc /\ pc <= pd /\ pd <= Last /\ pb <= pc + 2
  BY Pointers
<1>2. data \in Seq(Int) /\ Len(data) \in Int /\ Last <= Len(data) /\ a >= 1
  BY Inside DEF SortTypeOK
<1>3. /\ d1 \in Nat /\ d1 <= pa - a /\ d1 <= pb - pa
      /\ d2 \in Nat /\ d2 <= pd - pc /\ d2 <= Last - pd
  <2> HIDE DEF a, pa, pb, pc, pd
  <2> QED BY <1>1 DEF Lesser
<1> HIDE DEF a, pa, pb, pc, pd, d1, d2
<1>4. i1 \in Int /\ i2 \in Int
  BY <1>1, <1>3
<1>5. d1 > 0 => a >= 1 /\ i1 >= 1 /\ a + d1 - 1 <= Len(data) /\ i1 + d1 - 1 <= Len(data)
  BY <1>1, <1>2, <1>3
<1>6. d2 > 0 => pb >= 1 /\ i2 >= 1 /\ pb + d2 - 1 <= Len(data) /\ i2 + d2 - 1 <= Len(data)
  BY <1>1, <1>2, <1>3
<1> HIDE DEF i1, i2
<1>7. e \in Seq(Int) /\ Len(e) = Len(data)
  <2>1. PICK f : OneByOne(f, data, a, i1, d1)
    BY ONLY <1>1, <1>2, <1>3, <1>4, <1>5, BlockSwappedIs
  <2> QED BY <1>3, <2>1 DEF OneByOne
<1> HIDE DEF e
<1>8. BlockSwapped(e, pb, i2, d2) \in Seq(Int) /\ Len(BlockSwapped(e, pb, i2, d2)) = Len(data)
  <2>1. d2 > 0 => pb >= 1 /\ i2 >= 1 /\ pb + d2 - 1 <= Len(e) /\ i2 + d2 - 1 <= Len(e)
    BY <1>6, <1>7
  <2>2. PICK f : OneByOne(f, e, pb, i2, d2)
    BY ONLY <1>1, <1>3, <1>4, <1>7, <2>1, BlockSwappedIs
  <2> QED BY <1>3, <1>7, <2>2 DEF OneByOne
<1>9. Gathered = BlockSwapped(e, pb, i2, d2)
  BY DEF Gathered, e, i1, i2, d1, d2, a, pa, pb, pc, pd
<1> QED BY <1>8, <1>9

\* The segment, taken apart: a call for the shorter part, the longer one waits.
Parted(first, then) ==
  /\ stack' = Append(stack, then)
  /\ IF first.n > 1 THEN Loop(first) ELSE at' = "return" /\ seg' = first /\ UNCHANGED scan

\* The lesser elements are before the greater ones, the equal ones between.
LEMMA Parts ==
  ASSUME SortTypeOK, SegmentInv, PointerInv, EndPartition
  PROVE  \E less, greater \in Segments :
           /\ less.a = seg.a /\ less.n = ptr4.pb - ptr4.pa
           /\ greater.a = Last + 1 - greater.n /\ greater.n = ptr4.pd - ptr4.pc
           /\ less.a + less.n <= greater.a
           /\ \/ less.n <= greater.n /\ Parted(less, greater)
              \/ less.n > greater.n /\ Parted(greater, less)
<1> DEFINE less == [a |-> seg.a, n |-> ptr4.pb - ptr4.pa]
           greater == [a |-> Last + 1 - (ptr4.pd - ptr4.pc), n |-> ptr4.pd - ptr4.pc]
<1>1. at = "right" /\ Recurse(less, greater)
  BY DEF EndPartition
<1>2. /\ seg.a \in Int /\ Last \in Int /\ seg.a >= 1
      /\ ptr4.pa \in Int /\ ptr4.pb \in Int /\ ptr4.pc \in Int /\ ptr4.pd \in Int
      /\ seg.a < ptr4.pa /\ ptr4.pa <= ptr4.pb /\ ptr4.pc <= ptr4.pd /\ ptr4.pd <= Last
      /\ ptr4.pb <= ptr4.pc + 2
  BY <1>1, Pointers, Inside
<1>3. /\ ptr4.pb - ptr4.pa \in Nat /\ ptr4.pd - ptr4.pc \in Nat
      /\ Last + 1 - (ptr4.pd - ptr4.pc) \in Nat \ {0} /\ seg.a \in Nat \ {0}
      /\ seg.a + (ptr4.pb - ptr4.pa) <= Last + 1 - (ptr4.pd - ptr4.pc)
  BY <1>2
<1>4. less \in Segments /\ greater \in Segments
  BY <1>3 DEF Segments
<1>5. \/ less.n <= greater.n /\ Parted(less, greater)
      \/ less.n > greater.n /\ Parted(greater, less)
  <2>1. less.n \in Int /\ greater.n \in Int
    BY <1>3
  <2> HIDE DEF less, greater
  <2> QED BY <1>1, <2>1 DEF Recurse, Parted
<1>6. /\ less.a = seg.a /\ less.n = ptr4.pb - ptr4.pa
      /\ greater.a = Last + 1 - greater.n /\ greater.n = ptr4.pd - ptr4.pc
      /\ less.a + less.n <= greater.a
  BY <1>3
<1> HIDE DEF less, greater
<1> QED BY <1>4, <1>5, <1>6

LEMMA PartedBounds ==
  ASSUME BoundsInv, DepthInv, NEW first \in Segments, NEW then \in Segments, Parted(first, then),
         2 * first.n <= seg.n, then.n <= seg.n, first.a + first.n - 1 <= Last,
         then.a + then.n - 1 <= Last,
         data' \in Seq(Int), Len(data') = Len(data), sane' = sane, ptr4' = ptr4
  PROVE  BoundsInv' /\ DepthInv' /\ ScanOrder' /\ PartitionOrder' /\ seg' = first
<1> USE DEF BoundsInv
<1>1. /\ first.a \in Nat /\ first.n \in Nat /\ then.a \in Nat /\ then.n \in Nat
  BY DEF Segments
<1>2. /\ seg' = first /\ at' \in {"insertion", "presorted", "return"}
      /\ at' = "presorted" => first.n >= Insertion
      /\ at' = "return" => first.n <= 1
      /\ scan' \in [pm : Int, pl : Int]
      /\ ScanInv' /\ PointerInv' /\ ScanOrder' /\ PartitionOrder'
  BY Entered DEF Parted
<1>3. /\ stack' \in Seq(Segments) /\ Len(stack') = Len(stack) + 1 /\ Len(stack) \in Nat
      /\ stack'[Len(stack) + 1] = then
      /\ \A k \in 1..Len(stack) : stack'[k] = stack[k]
      /\ DOMAIN stack' = 1..Len(stack) + 1 /\ DOMAIN stack = 1..Len(stack)
  <2>1. stack \in Seq(Segments) /\ stack' = Append(stack, then)
    BY DEF Parted, SortTypeOK
  <2> QED BY <2>1
<1>4. \A k \in 1..Len(stack) + 1 : k \in 1..Len(stack) \/ k = Len(stack) + 1
  BY <1>3
<1>5. SortTypeOK'
  BY <1>2, <1>3 DEF SortTypeOK
<1>6. SegmentInv'
  <2>1. Last <= Len(data) /\ Len(data) \in Int /\ Last \in Int
    BY Inside, Numbers
  <2>2. first.a + first.n - 1 <= Len(data) /\ then.a + then.n - 1 <= Len(data)
    BY <1>1, <2>1
  <2>3. \A k \in DOMAIN stack' : stack'[k].a + stack'[k].n - 1 <= Len(data)
    BY <1>3, <1>4, <2>2 DEF SegmentInv, Within
  <2> QED BY <1>2, <2>2, <2>3 DEF SegmentInv, Within
<1>7. DepthInv'
  <2> DEFINE t == TwoTo(Len(stack))
  <2>1. t \in Nat /\ TwoTo(Len(stack) + 1) = 2 * t
    BY <1>3, TwoToValues
  <2>2. seg.n \in Nat /\ Len(data) \in Nat /\ seg.n * t <= Len(data)
    BY Numbers DEF DepthInv
  <2> HIDE DEF t
  <2>3. first.n * (2 * t) <= Len(data) /\ then.n * t <= Len(data)
    BY <1>1, <2>1, <2>2, Products
  <2>4. seg'.n * TwoTo(Len(stack')) <= Len(data')
    BY <1>2, <1>3, <2>1, <2>3
  <2>5. ASSUME NEW k \in DOMAIN stack' PROVE stack'[k].n * TwoTo(k - 1) <= Len(data')
    <3>1. CASE k \in 1..Len(stack)
      BY <1>3, <3>1 DEF DepthInv
    <3>2. CASE k = Len(stack) + 1
      <4>1. k - 1 = Len(stack)
        BY <1>3, <3>2
      <4> QED BY <1>3, <2>3, <3>2, <4>1 DEF t
    <3> QED BY <1>3, <1>4, <3>1, <3>2
  <2> QED BY <2>4, <2>5 DEF DepthInv
<1> QED BY <1>2, <1>5, <1>6, <1>7

\* What is apart from a segment is apart from its parts.
LEMMA ApartInside ==
  ASSUME NEW s \in Segments, NEW t \in Segments, NEW u \in Segments, Apart(s, u),
         t.a >= s.a, t.a + t.n - 1 <= s.a + s.n - 1
  PROVE  Apart(t, u) /\ Apart(u, t)
<1>1. /\ s.a \in Int /\ s.n \in Int /\ t.a \in Int /\ t.n \in Int /\ u.a \in Int /\ u.n \in Int
  BY DEF Segments
<1>2. t.a + t.n <= s.a + s.n
  BY <1>1
<1> QED BY <1>1, <1>2 DEF Apart

\* Two parts of the segment, with the elements between in order with all others.
LEMMA PartedOrder ==
  ASSUME BoundsInv, Disjoint, NEW first \in Segments, NEW then \in Segments, Parted(first, then),
         seg' = first, Apart(first, then),
         first.a >= seg.a, then.a >= seg.a, first.a + first.n - 1 <= Last, then.a + then.n - 1 <= Last,
         Len(data') = Len(data),
         \A i, j \in 1..Len(data) : i < j => Pending(i, j) \/ data'[i] <= data'[j],
         \A i, j \in seg.a..Last : i < j => \/ In(first, i) /\ In(first, j)
                                            \/ In(then, i) /\ In(then, j)
                                            \/ data'[i] <= data'[j]
  PROVE  Disjoint' /\ Separated'
<1> USE DEF BoundsInv
<1>1. first.a \in Int /\ first.n \in Int /\ then.a \in Int /\ then.n \in Int
  BY DEF Segments
<1>2. seg.a \in Int /\ seg.n \in Int /\ Last = seg.a + seg.n - 1 /\ Len(data) \in Nat
  BY Numbers
<1>3. /\ stack'[Len(stack) + 1] = then /\ Len(stack) \in Nat
      /\ \A k \in 1..Len(stack) : stack'[k] = stack[k]
      /\ DOMAIN stack' = 1..Len(stack) + 1 /\ DOMAIN stack = 1..Len(stack)
  <2>1. stack \in Seq(Segments) /\ stack' = Append(stack, then)
    BY DEF Parted, SortTypeOK
  <2> QED BY <2>1
<1>4. \A k \in 1..Len(stack) + 1 : k \in 1..Len(stack) \/ k = Len(stack) + 1
  BY <1>3
<1>5. /\ \A k \in 1..Len(stack) : k \in DOMAIN stack' /\ stack'[k] = stack[k]
      /\ Len(stack) + 1 \in DOMAIN stack'
  BY <1>3
<1>6. ASSUME NEW k \in 1..Len(stack)
      PROVE  /\ Apart(first, stack[k]) /\ Apart(then, stack[k])
             /\ Apart(stack[k], first) /\ Apart(stack[k], then)
  <2>1. stack[k] \in Segments /\ seg \in Segments
    BY Numbers DEF SortTypeOK
  <2>2. Apart(seg, stack[k])
    BY <1>3 DEF Disjoint
  <2>3. /\ first.a + first.n - 1 <= seg.a + seg.n - 1 /\ then.a + then.n - 1 <= seg.a + seg.n - 1
    BY <1>2
  <2> QED BY <2>1, <2>2, <2>3, ApartInside
<1>7. Disjoint'
  <2>1. \A k \in DOMAIN stack' : Apart(first, stack'[k])
    BY <1>3, <1>4, <1>6
  <2>2. ASSUME NEW k \in DOMAIN stack', NEW l \in DOMAIN stack', k # l
        PROVE  Apart(stack'[k], stack'[l])
    <3>1. CASE k \in 1..Len(stack) /\ l \in 1..Len(stack)
      BY <1>3, <2>2, <3>1 DEF Disjoint
    <3>2. CASE k \in 1..Len(stack) /\ l = Len(stack) + 1
      BY <1>3, <1>6, <3>2
    <3>3. CASE k = Len(stack) + 1 /\ l \in 1..Len(stack)
      BY <1>3, <1>6, <3>3
    <3> QED BY <1>3, <1>4, <2>2, <3>1, <3>2, <3>3
  <2> QED BY <2>1, <2>2 DEF Disjoint, Apart
<1>8. Separated'
  <2> SUFFICES ASSUME NEW i \in 1..Len(data), NEW j \in 1..Len(data), i < j, ~(data'[i] <= data'[j])
               PROVE  Pending(i, j)'
    BY DEF Separated
  <2>1. Pending(i, j)
    OBVIOUS
  <2>2. CASE In(seg, i) /\ In(seg, j)
    <3>1. i \in seg.a..Last /\ j \in seg.a..Last
      BY <1>2, <2>2 DEF In
    <3>2. (In(first, i) /\ In(first, j)) \/ (In(then, i) /\ In(then, j))
      BY <3>1
    <3>3. seg' = first /\ stack'[Len(stack) + 1] = then /\ Len(stack) + 1 \in DOMAIN stack'
      BY <1>3, <1>5
    <3> QED BY <3>2, <3>3 DEF Pending, In
  <2>3. CASE ~(In(seg, i) /\ In(seg, j))
    <3>1. PICK k \in DOMAIN stack : In(stack[k], i) /\ In(stack[k], j)
      BY <2>1, <2>3 DEF Pending
    <3>2. k \in DOMAIN stack' /\ stack'[k] = stack[k]
      BY <1>3, <1>5
    <3> QED BY <3>1, <3>2 DEF Pending, In
  <2> QED BY <2>2, <2>3
<1> QED BY <1>7, <1>8

\* What Gathered leaves: lesser elements, equal ones, greater ones.
LEMMA GatheredInOrder ==
  ASSUME BoundsInv, OrderInv, sane, at = "right", ptr4.pb > ptr4.pc
  PROVE  /\ \A k \in 1..Len(data) : ~In(seg, k) => Gathered[k] = data[k]
         /\ \A k \in 1..Len(data) : In(seg, k) => \E m \in seg.a..Last : Gathered[k] = data[m]
         /\ \A k \in seg.a..Last :
              LET less == seg.a + (ptr4.pb - ptr4.pa)
                  greater == Last + 1 - (ptr4.pd - ptr4.pc)
              IN  /\ k < less => Gathered[k] < data[seg.a]
                  /\ less <= k /\ k < greater => Gathered[k] = data[seg.a]
                  /\ greater <= k => Gathered[k] > data[seg.a]
<1> USE DEF BoundsInv
<1> DEFINE a == seg.a
           pa == ptr4.pa
           pb == ptr4.pb
           pc == ptr4.pc
           pd == ptr4.pd
           d1 == Lesser(pa - a, pb - pa)
           d2 == Lesser(pd - pc, Last - pd)
           g == BlockSwapped(BlockSwapped(data, a, pb - d1, d1), pb, Last + 1 - d2, d2)
           less == pb - pa
           greater == pd - pc
<1>1. /\ a \in Int /\ Last \in Int /\ pa \in Int /\ pb \in Int /\ pc \in Int /\ pd \in Int
      /\ a < pa /\ pa <= pb /\ pb = pc + 1 /\ a <= pc /\ pc <= pd /\ pd <= Last
  BY Pointers
<1>2. data \in Seq(Int) /\ Len(data) \in Int /\ Last <= Len(data) /\ a >= 1 /\ a \in Nat
  BY Inside, Numbers DEF SortTypeOK
<1>3. Gathered = g
  BY DEF Gathered
<1>4. ASSUME NEW k \in a..Last
      PROVE  /\ k < pa \/ k > pd => data[k] = data[a]
             /\ pa <= k /\ k < pb => data[k] < data[a]
             /\ pc < k /\ k <= pd => data[k] > data[a]
  BY DEF OrderInv, PartitionOrder
<1>5. \A k \in 1..Len(data) :
        /\ k < a \/ k > Last => g[k] = data[k]
        /\ a <= k /\ k < a + less => \E m \in pa..pb - 1 : g[k] = data[m]
        /\ a + less <= k /\ k < pb => \E m \in a..pa - 1 : g[k] = data[m]
        /\ pb <= k /\ k <= Last - greater => \E m \in pd + 1..Last : g[k] = data[m]
        /\ Last - greater < k /\ k <= Last => \E m \in pc + 1..pd : g[k] = data[m]
  <2>1. g = GatheredOf(data, a, pa, pb, pc, pd, Last)
    BY DEF GatheredOf
  <2> HIDE DEF a, pa, pb, pc, pd, g
  <2>2. TakenFrom(g, data, a, pa, pb, pc, pd, Last)
    BY ONLY <1>1, <1>2, <2>1, GatheredIs
  <2> QED BY <2>2 DEF TakenFrom
<1>6. \A k \in 1..Len(data) : In(seg, k) <=> ~(k < a \/ k > Last)
  BY <1>1, Numbers DEF In
<1>7. \A k \in a..Last : k \in 1..Len(data) /\ k \in Int /\ data[k] \in Int
  BY Inside
<1> HIDE DEF a, pa, pb, pc, pd, g
<1>8. ASSUME NEW k \in a..Last
      PROVE  /\ \E m \in a..Last : g[k] = data[m]
             /\ k < a + less => g[k] < data[a]
             /\ a + less <= k /\ k < Last + 1 - greater => g[k] = data[a]
             /\ Last + 1 - greater <= k => g[k] > data[a]
  <2>0. k \in 1..Len(data) /\ k \in Int /\ less \in Int /\ greater \in Int /\ a <= k /\ k <= Last
    BY <1>1, <1>7
  <2>1. CASE k < a + less
    <3>1. PICK m \in pa..pb - 1 : g[k] = data[m]
      BY <1>5, <2>0, <2>1
    <3>2. m \in a..Last /\ pa <= m /\ m < pb /\ ~(a + less <= k) /\ ~(Last + 1 - greater <= k)
      BY <1>1, <2>0, <2>1
    <3> QED BY <1>4, <2>1, <3>1, <3>2
  <2>2. CASE a + less <= k /\ k < pb
    <3>1. PICK m \in a..pa - 1 : g[k] = data[m]
      BY <1>5, <2>0, <2>2
    <3>2. m \in a..Last /\ m < pa /\ ~(k < a + less) /\ ~(Last + 1 - greater <= k)
      BY <1>1, <2>0, <2>2
    <3> QED BY <1>4, <2>2, <3>1, <3>2
  <2>3. CASE pb <= k /\ k < Last + 1 - greater
    <3>1. PICK m \in pd + 1..Last : g[k] = data[m]
      <4>1. k <= Last - greater
        BY <1>1, <2>0, <2>3
      <4> QED BY <1>5, <2>0, <2>3, <4>1
    <3>2. m \in a..Last /\ m > pd /\ ~(k < a + less) /\ ~(Last + 1 - greater <= k)
      BY <1>1, <2>0, <2>3
    <3> QED BY <1>4, <2>3, <3>1, <3>2
  <2>4. CASE Last + 1 - greater <= k
    <3>1. PICK m \in pc + 1..pd : g[k] = data[m]
      <4>1. Last - greater < k
        BY <1>1, <2>0, <2>4
      <4> QED BY <1>5, <2>0, <2>4, <4>1
    <3>2. m \in a..Last /\ pc < m /\ m <= pd /\ ~(k < a + less) /\ ~(k < Last + 1 - greater)
      BY <1>1, <2>0, <2>4
    <3> QED BY <1>4, <2>4, <3>1, <3>2
  <2> QED BY <1>1, <2>0, <2>1, <2>2, <2>3, <2>4
<1>9. \A k \in 1..Len(data) : ~In(seg, k) => g[k] = data[k]
  BY <1>5, <1>6
<1>10. \A k \in 1..Len(data) : In(seg, k) => \E m \in a..Last : g[k] = data[m]
  <2>1. \A k \in 1..Len(data) : In(seg, k) => k \in a..Last
    BY <1>1, <1>6
  <2> QED BY <1>8, <2>1
<1> QED BY <1>3, <1>8, <1>9, <1>10 DEF a, pa, pb, pc, pd

LEMMA EndPartitionStep ==
  ASSUME BoundsInv, DepthInv, OrderInv, EndPartition
  PROVE  BoundsInv' /\ DepthInv' /\ OrderInv'
<1> USE DEF BoundsInv
<1>1. at = "right" /\ ptr4.pb > ptr4.pc /\ data' = Gathered /\ sane' = sane /\ ptr4' = ptr4
  BY DEF EndPartition
<1>2. data' \in Seq(Int) /\ Len(data') = Len(data)
  BY <1>1, GatheredInBounds
<1>3. PICK less \in Segments, greater \in Segments :
        /\ less.a = seg.a /\ less.n = ptr4.pb - ptr4.pa
        /\ greater.a = Last + 1 - greater.n /\ greater.n = ptr4.pd - ptr4.pc
        /\ less.a + less.n <= greater.a
        /\ \/ less.n <= greater.n /\ Parted(less, greater)
           \/ less.n > greater.n /\ Parted(greater, less)
  BY Parts
<1>4. /\ less.a \in Nat /\ less.n \in Nat /\ greater.a \in Nat /\ greater.n \in Nat
      /\ seg.a \in Nat /\ seg.n \in Nat /\ Last \in Int /\ Last = seg.a + seg.n - 1
  BY Numbers DEF Segments
<1>5. /\ less.n + greater.n <= seg.n /\ less.a >= seg.a /\ less.a + less.n - 1 <= Last
      /\ greater.a >= seg.a /\ greater.a + greater.n - 1 <= Last
  BY <1>3, <1>4
<1>6. Apart(less, greater) /\ Apart(greater, less)
  BY <1>3 DEF Apart
<1>7. ASSUME sane
      PROVE  /\ Disjoint
             /\ \A i, j \in 1..Len(data) : i < j => Pending(i, j) \/ data'[i] <= data'[j]
             /\ \A i, j \in seg.a..Last : i < j => \/ In(less, i) /\ In(less, j)
                                                   \/ In(greater, i) /\ In(greater, j)
                                                   \/ data'[i] <= data'[j]
  <2>1. /\ \A k \in 1..Len(data) : ~In(seg, k) => data'[k] = data[k]
        /\ \A k \in 1..Len(data) : In(seg, k) => \E m \in seg.a..Last : data'[k] = data[m]
    BY <1>1, <1>7, GatheredInOrder
  <2>2. Disjoint /\ Separated
    BY <1>7 DEF OrderInv
  <2>3. \A i, j \in 1..Len(data) : i < j => Pending(i, j) \/ data'[i] <= data'[j]
    BY <1>2, <2>1, <2>2, Rearranged
  <2>4. \A k \in seg.a..Last :
          /\ k < less.a + less.n => data'[k] < data[seg.a]
          /\ less.a + less.n <= k /\ k < greater.a => data'[k] = data[seg.a]
          /\ greater.a <= k => data'[k] > data[seg.a]
    BY <1>1, <1>3, <1>7, GatheredInOrder
  <2>5. ASSUME NEW i \in seg.a..Last, NEW j \in seg.a..Last, i < j
        PROVE  \/ In(less, i) /\ In(less, j)
               \/ In(greater, i) /\ In(greater, j)
               \/ data'[i] <= data'[j]
    <3>1. i \in Int /\ j \in Int /\ seg.a <= i /\ j <= Last
      BY <1>4
    <3>2. data'[i] \in Int /\ data'[j] \in Int /\ data[seg.a] \in Int
      <4>1. i \in 1..Len(data) /\ j \in 1..Len(data) /\ seg.a \in seg.a..Last
        BY <1>4, <2>5, <3>1, Inside
      <4> QED BY <1>2, <4>1, Inside
    <3>3. CASE j < less.a + less.n
      <4>1. less.a <= i /\ i <= less.a + less.n - 1 /\ less.a <= j /\ j <= less.a + less.n - 1
        BY <1>3, <1>4, <2>5, <3>1, <3>3
      <4> QED BY <4>1 DEF In
    <3>4. CASE i >= greater.a
      BY <1>3, <1>4, <2>5, <3>1, <3>4 DEF In
    <3>5. CASE ~(j < less.a + less.n) /\ ~(i >= greater.a)
      <4>1. less.a + less.n <= j /\ i < greater.a
        BY <1>4, <3>1, <3>5
      <4>2. data'[i] <= data[seg.a]
        BY <1>4, <2>4, <3>1, <3>2, <4>1
      <4>3. data'[j] >= data[seg.a]
        BY <1>4, <2>4, <3>1, <3>2, <4>1
      <4> QED BY <3>2, <4>2, <4>3
    <3> QED BY <3>3, <3>4, <3>5
  <2> QED BY <2>2, <2>3, <2>5
<1>8. CASE less.n <= greater.n /\ Parted(less, greater)
  <2>1. 2 * less.n <= seg.n /\ greater.n <= seg.n
    BY <1>4, <1>5, <1>8
  <2>2. BoundsInv' /\ DepthInv' /\ ScanOrder' /\ PartitionOrder' /\ seg' = less
    BY <1>1, <1>2, <1>5, <1>8, <2>1, PartedBounds
  <2>3. sane => Disjoint' /\ Separated'
    BY <1>2, <1>5, <1>6, <1>7, <1>8, <2>2, PartedOrder
  <2> QED BY <1>1, <2>2, <2>3 DEF OrderInv
<1>9. CASE less.n > greater.n /\ Parted(greater, less)
  <2>1. 2 * greater.n <= seg.n /\ less.n <= seg.n
    BY <1>4, <1>5, <1>9
  <2>2. BoundsInv' /\ DepthInv' /\ ScanOrder' /\ PartitionOrder' /\ seg' = greater
    BY <1>1, <1>2, <1>5, <1>9, <2>1, PartedBounds
  <2>3. ASSUME sane PROVE Disjoint' /\ Separated'
    <3>1. \A i, j \in seg.a..Last : i < j => \/ In(greater, i) /\ In(greater, j)
                                             \/ In(less, i) /\ In(less, j)
                                             \/ data'[i] <= data'[j]
      BY <1>7, <2>3
    <3> QED BY <1>2, <1>5, <1>6, <1>7, <1>9, <2>2, <2>3, <3>1, PartedOrder
  <2> QED BY <1>1, <2>2, <2>3 DEF OrderInv
<1> QED BY <1>3, <1>8, <1>9

-----------------------------------------------------------------------------
(* The invariant and what follows. *)

LEMMA SortInvariant == SortSpec => [](BoundsInv /\ DepthInv /\ OrderInv)
<1>1. SortInit => BoundsInv /\ DepthInv /\ OrderInv
  <2> SUFFICES ASSUME SortInit PROVE BoundsInv /\ DepthInv /\ OrderInv
    OBVIOUS
  <2>1. /\ at = "idle" /\ data = << >> /\ sane = TRUE /\ Len(data) = 0 /\ DOMAIN stack = {}
        /\ seg = [a |-> 1, n |-> 0] /\ ptr4 = Nowhere /\ scan = Begin /\ stack = << >>
        /\ Len(stack) = 0
    BY DEF SortInit
  <2>2. SortTypeOK
    BY <2>1 DEF SortTypeOK, Segments, Nowhere, Begin
  <2>3. SegmentInv /\ ScanInv /\ PointerInv
    BY <2>1 DEF SegmentInv, ScanInv, PointerInv, Within
  <2>4. DepthInv
    BY <2>1, TwoToValues DEF DepthInv
  <2>5. Disjoint /\ Separated /\ ScanOrder /\ PartitionOrder
    BY <2>1 DEF Disjoint, Separated, ScanOrder, PartitionOrder
  <2> QED BY <2>2, <2>3, <2>4, <2>5 DEF BoundsInv, OrderInv
<1>2. BoundsInv /\ DepthInv /\ OrderInv /\ [SortNext]_sortVars => (BoundsInv /\ DepthInv /\ OrderInv)'
  <2> SUFFICES ASSUME BoundsInv, DepthInv, OrderInv, [SortNext]_sortVars
               PROVE  BoundsInv' /\ DepthInv' /\ OrderInv'
    OBVIOUS
  <2>1. CASE StartSort
    BY <2>1, StartSortStep
  <2>2. CASE InsertionStep
    BY <2>2, InsertionStepStep
  <2>3. CASE InsertionEnd
    BY <2>3, InsertionEndStep
  <2>4. CASE PresortedStep
    BY <2>4, PresortedStepStep
  <2>5. CASE PresortedEnd
    BY <2>5, PresortedEndStep
  <2>6. CASE ChoosePivot
    BY <2>6, ChoosePivotStep
  <2>7. CASE Left
    BY <2>7, LeftStep
  <2>8. CASE LeftEnd
    BY <2>8, LeftEndStep
  <2>9. CASE Right
    BY <2>9, RightStep
  <2>10. CASE Exchange
    BY <2>10, ExchangeStep
  <2>11. CASE EndPartition
    BY <2>11, EndPartitionStep
  <2>12. CASE GoOn
    BY <2>12, GoOnStep
  <2>13. CASE EndSort
    BY <2>13, EndSortStep
  <2>14. CASE UNCHANGED sortVars
    <3>1. BoundsInv'
      BY <2>14 DEF BoundsInv, SortTypeOK, SegmentInv, ScanInv, PointerInv, Within, Last, sortVars
    <3>2. DepthInv'
      BY <2>14 DEF DepthInv, sortVars
    <3>3. OrderInv'
      BY <2>14 DEF OrderInv, Disjoint, Separated, ScanOrder, PartitionOrder, Pending, In, Last, sortVars
    <3> QED BY <3>1, <3>2, <3>3
  <2> QED BY <2>1, <2>2, <2>3, <2>4, <2>5, <2>6, <2>7, <2>8, <2>9, <2>10, <2>11, <2>12, <2>13,
             <2>14 DEF SortNext, SortStep
<1> QED BY <1>1, <1>2, PTL DEF SortSpec

\* A sort stays in its segment and the segment in the array, for every array and
\* whatever the comparator says of two elements.
THEOREM SortInBounds == SortSpec => []InBounds
<1>1. BoundsInv => InBounds
  <2> SUFFICES ASSUME BoundsInv PROVE InBounds
    OBVIOUS
  <2>1. seg.a >= 1 /\ Last <= Len(data)
    BY Inside DEF BoundsInv
  <2>2. scan.pl \in Int /\ scan.pm \in Int /\ seg.a \in Int
    BY Numbers DEF BoundsInv
  <2> QED BY <2>1, <2>2 DEF InBounds, BoundsInv, ScanInv, PointerInv
<1> QED BY <1>1, SortInvariant, PTL

\* Calls are nested no deeper than the logarithm of the length of the array, whatever
\* the comparator says: the loop in ST_SORT goes on with the longer part.
THEOREM RecursionIsShallow == SortSpec => []ShallowRecursion
<1>1. DepthInv => ShallowRecursion
  BY DEF DepthInv, ShallowRecursion
<1> QED BY <1>1, SortInvariant, PTL

\* A sort whose comparator is that of the order ends with a sorted array.
THEOREM EndIsSorted == SortSpec => []SortedAtEnd
<1>1. BoundsInv /\ OrderInv => SortedAtEnd
  <2> SUFFICES ASSUME BoundsInv, OrderInv, at = "done", sane, NEW i \in 1..Len(data) - 1
               PROVE  data[i] <= data[i + 1]
    BY DEF SortedAtEnd
  <2>1. i \in 1..Len(data) /\ i + 1 \in 1..Len(data) /\ i < i + 1
    BY Numbers DEF BoundsInv
  <2> QED BY <2>1 DEF OrderInv, ScanOrder
<1> QED BY <1>1, SortInvariant, PTL

-----------------------------------------------------------------------------
(* Errors: PG_TRY and its like. *)

Frame == [block : Nat, section : {"body", "handler"}, save_exception_stack : Nat,
          save_context_stack : Nat, do_rethrow : BOOLEAN]
Ends == {"no", "ok", "error", "exit"}
Block == [kind : Kinds, ended : Ends, failed : BOOLEAN, ran : Nat]

ErrorTypeOK ==
  /\ frames \in Seq(Frame)
  /\ blocks \in Seq(Block)
  /\ PG_exception_stack \in Nat /\ error_context_stack \in Nat
  /\ \A d \in DOMAIN frames : frames[d].block \in DOMAIN blocks

\* Innermost, of the frames fs and the blocks bs.
Nest(fs, bs, d, n, kinds) ==
  LET executed == {i \in 1..n : fs[i].section = "body" /\ bs[fs[i].block].kind \in kinds}
  IN /\ d \in executed \cup {0}
     /\ \A i \in executed : i <= d

\* The frames 1..m keep the innermost blocks of those outside them.
Saved(fs, bs, m) ==
  \A d \in 1..m : /\ Nest(fs, bs, fs[d].save_exception_stack, d - 1, Tries)
                 /\ Nest(fs, bs, fs[d].save_context_stack, d - 1, Contexts)

NestInv ==
  /\ ErrorTypeOK
  /\ Nest(frames, blocks, PG_exception_stack, Len(frames), Tries)
  /\ Nest(frames, blocks, error_context_stack, Len(frames), Contexts)
  /\ Saved(frames, blocks, Len(frames))

\* The invariant is about the innermost blocks.
LEMMA NestIsInnermost == NestInv => HandlersNest
BY DEF NestInv, HandlersNest, Innermost, Nest, KindOf

\* Ending blocks changes neither their number nor their kinds.
LEMMA EndedBlocks ==
  ASSUME ErrorTypeOK, NEW depths, NEW how \in Ends, NEW run
  PROVE  /\ Ended(depths, how, run) \in Seq(Block)
         /\ DOMAIN Ended(depths, how, run) = DOMAIN blocks
         /\ \A b \in DOMAIN blocks : Ended(depths, how, run)[b].kind = blocks[b].kind
<1> DEFINE e == Ended(depths, how, run)
           ended(b) == IF \E d \in depths : frames[d].block = b THEN how ELSE blocks[b].ended
           ran(b) == IF b \in run THEN blocks[b].ran + 1 ELSE blocks[b].ran
<1>1. blocks \in Seq(Block) /\ DOMAIN blocks = 1..Len(blocks) /\ Len(blocks) \in Nat
  BY DEF ErrorTypeOK
<1>2. \A b \in DOMAIN blocks : blocks[b] \in Block
  BY <1>1
<1>3. ASSUME NEW b \in DOMAIN blocks
      PROVE  e[b] \in Block /\ e[b].kind = blocks[b].kind
  <2>1. e[b] = [blocks[b] EXCEPT !.ended = ended(b), !.ran = ran(b)]
    BY DEF Ended
  <2>2. ended(b) \in Ends /\ ran(b) \in Nat
    BY <1>2 DEF Block
  <2> HIDE DEF ended, ran, e
  <2> QED BY <1>2, <2>1, <2>2 DEF Block
<1>4. e \in [1..Len(blocks) -> Block]
  BY <1>1, <1>3 DEF Ended
<1>5. e \in Seq(Block)
  BY <1>1, <1>4, SeqDef
<1> QED BY <1>3, <1>5 DEF Ended

\* What the frames 1..n are decides which of them is the innermost.
LEMMA NestKept ==
  ASSUME NEW fs, NEW bs, NEW gs, NEW cs, NEW n \in Nat, NEW d, NEW kinds,
         Nest(fs, bs, d, n, kinds),
         \A i \in 1..n : /\ gs[i].section = fs[i].section
                         /\ cs[gs[i].block].kind = bs[fs[i].block].kind
  PROVE  Nest(gs, cs, d, n, kinds)
BY DEF Nest

\* A frame that is in no body of the kinds does not count.
LEMMA NestBelow ==
  ASSUME NEW fs, NEW bs, NEW n \in Nat, NEW d, NEW kinds, Nest(fs, bs, d, n, kinds),
         fs[n + 1].section # "body" \/ bs[fs[n + 1].block].kind \notin kinds
  PROVE  Nest(fs, bs, d, n + 1, kinds)
BY DEF Nest

\* One that is in a body of the kinds is the innermost.
LEMMA NestTop ==
  ASSUME NEW fs, NEW bs, NEW n \in Nat, NEW kinds,
         fs[n + 1].section = "body", bs[fs[n + 1].block].kind \in kinds
  PROVE  Nest(fs, bs, n + 1, n + 1, kinds)
BY DEF Nest

\* Frames that are what they were, but for the section of the last, save what they did.
LEMMA SavedKept ==
  ASSUME NEW fs, NEW bs, NEW gs, NEW cs, NEW m \in Nat, Saved(fs, bs, m),
         \A i \in 1..m : /\ gs[i].save_exception_stack = fs[i].save_exception_stack
                        /\ gs[i].save_context_stack = fs[i].save_context_stack,
         \A i \in 1..m - 1 : /\ gs[i].section = fs[i].section
                            /\ cs[gs[i].block].kind = bs[fs[i].block].kind
  PROVE  Saved(gs, cs, m)
<1> SUFFICES ASSUME NEW d \in 1..m
             PROVE  /\ Nest(gs, cs, gs[d].save_exception_stack, d - 1, Tries)
                    /\ Nest(gs, cs, gs[d].save_context_stack, d - 1, Contexts)
  BY DEF Saved
<1> DEFINE e == fs[d].save_exception_stack
           c == fs[d].save_context_stack
           k == d - 1
<1>1. Nest(fs, bs, e, k, Tries) /\ Nest(fs, bs, c, k, Contexts)
  BY DEF Saved
<1>2. gs[d].save_exception_stack = e /\ gs[d].save_context_stack = c
  OBVIOUS
<1>3. k \in Nat /\ k <= m - 1
  OBVIOUS
<1>4. \A i \in 1..k : /\ gs[i].section = fs[i].section
                     /\ cs[gs[i].block].kind = bs[fs[i].block].kind
  BY <1>3
<1> HIDE DEF e, c, k
<1>5. Nest(gs, cs, e, k, Tries)
  BY <1>1, <1>3, <1>4, NestKept
<1>6. Nest(gs, cs, c, k, Contexts)
  BY <1>1, <1>3, <1>4, NestKept
<1> QED BY <1>2, <1>5, <1>6 DEF k

\* PG_TRY.
LEMMA TryKeeps ==
  ASSUME NestInv, NEW kind \in Kinds, PG_TRY(kind)
  PROVE  NestInv'
<1> DEFINE n == Len(frames)
           new == [block |-> Len(blocks) + 1, section |-> "body",
                   save_exception_stack |-> PG_exception_stack,
                   save_context_stack |-> error_context_stack, do_rethrow |-> FALSE]
           newBlock == [kind |-> kind, ended |-> "no", failed |-> FALSE, ran |-> 0]
<1>1. /\ n \in Nat /\ Len(blocks) \in Nat
      /\ DOMAIN frames = 1..n /\ DOMAIN blocks = 1..Len(blocks)
      /\ \A d \in 1..n : frames[d].block \in 1..Len(blocks)
  BY DEF NestInv, ErrorTypeOK
<1>2. new \in Frame /\ newBlock \in Block
  BY <1>1 DEF NestInv, ErrorTypeOK, Frame, Block, Ends
<1>3. frames' = Append(frames, new) /\ blocks' = Append(blocks, newBlock)
  BY DEF PG_TRY
<1>4. /\ new.block = Len(blocks) + 1 /\ newBlock.kind = kind /\ new.section = "body"
      /\ new.save_exception_stack = PG_exception_stack
      /\ new.save_context_stack = error_context_stack
  OBVIOUS
<1> HIDE DEF new, newBlock
<1>5. /\ frames' \in Seq(Frame) /\ Len(frames') = n + 1 /\ frames'[n + 1] = new
      /\ \A i \in 1..n : frames'[i] = frames[i]
  BY <1>1, <1>2, <1>3 DEF NestInv, ErrorTypeOK
<1>6. /\ blocks' \in Seq(Block) /\ Len(blocks') = Len(blocks) + 1
      /\ blocks'[Len(blocks) + 1] = newBlock
      /\ \A b \in 1..Len(blocks) : blocks'[b] = blocks[b]
  BY <1>1, <1>2, <1>3 DEF NestInv, ErrorTypeOK
<1>7. ErrorTypeOK'
  <2>1. PG_exception_stack' \in Nat /\ error_context_stack' \in Nat
    BY <1>1 DEF PG_TRY, NestInv, ErrorTypeOK
  <2>2. \A d \in 1..n + 1 : frames'[d].block \in 1..Len(blocks) + 1
    BY <1>1, <1>4, <1>5
  <2> QED BY <1>1, <1>5, <1>6, <2>1, <2>2 DEF ErrorTypeOK
<1>8. \A i \in 1..n : /\ frames'[i].section = frames[i].section
                      /\ blocks'[frames'[i].block].kind = blocks[frames[i].block].kind
                      /\ frames'[i].save_exception_stack = frames[i].save_exception_stack
                      /\ frames'[i].save_context_stack = frames[i].save_context_stack
  BY <1>1, <1>5, <1>6
<1>9. /\ frames'[n + 1].section = "body" /\ blocks'[frames'[n + 1].block].kind = kind
  BY <1>4, <1>5, <1>6
<1>10. /\ Nest(frames', blocks', PG_exception_stack, n, Tries)
       /\ Nest(frames', blocks', error_context_stack, n, Contexts)
  BY <1>1, <1>8, NestKept DEF NestInv
<1>11. Nest(frames', blocks', PG_exception_stack', n + 1, Tries)
  <2>1. CASE kind \in Tries
    BY <1>1, <1>9, <2>1, NestTop DEF PG_TRY
  <2>2. CASE kind \notin Tries
    BY <1>1, <1>9, <1>10, <2>2, NestBelow DEF PG_TRY
  <2> QED BY <2>1, <2>2
<1>12. Nest(frames', blocks', error_context_stack', n + 1, Contexts)
  <2>1. CASE kind \in Contexts
    BY <1>1, <1>9, <2>1, NestTop DEF PG_TRY
  <2>2. CASE kind \notin Contexts
    BY <1>1, <1>9, <1>10, <2>2, NestBelow DEF PG_TRY
  <2> QED BY <2>1, <2>2
<1>13. Saved(frames', blocks', n + 1)
  <2>1. Saved(frames', blocks', n)
    BY <1>1, <1>8, SavedKept DEF NestInv
  <2>2. /\ frames'[n + 1].save_exception_stack = PG_exception_stack
        /\ frames'[n + 1].save_context_stack = error_context_stack
    BY <1>4, <1>5
  <2> QED BY <1>1, <1>10, <2>1, <2>2 DEF Saved
<1> QED BY <1>5, <1>7, <1>11, <1>12, <1>13 DEF NestInv

\* The lengths and the frames have their types.
LEMMA TypeFacts ==
  ASSUME ErrorTypeOK
  PROVE  /\ Len(frames) \in Nat /\ DOMAIN frames = 1..Len(frames)
         /\ DOMAIN blocks = 1..Len(blocks)
         /\ \A d \in 1..Len(frames) : /\ frames[d] \in Frame
                                     /\ frames[d].block \in DOMAIN blocks
                                     /\ frames[d].save_exception_stack \in Nat
                                     /\ frames[d].save_context_stack \in Nat
<1>1. \A d \in 1..Len(frames) : frames[d] \in Frame
  BY DEF ErrorTypeOK
<1>2. Len(frames) \in Nat /\ DOMAIN frames = 1..Len(frames) /\ DOMAIN blocks = 1..Len(blocks)
  BY DEF ErrorTypeOK
<1>3. ASSUME NEW d \in 1..Len(frames)
      PROVE  /\ frames[d].block \in DOMAIN blocks
             /\ frames[d].save_exception_stack \in Nat
             /\ frames[d].save_context_stack \in Nat
  <2>1. frames[d].block \in DOMAIN blocks
    BY <1>2 DEF ErrorTypeOK
  <2>2. frames[d] \in Frame
    BY <1>1
  <2> QED BY <2>1, <2>2 DEF Frame
<1> QED BY <1>1, <1>2, <1>3

\* No block is being executed.
LEMMA EmptyKeeps ==
  ASSUME frames' = << >>, blocks' \in Seq(Block),
         PG_exception_stack' = 0, error_context_stack' = 0
  PROVE  NestInv'
BY DEF NestInv, ErrorTypeOK, Nest, Saved

\* A block that is left restores what it saved.
LEMMA PopKeeps ==
  ASSUME NestInv, frames # << >>, NEW how \in Ends, Pop(how), Restore(Top)
  PROVE  NestInv'
<1> DEFINE n == Len(frames)
<1>1. ErrorTypeOK /\ Saved(frames, blocks, n)
  BY DEF NestInv
<1>2. /\ n \in Nat \ {0} /\ DOMAIN frames = 1..n
      /\ \A d \in 1..n : /\ frames[d] \in Frame
                         /\ frames[d].block \in DOMAIN blocks
                         /\ frames[d].save_exception_stack \in Nat
                         /\ frames[d].save_context_stack \in Nat
  <2>1. n # 0
    BY <1>1 DEF ErrorTypeOK
  <2> QED BY <1>1, <2>1, TypeFacts
<1>3. /\ frames' \in Seq(Frame) /\ Len(frames') = n - 1
      /\ \A i \in 1..n - 1 : frames'[i] = frames[i]
  BY <1>1, <1>2 DEF Pop, ErrorTypeOK
<1>4. /\ blocks' \in Seq(Block) /\ DOMAIN blocks' = DOMAIN blocks
      /\ \A b \in DOMAIN blocks : blocks'[b].kind = blocks[b].kind
  BY <1>1, EndedBlocks DEF Pop
<1>5. /\ PG_exception_stack' = frames[n].save_exception_stack
      /\ error_context_stack' = frames[n].save_context_stack
  BY DEF Restore, Top
<1>6. \A i \in 1..n - 1 :
        /\ frames'[i].section = frames[i].section
        /\ blocks'[frames'[i].block].kind = blocks[frames[i].block].kind
        /\ frames'[i].save_exception_stack = frames[i].save_exception_stack
        /\ frames'[i].save_context_stack = frames[i].save_context_stack
  BY <1>2, <1>3, <1>4
<1>7. ErrorTypeOK'
  <2>1. \A d \in 1..n - 1 : frames'[d].block \in DOMAIN blocks'
    BY <1>2, <1>3, <1>4
  <2>2. DOMAIN frames' = 1..n - 1
    BY <1>3
  <2>3. PG_exception_stack' \in Nat /\ error_context_stack' \in Nat
    BY <1>2, <1>5
  <2> QED BY <1>3, <1>4, <2>1, <2>2, <2>3 DEF ErrorTypeOK
<1>8. /\ Nest(frames, blocks, frames[n].save_exception_stack, n - 1, Tries)
      /\ Nest(frames, blocks, frames[n].save_context_stack, n - 1, Contexts)
  BY <1>1, <1>2 DEF Saved
<1>9. n - 1 \in Nat
  BY <1>2
<1>10. /\ Nest(frames', blocks', PG_exception_stack', n - 1, Tries)
       /\ Nest(frames', blocks', error_context_stack', n - 1, Contexts)
  <2>1. \A i \in 1..n - 1 : /\ frames'[i].section = frames[i].section
                            /\ blocks'[frames'[i].block].kind = blocks[frames[i].block].kind
    BY <1>6
  <2>2. Nest(frames', blocks', frames[n].save_exception_stack, n - 1, Tries)
    BY <1>8, <1>9, <2>1, NestKept
  <2>3. Nest(frames', blocks', frames[n].save_context_stack, n - 1, Contexts)
    BY <1>8, <1>9, <2>1, NestKept
  <2> QED BY <1>5, <2>2, <2>3
<1>11. Saved(frames, blocks, n - 1)
  BY <1>1, <1>2 DEF Saved
<1>12. Saved(frames', blocks', n - 1)
  BY <1>6, <1>9, <1>11, SavedKept
<1> QED BY <1>3, <1>7, <1>10, <1>12 DEF NestInv

\* An error, or the end of the body of PG_FINALLY: the frame d goes on with its handler,
\* with what it saved, and there is none inside it.
LEMMA SectionKeeps ==
  ASSUME NestInv, NEW d \in 1..Len(frames), KindOf(frames[d]) \notin Contexts,
         NEW f \in Frame, f.section = "handler", f.block = frames[d].block,
         f.save_exception_stack = frames[d].save_exception_stack,
         f.save_context_stack = frames[d].save_context_stack,
         frames' \in Seq(Frame), Len(frames') = d, frames'[d] = f,
         \A i \in 1..d - 1 : frames'[i] = frames[i],
         blocks' \in Seq(Block), DOMAIN blocks' = DOMAIN blocks,
         \A b \in DOMAIN blocks : blocks'[b].kind = blocks[b].kind,
         Restore(frames[d])
  PROVE  NestInv'
<1>1. ErrorTypeOK /\ Saved(frames, blocks, Len(frames))
  BY DEF NestInv
<1>2. /\ d \in Nat \ {0} /\ DOMAIN frames' = 1..d
      /\ Len(frames) \in Nat
      /\ \A i \in 1..Len(frames) : /\ frames[i].block \in DOMAIN blocks
                                  /\ frames[i].save_exception_stack \in Nat
                                  /\ frames[i].save_context_stack \in Nat
  BY <1>1, TypeFacts
<1>3. \A i \in 1..d :
        /\ blocks'[frames'[i].block].kind = blocks[frames[i].block].kind
        /\ frames'[i].save_exception_stack = frames[i].save_exception_stack
        /\ frames'[i].save_context_stack = frames[i].save_context_stack
        /\ frames'[i].block \in DOMAIN blocks
  <2> SUFFICES ASSUME NEW i \in 1..d
               PROVE  /\ blocks'[frames'[i].block].kind = blocks[frames[i].block].kind
                      /\ frames'[i].save_exception_stack = frames[i].save_exception_stack
                      /\ frames'[i].save_context_stack = frames[i].save_context_stack
                      /\ frames'[i].block \in DOMAIN blocks
    OBVIOUS
  <2>1. i \in 1..Len(frames)
    BY <1>2
  <2>2. CASE i = d
    BY <1>2, <2>1, <2>2
  <2>3. CASE i \in 1..d - 1
    BY <1>2, <2>1, <2>3
  <2> QED BY <1>2, <2>2, <2>3
<1>4. \A i \in 1..d - 1 : frames'[i].section = frames[i].section
  OBVIOUS
<1>5. ErrorTypeOK'
  <2>1. PG_exception_stack' \in Nat /\ error_context_stack' \in Nat
    BY <1>2 DEF Restore
  <2> QED BY <1>2, <1>3, <2>1 DEF ErrorTypeOK
<1>6. /\ Nest(frames, blocks, frames[d].save_exception_stack, d - 1, Tries)
      /\ Nest(frames, blocks, frames[d].save_context_stack, d - 1, Contexts)
  BY <1>1 DEF Saved
<1>7. d - 1 \in Nat /\ (d - 1) + 1 = d /\ \A i \in 1..d - 1 : i \in 1..d
  BY <1>2
<1>8. /\ Nest(frames', blocks', PG_exception_stack', d - 1, Tries)
      /\ Nest(frames', blocks', error_context_stack', d - 1, Contexts)
  <2>1. \A i \in 1..d - 1 : /\ frames'[i].section = frames[i].section
                            /\ blocks'[frames'[i].block].kind = blocks[frames[i].block].kind
    BY <1>3, <1>4, <1>7
  <2> DEFINE k == d - 1
             x == frames[d].save_exception_stack
             c == frames[d].save_context_stack
  <2>2. /\ k \in Nat /\ Nest(frames, blocks, x, k, Tries) /\ Nest(frames, blocks, c, k, Contexts)
        /\ \A i \in 1..k : /\ frames'[i].section = frames[i].section
                            /\ blocks'[frames'[i].block].kind = blocks[frames[i].block].kind
    BY <1>6, <1>7, <2>1
  <2> HIDE DEF k, x, c
  <2>3. Nest(frames', blocks', x, k, Tries) /\ Nest(frames', blocks', c, k, Contexts)
    <3>1. Nest(frames', blocks', x, k, Tries)
      BY <2>2, NestKept
    <3>2. Nest(frames', blocks', c, k, Contexts)
      BY <2>2, NestKept
    <3> QED BY <3>1, <3>2
  <2> QED BY <2>3 DEF k, x, c, Restore
<1>9. frames'[d].section # "body"
  OBVIOUS
<1>10. /\ Nest(frames', blocks', PG_exception_stack', d, Tries)
       /\ Nest(frames', blocks', error_context_stack', d, Contexts)
  BY <1>7, <1>8, <1>9, NestBelow
<1>11. Saved(frames, blocks, d)
  <2>1. \A i \in 1..d : i \in 1..Len(frames)
    BY <1>2
  <2> QED BY <1>1, <2>1 DEF Saved
<1>12. Saved(frames', blocks', d)
  BY <1>2, <1>3, <1>4, <1>7, <1>11, SavedKept
<1> QED BY <1>5, <1>10, <1>12 DEF NestInv

\* A block that failed has its type and kind.
LEMMA FailedBlock ==
  ASSUME NEW e \in Seq(Block), NEW b \in DOMAIN e
  PROVE  LET x == [e EXCEPT ![b].failed = TRUE]
         IN x \in Seq(Block) /\ DOMAIN x = DOMAIN e /\ \A i \in DOMAIN e : x[i].kind = e[i].kind
<1> DEFINE y == [e[b] EXCEPT !.failed = TRUE]
           x == [e EXCEPT ![b] = y]
<1>1. e[b] \in Block
  OBVIOUS
<1>2. y \in Block /\ y.kind = e[b].kind
  BY <1>1 DEF Block
<1> HIDE DEF y
<1>3. x \in Seq(Block) /\ DOMAIN x = DOMAIN e /\ \A i \in DOMAIN e : x[i].kind = e[i].kind
  BY <1>2
<1> QED BY <1>3 DEF y

\* siglongjmp to the handler of PG_exception_stack.
LEMMA HandlerKeeps ==
  ASSUME NestInv, PG_exception_stack # 0, Handler(PG_exception_stack)
  PROVE  NestInv'
<1> DEFINE d == PG_exception_stack
           kind == KindOf(frames[d])
           f == [frames[d] EXCEPT !.section = "handler", !.do_rethrow = (kind # "catch")]
           e == Ended((d + 1)..Len(frames), "error", {frames[d].block})
           cut == SubSeq(frames, 1, d - 1)
<1>1. ErrorTypeOK /\ Nest(frames, blocks, d, Len(frames), Tries)
  BY DEF NestInv
<1>2. d \in 1..Len(frames) /\ kind \in Tries
  BY <1>1 DEF Nest, KindOf
<1>3. kind \notin Contexts
  BY <1>2 DEF Tries, Contexts
<1>4. /\ Len(frames) \in Nat /\ d \in Nat \ {0} /\ frames[d] \in Frame
      /\ frames[d].block \in DOMAIN blocks
  BY <1>1, <1>2, TypeFacts
<1>5. /\ f \in Frame /\ f.section = "handler" /\ f.block = frames[d].block
      /\ f.save_exception_stack = frames[d].save_exception_stack
      /\ f.save_context_stack = frames[d].save_context_stack
  BY <1>4 DEF Frame
<1>6. /\ e \in Seq(Block) /\ DOMAIN e = DOMAIN blocks
      /\ \A b \in DOMAIN blocks : e[b].kind = blocks[b].kind
  <2> DEFINE depths == (d + 1)..Len(frames)
             run == {frames[d].block}
  <2>1. "error" \in Ends
    BY DEF Ends
  <2> HIDE DEF depths, run
  <2>2. /\ Ended(depths, "error", run) \in Seq(Block)
        /\ DOMAIN Ended(depths, "error", run) = DOMAIN blocks
        /\ \A b \in DOMAIN blocks : Ended(depths, "error", run)[b].kind = blocks[b].kind
    BY <1>1, <2>1, EndedBlocks
  <2> QED BY <2>2 DEF depths, run
<1>7. /\ frames' = Append(cut, f)
      /\ blocks' = [e EXCEPT ![frames[d].block].failed = TRUE]
      /\ Restore(frames[d])
  <2>1. f.block = frames[d].block
    BY <1>5
  <2> QED BY DEF Handler
<1>8. /\ cut \in Seq(Frame) /\ Len(cut) = d - 1
      /\ \A i \in 1..d - 1 : cut[i] = frames[i]
  BY <1>1, <1>2, <1>4 DEF ErrorTypeOK
<1> HIDE DEF f, e, cut
<1>9. /\ frames' \in Seq(Frame) /\ Len(frames') = d /\ frames'[d] = f
      /\ \A i \in 1..d - 1 : frames'[i] = frames[i]
  BY <1>4, <1>5, <1>7, <1>8
<1>10. /\ blocks' \in Seq(Block) /\ DOMAIN blocks' = DOMAIN blocks
       /\ \A b \in DOMAIN blocks : blocks'[b].kind = blocks[b].kind
  BY <1>4, <1>6, <1>7, FailedBlock
<1> QED BY <1>2, <1>3, <1>5, <1>7, <1>9, <1>10, SectionKeeps

\* An error goes to a handler that is running, or to the main loop.
LEMMA ThrowKeeps ==
  ASSUME NestInv, Throw
  PROVE  NestInv'
<1>1. CASE PG_exception_stack = 0
  <2>1. MainLoopHandler
    BY <1>1 DEF Throw
  <2>2. blocks' \in Seq(Block)
    BY <2>1, EndedBlocks DEF NestInv, MainLoopHandler, Ends
  <2> QED BY <1>1, <2>1, <2>2, EmptyKeeps DEF MainLoopHandler
<1>2. CASE PG_exception_stack # 0
  BY <1>2, HandlerKeeps DEF Throw
<1> QED BY <1>1, <1>2

\* The end of a body.
LEMMA EndBodyKeeps ==
  ASSUME NestInv, EndBody
  PROVE  NestInv'
<1>1. frames # << >> /\ Restore(Top)
  BY DEF EndBody
<1>2. CASE KindOf(Top) # "finally"
  BY <1>1, <1>2, PopKeeps DEF EndBody, Ends
<1>3. CASE KindOf(Top) = "finally"
  <2> DEFINE d == Len(frames)
             f == [frames[d] EXCEPT !.section = "handler"]
             e == Ended({}, "no", {Top.block})
  <2>1. ErrorTypeOK /\ Restore(frames[d])
    BY <1>1 DEF NestInv, Top
  <2>2. d # 0
    BY <1>1, <2>1 DEF ErrorTypeOK
  <2>3. d \in Nat \ {0} /\ frames[d] \in Frame /\ d \in 1..Len(frames)
    BY <2>1, <2>2, TypeFacts
  <2>4. /\ f \in Frame /\ f.section = "handler" /\ f.block = frames[d].block
        /\ f.save_exception_stack = frames[d].save_exception_stack
        /\ f.save_context_stack = frames[d].save_context_stack
    BY <2>3 DEF Frame
  <2>5. KindOf(frames[d]) \notin Contexts
    BY <1>3 DEF Contexts, Top
  <2>6. /\ e \in Seq(Block) /\ DOMAIN e = DOMAIN blocks
        /\ \A b \in DOMAIN blocks : e[b].kind = blocks[b].kind
    BY <2>1, EndedBlocks DEF Ends
  <2>7. frames' = [frames EXCEPT ![d] = f] /\ blocks' = e
    BY <1>3 DEF EndBody
  <2> HIDE DEF f, e
  <2>8. /\ frames' \in Seq(Frame) /\ Len(frames') = d /\ frames'[d] = f
        /\ \A i \in 1..d - 1 : frames'[i] = frames[i]
    BY <2>1, <2>3, <2>4, <2>7 DEF ErrorTypeOK
  <2> QED BY <2>1, <2>3, <2>4, <2>5, <2>6, <2>7, <2>8, SectionKeeps
<1> QED BY <1>2, <1>3

\* PG_END_TRY after a handler.
LEMMA EndHandlerKeeps ==
  ASSUME NestInv, EndHandler
  PROVE  NestInv'
<1>1. CASE Top.do_rethrow
  BY <1>1, ThrowKeeps DEF EndHandler
<1>2. CASE ~Top.do_rethrow
  BY <1>2, PopKeeps DEF EndHandler, Ends
<1> QED BY <1>1, <1>2

\* The innermost blocks are the innermost in every state, for every MaxDepth and MaxBlocks.
LEMMA NestInvariant == ErrorSpec => []NestInv
<1>1. ErrorInit => NestInv
  BY DEF ErrorInit, NestInv, ErrorTypeOK, Nest, Saved
<1>2. NestInv /\ [ErrorNext]_errorVars => NestInv'
  <2> SUFFICES ASSUME NestInv, [ErrorNext]_errorVars PROVE NestInv'
    OBVIOUS
  <2>1. ASSUME NEW kind \in Kinds, PG_TRY(kind) PROVE NestInv'
    BY <2>1, TryKeeps
  <2>2. CASE Error
    BY <2>2, ThrowKeeps DEF Error
  <2>3. CASE EndBody
    BY <2>3, EndBodyKeeps
  <2>4. CASE EndHandler
    BY <2>4, EndHandlerKeeps
  <2>5. CASE Fatal
    <3>1. blocks' \in Seq(Block)
      BY <2>5, EndedBlocks DEF NestInv, Fatal, Ends
    <3> QED BY <2>5, <3>1, EmptyKeeps DEF Fatal
  <2>6. CASE NextCommand
    BY <2>6 DEF NextCommand, NestInv, ErrorTypeOK, Nest, Saved
  <2>7. CASE UNCHANGED errorVars
    BY <2>7 DEF errorVars, NestInv, ErrorTypeOK, Nest, Saved
  <2> QED BY <2>1, <2>2, <2>3, <2>4, <2>5, <2>6, <2>7 DEF ErrorNext
<1> QED BY <1>1, <1>2, PTL DEF ErrorSpec

\* An error always jumps to the innermost block whose body is being executed, and reports
\* the callbacks of functions that are running, for every depth and number of blocks.
THEOREM HandlersAlwaysNest == ErrorSpec => []HandlersNest
BY NestInvariant, NestIsInnermost, PTL

-----------------------------------------------------------------------------
(* Cleanups are executed once. *)

\* What is true of a block that is being executed, with its frame, and whether its exit
\* callback is registered.
RunningOK(f, block, registered) ==
  /\ block.ended = "no"
  /\ registered => block.kind = "ensure"
  /\ block.kind = "ensure" =>
       \/ f.section = "body" /\ registered /\ block.ran = 0 /\ ~block.failed
       \/ f.section = "handler" /\ ~registered /\ block.ran = 1 /\ f.do_rethrow
  /\ block.kind = "finally" =>
       \/ f.section = "body" /\ block.ran = 0 /\ ~block.failed
       \/ f.section = "handler" /\ block.ran = 1 /\ (block.failed => f.do_rethrow)

\* And of one that is no more.
EndedOK(block) ==
  /\ block.ended # "no"
  /\ block.kind = "ensure" => block.ran = (IF block.ended = "ok" THEN 0 ELSE 1)
  /\ block.kind = "finally" => /\ block.ended \in {"ok", "error"} => block.ran = 1
                               /\ block.ended = "exit" => block.ran \in {0, 1}
  /\ block.kind \in {"finally", "ensure"} /\ block.failed => block.ended # "ok"

Same(x, y) == x.kind = y.kind /\ x.ended = y.ended /\ x.failed = y.failed /\ x.ran = y.ran

CleanInv ==
  /\ NestInv
  /\ exitCallbacks \subseteq DOMAIN blocks
  /\ \A i, j \in 1..Len(frames) : frames[i].block = frames[j].block => i = j
  /\ \A i \in 1..Len(frames) :
       RunningOK(frames[i], blocks[frames[i].block], frames[i].block \in exitCallbacks)
  /\ \A b \in DOMAIN blocks :
       (\A i \in 1..Len(frames) : frames[i].block # b) =>
         EndedOK(blocks[b]) /\ b \notin exitCallbacks

\* It implies the property: a block that is being executed has not ended.
LEMMA CleanOnce == CleanInv => CleanupOnce
<1> SUFFICES ASSUME CleanInv, NEW b \in DOMAIN blocks
             PROVE  /\ blocks[b].kind = "ensure" /\ blocks[b].ended # "no" =>
                         blocks[b].ran = (IF blocks[b].ended = "ok" THEN 0 ELSE 1)
                    /\ blocks[b].kind = "finally" =>
                         /\ blocks[b].ended \in {"ok", "error"} => blocks[b].ran = 1
                         /\ blocks[b].ended = "exit" => blocks[b].ran \in {0, 1}
                    /\ blocks[b].kind \in {"finally", "ensure"} /\ blocks[b].failed =>
                         blocks[b].ended # "ok"
  BY DEF CleanupOnce
<1>1. CASE \A i \in 1..Len(frames) : frames[i].block # b
  BY <1>1 DEF CleanInv, EndedOK
<1>2. CASE \E i \in 1..Len(frames) : frames[i].block = b
  BY <1>2 DEF CleanInv, RunningOK
<1> QED BY <1>1, <1>2

\* What Ended does to the fields of a block.
LEMMA EndedFields ==
  ASSUME NEW depths, NEW how, NEW run, NEW b \in DOMAIN blocks,
         NEW e, e = Ended(depths, how, run)[b], blocks[b] \in Block
  PROVE  /\ e.kind = blocks[b].kind /\ e.failed = blocks[b].failed
         /\ e.ended = IF \E d \in depths : frames[d].block = b THEN how ELSE blocks[b].ended
         /\ e.ran = IF b \in run THEN blocks[b].ran + 1 ELSE blocks[b].ran
<1> DEFINE ended == IF \E d \in depths : frames[d].block = b THEN how ELSE blocks[b].ended
           ran == IF b \in run THEN blocks[b].ran + 1 ELSE blocks[b].ran
<1>1. e = [blocks[b] EXCEPT !.ended = ended, !.ran = ran]
  BY DEF Ended
<1> HIDE DEF ended, ran
<1>2. e.kind = blocks[b].kind /\ e.failed = blocks[b].failed /\ e.ended = ended /\ e.ran = ran
  BY <1>1 DEF Block
<1> QED BY <1>2 DEF ended, ran

\* A step after which the frames 1..m are left: their blocks go on and the others end.
LEMMA LeaveKeeps ==
  ASSUME CleanInv, NestInv', NEW m \in 0..Len(frames), Len(frames') = m,
         \A i \in 1..m : frames'[i].block = frames[i].block,
         DOMAIN blocks' = DOMAIN blocks, exitCallbacks' \subseteq exitCallbacks,
         \A b \in DOMAIN blocks :
           (\A i \in 1..Len(frames) : frames[i].block # b) => Same(blocks'[b], blocks[b]),
         \A i \in 1..m : RunningOK(frames'[i], blocks'[frames[i].block],
                                   frames[i].block \in exitCallbacks'),
         \A i \in m + 1..Len(frames) : /\ EndedOK(blocks'[frames[i].block])
                                      /\ frames[i].block \notin exitCallbacks'
  PROVE  CleanInv'
<1> DEFINE n == Len(frames)
<1>1. n \in Nat /\ m \in Nat /\ m <= n
  BY TypeFacts DEF CleanInv, NestInv
<1>2. exitCallbacks' \subseteq DOMAIN blocks'
  BY DEF CleanInv
<1>3. \A i, j \in 1..m : frames'[i].block = frames'[j].block => i = j
  BY <1>1 DEF CleanInv
<1>4. ASSUME NEW b \in DOMAIN blocks, \A i \in 1..m : frames'[i].block # b
      PROVE  EndedOK(blocks'[b]) /\ b \notin exitCallbacks'
  <2>1. CASE \A i \in 1..n : frames[i].block # b
    <3>1. EndedOK(blocks[b]) /\ b \notin exitCallbacks
      BY <2>1 DEF CleanInv
    <3>2. Same(blocks'[b], blocks[b])
      BY <2>1
    <3> QED BY <3>1, <3>2 DEF EndedOK, Same
  <2>2. CASE \E i \in 1..n : frames[i].block = b
    <3>1. PICK i \in 1..n : frames[i].block = b
      BY <2>2
    <3>2. i \in m + 1..n
      BY <1>1, <1>4, <3>1
    <3> QED BY <3>1, <3>2
  <2> QED BY <2>1, <2>2
<1>5. \A i \in 1..m : RunningOK(frames'[i], blocks'[frames'[i].block],
                                frames'[i].block \in exitCallbacks')
  OBVIOUS
<1> QED BY <1>2, <1>3, <1>4, <1>5 DEF CleanInv

\* What is known of the frames and their blocks.
LEMMA CleanFacts ==
  ASSUME CleanInv
  PROVE  /\ Len(frames) \in Nat /\ \A b \in DOMAIN blocks : blocks[b] \in Block
         /\ \A i \in 1..Len(frames) :
              /\ frames[i] \in Frame /\ frames[i].block \in DOMAIN blocks
              /\ RunningOK(frames[i], blocks[frames[i].block], frames[i].block \in exitCallbacks)
         /\ \A i, j \in 1..Len(frames) : frames[i].block = frames[j].block => i = j
<1>1. ErrorTypeOK
  BY DEF CleanInv, NestInv
<1>2. \A b \in DOMAIN blocks : blocks[b] \in Block
  BY <1>1 DEF ErrorTypeOK
<1> QED BY <1>1, <1>2, TypeFacts DEF CleanInv

\* PG_TRY.
LEMMA TryClean ==
  ASSUME CleanInv, NestInv', NEW kind \in Kinds, PG_TRY(kind)
  PROVE  CleanInv'
<1> DEFINE n == Len(frames)
           k == Len(blocks)
           new == [block |-> k + 1, section |-> "body",
                   save_exception_stack |-> PG_exception_stack,
                   save_context_stack |-> error_context_stack, do_rethrow |-> FALSE]
           newBlock == [kind |-> kind, ended |-> "no", failed |-> FALSE, ran |-> 0]
<1>1. /\ ErrorTypeOK /\ n \in Nat /\ k \in Nat
      /\ DOMAIN frames = 1..n /\ DOMAIN blocks = 1..k
      /\ \A d \in 1..n : frames[d].block \in 1..k
  BY DEF CleanInv, NestInv, ErrorTypeOK
<1>2. frames' = Append(frames, new) /\ blocks' = Append(blocks, newBlock)
  BY DEF PG_TRY
<1>3. /\ new.block = k + 1 /\ new.section = "body" /\ newBlock.kind = kind
      /\ newBlock.ended = "no" /\ newBlock.failed = FALSE /\ newBlock.ran = 0
  OBVIOUS
<1> HIDE DEF new, newBlock
<1>4. /\ Len(frames') = n + 1 /\ frames'[n + 1] = new
      /\ \A i \in 1..n : frames'[i] = frames[i]
  BY <1>1, <1>2 DEF ErrorTypeOK
<1>5. /\ DOMAIN blocks' = 1..k + 1 /\ blocks'[k + 1] = newBlock
      /\ \A b \in 1..k : blocks'[b] = blocks[b]
  BY <1>1, <1>2 DEF ErrorTypeOK
<1>6. exitCallbacks \subseteq 1..k
  BY <1>1 DEF CleanInv
<1>7. exitCallbacks' = IF kind = "ensure" THEN exitCallbacks \cup {k + 1} ELSE exitCallbacks
  BY DEF PG_TRY
<1>8. /\ exitCallbacks' \subseteq DOMAIN blocks'
      /\ \A b \in 1..k : b \in exitCallbacks' <=> b \in exitCallbacks
      /\ k + 1 \in exitCallbacks' <=> kind = "ensure"
  <2>1. k + 1 \notin 1..k /\ \A b \in 1..k : b \in 1..k + 1 /\ b # k + 1
    BY <1>1
  <2>2. k + 1 \in 1..k + 1
    BY <1>1
  <2>3. CASE kind = "ensure"
    BY <1>5, <1>6, <1>7, <2>1, <2>2, <2>3
  <2>4. CASE kind # "ensure"
    BY <1>5, <1>6, <1>7, <2>1, <2>4
  <2> QED BY <2>3, <2>4
<1>9. \A i, j \in 1..n + 1 : frames'[i].block = frames'[j].block => i = j
  <2>1. \A i \in 1..n : frames'[i].block = frames[i].block /\ frames'[i].block # k + 1
    BY <1>1, <1>4
  <2>2. frames'[n + 1].block = k + 1
    BY <1>3, <1>4
  <2>3. \A i \in 1..n + 1 : i \in 1..n \/ i = n + 1
    BY <1>1
  <2> QED BY <2>1, <2>2, <2>3, CleanFacts
<1>10. ASSUME NEW i \in 1..n + 1
       PROVE  RunningOK(frames'[i], blocks'[frames'[i].block], frames'[i].block \in exitCallbacks')
  <2>1. CASE i \in 1..n
    <3>1. RunningOK(frames[i], blocks[frames[i].block], frames[i].block \in exitCallbacks)
      BY <2>1, CleanFacts
    <3>2. /\ frames'[i] = frames[i] /\ blocks'[frames[i].block] = blocks[frames[i].block]
          /\ frames[i].block \in exitCallbacks' <=> frames[i].block \in exitCallbacks
      BY <1>1, <1>4, <1>5, <1>8, <2>1
    <3> QED BY <3>1, <3>2 DEF RunningOK
  <2>2. CASE i = n + 1
    <3>1. frames'[i] = new /\ blocks'[frames'[i].block] = newBlock
      BY <1>3, <1>4, <1>5, <2>2
    <3> QED BY <1>3, <1>8, <3>1 DEF RunningOK
  <2> QED BY <1>1, <2>1, <2>2
<1>11. ASSUME NEW b \in 1..k + 1, \A i \in 1..n + 1 : frames'[i].block # b
       PROVE  EndedOK(blocks'[b]) /\ b \notin exitCallbacks'
  <2>1. b # k + 1
    BY <1>1, <1>3, <1>4, <1>11
  <2>2. b \in 1..k /\ \A i \in 1..n : frames[i].block # b
    BY <1>1, <1>4, <1>11, <2>1
  <2>3. EndedOK(blocks[b]) /\ b \notin exitCallbacks
    BY <1>1, <2>2 DEF CleanInv
  <2> QED BY <1>5, <1>8, <2>2, <2>3
<1> QED BY <1>4, <1>5, <1>8, <1>9, <1>10, <1>11 DEF CleanInv

\* A frame inside the innermost body has failed, and its cleanup has run: it may end.
LEMMA InsideEnds ==
  ASSUME CleanInv, NEW i \in 1..Len(frames), i > PG_exception_stack,
         NEW e, e.kind = blocks[frames[i].block].kind, e.ended = "error",
         e.ran = blocks[frames[i].block].ran
  PROVE  EndedOK(e) /\ frames[i].block \notin exitCallbacks
<1> DEFINE b == blocks[frames[i].block]
<1>1. RunningOK(frames[i], b, frames[i].block \in exitCallbacks)
  BY CleanFacts
<1>2. ~(frames[i].section = "body" /\ b.kind \in Tries)
  <2>1. Nest(frames, blocks, PG_exception_stack, Len(frames), Tries)
    BY DEF CleanInv, NestInv
  <2>2. PG_exception_stack \in Nat /\ Len(frames) \in Nat
    BY CleanFacts DEF CleanInv, NestInv, ErrorTypeOK
  <2> QED BY <2>1, <2>2 DEF Nest
<1> HIDE DEF b
<1>3. e.kind = b.kind /\ e.ran = b.ran
  BY DEF b
<1> QED BY <1>1, <1>2, <1>3 DEF RunningOK, EndedOK, Tries

\* A block that failed has the other fields that it had.
LEMMA FailedFields ==
  ASSUME NEW e \in Seq(Block), NEW b \in DOMAIN e
  PROVE  LET x == [e EXCEPT ![b].failed = TRUE]
         IN /\ \A i \in DOMAIN e : i # b => x[i] = e[i]
            /\ x[b].kind = e[b].kind /\ x[b].ended = e[b].ended /\ x[b].ran = e[b].ran
            /\ x[b].failed = TRUE
<1> DEFINE y == [e[b] EXCEPT !.failed = TRUE]
           x == [e EXCEPT ![b] = y]
<1>1. e[b] \in Block
  OBVIOUS
<1>2. y.kind = e[b].kind /\ y.ended = e[b].ended /\ y.ran = e[b].ran /\ y.failed = TRUE
  BY <1>1 DEF Block
<1> HIDE DEF y
<1>3. x[b] = y /\ \A i \in DOMAIN e : i # b => x[i] = e[i]
  OBVIOUS
<1> QED BY <1>2, <1>3 DEF y

\* The innermost body goes on in its handler.
LEMMA HandlerClean ==
  ASSUME CleanInv, NestInv', PG_exception_stack # 0, Handler(PG_exception_stack)
  PROVE  CleanInv'
<1> DEFINE d == PG_exception_stack
           n == Len(frames)
           b0 == frames[d].block
           kind == blocks[b0].kind
           depths == (d + 1)..Len(frames)
           run == {b0}
           e == Ended(depths, "error", run)
           f == [frames[d] EXCEPT !.section = "handler", !.do_rethrow = (kind # "catch")]
           cut == SubSeq(frames, 1, d - 1)
<1>1. ErrorTypeOK /\ Nest(frames, blocks, d, n, Tries)
  BY DEF CleanInv, NestInv
<1>2. d \in 1..n /\ n \in Nat /\ frames[d].section = "body" /\ kind \in Tries
  BY <1>1, CleanFacts DEF Nest
<1>3. /\ frames[d] \in Frame /\ b0 \in DOMAIN blocks
      /\ RunningOK(frames[d], blocks[b0], b0 \in exitCallbacks)
  BY <1>2, CleanFacts
<1>4. /\ f.section = "handler" /\ f.block = b0 /\ f.do_rethrow = (kind # "catch")
      /\ f \in Frame
  BY <1>3 DEF Frame
<1>5. e \in Seq(Block) /\ DOMAIN e = DOMAIN blocks
  <2>1. "error" \in Ends
    BY DEF Ends
  <2> HIDE DEF depths, run
  <2> QED BY <1>1, <2>1, EndedBlocks
<1>6. /\ frames' = Append(cut, f) /\ blocks' = [e EXCEPT ![b0].failed = TRUE]
      /\ exitCallbacks' = exitCallbacks \ {b0}
  BY <1>4 DEF Handler, KindOf
<1>7. cut \in Seq(Frame) /\ Len(cut) = d - 1 /\ \A i \in 1..d - 1 : cut[i] = frames[i]
  BY <1>1, <1>2 DEF ErrorTypeOK
<1>8. \A b \in DOMAIN blocks :
        /\ e[b].kind = blocks[b].kind /\ e[b].failed = blocks[b].failed
        /\ e[b].ended = IF \E i \in depths : frames[i].block = b THEN "error" ELSE blocks[b].ended
        /\ e[b].ran = IF b \in run THEN blocks[b].ran + 1 ELSE blocks[b].ran
  <2> SUFFICES ASSUME NEW b \in DOMAIN blocks
               PROVE  /\ e[b].kind = blocks[b].kind /\ e[b].failed = blocks[b].failed
                      /\ e[b].ended = IF \E i \in depths : frames[i].block = b
                                      THEN "error" ELSE blocks[b].ended
                      /\ e[b].ran = IF b \in run THEN blocks[b].ran + 1 ELSE blocks[b].ran
    OBVIOUS
  <2> HIDE DEF depths, run
  <2>1. blocks[b] \in Block
    BY CleanFacts
  <2> QED BY <2>1, EndedFields
<1> HIDE DEF f, e, cut
<1>9. /\ Len(frames') = d /\ frames'[d] = f
      /\ \A i \in 1..d - 1 : frames'[i] = frames[i]
  BY <1>2, <1>4, <1>6, <1>7
<1>10. /\ DOMAIN blocks' = DOMAIN blocks
       /\ \A b \in DOMAIN blocks : b # b0 => blocks'[b] = e[b]
       /\ blocks'[b0].kind = e[b0].kind /\ blocks'[b0].ended = e[b0].ended
       /\ blocks'[b0].ran = e[b0].ran /\ blocks'[b0].failed = TRUE
  BY <1>3, <1>5, <1>6, FailedFields
<1>11. \A i \in 1..d : frames'[i].block = frames[i].block
  BY <1>2, <1>4, <1>9
<1>12. ASSUME NEW b \in DOMAIN blocks, \A i \in 1..n : frames[i].block # b
       PROVE  Same(blocks'[b], blocks[b])
  <2>1. b # b0 /\ ~\E i \in depths : frames[i].block = b
    BY <1>2, <1>12
  <2> QED BY <1>8, <1>10, <2>1 DEF Same
<1>13. ASSUME NEW i \in 1..d
       PROVE  RunningOK(frames'[i], blocks'[frames[i].block], frames[i].block \in exitCallbacks')
  <2>1. CASE i = d
    <3>1. ~\E j \in depths : frames[j].block = b0
      BY <1>2, CleanFacts
    <3>2. /\ blocks'[b0].kind = kind /\ blocks'[b0].ended = blocks[b0].ended
          /\ blocks'[b0].ran = blocks[b0].ran + 1 /\ blocks'[b0].failed = TRUE
      BY <1>3, <1>8, <1>10, <3>1
    <3>3. b0 \notin exitCallbacks'
      BY <1>6
    <3>4. kind = "ensure" \/ kind = "finally" => blocks[b0].ran = 0 /\ f.do_rethrow
      BY <1>2, <1>3, <1>4 DEF RunningOK
    <3>5. blocks[b0].ended = "no"
      BY <1>3 DEF RunningOK
    <3>6. frames'[i] = f /\ frames[i].block = b0
      BY <1>9, <2>1
    <3> HIDE DEF b0, kind
    <3> QED BY <1>4, <3>2, <3>3, <3>4, <3>5, <3>6 DEF RunningOK
  <2>2. CASE i # d
    <3> DEFINE b == frames[i].block
    <3>1. i \in 1..d - 1 /\ i \in 1..n
      BY <1>2, <2>2
    <3>2. /\ b \in DOMAIN blocks /\ b # b0 /\ ~\E j \in depths : frames[j].block = b
          /\ RunningOK(frames[i], blocks[b], b \in exitCallbacks)
      BY <1>2, <2>2, <3>1, CleanFacts
    <3>3. Same(blocks'[b], blocks[b]) /\ (b \in exitCallbacks' <=> b \in exitCallbacks)
      BY <1>6, <1>8, <1>10, <3>2 DEF Same
    <3>4. frames'[i] = frames[i]
      BY <1>9, <3>1
    <3> HIDE DEF b
    <3>5. RunningOK(frames[i], blocks'[b], b \in exitCallbacks')
      BY <3>2, <3>3 DEF RunningOK, Same
    <3> QED BY <3>4, <3>5 DEF b
  <2> QED BY <2>1, <2>2
<1>14. ASSUME NEW i \in d + 1..n
       PROVE  EndedOK(blocks'[frames[i].block]) /\ frames[i].block \notin exitCallbacks'
  <2> DEFINE b == frames[i].block
  <2>1. i \in 1..n /\ i > d /\ i \in depths
    BY <1>2
  <2>2. b \in DOMAIN blocks /\ b # b0
    BY <1>2, <2>1, CleanFacts
  <2>3. /\ blocks'[b].kind = blocks[b].kind /\ blocks'[b].ended = "error"
        /\ blocks'[b].ran = blocks[b].ran
    BY <1>8, <1>10, <2>1, <2>2
  <2>4. EndedOK(blocks'[b]) /\ b \notin exitCallbacks
    BY <2>1, <2>3, InsideEnds
  <2> QED BY <1>6, <2>4
<1>15. exitCallbacks' \subseteq exitCallbacks /\ d \in 0..n
  BY <1>2, <1>6
<1> HIDE DEF d
<1> QED BY <1>9, <1>10, <1>11, <1>12, <1>13, <1>14, <1>15, LeaveKeeps

\* A block ends, or is cleaned up, by Ended: what that does to the blocks in all.
LEMMA EndedAll ==
  ASSUME CleanInv, NEW depths, NEW how, NEW run
  PROVE  \A b \in DOMAIN blocks :
           LET e == Ended(depths, how, run)[b]
           IN /\ e.kind = blocks[b].kind /\ e.failed = blocks[b].failed
              /\ e.ended = IF \E i \in depths : frames[i].block = b THEN how ELSE blocks[b].ended
              /\ e.ran = IF b \in run THEN blocks[b].ran + 1 ELSE blocks[b].ran
<1> SUFFICES ASSUME NEW b \in DOMAIN blocks
             PROVE  LET e == Ended(depths, how, run)[b]
                    IN /\ e.kind = blocks[b].kind /\ e.failed = blocks[b].failed
                       /\ e.ended = IF \E i \in depths : frames[i].block = b
                                    THEN how ELSE blocks[b].ended
                       /\ e.ran = IF b \in run THEN blocks[b].ran + 1 ELSE blocks[b].ran
  OBVIOUS
<1>1. blocks[b] \in Block
  BY CleanFacts
<1> QED BY <1>1, EndedFields

\* An error that no block catches.
LEMMA MainLoopClean ==
  ASSUME CleanInv, NestInv', PG_exception_stack = 0, MainLoopHandler
  PROVE  CleanInv'
<1> DEFINE n == Len(frames)
           depths == DOMAIN frames
           run == {}
           e == Ended(depths, "error", run)
<1>1. n \in Nat /\ depths = 1..n
  BY TypeFacts DEF CleanInv, NestInv
<1>2. /\ blocks' = e /\ exitCallbacks' = exitCallbacks /\ Len(frames') = 0
      /\ DOMAIN blocks' = DOMAIN blocks
  BY DEF MainLoopHandler, Ended
<1>3. \A b \in DOMAIN blocks :
        /\ e[b].kind = blocks[b].kind /\ e[b].failed = blocks[b].failed
        /\ e[b].ended = IF \E i \in depths : frames[i].block = b THEN "error" ELSE blocks[b].ended
        /\ e[b].ran = IF b \in run THEN blocks[b].ran + 1 ELSE blocks[b].ran
  <2> HIDE DEF depths, run
  <2> QED BY EndedAll
<1> HIDE DEF e
<1>4. ASSUME NEW b \in DOMAIN blocks, \A i \in 1..n : frames[i].block # b
      PROVE  Same(blocks'[b], blocks[b])
  BY <1>1, <1>2, <1>3, <1>4 DEF Same
<1>5. ASSUME NEW i \in 1..n
      PROVE  EndedOK(blocks'[frames[i].block]) /\ frames[i].block \notin exitCallbacks'
  <2> DEFINE b == frames[i].block
  <2>1. b \in DOMAIN blocks
    BY CleanFacts
  <2>2. /\ blocks'[b].kind = blocks[b].kind /\ blocks'[b].ended = "error"
        /\ blocks'[b].ran = blocks[b].ran
    BY <1>1, <1>2, <1>3, <2>1
  <2>3. i > PG_exception_stack
    BY <1>1
  <2>4. EndedOK(blocks'[b]) /\ b \notin exitCallbacks
    BY <2>2, <2>3, InsideEnds
  <2> QED BY <1>2, <2>4
<1>6. 0 \in 0..n /\ (\A i \in 0 + 1..n : i \in 1..n) /\ (\A i \in 1..0 : FALSE)
  BY <1>1
<1> QED BY <1>2, <1>4, <1>5, <1>6, LeaveKeeps

\* An error.
LEMMA ThrowClean ==
  ASSUME CleanInv, NestInv', Throw
  PROVE  CleanInv'
BY MainLoopClean, HandlerClean DEF Throw

\* PG_END_TRY of a block that has been cleaned up, or needed not to be.
LEMMA PopClean ==
  ASSUME CleanInv, NestInv', frames # << >>, Pop("ok"),
         exitCallbacks' = exitCallbacks \ {Top.block},
         KindOf(Top) = "ensure" => blocks[Top.block].ran = 0,
         KindOf(Top) = "finally" => blocks[Top.block].ran = 1,
         KindOf(Top) \in {"finally", "ensure"} => ~blocks[Top.block].failed
  PROVE  CleanInv'
<1> DEFINE n == Len(frames)
           depths == {n}
           run == {}
           e == Ended(depths, "ok", run)
           m == n - 1
           b0 == frames[n].block
<1>1. n \in Nat /\ n # 0 /\ n \in 1..n /\ m \in 0..n
  <2>1. n \in Nat
    BY CleanFacts
  <2>2. n # 0
    BY DEF CleanInv, NestInv, ErrorTypeOK
  <2> QED BY <2>1, <2>2
<1>2. /\ blocks' = e /\ frames' = SubSeq(frames, 1, m) /\ DOMAIN blocks' = DOMAIN blocks
  BY DEF Pop, Ended
<1>3. Len(frames') = m /\ \A i \in 1..m : frames'[i] = frames[i]
  <2>1. frames \in Seq(Frame)
    BY DEF CleanInv, NestInv, ErrorTypeOK
  <2>2. m \in Nat /\ m <= Len(frames)
    BY <1>1
  <2> HIDE DEF m
  <2> QED BY <1>2, <2>1, <2>2
<1>4. \A b \in DOMAIN blocks :
        /\ e[b].kind = blocks[b].kind /\ e[b].failed = blocks[b].failed
        /\ e[b].ended = IF \E i \in depths : frames[i].block = b THEN "ok" ELSE blocks[b].ended
        /\ e[b].ran = IF b \in run THEN blocks[b].ran + 1 ELSE blocks[b].ran
  <2> HIDE DEF depths, run
  <2> QED BY EndedAll
<1>5. exitCallbacks' = exitCallbacks \ {b0} /\ b0 \in DOMAIN blocks
  BY <1>1, CleanFacts DEF Top
<1> HIDE DEF e
<1>6. ASSUME NEW b \in DOMAIN blocks, \A i \in 1..n : frames[i].block # b
      PROVE  Same(blocks'[b], blocks[b])
  <2>1. ~\E i \in depths : frames[i].block = b
    BY <1>1, <1>6
  <2> QED BY <1>2, <1>4, <2>1 DEF Same
<1>7. ASSUME NEW i \in 1..m
      PROVE  RunningOK(frames'[i], blocks'[frames[i].block], frames[i].block \in exitCallbacks')
  <2> DEFINE b == frames[i].block
  <2>1. i \in 1..n /\ i # n
    BY <1>1
  <2>2. /\ b \in DOMAIN blocks /\ b # b0 /\ RunningOK(frames[i], blocks[b], b \in exitCallbacks)
    BY <1>1, <2>1, CleanFacts
  <2>3. Same(blocks'[b], blocks[b]) /\ (b \in exitCallbacks' <=> b \in exitCallbacks)
    BY <1>2, <1>4, <1>5, <2>2 DEF Same
  <2>4. frames'[i] = frames[i]
    BY <1>3
  <2> HIDE DEF b
  <2>5. RunningOK(frames[i], blocks'[b], b \in exitCallbacks')
    BY <2>2, <2>3 DEF RunningOK, Same
  <2> QED BY <2>4, <2>5 DEF b
<1>8. EndedOK(blocks'[b0]) /\ b0 \notin exitCallbacks'
  <2>1. /\ blocks'[b0].kind = blocks[b0].kind /\ blocks'[b0].ended = "ok"
        /\ blocks'[b0].ran = blocks[b0].ran /\ blocks'[b0].failed = blocks[b0].failed
    BY <1>2, <1>4, <1>5
  <2>2. /\ blocks[b0].kind = "ensure" => blocks[b0].ran = 0
        /\ blocks[b0].kind = "finally" => blocks[b0].ran = 1
        /\ blocks[b0].kind \in {"finally", "ensure"} => ~blocks[b0].failed
    BY DEF KindOf, Top
  <2> HIDE DEF b0
  <2> QED BY <1>5, <2>1, <2>2 DEF EndedOK
<1>9. \A i \in m + 1..n : i = n
  BY <1>1
<1>10. \A i \in m + 1..n : /\ EndedOK(blocks'[frames[i].block])
                           /\ frames[i].block \notin exitCallbacks'
  BY <1>8, <1>9
<1>11. (\A i \in 1..m : frames'[i].block = frames[i].block) /\ exitCallbacks' \subseteq exitCallbacks
  BY <1>3, <1>5
<1> HIDE DEF m
<1> QED BY <1>1, <1>2, <1>3, <1>6, <1>7, <1>10, <1>11, LeaveKeeps

\* The end of a body.
LEMMA EndBodyClean ==
  ASSUME CleanInv, NestInv', EndBody
  PROVE  CleanInv'
<1> DEFINE n == Len(frames)
           b0 == frames[n].block
<1>1. n \in Nat /\ n # 0 /\ n \in 1..n
  <2>1. n \in Nat
    BY CleanFacts
  <2>2. n # 0
    BY DEF EndBody, CleanInv, NestInv, ErrorTypeOK
  <2> QED BY <2>1, <2>2
<1>2. /\ frames[n].section = "body" /\ exitCallbacks' = exitCallbacks \ {b0}
      /\ frames # << >>
  BY DEF EndBody, Top
<1>3. /\ RunningOK(frames[n], blocks[b0], b0 \in exitCallbacks) /\ b0 \in DOMAIN blocks
      /\ frames[n] \in Frame
  BY <1>1, CleanFacts
<1>4. CASE KindOf(Top) # "finally"
  <2>1. Pop("ok") /\ exitCallbacks' = exitCallbacks \ {Top.block}
    BY <1>4 DEF EndBody
  <2>2. KindOf(Top) = "ensure" => blocks[Top.block].ran = 0 /\ ~blocks[Top.block].failed
    BY <1>2, <1>3 DEF RunningOK, Top, KindOf
  <2> QED BY <1>2, <1>4, <2>1, <2>2, PopClean
<1>5. CASE KindOf(Top) = "finally"
  <2> DEFINE f == [frames[n] EXCEPT !.section = "handler"]
             depths == {}
             run == {b0}
             e == Ended(depths, "no", run)
  <2>1. f.block = b0 /\ f.section = "handler"
    BY <1>3 DEF Frame
  <2>2. frames' = [frames EXCEPT ![n] = f] /\ blocks' = e /\ DOMAIN blocks' = DOMAIN blocks
    BY <1>5 DEF EndBody, Top, Ended
  <2>3. \A b \in DOMAIN blocks :
          /\ e[b].kind = blocks[b].kind /\ e[b].failed = blocks[b].failed
          /\ e[b].ended = IF \E i \in depths : frames[i].block = b THEN "no" ELSE blocks[b].ended
          /\ e[b].ran = IF b \in run THEN blocks[b].ran + 1 ELSE blocks[b].ran
    <3> HIDE DEF depths, run
    <3> QED BY EndedAll
  <2> HIDE DEF f, e
  <2>4. /\ Len(frames') = n /\ frames'[n] = f
        /\ \A i \in 1..n : i # n => frames'[i] = frames[i]
    BY <1>1, <2>2 DEF CleanInv, NestInv, ErrorTypeOK
  <2>5. ASSUME NEW b \in DOMAIN blocks, b # b0
        PROVE  Same(blocks'[b], blocks[b])
    BY <2>2, <2>3, <2>5 DEF Same
  <2>6. ASSUME NEW i \in 1..n
        PROVE  RunningOK(frames'[i], blocks'[frames[i].block], frames[i].block \in exitCallbacks')
    <3>1. CASE i = n
      <4>1. /\ blocks'[b0].kind = "finally" /\ blocks'[b0].ended = "no"
            /\ blocks'[b0].ran = 1 /\ blocks'[b0].failed = FALSE
        <5>1. blocks[b0].kind = "finally"
          BY <1>5 DEF KindOf, Top
        <5>2. blocks[b0].ran = 0 /\ blocks[b0].ended = "no" /\ blocks[b0].failed = FALSE
          <6>1. blocks[b0].failed \in BOOLEAN
            BY <1>3, CleanFacts DEF Block
          <6> QED BY <1>2, <1>3, <5>1, <6>1 DEF RunningOK
        <5> QED BY <1>3, <2>2, <2>3, <5>1, <5>2
      <4>2. frames'[i] = f /\ frames[i].block = b0 /\ b0 \notin exitCallbacks'
        BY <1>2, <2>4, <3>1
      <4> HIDE DEF b0
      <4> QED BY <2>1, <4>1, <4>2 DEF RunningOK
    <3>2. CASE i # n
      <4> DEFINE b == frames[i].block
      <4>1. /\ b \in DOMAIN blocks /\ b # b0
            /\ RunningOK(frames[i], blocks[b], b \in exitCallbacks)
        BY <1>1, <3>2, CleanFacts
      <4>2. Same(blocks'[b], blocks[b]) /\ (b \in exitCallbacks' <=> b \in exitCallbacks)
        BY <1>2, <2>5, <4>1
      <4>3. frames'[i] = frames[i]
        BY <2>4, <3>2
      <4> HIDE DEF b
      <4>4. RunningOK(frames[i], blocks'[b], b \in exitCallbacks')
        BY <4>1, <4>2 DEF RunningOK, Same
      <4> QED BY <4>3, <4>4 DEF b
    <3> QED BY <3>1, <3>2
  <2>7. \A b \in DOMAIN blocks :
          (\A i \in 1..n : frames[i].block # b) => Same(blocks'[b], blocks[b])
    BY <1>1, <2>5
  <2>8. \A i \in 1..n : frames'[i].block = frames[i].block
    BY <2>1, <2>4
  <2>9. n \in 0..n /\ (\A i \in n + 1..n : FALSE) /\ exitCallbacks' \subseteq exitCallbacks
    BY <1>1, <1>2
  <2> QED BY <2>2, <2>4, <2>6, <2>7, <2>8, <2>9, LeaveKeeps
<1> QED BY <1>4, <1>5

\* The end of a handler.
LEMMA EndHandlerClean ==
  ASSUME CleanInv, NestInv', EndHandler
  PROVE  CleanInv'
<1>1. CASE Top.do_rethrow
  BY <1>1, ThrowClean DEF EndHandler
<1>2. CASE ~Top.do_rethrow
  <2> DEFINE n == Len(frames)
             b0 == frames[n].block
  <2>1. n \in 1..n
    <3>1. n \in Nat
      BY CleanFacts
    <3>2. n # 0
      BY DEF EndHandler, CleanInv, NestInv, ErrorTypeOK
    <3> QED BY <3>1, <3>2
  <2>2. RunningOK(frames[n], blocks[b0], b0 \in exitCallbacks)
    BY <2>1, CleanFacts
  <2>3. frames[n].section = "handler" /\ ~frames[n].do_rethrow
    BY <1>2 DEF EndHandler, Top
  <2>4. /\ blocks[b0].kind # "ensure" /\ b0 \notin exitCallbacks
        /\ blocks[b0].kind = "finally" => blocks[b0].ran = 1 /\ ~blocks[b0].failed
    BY <2>2, <2>3 DEF RunningOK
  <2>5. Pop("ok") /\ frames # << >> /\ exitCallbacks' = exitCallbacks \ {Top.block}
    <3>1. Pop("ok") /\ frames # << >> /\ exitCallbacks' = exitCallbacks
      BY <1>2 DEF EndHandler
    <3> QED BY <2>4, <3>1 DEF Top
  <2> QED BY <2>4, <2>5, PopClean DEF KindOf, Top
<1> QED BY <1>1, <1>2

\* The process exits.
LEMMA FatalClean ==
  ASSUME CleanInv, NestInv', Fatal
  PROVE  CleanInv'
<1> DEFINE n == Len(frames)
           depths == DOMAIN frames
           e == Ended(depths, "exit", exitCallbacks)
<1>1. n \in Nat /\ depths = 1..n
  BY TypeFacts DEF CleanInv, NestInv
<1>2. /\ blocks' = e /\ exitCallbacks' = {} /\ Len(frames') = 0
      /\ DOMAIN blocks' = DOMAIN blocks
  BY DEF Fatal, Ended
<1>3. \A b \in DOMAIN blocks :
        /\ e[b].kind = blocks[b].kind /\ e[b].failed = blocks[b].failed
        /\ e[b].ended = IF \E i \in depths : frames[i].block = b THEN "exit" ELSE blocks[b].ended
        /\ e[b].ran = IF b \in exitCallbacks THEN blocks[b].ran + 1 ELSE blocks[b].ran
  <2> HIDE DEF depths
  <2> QED BY EndedAll
<1> HIDE DEF e
<1>4. ASSUME NEW b \in DOMAIN blocks, \A i \in 1..n : frames[i].block # b
      PROVE  Same(blocks'[b], blocks[b])
  <2>1. b \notin exitCallbacks
    BY <1>4 DEF CleanInv
  <2> QED BY <1>1, <1>2, <1>3, <1>4, <2>1 DEF Same
<1>5. ASSUME NEW i \in 1..n
      PROVE  EndedOK(blocks'[frames[i].block])
  <2> DEFINE b == frames[i].block
  <2>1. b \in DOMAIN blocks /\ RunningOK(frames[i], blocks[b], b \in exitCallbacks)
    BY CleanFacts
  <2>2. /\ blocks'[b].kind = blocks[b].kind /\ blocks'[b].ended = "exit"
        /\ blocks'[b].ran = IF b \in exitCallbacks THEN blocks[b].ran + 1 ELSE blocks[b].ran
    BY <1>1, <1>2, <1>3, <2>1
  <2> HIDE DEF b
  <2>3. EndedOK(blocks'[b])
    BY <2>1, <2>2 DEF RunningOK, EndedOK
  <2> QED BY <2>3 DEF b
<1>6. 0 \in 0..n /\ (\A i \in 0 + 1..n : i \in 1..n) /\ (\A i \in 1..0 : FALSE)
  BY <1>1
<1> QED BY <1>2, <1>4, <1>5, <1>6, LeaveKeeps

\* A cleanup is executed once if its block fails, however many errors follow each other
\* and wherever the process exits, for every depth and number of blocks.
THEOREM CleanupAlwaysOnce == ErrorSpec => []CleanupOnce
<1>1. ErrorInit => CleanInv
  BY DEF ErrorInit, CleanInv, NestInv, ErrorTypeOK, Nest, Saved
<1>2. CleanInv /\ NestInv' /\ [ErrorNext]_errorVars => CleanInv'
  <2> SUFFICES ASSUME CleanInv, NestInv', [ErrorNext]_errorVars PROVE CleanInv'
    OBVIOUS
  <2>1. ASSUME NEW kind \in Kinds, PG_TRY(kind) PROVE CleanInv'
    BY <2>1, TryClean
  <2>2. CASE Error
    BY <2>2, ThrowClean DEF Error
  <2>3. CASE EndBody
    BY <2>3, EndBodyClean
  <2>4. CASE EndHandler
    BY <2>4, EndHandlerClean
  <2>5. CASE Fatal
    BY <2>5, FatalClean
  <2>6. CASE NextCommand
    <3>1. /\ frames = << >> /\ frames' = << >> /\ blocks' = << >>
          /\ exitCallbacks' = exitCallbacks
      BY <2>6 DEF NextCommand
    <3>2. exitCallbacks = {}
      BY <3>1 DEF CleanInv
    <3> QED BY <3>1, <3>2 DEF CleanInv
  <2>7. CASE UNCHANGED errorVars
    BY <2>7 DEF errorVars, CleanInv
  <2> QED BY <2>1, <2>2, <2>3, <2>4, <2>5, <2>6, <2>7 DEF ErrorNext
<1> QED BY <1>1, <1>2, NestInvariant, CleanOnce, PTL DEF ErrorSpec

=============================================================================
