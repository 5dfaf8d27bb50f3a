----------------------------- MODULE PgUpgrade ------------------------------
(***************************************************************************)
(* The metadata of Citus across pg_upgrade.  pg_upgrade carries over the   *)
(* tables of users but not the rows of catalog tables, so that             *)
(* citus_prepare_pg_upgrade copies these into the schema public and        *)
(* citus_finish_pg_upgrade copies them back, restores the sequences, the   *)
(* truncate triggers and the dependencies, and finds the distributed       *)
(* objects again by their names.  Each function is one transaction; under  *)
(* READ COMMITTED every CREATE TABLE AS of the first one sees what other   *)
(* sessions have committed meanwhile.  Tables and objects may be dropped   *)
(* between the two, and the second one then fails and restores nothing.    *)
(*                                                                         *)
(* Of the twelve tables there are pg_dist_partition, pg_dist_shard (the    *)
(* placements and colocation groups, with an id from a sequence each, are  *)
(* like it), pg_dist_node and pg_dist_object.  What fills the catalogs and *)
(* pg_upgrade itself are compiled code: they are modelled from what the    *)
(* functions expect of them.                                               *)
(***************************************************************************)
EXTENDS Integers, Sequences, FiniteSetsExt

CONSTANTS Tables,       \* the tables that may be distributed
          Objects,      \* the other objects that may be, by name
          Oids,         \* and their oids
          NULL,         \* no name
          MaxShardId, MaxNodeId     \* bounds on the ids handed out

ASSUME NullAssumption == NULL \notin Objects

VARIABLES catalog,      \* pg_dist_partition, pg_dist_shard, pg_dist_node
          marked,       \* pg_dist_object: the oids of the distributed objects
          oids,         \* the oid of every object that exists
          dropped,      \* the tables that do not exist any more
          seqs,         \* the next value of each sequence
          attached,     \* the tables with a truncate trigger and a dependency
          aggregate,    \* array_cat_agg exists
          backup,       \* the tables in public, if there are any
          prepare,      \* the transaction of citus_prepare_pg_upgrade
          upgraded      \* the server comes from pg_upgrade and is not finished

upgradeVars ==
  <<catalog, marked, oids, dropped, seqs, attached, aggregate, backup, prepare, upgraded>>

NoTables == [partition |-> {}, shard |-> {}, node |-> {}]
SeqStart == [shardid |-> 1, nodeid |-> 1, groupid |-> 1]
NoBackup == [rows |-> << >>]
NotRunning == [next |-> 0, marked |-> {}]
Torn == << >>

\* The tables that are copied, in their order.
Copies == <<"partition", "shard", "node", "object">>

\* The copies with one more.
WithCopy(rows, what, copy) ==
  [x \in DOMAIN rows \cup {what} |-> IF x = what THEN copy ELSE rows[x]]

\* pg_identify_object_as_address: the names of the objects with these oids.  Those of an
\* object that is gone are NULL.
Names(ids) ==
  {o \in DOMAIN oids : oids[o] \in ids}
    \cup (IF ids \subseteq {oids[o] : o \in DOMAIN oids} THEN {} ELSE {NULL})

\* What is to be kept.
Metadata ==
  [x \in {"partition", "shard", "node", "object"} |->
     IF x = "object" THEN Names(marked) ELSE catalog[x]]

\* The oids that objects may have.
Assigned(objects) ==
  {f \in [objects -> Oids] : \A o, p \in objects : f[o] = f[p] => o = p}

UpgradeInit ==
  /\ catalog = [NoTables EXCEPT !.node = {[nodeid |-> 1, groupid |-> 0]}]
  /\ seqs = [SeqStart EXCEPT !.nodeid = 2]
  /\ marked = {} /\ attached = {} /\ dropped = {}
  /\ oids \in Assigned(Objects)
  /\ aggregate = TRUE /\ backup = NoBackup /\ prepare = NotRunning
  /\ upgraded = FALSE

-----------------------------------------------------------------------------
(* Other sessions.  A bound: between pg_upgrade and citus_finish_pg_upgrade they only
   drop and create. *)

\* A commit; the copies that are being made are of different states then, unless
\* they are all of one snapshot.
Commits ==
  /\ prepare' = IF prepare = NotRunning THEN prepare
                ELSE IF prepare.repeatable THEN prepare
                ELSE [prepare EXCEPT !.began = Torn]
  /\ UNCHANGED <<aggregate, backup, upgraded>>

DistributeTable(t) ==
  /\ ~upgraded /\ Commits
  /\ t \notin catalog.partition \cup dropped /\ seqs.shardid <= MaxShardId
  /\ catalog' = [catalog EXCEPT !.partition = @ \cup {t},
                                !.shard = @ \cup {[shardid |-> seqs.shardid, table |-> t]}]
  /\ seqs' = [seqs EXCEPT !.shardid = @ + 1]
  /\ attached' = attached \cup {t}
  /\ UNCHANGED <<marked, oids, dropped>>

\* citus_drop_trigger.  What is created under the table's name later is another table.
DropTable(t) ==
  /\ Commits
  /\ t \notin dropped /\ dropped' = dropped \cup {t}
  /\ catalog' = [catalog EXCEPT !.partition = @ \ {t},
                                !.shard = {s \in @ : s.table # t}]
  /\ attached' = attached \ {t}
  /\ UNCHANGED <<seqs, marked, oids>>

\* citus_drop_trigger, of other objects.
DropObject(o) ==
  /\ Commits
  /\ marked' = marked \ {oids[o]}
  /\ oids' = [p \in DOMAIN oids \ {o} |-> oids[p]]
  /\ UNCHANGED <<catalog, dropped, seqs, attached>>

\* Also an object that was dropped before, under an oid of its own.  A bound: the counter
\* of oids does not come back to one that is looked for.
CreateObject(o, oid) ==
  /\ Commits
  /\ o \notin DOMAIN oids
  /\ oid \notin {oids[p] : p \in DOMAIN oids} \cup prepare.marked
  /\ oids' = [p \in DOMAIN oids \cup {o} |-> IF p = o THEN oid ELSE oids[p]]
  /\ UNCHANGED <<catalog, marked, dropped, seqs, attached>>

AddNode ==
  /\ ~upgraded /\ Commits
  /\ seqs.nodeid <= MaxNodeId
  /\ catalog' = [catalog EXCEPT !.node =
                   @ \cup {[nodeid |-> seqs.nodeid, groupid |-> seqs.groupid]}]
  /\ seqs' = [seqs EXCEPT !.nodeid = @ + 1, !.groupid = @ + 1]
  /\ UNCHANGED <<marked, oids, dropped, attached>>

\* A bound: the coordinator, group 0, stays.
RemoveNode(n) ==
  /\ ~upgraded /\ Commits
  /\ n.groupid # 0
  /\ catalog' = [catalog EXCEPT !.node = @ \ {n}]
  /\ UNCHANGED <<seqs, marked, oids, dropped, attached>>

MarkObject(o) ==
  /\ ~upgraded /\ Commits
  /\ oids[o] \notin marked
  /\ marked' = marked \cup {oids[o]}
  /\ UNCHANGED <<catalog, oids, dropped, seqs, attached>>

-----------------------------------------------------------------------------
(* citus_prepare_pg_upgrade: one transaction. *)

Preparing == UNCHANGED <<catalog, marked, oids, dropped, seqs, attached, upgraded>>

PrepareStart ==
  /\ ~upgraded /\ prepare = NotRunning
  /\ \E repeatable \in BOOLEAN :
       prepare' = [next |-> 1, rows |-> << >>, began |-> Metadata, marked |-> marked,
                   repeatable |-> repeatable]
  /\ Preparing /\ UNCHANGED <<aggregate, backup>>

\* CREATE TABLE public.... AS SELECT: under REPEATABLE READ, of the rows there were when
\* the first statement began, but of the names that objects have by now.
Copy ==
  /\ prepare.next \in DOMAIN Copies
  /\ LET what == Copies[prepare.next]
         seen == IF prepare.repeatable
                 THEN [prepare.began EXCEPT !["object"] = Names(prepare.marked)]
                 ELSE Metadata
     IN prepare' = [prepare EXCEPT !.next = @ + 1, !.rows = WithCopy(@, what, seen[what])]
  /\ Preparing /\ UNCHANGED <<aggregate, backup>>

\* The aggregate is gone and the backup there may have been is replaced.
PrepareCommit ==
  /\ prepare.next = Len(Copies) + 1
  /\ aggregate' = FALSE
  /\ backup' = [rows |-> prepare.rows, began |-> prepare.began]
  /\ prepare' = NotRunning
  /\ Preparing

\* An error, a cancelled statement or a crash: nothing is left of it.
PrepareAbort ==
  /\ prepare # NotRunning
  /\ prepare' = NotRunning
  /\ Preparing /\ UNCHANGED <<aggregate, backup>>

-----------------------------------------------------------------------------
(* The upgrade. *)

\* pg_upgrade, which fails on the aggregate if it is there; the oids of objects
\* that are not tables may change, and pg_dist_object keeps the old ones.
RunPgUpgrade ==
  /\ ~upgraded /\ prepare = NotRunning /\ ~aggregate
  /\ catalog' = NoTables /\ seqs' = SeqStart /\ attached' = {}
  /\ oids' \in Assigned(DOMAIN oids)
  /\ upgraded' = TRUE
  /\ UNCHANGED <<marked, dropped, aggregate, backup, prepare>>

\* setval(..., (SELECT MAX(id) + 1), false), which leaves the sequence alone when
\* there are no ids.
SetvalToMax(start, ids) == IF ids = {} THEN start ELSE Max(ids)
Setval(start, ids) == IF ids = {} THEN start ELSE Max(ids) + 1

\* Whether the backup can be restored: CREATE TRIGGER, for every table, fails on one that
\* is gone, pg_get_object_address on a name that no object has, and a row without a name
\* has no oid that pg_dist_object could hold.
CanRestore ==
  /\ backup.rows["partition"] \cap dropped = {}
  /\ backup.rows["object"] \subseteq DOMAIN oids

\* A variant that adds to pg_dist_object.
FinishWithoutTruncate ==
  /\ upgraded /\ CanRestore
  /\ catalog' = [x \in DOMAIN NoTables |-> backup.rows[x]]
  /\ marked' = marked \cup {oids[o] : o \in backup.rows["object"]}
  /\ seqs' = [shardid |-> Setval(seqs.shardid, {s.shardid : s \in backup.rows["shard"]}),
              nodeid |-> Setval(seqs.nodeid, {n.nodeid : n \in backup.rows["node"]}),
              groupid |-> Setval(seqs.groupid, {n.groupid : n \in backup.rows["node"]})]
  /\ attached' = backup.rows["partition"]
  /\ aggregate' = TRUE /\ backup' = NoBackup /\ upgraded' = FALSE
  /\ UNCHANGED <<oids, dropped, prepare>>

\* citus_finish_pg_upgrade.
Finish ==
  /\ upgraded /\ CanRestore
  /\ catalog' = [x \in DOMAIN NoTables |-> backup.rows[x]]
  /\ marked' = {oids[o] : o \in backup.rows["object"]}
  /\ seqs' = [shardid |-> Setval(seqs.shardid, {s.shardid : s \in backup.rows["shard"]}),
              nodeid |-> Setval(seqs.nodeid, {n.nodeid : n \in backup.rows["node"]}),
              groupid |-> Setval(seqs.groupid, {n.groupid : n \in backup.rows["node"]})]
  /\ attached' = backup.rows["partition"]
  /\ aggregate' = TRUE /\ backup' = NoBackup /\ upgraded' = FALSE
  /\ UNCHANGED <<oids, dropped, prepare>>

\* Nothing is left of it when it fails: at something that is gone, or, on a server that
\* does not come from pg_upgrade, at the aggregate or at the row of pg_dist_local_group,
\* which are there.
FinishFails ==
  /\ ~(upgraded /\ CanRestore)
  /\ UNCHANGED upgradeVars

UpgradeNext ==
  \/ \E t \in Tables : DistributeTable(t) \/ DropTable(t)
  \/ AddNode
  \/ \E n \in catalog.node : RemoveNode(n)
  \/ \E o \in DOMAIN oids : MarkObject(o) \/ DropObject(o)
  \/ \E o \in Objects, oid \in Oids : CreateObject(o, oid)
  \/ PrepareStart \/ Copy \/ PrepareCommit \/ PrepareAbort
  \/ RunPgUpgrade \/ Finish \/ FinishFails

UpgradeSpec == UpgradeInit /\ [][UpgradeNext]_upgradeVars

-----------------------------------------------------------------------------
(* Properties. *)

\* What citus_finish_pg_upgrade makes of the sequences: the next id of each is
\* none that the restored catalog holds, also when the tables were copied while
\* other sessions changed them, and when there are no rows or only group 0.
IdsFresh ==
  ~upgraded =>
    /\ \A s \in catalog.shard : s.shardid < seqs.shardid
    /\ \A n \in catalog.node : n.nodeid < seqs.nodeid /\ n.groupid < seqs.groupid

\* When citus_finish_pg_upgrade succeeds, the metadata is what it was when
\* citus_prepare_pg_upgrade began, unless that was torn by commits during it: every
\* distributed table, none of which is gone, with its trigger and dependency, and every
\* object under the oid it has now, though it may have been dropped and created again.
\* A REPEATABLE READ transaction is not torn, and copies no object under another's name.
MetadataKept ==
  [][upgraded /\ ~upgraded' /\ backup.began # Torn =>
       /\ Metadata' = backup.began
       /\ attached' = backup.began.partition /\ attached' \cap dropped = {}
       /\ marked' = {oids[o] : o \in backup.began.object}]_upgradeVars

=============================================================================
