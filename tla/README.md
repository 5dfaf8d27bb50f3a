# Verification of PostgreSQL 14.2 with Citus 10.2.5 for Windows

The repository is a binary distribution: the server, its tools and the extension
are compiled, and no C file of either is there. What it holds as source, and what
is modelled here, is the code that is delivered as text:

- the server's headers (`src/include/server`), of which a few hold algorithms and
  protocols in macros, inline functions and templates;
- the SQL scripts of the Citus extension (`src/share/extension`), whose triggers
  and PL/pgSQL functions keep the metadata of a cluster consistent while any
  number of sessions change it.

Paths below are relative to these two directories. What this code calls and the
repository does not hold (the lock manager, snapshots, the processor's memory, C
functions of `citus.dll`) is modelled from how it is used and marked external in
`PROJECT.json`.

## 1. The system and its parts

### Parts with code of their own

**Backend status entries** (`utils/backend_status.h`). State: one `PgBackendStatus`
per backend in shared memory, with `st_changecount`; the owner's critical section
count. Operations: the two writer macros around the owner's assignments; the two
reader macros, `pgstat_read_activity_complete` and the reader's loop. Interaction:
shared memory only, no lock. Hard: a reader copies while the owner writes, both on a
processor that reorders; an error between the macros; the count wraps; the reader
loops. Correct if a copy that is accepted is one complete update, and if the loop
ends.

**simplehash** (`lib/simplehash.h`). State: `size`, `sizemask`, `members`,
`grow_threshold` and the bucket array; an iterator's `cur`, `end`, `done`.
Operations: create, reset, insert (robin hood displacement, growth), lookup, two
deletions with a backward shift, two ways to start an iteration, iterate. Hard: a
long sequence of calls has to keep an invariant of all buckets at once that no call
looks at as a whole; runs wrap around the end; insertions may restart after a
growth; a caller deletes while it iterates. Correct if the table is a set seen
through its calls, if every search ends, if an iteration returns each key once, and
if colliding keys cannot make it grow without end.

**pg_dist_node** (`citus--8.0-1.sql:313-341, 940-990`). State: the rows of the
table, one per node, in groups. Operations: any INSERT, UPDATE, DELETE; the trigger,
which locks the table and looks for a second primary; `AddNodeMetadata` (C), which
locks the table first. Interaction: the lock manager, snapshots. Hard: concurrent
transactions, a lock upgrade inside a statement, a query that reads an older
snapshot than its lock suggests. Correct if a group has at most one primary and
if statements end.

**pg_dist_rebalance_strategy** (`citus--9.1-1--9.2-1.sql:41-181`,
`citus--10.0-4--10.1-1.sql:255-286`). State: the named strategies, one of them the
default. Operations: any statement, with a trigger; `citus_add_rebalance_strategy`;
`citus_set_default_rebalance_strategy`. Hard: the same as above, and a function of
two UPDATEs each of which runs the trigger. Correct if there is at most one
default, if a call takes effect, and if what it was given is kept.

**Time partitions** (`citus--10.1-1--10.2-1.sql:90-390`). State: the partitions of
a table, with names and ranges. Operations: `create_time_partitions` with
`get_missing_time_partition_ranges`, `drop_old_time_partitions`,
`alter_old_partitions_set_access_method` (`citus--9.5-1--10.0-4.sql:622-657`). Hard:
sessions in parallel, ranges counted from a pivot that moves, calendars, names
instead of identities. Correct if the ranges of a call exist when it returns, if
partitions stay aligned and names unique, and if only old partitions are dropped.

**Placement view** (`citus--8.0-1.sql:878-959`). State: `pg_dist_placement` and
`pg_dist_node`. Operations: the INSTEAD OF trigger of `pg_dist_shard_placement`.
Hard: it translates a node into a group without a lock while nodes change roles.
Correct if what is written to the view is what the view shows.

**Upgrade functions** (`citus--10.1-1--10.2-1.sql:461-526`, `citus--10.2-3--10.2-4.sql:82-216`).
State: the metadata tables, their backup in `public`, the sequences, the truncate
triggers and dependencies of distributed tables, an aggregate. Operations:
`citus_prepare_pg_upgrade`, `citus_finish_pg_upgrade`; between them pg_upgrade, which
keeps the tables of users only. Hard: twelve copies while other sessions commit, an
error between two of them, a repeated preparation, empty tables, oids that change, and
tables and objects of the copy that are gone when it is restored. Correct if a
restoration that succeeds brings the metadata back and no identifier is given twice.

**Columnar metadata** (`citus--10.1-1--10.2-1.sql:1-60`). Operation: the row numbers
given to the stripes of existing tables. Correct if stripes do not overlap.

**Extension scripts** (`citus--*.sql`, `citus.control`). State: the installed
version. Operations: update and downgrade. Correct if paths exist and agree.

**Wait lists** (`storage/proclist.h`) **and spin locks** (`storage/s_lock.h`). State: head
and tail, and in every process a node with two process numbers, in shared memory; the
lock's byte. Operations: push at both ends, delete, contains, pop, a loop whose body may
delete; test-and-set and unlock. Interaction: the lists of condition variables and
lightweight locks are changed under a spin lock or lock bit. Hard: the unlock is a
plain store, and stores wait in the processor; a node of zeros is in no list although 0
is a process. Correct if the list is a queue and if the holder of the lock sees what
its predecessors did.

**Atomics** (`port/atomics/generic.h`, `generic-msvc.h`). State: one 64-bit word. Operations:
exchange, add, subtract, and, or, compare-and-exchange, read, each a loop around one
locked instruction. Hard: the load before the loop may be torn, and others change the
word between load and exchange. Correct if each takes effect at one instant, and if
some operation always ends.

**Transaction ids** (`access/transam.h`). Operations: advance, retreat and compare, in 32
bits that wrap and in 64 that do not. Hard: the wrap, the three special ids. Correct
if both counters agree and ids in use compare as they were assigned.

**Sort template** (`lib/sort_template.h`). State: the array, the pointers of a partition, the
calls. Hard: three cases of pivots, blocks of equal elements, comparators that users
write and that contradict themselves. Correct if it sorts, ends, stays inside the array
and does not nest deeply.

**Error handling** (`utils/elog.h`, `storage/ipc.h`). State: `PG_exception_stack`,
`error_context_stack`, the list of exit callbacks, and what every block saved. Operations:
`PG_TRY` with `PG_CATCH` or `PG_FINALLY`, `PG_ENSURE_ERROR_CLEANUP`, `PG_RE_THROW`. Hard:
errors in bodies, in handlers and while the process exits. Correct if an error goes to
the innermost block whose body is being executed and every cleanup is executed once.

**List loops** (`nodes/pg_list.h`). State: an array and an index into it. Operations:
`foreach` and its like, `foreach_delete_current`, insertion. Hard: the body changes the
array. Correct if every element is visited once, as long as the list is not emptied.

**Other code in headers**: `lib/ilist.h`, `lib/pairingheap.h`, `miscadmin.h`,
`common/int.h`, `common/int128.h`, and more; see section 7.

### How they interact

The SQL parts meet in the metadata tables. `pg_dist_node` is read by the placement
view, which keeps one row per placement because a group has one primary; the
upgrade functions copy all tables; rebalancing reads the strategies. They share
one substrate, transactions with table and row locks, which `CatalogTxn` models once.
Among the headers, wait lists are changed inside the sections of spin locks (`WaitList`
is built on `SpinLock`), and the status entries use the critical section counter of
`miscadmin.h` and the promotion of errors of `elog.h`. The others call each other's
operations without sharing state.

### Parts that have no code here

The server and its tools, all C functions behind `MODULE_PATHNAME`, the remaining
headers (declarations), catalogs and messages, samples, time zone data, makefiles
and the installer script.

## 2. Modules

| module | models | how state and actions correspond |
|---|---|---|
| `BackendStatus` | `backend_status.h` | One writer, any readers, one entry. `BeginWrite`, `EndWrite`, `StoreField` are the owner's macros and assignments; `LoadBefore`, `LoadField`, `LoadAfter`, `FinishRead` are one pass of the reader's loop; `Error` is an error, promoted to PANIC by `crit > 0`. The processor: a buffer of stores that drain in any order except across a barrier and for the same location; loads of one barrier segment in any order. Counts are kept unwrapped and compared modulo `Modulus`, `hist` records complete updates. |
| `EntryRegister` | what the entry promises | A register that an update replaces at one instant, and a read that returns what the register held at some instant of the read. |
| `MCBackendStatus` | instance | Bounds the number of updates. |
| `BackendStatus_proofs` | theorems | See section 5. |
| `SimpleHash` | `simplehash.h` | `tb` is `SH_TYPE`; each call is an action; its loops are functions of the table (`Find`, `Placed`, `Removed`, `Grow`). An insertion that restarts, each time on a larger table, is the recursive function in `Prepared`. The hash is a CONSTANT function and the growth limits are parameters, so that small tables meet them. The iterator is `iter`, with the caller deleting between its steps. |
| `HashSet` | what a table promises | A set of keys with insert, delete, lookup, and an iteration that returns each key once if it starts at an empty bucket and its caller deletes only the current key. |
| `MCSimpleHash` | instance | Hash functions: colliding runs that wrap; all keys on one bucket. |
| `SimpleHash_proofs` | theorems | See section 5. |
| `CatalogTxn` | lock manager and snapshots | One row per transaction of `pc` (the lock it waits for), `locks`, `rows`, `mine` (its own versions), `snap`. A statement takes ROW EXCLUSIVE, then its row, then runs the trigger. `Seen` is what a query reads under each isolation level; `Forget` is the end of a transaction. |
| `NodeMetadata` | `pg_dist_node` | `Trigger` is the trigger function together with the change of the row it allows; `Insert`, `Update`, `Delete`, `AddNodeMetadata` start a statement. |
| `MCNodeMetadata` | instance | Three kinds of rows in two groups. |
| `NodeMetadata_proofs` | theorems | See section 5. |
| `RebalanceStrategy` | `pg_dist_rebalance_strategy` | As above; `SetDefault` is the body of `citus_set_default_rebalance_strategy` behind its lock, both UPDATEs with their triggers in order. |
| `MCRebalanceStrategy` | instance | Default and ordinary rows with thresholds in and out of order; rows that differ in the improvement threshold. |
| `CatalogTxn_proofs` | lemmas | What every action of `CatalogTxn` keeps; shared by the next two. |
| `RebalanceStrategy_proofs` | theorems | See section 5. |
| `TimePartitions` | time partition functions | A call of `create_time_partitions` is two actions: it locks the table and computes `Missing`; it checks alignment and creates. Loops that add the interval are written in closed form. `drop_old_time_partitions` is two actions, find and drop, because nothing is locked in between. `Interrupt` ends a call anywhere. |
| `OldPartitions` | `alter_old_partitions_set_access_method` | `AlterOldPartitions` is the query, one conversion is `Convert` (the table is locked) and `CommitConversion`; `InterruptCall` is a cancelled call or a stop of the server, after which the committed conversions remain. `stale` holds the partitions of the list that others have dropped or replaced since. |
| `MCTimePartitions` | instance | Days of early 2018, intervals of 2 to 30 days; truncation and names as the code derives them from the interval. |
| `TimePartitions_proofs` | theorems | See section 5. |
| `PgUpgrade` | the upgrade functions | `PrepareStart`, one `Copy` per table and `PrepareCommit` are one transaction of `citus_prepare_pg_upgrade`; `PrepareAbort` is its failure; other sessions distribute and drop tables, add and remove nodes, and create, mark and drop objects in between. `RunPgUpgrade` empties the catalogs and may change the oids. `Finish` is a call of `citus_finish_pg_upgrade` that succeeds, in one step, since all it does is one transaction on catalogs that nobody else writes then; `FinishFails` is one that raises an error and leaves nothing. `CanRestore` tells them apart: no table of the copy is gone (CREATE TRIGGER needs it), and each of its objects has a name that some object has (`pg_get_object_address`). Tables are relations, by oid, so one that is dropped does not come back; objects are known by name, and can be dropped and created again. Of the twelve tables there are those whose restoration differs. |
| `SpinLock` | `s_lock.h`, the branch for MSVC that this build compiles, on x86 | Memory, and a buffer of stores per processor. `SpinLockAcquire` is `InterlockedCompareExchange`, `SpinLockRelease` a store that waits in the buffer; `Drain` takes the oldest store to memory. |
| `WaitList` | `proclist.h` | Each operation is the list of its stores, computed from what the processor sees; processes perform them inside sections. `Advance` is the step of `proclist_foreach_modify`, which has read the next link before the body. |
| `WaitQueue` | what a wait list promises | A sequence of different processes. |
| `Atomics` | `generic.h`, `generic-msvc.h` | `LoadLow` and `LoadHigh` are the plain load, `TryExchange` one turn of a loop, `ExchangeOnce` the operations without a loop. |
| `AtomicWord` | what an atomic operation promises | A call, one instant at which it takes effect, a return. |
| `TransactionIds` | `transam.h` | The functions are operators of the same names, modulo `Modulus` for 2^32; `AssignXid`, `AdvanceOldest`, `StartUp` and `Stop` are the compiled code that uses them, which keeps fewer than half of the ids in use. |
| `SharedMemory_proofs` | theorems of `WaitList`, `Atomics` and `TransactionIds` | See section 5. |
| `SortTemplate` | `sort_template.h` | `at` is the place in the function; one action per comparison, exchange, or recursive call; `stack` holds what the callers go on with. `Insertion` and `Ninther` are the lengths 7 and 40 at which the code changes its method. |
| `ErrorHandling` | `elog.h`, `ipc.h` | `frames` is the C stack of the blocks, with the local variables of the macros; `blocks` records what became of each. `PG_TRY` enters, `EndBody` and `EndHandler` leave, `Throw`, `Fatal` and `NextCommand` are the compiled code that calls the handlers. |
| `ListLoops` | `pg_list.h` | `Test`, the body's `foreach_delete_current` and `InsertBehind`, `Increment`. Elements are numbered, so that "each once" can be said. |
| `Parts_proofs` | theorems of `PgUpgrade`, `ListLoops`, `SortTemplate` and `ErrorHandling` | See section 5. |
| `MCParts` | instance | All parts from `PgUpgrade` on and `OldPartitions`. `part` is chosen at first; the part's actions happen and the others rest in their initial states. |

Definitions called "a variant" are faulty forms of the definition next to them; no
specification uses them. They record which faults the properties tell apart: each
property of a passing run is violated when one of them takes its original's place
(`mutants` in `PROJECT.json`).

## 3. Runs

`tlc -config X.cfg M`, with the pairs of `PROJECT.json`.

| run | properties | what it shows | bounds |
|---|---|---|---|
| `backend_status` | TypeOK, AcceptedCopyValid, EvenMeansQuiescent, AtomicReads, ReaderTerminates | A copy that the loop accepts is the entry after one update, in all members; the entry implements `EntryRegister`; while the count in memory is even no member is half-way; once the owner stops, readers end. With reordering, panics, and a count that wraps | two members, two values, one reader, two updates, count modulo 4 |
| `simple_hash` | TypeOK, EmptyBucketLeft, Reachable, RobinHood, ImplementsSet, NoSpaceExplosion | Every key can be found, every search ends, runs are ordered by distance; the table implements `HashSet`; keys that collide do not make it grow again and again | five keys, three of them always on one bucket, sizes 2 to 32 |
| `simple_hash_at` | IterationComplete | **violated**, finding 1 | three keys, sizes 2 to 8 |
| `node_metadata` | TypeOK, OnePrimaryPerGroup, WritersAlone | Transactions that insert, promote, renumber and delete never commit two primaries of a group | two transactions, two nodes, two groups, READ COMMITTED |
| `node_metadata_live` | StatementsEnd | Every statement ends although lock upgrades deadlock | two transactions, one of them REPEATABLE READ, one node |
| `node_metadata_repeatable` | OnePrimaryPerGroup | **violated**, finding 2 | REPEATABLE READ |
| `rebalance_strategy` | TypeOK, SingleDefault, DefaultTakesEffect | Never two defaults; a call leaves its strategy as the only default until its transaction ends | two transactions, two names, four rows, READ COMMITTED |
| `rebalance_strategy_add` | ImprovementKept | **violated**, finding 3 | two thresholds |
| `time_partitions` | TypeOK, CallsSucceed, FirstCallCovers, RepeatedCallIsIdle | Partitions stay disjoint; a call fails only if the table has a partition from elsewhere, in parallel or after drops; a first call covers its range; a call leaves nothing for its repetition, also when it moved the pivot | two sessions, two intervals, two manual ranges |
| `time_partitions_cover` | GivenRangeCovered | **violated**, finding 4 | one session |
| `time_partitions_names` | NamesUnique | **violated**, finding 5 | one session, 30 days |
| `parts`, upgrade | IdsFresh, MetadataKept | Ids handed out after the upgrade are none of the restored ones; when the restoration succeeds, what comes back is the metadata of when the copy began, under the new oids, unless others committed during a READ COMMITTED copy; no table that is gone is restored | a table, two nodes, an object, two oids |
| `parts`, wait list | HolderUpToDate, WellFormed, VisitsAll, ImplementsQueue | The holder sees all earlier stores; links agree in both directions; a loop visits all members although its body deletes; the list implements `WaitQueue` | three processes, 0 among them; six stores |
| `parts`, atomics | ImplementsWord, LockFree | The operations implement `AtomicWord`; of those that are retried, one always succeeds | two callers, words of two halves of one bit |
| `parts`, transaction ids | CountersAgree, OrderKept | The counters stay one id through wraps; ids in use are ordered | ids modulo 16, four wraps |
| `parts`, sort | InBounds, ShallowRecursion, SortedAtEnd, SortEnds | It sorts; it ends inside its array, with at most logarithmically many nested calls, also when the comparator contradicts itself | all arrays of up to four, some of five and nine elements; contradictory comparators on up to six |
| `parts`, old partitions | OldConverted | Partitions get converted in spite of interruptions, drops and other calls | two sessions, two partitions, four creations |
| `parts`, errors | HandlersNest, CleanupOnce | Errors go to the innermost body; cleanups are executed once | three blocks at a time and three in all |
| `parts`, list loops | VisitsEach | No element twice; every element in order, those inserted behind the current one too, unless the loop has emptied the list | four elements |

`parts` is one run (`MCParts.cfg`) of behaviours that are each of one part. An invariant
of a part that rests is true in its initial state, which every part reaches by itself
too, and its action properties see no step; so what is checked of a part is what a run of
its own would check.

Why the bounds are enough to be of interest:

- *Backend status.* Two members are the least that can be torn. Two updates let a
  reader's first load precede both and its second follow both, which with a count
  modulo 4 is the wrap that the code accepts; the property excludes exactly
  this, `after - before < Modulus`. Readers do not affect each other or the
  writer, so one is enough; the theorems have any number.
- *simplehash.* Hash values put three keys on the last bucket of every size, one
  before and one after, so runs wrap, displace and shift across the end.
  `MaxDib` and `MaxMove` (`SH_GROW_MAX_DIB`, `SH_GROW_MAX_MOVE`) are 1, so that early
  growth happens with five keys; a table starts with 2 or 4 buckets, meets both
  causes of growth, and at 32 fails for the lack of room.
- *Catalog transactions.* Two transactions are what a lock conflict, an upgrade
  deadlock and a write skew take. Transactions are interchangeable (`Symmetry`); the
  run with a liveness property does not use symmetry. It has one node of one kind,
  because its question is about locks: every lock of the larger run is asked for
  in it.
- *Time partitions.* Times lie at, before and after range boundaries, and in
  different months; `Intervals` has one that divides the other. Counterexamples need two
  calls.
- *Rebalance strategies.* Rows differ in all that the trigger looks at: default or not,
  thresholds in order or not.
- *Upgrade.* Id sequences are used up to their bounds, so that the restored ids have
  gaps at their end; no rows, and only group 0, occur; two oids let the object's oid
  change, in the upgrade and when it is dropped and created again. The table and the
  object can be dropped before, during and after the copy and after pg_upgrade, so calls
  of `citus_finish_pg_upgrade` fail for each reason and succeed after the object was repaired.
- *Wait list.* Three nodes make a middle, so that deletion at both ends, in the middle and
  of the only node occur; process 0 is one of them. The longest
  operation, a deletion, is four stores: the buffer holds it with the release behind it.
- *Atomics.* The halves of a word have two values each, so that a torn load is a
  value that the word never had. Calls are of every operation.
- *Transaction ids.* 16 ids, of which 3 are special and fewer than 8 in use at once; `MaxFull` lets the
  counter wrap four times. The theorems have every even number.
- *Sort.* `Insertion = 3` and `Ninther = 8` bring insertion sort, the median of three and that of
  nine within arrays of at most nine elements, where the code needs 41.
- *Errors, list loops.* Three nested blocks are handler in handler in body; four
  elements allow deletion and insertion at both ends and in the middle.

Deadlock checking is on in every run: in these models something can always be
called.

## 4. Fairness

`BackendStatus`: stores reach memory eventually; a reader that has begun a pass
finishes it and a reader whose pass failed begins another, because the scheduler runs
it. Nothing is asked of the writer, and `ReaderTerminates` assumes that it stops:
against a writer that updates for ever the code gives no guarantee.

`NodeMetadata` (`FairSpec`): the lock manager serves waiters in order, so a lock that
becomes free again and again is granted (strong fairness of the steps that wait for
locks); the deadlock check runs after `deadlock_timeout` (weak); a client commits
eventually (strong, because `Commit` is disabled between statements). The last
is an assumption about clients: with an idle transaction that never ends, the
others wait for ever, as they do in the server.

`Atomics` (`AtomicFairness`): a process in an operation is scheduled. That is enough for
`LockFree`: an exchange fails only because another one succeeded. It is no promise to
each process, and none is stated.

`SortTemplate` (`SortFairness`): a sort that has begun goes on. The caller need not begin
another one.

`OldPartitions` (`OldFairness`, strong): the procedure is called again and again, as a
scheduler of jobs does it, and not every call is cancelled just when it gets to a partition
or to its commit. Strong fairness is needed because calls are interrupted, and it is
justified as long as interruptions are not timed against the procedure. Creations are
bounded, so a partition is not dropped and created anew for ever.

In `MCParts` these formulas are conjoined, and each restricts the behaviours of its own part
only: in a part that rests, the actions of `AtomicStep` and `SortStep` are disabled (nobody is in
an operation or a sort), and a call of the procedure that finds no partition (there is
none at first) changes nothing.

The remaining specifications state safety only.

## 5. Theorems

`BackendStatus_proofs` proves for any members, values, readers and any even
`Modulus`:

- `TypeCorrect`: `TypeOK`.
- `EvenIsComplete`: `EvenMeansQuiescent`.
- `NoTornCopy`: `AcceptedCopyValid`.
- `ReadsAreAtomic`: `AtomicReads`, the refinement of `EntryRegister`.

The first three are about memory and copies and say nothing of stores that wait, so
they are not inductive. The invariant `IInv` adds what the barriers achieve. `WriterInv`
ties the writer's barrier epoch, its count and the number of complete updates together.
`CountInv`: the increments that wait are exactly those after the count in memory, each
in its epoch. `FieldInv`: a member's store belongs to an update, an odd epoch, and
waits only if the count in memory has not passed that update. `ContentInv`: for every
even count that memory has still to reach, a member's last store before it, or
memory if none waits, is what the update with this count wrote; so when an even count
arrives, memory is that update. `ReaderInv`: what a reader has loaded is what its first
count names, unless the count in memory has moved on. The second load then decides: the
same even count means that no update began in between.

The refinement needs nothing more. The register's log is the updates whose even count is in
memory (`LogNow`), and a reader's status, the begin of its read and its result are functions of
its own variables (`StatusOf`, `SinceOf`, `GotOf`). The register is written when an even count
drains; a read begins when the first count has been loaded and returns, or is given up, when the
two counts are compared. There is one lemma for each action; what an
accepted copy is equal to, an update between begin and return, is `NoTornCopy`.

`NodeMetadata_proofs` proves for any transactions, nodes and rows:

- `TypeCorrect`: `TypeOK`.
- `OneWriter`: `WritersAlone`, under both isolation levels.
- `OnePrimary`: `OnePrimaryPerGroup`, with the assumption `RepeatableRead = {}`.
  Finding 2 shows that the assumption is needed.

`OnePrimaryPerGroup` speaks of committed rows. The invariant says what locks protect:
`Exclusion` (the holder of SHARE ROW EXCLUSIVE is alone), `Protection` (who wrote a
row holds that lock, who deleted one holds ROW EXCLUSIVE), and `AloneInv` (the table has
one primary per group, and would have if any one transaction committed now). A
commit establishes the committed half from the uncommitted half; a trigger
establishes the uncommitted half from its query, which under READ COMMITTED reads
what it would commit; a commit of someone else can only delete rows, since its lock is
then the weaker one.

`RebalanceStrategy_proofs` proves for any transactions, names and rows:

- `TypeCorrect`: `TypeOK`.
- `OneDefault`: `SingleDefault`, with the assumption `RepeatableRead = {}`.
- `EffectLasts`: `DefaultTakesEffect`, with the same assumption.

Both tables rest on the same lemmas, `CatalogTxn_proofs`: every lock manager action keeps
`CatalogInv` (types, `Exclusion`, `Protection`), whatever the trigger does, and when another
transaction acts, a transaction's view of the table only loses rows (`Shrinks`). What is
special to this table is `citus_set_default_rebalance_strategy`, which writes several rows
at once: `StatementInv` says that its call has the lock when it runs, and `EffectInv` that
its strategy is exactly the default one of its transaction until that ends.

`SharedMemory_proofs` proves, of `SpinLock` and `WaitList`, for any processes, buffers of any size
and any lists:

- `SpinLockContract`: `HolderUpToDate`.
- `ListWellFormed`: `WellFormed`.
- `LoopVisitsAll`: `VisitsAll`.
- `ListIsQueue`: `ImplementsQueue`, the refinement of `WaitQueue`.

`LockInv`: at most one process is an owner, that is, holds the lock or has stores to be
drained; an owner's buffer holds no store to the lock but the release, which is the last.
So when the lock is seen to be free, every store of its last holder is in memory, and there is
one latest view of the list (`Latest`). `ListInv` says that this view is a list: the
sequence that its links spell forwards (`Walk`) has links that agree backwards, and every other
node is zero (`IsList`). A lemma for each operation (`PushHeadList` and the like) says which
sequence a list is after its stores; these are the steps of the queue. That the sequence of the
links is unique, and exists, is an induction over its length. `VisitInv`: a loop is at a
member, has read the next one, and has yet to see exactly those from there on.

Of `Atomics` it proves, for words of any size, any callers and any bit operations:
`TypeCorrect` (`AtomicTypeOK`), and `AtomicOperations`, the refinement `ImplementsWord`: a
successful exchange is the instant at which the call takes effect, every other step
stutters. `Prepared` says what a process must know for it: the value it compares with is
the one it computed from. That a word is its two halves is `HalvesOf`.

Of `TransactionIds` it proves, for every even `Modulus` above 8: `OrderAlwaysKept`
(`OrderKept`) and `CountersAlwaysAgree` (`CountersAgree`), from `XidInv`: fewer than half of
the ids are between the oldest in use and the next, and the 32-bit counter is the
remainder of the full one. The lemmas about remainders (`ModUnique`, `ModAdd`,
`ModDifference`) are proved from the definition of division, since the provers know it for
numerals only.

`Parts_proofs` proves, of `PgUpgrade`, for any tables, objects, oids and bounds:
`IdsStayFresh` (`IdsFresh`) and `MetadataComesBack` (`MetadataKept`), from `UpgradeInv`.
`CatalogInv`: the sequences are above the ids in the catalogs while the server is in use, and after
pg_upgrade the catalogs are empty. Between the two nothing keeps the sequences, so freshness
afterwards rests on the copies: `PrepareInv` says that what has been copied, table by
table, agrees with the state in which the copy began (`Agree`), unless a commit has torn it, and holds
finitely many ids in any case; `BackupInv` says the same of the backup while the aggregate is
gone, which is when `citus_finish_pg_upgrade` can succeed. `SetvalFresh` is about its
`setval`: the sequence's next value is above a finite set of ids and above 0. Names of objects
are not part of a snapshot: `pg_identify_object_as_address` looks them up as they are when the copy
is made, also under REPEATABLE READ. `SameNames` and the lemma `NamesStay` say why this does no
harm: a drop takes an oid away, what is created under the name has another one, so either some
oid of the snapshot has lost its name, and then the copy cannot be restored, or all names are those of
the snapshot. `MetadataKept` is about calls that succeed. That calls can fail for ever is
in section 6.

Of `ListLoops` it proves, for any bound on elements: `LoopsVisitEach` (`VisitsEach`), from
`LoopInv`; the property says nothing of a loop that has deleted the last element there was (see
section 6). An element of the list has been visited exactly if it is from the start of the loop
to `Front`, the position of the index, which deletion moves back (`UpToFront`); none
twice (`SeenOnce`), and in the order of the list (`InOrder`), wherever the list was changed.

Of `SortTemplate` it proves, for arrays of any length and any limits 3 <= `Insertion` <=
`Ninther` and 8 <= `Ninther`:

- `SortInBounds`: `InBounds`, whatever the comparator says.
- `RecursionIsShallow`: `ShallowRecursion`, whatever the comparator says.
- `EndIsSorted`: `SortedAtEnd`, if the comparator is that of the order.

`BoundsInv` keeps the segments in the array and the pointers of a partition in the
segment: they may pass each other by one, or by two when the comparator contradicts itself
(`PointerInv`). `DepthInv`: a segment that waits at depth k, times 2 to the k, is at most the
length, because the call is for the shorter part. `OrderInv` is about comparators that
are an order: segments are disjoint; two elements are in order unless one segment that is
still to be sorted holds both (`Separated`), the equal ones in the middle of a partition
belong to none; what the loops have gone through is in order (`ScanOrder`) or on its side of the
pivot (`PartitionOrder`). The exchange of blocks at the end of a partition is a function
defined by recursion; `BlockSwappedIs` and `GatheredIs` say where every element goes, by an
induction over the length that is written with the least counterexample (`Least`), since
the library's induction theorems cannot be cited here.

Of `ErrorHandling` it proves, for any number of blocks inside each other, without the limit of
`ereport` on errors that are handled inside each other (section 7):
`HandlersAlwaysNest` (`HandlersNest`) and `CleanupAlwaysOnce` (`CleanupOnce`). The stacks are
restored from what blocks saved when they were entered, so `NestInv` says of every frame
that what it saved is the innermost block outside it (`Saved`). `CleanInv` classifies the
blocks: one that is being executed has its callback registered exactly while its body runs,
and its cleanup has been executed exactly if its handler runs (`RunningOK`); one that
has ended has been cleaned up if it failed (`EndedOK`).

`SimpleHash_proofs` proves for any keys, hash function, initial sizes, limits of growth and any power
of two as the largest size:

- `TypeCorrect`: `TypeOK`.
- `RoomForSearches`: `EmptyBucketLeft`.
- `KeysAreReachable`: `Reachable`.
- `RobinHoodOrder`: `RobinHood`.
- `GrowthIsBounded`: `NoSpaceExplosion`.
- `TableIsSet`: `ImplementsSet`, the refinement of `HashSet`.

`Reachable` is not inductive: a backward shift keeps keys reachable only because runs are ordered.
`TableInv` (`Good`) has the local form of the order, `InOrder`: an entry that is not at its optimal
bucket follows an entry that is at most one less far from its own. From it and one empty bucket,
everything before an entry back to its optimal bucket is occupied, and searches end (`RobinTable`,
which speaks of any array). The lemmas about operations say what each is of an array, bucket by
bucket (`IsPushed` for an insertion, `IsPulled` for a deletion), and that the order survives.

The growth is the hard one, because `SH_GROW` puts an entry into the first free bucket and compares
no distances. It is right because the copy starts at a bucket that is empty or whose entry is at
its optimal place, and doubling sends the entries of one run to two places: seen from the start,
those whose optimal bucket stays come first, and those whose optimal bucket moves by the old size
come behind (`Rank`). `Copied` says of the buckets copied so far that each entry is in its half, no further than where
it came from, so that a copied entry never meets one of the other half and no entry wraps
past the start. `GrownFrom` is what a chain of restarts keeps: the entries, and that the table
was at least one tenth full when it was doubled.

`IterInv` is about iterations: an entry that was returned last is one bucket behind the iterator, and
what a strict iteration still has to return is what lies between the iterator and its end (`Until`,
`Left`); a backward shift that deletes the entry returned last moves only entries of buckets that
the iterator has passed, since its end is an empty bucket.

`TimePartitions_proofs` proves for any sessions, intervals, times, truncations and partitions of users:

- `TypeCorrect`: `TypeOK`, that is, partitions neither overlap nor share a name.
- `CallsAlwaysSucceed`: `CallsSucceed`.
- `FirstCallCoversAll`: `FirstCallCovers`.
- `RepeatIsIdle`: `RepeatedCallIsIdle`.

Names are data of the model, so two theorems have hypotheses about them, and state what the code
relies on. `UserNamesApart` (of the first two): no user takes a name that a call would give.
`NamesTellApart` (of the second): names of one interval tell apart ranges that are a multiple of it
apart. Names of intervals below a month show at least the day, so intervals of fewer than 30 days that
are whole days have this property, and one week has it by its number; finding 5 is that
30 days do not, and an hour does not where clocks are set back, since names show local
time. The instance of `time_partitions` satisfies both hypotheses.

The ranges that a call looks at are `FirstFrom` and all multiples of the interval after it, up to `end_at`
(`OnGrid`, from the closed forms by lemmas about quotients), and `FirstFrom` is on the grid of the
earliest partition (`FirstIs`). `PartsInv` and `WorkInv`: partitions have a lower bound and do not
overlap; who creates is alone and what it is about to create is what is missing now, which the lock
keeps true until it ends. On a table that is aligned, a missing range is then a whole
number of intervals away from every partition (`OnGridIs`), so it overlaps none. A
second call may start from another pivot; `FirstAgain` says that it starts on a range that the first one
looked at.

The assumptions on constants are named in the modules that declare them (`EntryAssumption`,
`ModulusAssumption`, `SimpleHashAssumption`, `TimePartitionsAssumption`, `CatalogTxnAssumption`, `NodeMetadataAssumption`,
`RebalanceStrategyAssumption`, `SpinLockAssumption`, `WaitListAssumption`, `AtomicsAssumption`,
`BitAssumption`, `TransactionIdAssumption`, `ErrorHandlingAssumption`, `SortAssumption`,
`ListLoopsAssumption` and others); every run checks them for its instance.

Model-checked only; every other property of a passing run is a theorem:

- liveness (`ReaderTerminates`, `StatementsEnd`, `LockFree`, `SortEnds`, `OldConverted`), which TLAPS
  cannot prove under fairness;
- that a sort's result has the elements of its input, which no run states either: elements are
  only exchanged.

## 6. Findings

1. `simplehash.h:1012`. An iteration from `SH_START_ITERATE_AT` on an occupied bucket
   can skip an entry when its caller deletes the current one, although the comments
   (`:1009`, `:1021`) allow deletion. From an empty bucket, where `SH_START_ITERATE`
   starts, it returns every entry (`ImplementsSet`).
2. `citus--8.0-1.sql:964`. Under REPEATABLE READ the trigger's query reads a
   snapshot from before its lock, and two primaries are committed. The trigger of
   `pg_dist_rebalance_strategy` (`citus--9.1-1--9.2-1.sql:71-84`) has the same shape; with
   `RepeatableRead = {t1, t2}` the configuration of `rebalance_strategy` violates
   `SingleDefault`.
3. `citus--10.0-4--10.1-1.sql:266`. `citus_add_rebalance_strategy` ignores
   `improvement_threshold`.
4. `citus--10.1-1--10.2-1.sql:295`. On a table with partitions,
   `create_time_partitions` rounds the start of its range up to the next
   multiple of the interval: a missing range that contains the start is not created.
5. `citus--10.1-1--10.2-1.sql:378`. With an interval of 30 days names show the
   month only, and two partitions that start in January have the same one.

Observations that are no disagreement between the code and what it says, or that no
run is about:

- The column defaults of `pg_dist_node` (`citus--8.0-1.sql:335-336`) take `nodeid` from
  `pg_dist_groupid_seq` and `groupid` from `pg_dist_node_nodeid_seq`, while the names of the sequences,
  `citus_finish_pg_upgrade` and the C header's declarations have them the other way around.
  `citus_add_node` does not use the defaults. An INSERT that does can get a number that is
  taken.
- `citus_prepare_pg_upgrade` that commits leaves the server without `array_cat_agg`. When the
  upgrade is then given up, `citus_finish_pg_upgrade` cannot be used to get it back, because on a
  server that was not upgraded it fails.
- When a table of the copy has been dropped since `citus_prepare_pg_upgrade`, before
  or after pg_upgrade, every call of `citus_finish_pg_upgrade` fails at the CREATE TRIGGER for it
  (`citus--10.2-3--10.2-4.sql:172-179`), and none of the metadata is restored until somebody
  deletes its rows from the backup tables. An object that is gone has the same effect (`:206`) until
  one of its name is created. One that was dropped while a REPEATABLE READ transaction copied is a
  row of NULLs in the backup, which `pg_dist_object` cannot take (`citus--8.3-1--9.0-1.sql:53`), and
  creating it again does not help (`FinishFails`).
- `pg_list.h:346-350` says that elements appended "are guaranteed to be visited", and
  also allows deletion of the current element. The two do not go together: after the deletion
  of the last remaining element the list is NIL, what is appended to it is another
  List, and the loop ends without visiting it. `VisitsEach` and its theorem leave out
  this case (`foreachState.nil`) and claim nothing of it.
- In the sort template the two pointers may pass each other by two when a comparator
  contradicts itself; they stay in the segment (`InBounds`).
- `pg_sub_s64_overflow` without compiler built-ins and without 128-bit integers misses the overflow
  of 0 - INT64_MIN. This build does not compile that branch.
- `PG_ENSURE_ERROR_CLEANUP` relies on its callback being the latest one when it is
  cancelled; a body that registers another and does not cancel it would break this.
- What is inserted into the view `pg_dist_shard_placement` for a node that is not a primary is
  shown at the primary of its group, or not at all when there is none
  (`citus--8.0-1.sql:912-959`).

`drop_old_time_partitions` drops by name, later, what it found by age
(`citus--10.1-1--10.2-1.sql:190`). The model keeps the two steps apart, and a partition
created under the name in between is dropped; what should hold instead is not
stated anywhere, so no property is about it.

## 7. What the models leave out

- *Backend status*: the meaning of members; other backends' entries, which are
  independent.
- *simplehash*: `SH_DESTROY` and `SH_STAT`; failure of `SH_ALLOCATE`, after which
  nothing in the code says what a caller may do; the key's comparison when hashes
  are stored.
- *Catalog transactions*: savepoints, lock modes other than the two conflicting
  ones, SERIALIZABLE; statements that change several rows at once (a statement
  of several rows runs the trigger row by row in one transaction, which the model
  covers as several statements, except that its query then also sees the rows
  changed so far, as the trigger's query does).
- *pg_dist_node*: the CHECK constraint about the default cluster, the unique
  name and port, the sequences, metadata columns.
- *Rebalance strategies*: the validation of the three functions, in C, taken to
  accept.
- *Upgrade*: eight of the twelve tables; placements and colocation groups have a sequence
  each and are restored like shards, the others are copied as they are. The casts of
  function names in `pg_dist_rebalance_strategy`, which fail like the names of objects when a
  function is gone; the dependencies of the columnar access method. Renaming of
  objects. Between pg_upgrade and `citus_finish_pg_upgrade` others drop and create, but
  do not distribute tables or add nodes. Oids that are looked for are not used again, which a
  counter of 32 bits would do only after it wraps.
- *Spin locks, atomics*: other processors and compilers, flags, barriers, 32-bit
  operations; the waiting and the time limit of `s_lock`.
- *Lists*: `ilist.h` and `pairingheap.h`, whose operations are assignments in one process;
  loops over several lists at once; `list.c`, which is compiled.
- *Error handling*: the limit on errors that are handled inside each other ("a small limit on the
  number of levels", `elog.h:292-296`), beyond which compiled code ends the server: the theorems
  are about behaviours within it; the counters of `miscadmin.h` that hold off interrupts, which compiled code
  reads; what `ereport` prints.
- *Arithmetic*: `int.h` and `int128.h`, which are compiler built-ins in this build;
  `TransactionIdOlder` and the functions above it, whose comparison is compiled.
- *Time partitions*: default partitions, quoting and truncation of names, types of
  the partition column, calendar intervals of varying length as arithmetic
  (they occur in `date_trunc` and in names).

### Not modelled

- *Placement view*: its trigger translates one row and keeps no state; what a write for a
  node that is no primary should do is stated nowhere (see section 6).
- *Event trigger on drop*: calls of C functions for every dropped object in one transaction.
  What they do to the metadata is `DropTable` and `DropObject` of `PgUpgrade`; shards on
  workers and the notification about constraints are not modelled.
- *Columnar upgrade and declarations*: one UPDATE by an extension script that is alone, and
  declarations.
- *Extension scripts*: executed by `CREATE EXTENSION` and `ALTER EXTENSION`, which are compiled.
- *Server, tools, Citus library*: compiled, without source here. Most of `src/` is their
  headers: declarations of functions and structures, tables of generated constants, node types.
  They hold no behaviour, and this is why the models stand for a small share of its lines.
- *Catalogs, messages, samples, time zone data, makefiles*: data.

## 8. Plan

The order was that of importance: what every cluster relies on first. All modules that
were planned are there except the placement view. What would be next:

1. The placement view composed with `NodeMetadata`, once it is decided what a write for a
   node that is no primary should do.
2. `ilist.h` on the heap of `WaitList` without its lock.
3. In `TimePartitions`, default partitions, and intervals whose length depends on where they
   start; the theorems then need another notion of a grid.
4. A failing `SH_ALLOCATE` in `simplehash`, once a caller's duties after it are stated.
