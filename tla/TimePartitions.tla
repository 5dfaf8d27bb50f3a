--------------------------- MODULE TimePartitions ---------------------------
(***************************************************************************)
(* A time partitioned table and the calls that maintain it:                *)
(* create_time_partitions with get_missing_time_partition_ranges, and      *)
(* drop_old_time_partitions, from several sessions, next to partitions     *)
(* that a user creates.                                                    *)
(*                                                                         *)
(* A timestamp is an integer and an interval a number of them; the         *)
(* calendar is in date_trunc and to_char.  A loop that adds the interval   *)
(* to its variable until a condition holds is its closed form.             *)
(***************************************************************************)
EXTENDS Integers, FiniteSets, FiniteSetsExt

CONSTANTS Sessions,
          Intervals,       \* partition_interval
          Times,           \* the timestamps of the calls
          date_trunc(_, _),    \* from_value, truncated as its interval asks for
          to_char(_, _),       \* what a partition's name tells of its from_value
          ManualRanges     \* the partitions that users create

ASSUME TimePartitionsAssumption ==
  /\ Intervals \subseteq Nat \ {0} /\ Times \subseteq Int
  /\ \A i \in Intervals, t \in Times : date_trunc(i, t) \in Int /\ date_trunc(i, t) <= t
  /\ ManualRanges \subseteq [from : Int, to : Int] /\ \A r \in ManualRanges : r.from < r.to

VARIABLES parts,    \* the partitions: [name, from, to]
          pc,       \* "idle", "creating", "dropping"
          arg,      \* the arguments of each session's call
          work,     \* the ranges it creates or the names it drops
          ret       \* the result of its last call

vars == <<parts, pc, arg, work, ret>>

Success == {"true", "false"}
Failure == {"misaligned", "overlap", "duplicate"}

Pivot(ps) == Min({p.from : p \in ps})

\* current_range_from_value before the last loop: the truncated from_value, or,
\* from the earliest partition on, forward to the first value that is not before
\* from_value, or backward to the first that is not after it.
FirstFrom(ps, i, from) ==
  IF ps = {} THEN date_trunc(i, from)
  ELSE LET pivot == Pivot(ps)
       IN IF from >= pivot THEN pivot + i * ((from - pivot + i - 1) \div i)
                           ELSE pivot - i * ((pivot - from + i - 1) \div i)

\* A variant that leaves out a range that ends after to_value.
RangesWithin(ps, i, from, to) ==
  LET c == FirstFrom(ps, i, from)
      n == IF c < to THEN (to - c) \div i ELSE 0
  IN {[from |-> c + k * i, to |-> c + (k + 1) * i] : k \in 0..(n - 1)}

\* The ranges that the last loop goes through.
Ranges(ps, i, from, to) ==
  LET c == FirstFrom(ps, i, from)
      n == IF c < to THEN (to - c + i - 1) \div i ELSE 0
  IN {[from |-> c + k * i, to |-> c + (k + 1) * i] : k \in 0..(n - 1)}

\* A variant that takes the bounds of the partitions in the wrong order.
MissingSwapped(ps, i, from, to) ==
  {r \in Ranges(ps, i, from, to) : \A p \in ps : p.to # r.from \/ p.from # r.to}

\* The ranges that are not those of a partition already.
Missing(ps, i, from, to) ==
  {r \in Ranges(ps, i, from, to) : \A p \in ps : p.from # r.from \/ p.to # r.to}

\* 'partition % does not align with the initial partition': another partition
\* has the range's from_value in it, or its to_value.
Misaligned(ps, rs) ==
  \E r \in rs, p \in ps : \/ r.from >= p.from /\ r.from < p.to
                          \/ r.to > p.from /\ r.to < p.to

\* A variant that looks at the start of the new partition only.
OverlapAtStart(p, q) == p.from >= q.from /\ p.from < q.to

Overlap(p, q) == p.from < q.to /\ q.from < p.to

\* The SHARE UPDATE EXCLUSIVE lock on the table, which its holder keeps until the
\* call ends.
TableFree == \A s \in Sessions : pc[s] # "creating"

Init ==
  /\ parts = {}
  /\ pc = [s \in Sessions |-> "idle"]
  /\ arg = [s \in Sessions |-> {}]
  /\ work = [s \in Sessions |-> {}]
  /\ ret = [s \in Sessions |-> "none"]

Starts(s, state, a) ==
  /\ pc[s] = "idle"
  /\ pc' = [pc EXCEPT ![s] = state]
  /\ arg' = [arg EXCEPT ![s] = a]
  /\ ret' = [ret EXCEPT ![s] = "none"]

Ends(s, result) ==
  /\ pc' = [pc EXCEPT ![s] = "idle"]
  /\ ret' = [ret EXCEPT ![s] = result]
  /\ work' = [work EXCEPT ![s] = {}]
  /\ UNCHANGED arg

\* A variant that does not lock the table.
CreateWithoutLock(s, i, end_at, start_from) ==
  /\ start_from < end_at
  /\ Starts(s, "creating", [interval |-> i, end_at |-> end_at, start_from |-> start_from])
  /\ work' = [work EXCEPT ![s] = Missing(parts, i, start_from, end_at)]
  /\ UNCHANGED parts

\* create_time_partitions calls get_missing_time_partition_ranges, which locks
\* the table and looks for the missing ranges.
create_time_partitions(s, i, end_at, start_from) ==
  /\ start_from < end_at
  /\ TableFree
  /\ Starts(s, "creating", [interval |-> i, end_at |-> end_at, start_from |-> start_from])
  /\ work' = [work EXCEPT ![s] = Missing(parts, i, start_from, end_at)]
  /\ UNCHANGED parts

\* It fails if they do not align, and else creates a partition for each.  The
\* server fails a partition that overlaps another one or has the name of another;
\* which of these failures comes first is left open.
CreatePartitions(s) ==
  LET new == {[name |-> to_char(arg[s].interval, r.from), from |-> r.from, to |-> r.to] :
                r \in work[s]}
      failures == {f \in Failure :
        CASE f = "misaligned" -> Misaligned(parts, work[s])
          [] f = "overlap" -> \E p \in new, q \in parts : Overlap(p, q)
          [] f = "duplicate" -> \E p \in new, q \in new \cup parts : p # q /\ p.name = q.name}
  IN /\ pc[s] = "creating"
     /\ \/ /\ failures = {}
           /\ parts' = parts \cup new
           /\ Ends(s, IF new # {} THEN "true" ELSE "false")
        \/ /\ "misaligned" \in failures
           /\ UNCHANGED parts
           /\ Ends(s, "misaligned")
        \/ /\ "misaligned" \notin failures
           /\ UNCHANGED parts
           /\ \E f \in failures : Ends(s, f)

\* drop_old_time_partitions finds the names of the old partitions.
drop_old_time_partitions(s, older_than) ==
  /\ Starts(s, "dropping", [older_than |-> older_than])
  /\ work' = [work EXCEPT ![s] = {p.name : p \in {q \in parts : q.to <= older_than}}]
  /\ UNCHANGED parts

\* It drops the tables of these names.  The first DROP TABLE waits for the table
\* and locks it; one that finds no table fails the call.
DropPartitions(s) ==
  /\ pc[s] = "dropping" /\ TableFree
  /\ \/ /\ work[s] \subseteq {p.name : p \in parts}
        /\ parts' = {p \in parts : p.name \notin work[s]}
        /\ Ends(s, "true")
     \/ /\ ~(work[s] \subseteq {p.name : p \in parts})
        /\ UNCHANGED parts
        /\ Ends(s, "undefined table")

\* The session, or the server, stops during the call.
Interrupt(s) ==
  /\ pc[s] # "idle"
  /\ Ends(s, "interrupted")
  /\ UNCHANGED parts

\* CREATE TABLE ... PARTITION OF by a user, of a range that is free.
CreateManually ==
  /\ TableFree
  /\ \E r \in ManualRanges :
       LET p == [name |-> <<"manual", r.from>>, from |-> r.from, to |-> r.to]
       IN /\ \A q \in parts : ~Overlap(p, q)
          /\ parts' = parts \cup {p}
  /\ UNCHANGED <<pc, arg, work, ret>>

Next ==
  \/ \E s \in Sessions :
       \/ \E i \in Intervals, end_at, start_from \in Times :
            create_time_partitions(s, i, end_at, start_from)
       \/ \E t \in Times : drop_old_time_partitions(s, t)
       \/ CreatePartitions(s) \/ DropPartitions(s) \/ Interrupt(s)
  \/ CreateManually

Spec == Init /\ [][Next]_vars

-----------------------------------------------------------------------------
(* Properties. *)

Partition == [name : {to_char(i, p.from) : i \in Intervals, p \in parts}
                       \cup {<<"manual", r.from>> : r \in ManualRanges},
              from : Int, to : Int]

\* The variables have their types, and the partitions are a partition: they do
\* not overlap, and each has its name for itself.
TypeOK ==
  /\ parts \subseteq Partition
  /\ \A p, q \in parts : p # q => p.name # q.name /\ ~Overlap(p, q)
  /\ pc \in [Sessions -> {"idle", "creating", "dropping"}]
  /\ ret \in [Sessions -> Success \cup Failure \cup {"none", "undefined table", "interrupted"}]

\* The partitions are where a call with interval i would put them, some of them
\* missing.
Aligned(ps, i) ==
  \A p \in ps : p.to = p.from + i /\ (p.from - Pivot(ps)) % i = 0

\* A call fails only on a table that has a partition from elsewhere, by hand or
\* with another interval: whatever was dropped in between, however the starts and
\* ends of the calls lie, and also when sessions call in parallel.
CallsSucceed ==
  [][\A s \in Sessions :
       pc[s] = "creating" /\ ret'[s] \in Failure => ~Aligned(parts, arg[s].interval)]_vars

\* s's call has just created partitions.
Created(s) == pc[s] = "creating" /\ pc'[s] = "idle" /\ ret'[s] \in Success

Covered(ps, from, to) == \A t \in from..(to - 1) : \E p \in ps : p.from <= t /\ t < p.to

\* The first call on a table makes place for every row of its range.
FirstCallCovers ==
  [][\A s \in Sessions : Created(s) /\ parts = {} =>
       Covered(parts', arg[s].start_from, arg[s].end_at)]_vars

\* The same call right after one that succeeded finds nothing missing and fails
\* nowhere, also when the first one put new partitions ahead of the initial one
\* and so has moved the pivot.
RepeatedCallIsIdle ==
  [][\A s \in Sessions : Created(s) =>
       Missing(parts', arg[s].interval, arg[s].start_from, arg[s].end_at) = {}]_vars

\* 'create time partitions for the given range': when a call succeeds, the table
\* has a partition for every time of the range.
GivenRangeCovered ==
  [][\A s \in Sessions : Created(s) => Covered(parts', arg[s].start_from, arg[s].end_at)]_vars

\* "use range values within the name of partition to have unique partition
\* names": no call fails because of a name.
NamesUnique == \A s \in Sessions : ret[s] # "duplicate"

=============================================================================
