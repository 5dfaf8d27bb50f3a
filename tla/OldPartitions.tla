--------------------------- MODULE OldPartitions ----------------------------
(***************************************************************************)
(* alter_old_partitions_set_access_method: a procedure that converts the   *)
(* old partitions of a table, the oldest first, each in a transaction of   *)
(* its own.  Its list is that of the first statement, whatever others      *)
(* drop, create and convert after it.                                      *)
(*                                                                         *)
(* alter_table_set_access_method is compiled code: under a lock it makes a *)
(* new table, with another oid, and drops the old one.  A partition is     *)
(* named by its place in the order of to_value; a table of its name that   *)
(* is made later is another one.                                           *)
(***************************************************************************)
EXTENDS Integers, Sequences

CONSTANTS Clients,      \* the sessions that call the procedure
          Youngest,     \* the partitions are 1..Youngest
          MaxCreated    \* a bound on the partitions that users create

ASSUME OldPartitionsAssumption == Youngest \in Nat /\ MaxCreated \in Nat

VARIABLES tables,   \* the committed state of each partition
          created,
          calls     \* the procedure in each session

oldVars == <<tables, created, calls>>

Partitions == 1..Youngest

\* The list, what of it has become another table or none, whether the first of it is
\* being converted, and what the call has converted.
NotCalled == [todo |-> << >>, stale |-> {}, locked |-> FALSE, done |-> {}]

OldInit ==
  /\ tables = [p \in Partitions |-> "none"]
  /\ created = 0
  /\ calls = [c \in Clients |-> NotCalled]

Unlocked(p) == \A c \in Clients : calls[c].locked => calls[c].todo[1] # p

\* Every list has the oid of the table that p was.
Replaced(p) == [c \in Clients |-> IF calls[c] = NotCalled THEN NotCalled
                                  ELSE [calls[c] EXCEPT !.stale = @ \cup {p}]]

\* What the query finds; a call that finds nothing returns at once.
AlterOldPartitions(c, older_than) ==
  LET old == SelectSeq([p \in 1..older_than |-> p], LAMBDA p : tables[p] = "unconverted")
  IN /\ calls[c] = NotCalled
     /\ calls' = [calls EXCEPT ![c].todo = old]
     /\ UNCHANGED <<tables, created>>

\* The next turn of the loop waits for the table, and locks it or fails.
Convert(c) ==
  /\ calls[c].todo # << >> /\ ~calls[c].locked
  /\ Unlocked(calls[c].todo[1])
  /\ calls' = [calls EXCEPT ![c] = IF @.todo[1] \in @.stale THEN NotCalled
                                   ELSE [@ EXCEPT !.locked = TRUE]]
  /\ UNCHANGED <<tables, created>>

\* COMMIT, and the call returns after the last turn.
CommitConversion(c) ==
  LET p == calls[c].todo[1]
  IN /\ calls[c].locked
     /\ tables' = [tables EXCEPT ![p] = "converted"]
     /\ calls' = [Replaced(p) EXCEPT ![c] =
                    IF Len(@.todo) = 1 THEN NotCalled
                    ELSE [@ EXCEPT !.todo = Tail(@), !.locked = FALSE, !.done = @ \cup {p}]]
     /\ UNCHANGED created

\* A variant in which the call is one transaction.
InterruptAll(c) ==
  /\ calls[c] # NotCalled
  /\ calls' = [calls EXCEPT ![c] = NotCalled]
  /\ tables' = [p \in Partitions |->
                  IF p \in calls[c].done /\ tables[p] = "converted" THEN "unconverted"
                  ELSE tables[p]]
  /\ UNCHANGED created

\* The call is cancelled, or the server stops: the conversion that is not committed
\* is undone.
InterruptCall(c) ==
  /\ calls[c] # NotCalled
  /\ calls' = [calls EXCEPT ![c] = NotCalled]
  /\ UNCHANGED <<tables, created>>

DropPartition(p) ==
  /\ tables[p] # "none" /\ Unlocked(p)
  /\ tables' = [tables EXCEPT ![p] = "none"]
  /\ calls' = Replaced(p)
  /\ UNCHANGED created

CreatePartition(p) ==
  /\ tables[p] = "none" /\ created < MaxCreated
  /\ tables' = [tables EXCEPT ![p] = "unconverted"]
  /\ created' = created + 1
  /\ UNCHANGED calls

OldNext ==
  \/ \E c \in Clients :
       \/ \E older_than \in Partitions : AlterOldPartitions(c, older_than)
       \/ Convert(c) \/ CommitConversion(c) \/ InterruptCall(c)
  \/ \E p \in Partitions : DropPartition(p) \/ CreatePartition(p)

OldSpec == OldInit /\ [][OldNext]_oldVars

\* The procedure is called for all partitions again and again, and of the calls that
\* get to a conversion, or to its end, not all are interrupted there.
OldFairness ==
  /\ SF_oldVars(\E c \in Clients : AlterOldPartitions(c, Youngest))
  /\ SF_oldVars(\E c \in Clients : Convert(c))
  /\ SF_oldVars(\E c \in Clients : CommitConversion(c))

-----------------------------------------------------------------------------
(* Properties. *)

\* Calls that are interrupted, or fail because others got in between, get on with the
\* work all the same: a partition that is not converted will be, or is dropped.
OldConverted ==
  \A p \in Partitions : []<>(tables[p] # "unconverted")

=============================================================================
