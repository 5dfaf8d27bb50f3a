--------------------------- MODULE BackendStatus ---------------------------
(***************************************************************************)
(* One PgBackendStatus entry (utils/backend_status.h): the backend that    *)
(* owns it overwrites it in place, without a lock, while other backends    *)
(* copy it.  st_changecount and two pairs of memory barriers tell a reader *)
(* whether its copy is torn.                                               *)
(*                                                                         *)
(* The memory model is a store buffer: what the writer stores waits in     *)
(* pendField and pendCount and reaches memory in any order, except that a  *)
(* store waits for every store of an earlier barrier epoch and for earlier *)
(* stores to its own location.  A reader's loads are executed in any order *)
(* within a barrier segment.                                               *)
(***************************************************************************)
EXTENDS Naturals, Sequences

CONSTANTS Fields,     \* the members of PgBackendStatus other than st_changecount
          Values,     \* what a member may hold
          Initial,    \* the entry as shared memory is created: [Fields -> Values]
          Readers,    \* backends copying the entry
          Modulus     \* 2^w, for a st_changecount of w bits

ASSUME EntryAssumption == Initial \in [Fields -> Values]
ASSUME ModulusAssumption == Modulus \in Nat \ {0} /\ Modulus % 2 = 0

VARIABLES
  wpc,        \* writer: "idle" or "writing" (between the two macros)
  crit,       \* CritSectionCount of the writer
  seq,        \* st_changecount as the writer sees it, not wrapped
  epoch,      \* write barriers the writer has executed
  cur,        \* the entry as the writer sees it
  pendField,  \* stores to members not yet in memory: [fld, val, epoch]
  pendCount,  \* stores to st_changecount not yet in memory: [num, epoch]
  mem,        \* the members in memory
  vis,        \* st_changecount in memory, not wrapped
  hist,       \* hist[k+1]: the entry after k complete updates (history)
  rst,        \* reader: "idle", "reading", "retry", "accepted"
  ld,         \* reader: the loads of this iteration still to be executed
  before,     \* reader: before_ct, not wrapped
  after,      \* reader: after_ct, not wrapped
  copy        \* reader: the local copy of the entry

writerVars == <<wpc, crit, seq, epoch, cur, hist>>
bufferVars == <<pendField, pendCount, mem, vis>>
readerVars == <<rst, ld, before, after, copy>>
vars == <<wpc, crit, seq, epoch, cur, hist, pendField, pendCount, mem, vis,
          rst, ld, before, after, copy>>

Wrap(n) == n % Modulus

\* The loads of one iteration of the reader's loop.
Loads == [kind : {"before", "after"}] \cup [kind : {"field"}, fld : Fields]

(***************************************************************************)
(* Shared memory as the postmaster creates it, at startup and again after  *)
(* a PANIC: every process is gone.                                         *)
(***************************************************************************)
Init ==
  /\ wpc = "idle" /\ crit = 0 /\ seq = 0 /\ epoch = 0
  /\ cur = Initial /\ mem = Initial /\ hist = <<Initial>>
  /\ pendField = {} /\ pendCount = {} /\ vis = 0
  /\ rst = [r \in Readers |-> "idle"]
  /\ ld = [r \in Readers |-> {}]
  /\ before = [r \in Readers |-> 0]
  /\ after = [r \in Readers |-> 0]
  /\ copy = [r \in Readers |-> Initial]

Restart ==
  /\ wpc' = "idle" /\ crit' = 0 /\ seq' = 0 /\ epoch' = 0
  /\ cur' = Initial /\ mem' = Initial /\ hist' = <<Initial>>
  /\ pendField' = {} /\ pendCount' = {} /\ vis' = 0
  /\ rst' = [r \in Readers |-> "idle"]
  /\ ld' = [r \in Readers |-> {}]
  /\ before' = [r \in Readers |-> 0]
  /\ after' = [r \in Readers |-> 0]
  /\ copy' = [r \in Readers |-> Initial]

-----------------------------------------------------------------------------
(* The writer. *)

\* A variant with START_CRIT_SECTION forgotten.
BeginWriteNoCritSection ==
  /\ wpc = "idle"
  /\ wpc' = "writing"
  /\ seq' = seq + 1
  /\ pendCount' = pendCount \cup {[num |-> seq + 1, epoch |-> epoch]}
  /\ epoch' = epoch + 1
  /\ UNCHANGED <<crit, cur, hist, pendField, mem, vis, readerVars>>

\* PGSTAT_BEGIN_WRITE_ACTIVITY: START_CRIT_SECTION, st_changecount++, barrier.
BeginWrite ==
  /\ wpc = "idle"
  /\ wpc' = "writing"
  /\ crit' = crit + 1
  /\ seq' = seq + 1
  /\ pendCount' = pendCount \cup {[num |-> seq + 1, epoch |-> epoch]}
  /\ epoch' = epoch + 1
  /\ UNCHANGED <<cur, hist, pendField, mem, vis, readerVars>>

\* The owner assigns a member.  A store to a member already waiting in the
\* same epoch replaces it.
StoreField(f, v) ==
  /\ wpc = "writing"
  /\ cur' = [cur EXCEPT ![f] = v]
  /\ pendField' = {p \in pendField : p.fld # f \/ p.epoch # epoch}
                    \cup {[fld |-> f, val |-> v, epoch |-> epoch]}
  /\ UNCHANGED <<wpc, crit, seq, epoch, hist, pendCount, mem, vis, readerVars>>

\* A variant without the pg_write_barrier.
EndWriteNoBarrier ==
  /\ wpc = "writing"
  /\ wpc' = "idle"
  /\ seq' = seq + 1
  /\ pendCount' = pendCount \cup {[num |-> seq + 1, epoch |-> epoch]}
  /\ hist' = Append(hist, cur)
  /\ crit' = crit - 1
  /\ UNCHANGED <<epoch, cur, pendField, mem, vis, readerVars>>

\* PGSTAT_END_WRITE_ACTIVITY: barrier, st_changecount++, END_CRIT_SECTION.
EndWrite ==
  /\ wpc = "writing"
  /\ wpc' = "idle"
  /\ epoch' = epoch + 1
  /\ seq' = seq + 1
  /\ pendCount' = pendCount \cup {[num |-> seq + 1, epoch |-> epoch + 1]}
  /\ hist' = Append(hist, cur)
  /\ crit' = crit - 1
  /\ UNCHANGED <<cur, pendField, mem, vis, readerVars>>

\* A variant in which an error in the critical section is an ordinary one.
ErrorNotPromoted ==
  /\ wpc' = "idle"
  /\ crit' = 0
  /\ UNCHANGED <<seq, epoch, cur, hist, bufferVars, readerVars>>

\* An error in the writer.  errstart() promotes it to PANIC inside a critical
\* section, and the server restarts; elsewhere it aborts the transaction and
\* leaves the entry as it is.
Error ==
  IF crit > 0
    THEN Restart
    ELSE /\ wpc' = "idle"
         /\ UNCHANGED <<crit, seq, epoch, cur, hist, bufferVars, readerVars>>

-----------------------------------------------------------------------------
(* The memory. *)

\* Nothing of an earlier epoch is still waiting.
Oldest(e) ==
  /\ \A p \in pendField : p.epoch >= e
  /\ \A c \in pendCount : c.epoch >= e

DrainField(p) ==
  /\ Oldest(p.epoch)
  /\ pendField' = pendField \ {p}
  /\ mem' = [mem EXCEPT ![p.fld] = p.val]
  /\ UNCHANGED <<writerVars, pendCount, vis, readerVars>>

DrainCount(c) ==
  /\ Oldest(c.epoch)
  /\ \A d \in pendCount : d.num >= c.num
  /\ pendCount' = pendCount \ {c}
  /\ vis' = c.num
  /\ UNCHANGED <<writerVars, pendField, mem, readerVars>>

Drain == \/ \E p \in pendField : DrainField(p)
         \/ \E c \in pendCount : DrainCount(c)

-----------------------------------------------------------------------------
(* The readers. *)

\* A variant without the pg_read_barrier of pgstat_end_read_activity.
SegmentNoBarrier(l) == IF l.kind = "before" THEN 0 ELSE 1

\* Loads of a later segment wait for those of an earlier one: the read barrier
\* ending pgstat_begin_read_activity and the one starting
\* pgstat_end_read_activity.
Segment(l) == CASE l.kind = "before" -> 0
                [] l.kind = "field"  -> 1
                [] l.kind = "after"  -> 2

Executable(r, l) == /\ rst[r] = "reading"
                    /\ \A k \in ld[r] : Segment(k) >= Segment(l)

\* An iteration of the reader's loop starts, first or after a failed one.
StartRead(r) ==
  /\ rst[r] # "reading"
  /\ rst' = [rst EXCEPT ![r] = "reading"]
  /\ ld' = [ld EXCEPT ![r] = Loads]
  /\ UNCHANGED <<before, after, copy, writerVars, bufferVars>>

LoadBefore(r) ==
  \E l \in ld[r] :
    /\ l.kind = "before" /\ Executable(r, l)
    /\ before' = [before EXCEPT ![r] = vis]
    /\ ld' = [ld EXCEPT ![r] = @ \ {l}]
    /\ UNCHANGED <<rst, after, copy, writerVars, bufferVars>>

LoadField(r) ==
  \E l \in ld[r] :
    /\ l.kind = "field" /\ Executable(r, l)
    /\ copy' = [copy EXCEPT ![r][l.fld] = mem[l.fld]]
    /\ ld' = [ld EXCEPT ![r] = @ \ {l}]
    /\ UNCHANGED <<rst, before, after, writerVars, bufferVars>>

LoadAfter(r) ==
  \E l \in ld[r] :
    /\ l.kind = "after" /\ Executable(r, l)
    /\ after' = [after EXCEPT ![r] = vis]
    /\ ld' = [ld EXCEPT ![r] = @ \ {l}]
    /\ UNCHANGED <<rst, before, copy, writerVars, bufferVars>>

\* pgstat_read_activity_complete
Complete(r) == /\ Wrap(before[r]) = Wrap(after[r])
               /\ Wrap(before[r]) % 2 = 0

\* The loop breaks with a copy, or goes on to CHECK_FOR_INTERRUPTS.
FinishRead(r) ==
  /\ rst[r] = "reading" /\ ld[r] = {}
  /\ rst' = [rst EXCEPT ![r] = IF Complete(r) THEN "accepted" ELSE "retry"]
  /\ UNCHANGED <<ld, before, after, copy, writerVars, bufferVars>>

\* CHECK_FOR_INTERRUPTS throws: the reader gives up.
Interrupted(r) ==
  /\ rst[r] = "retry"
  /\ rst' = [rst EXCEPT ![r] = "idle"]
  /\ UNCHANGED <<ld, before, after, copy, writerVars, bufferVars>>

ReadStep(r) == LoadBefore(r) \/ LoadField(r) \/ LoadAfter(r) \/ FinishRead(r)

Next ==
  \/ BeginWrite \/ EndWrite \/ Error
  \/ \E f \in Fields, v \in Values : StoreField(f, v)
  \/ \E p \in pendField : DrainField(p)
  \/ \E c \in pendCount : DrainCount(c)
  \/ \E r \in Readers : \/ StartRead(r) \/ ReadStep(r) \/ Interrupted(r)

Spec == Init /\ [][Next]_vars

\* Stores reach memory, and each reader goes on with its loop: the scheduler
\* runs it, and CHECK_FOR_INTERRUPTS returns.  Nothing is asked of the writer.
Fairness == /\ WF_vars(Drain)
            /\ \A r \in Readers : /\ WF_vars(ReadStep(r))
                                  /\ WF_vars(rst[r] = "retry" /\ StartRead(r))

-----------------------------------------------------------------------------
(* Properties. *)

\* Each variable has its type.
TypeOK ==
  /\ wpc \in {"idle", "writing"}
  /\ crit \in Nat /\ seq \in Nat /\ epoch \in Nat /\ vis \in Nat
  /\ cur \in [Fields -> Values] /\ mem \in [Fields -> Values]
  /\ hist \in Seq([Fields -> Values])
  /\ pendField \subseteq [fld : Fields, val : Values, epoch : Nat]
  /\ pendCount \subseteq [num : Nat, epoch : Nat]
  /\ rst \in [Readers -> {"idle", "reading", "retry", "accepted"}]
  /\ ld \in [Readers -> SUBSET Loads]
  /\ before \in [Readers -> Nat] /\ after \in [Readers -> Nat]
  /\ copy \in [Readers -> [Fields -> Values]]

\* "If the value hasn't changed, and if it's even, the copy is valid": a copy
\* that the loop accepted is, in every member at once, the entry as it was
\* after one complete update, the one the loop saw first; provided the count
\* did not wrap all the way around between the two loads.
AcceptedCopyValid ==
  \A r \in Readers :
    rst[r] = "accepted" /\ after[r] - before[r] < Modulus =>
      /\ before[r] % 2 = 0
      /\ copy[r] = hist[before[r] \div 2 + 1]

\* The Assert of PGSTAT_END_WRITE_ACTIVITY, and what it is for: no member is
\* out of date or half-way in memory while the count in memory is even.
EvenMeansQuiescent ==
  /\ wpc = "idle" => Wrap(seq) % 2 = 0
  /\ vis % 2 = 0 => mem = hist[vis \div 2 + 1]

\* "Start over" ends: once its owner leaves an entry alone, no reader loops
\* for ever on it.
ReaderTerminates ==
  <>[](wpc = "idle") =>
    \A r \in Readers : rst[r] \in {"reading", "retry"} ~>
                       rst[r] \in {"accepted", "idle"}

\* A reader's copy is an atomic read: as if the entry were a register that an
\* update replaces at one instant, and that the reader looks at once between
\* its first and its last load.  Again the count must not wrap all the way
\* around meanwhile: such a read counts as given up.
Began(r) == rst[r] = "reading" /\ [kind |-> "before"] \notin ld[r]
Got(r) == rst[r] = "accepted" /\ after[r] - before[r] < Modulus

LogNow == SubSeq(hist, 1, vis \div 2 + 1)
StatusOf(r) == IF Began(r) THEN "reading" ELSE IF Got(r) THEN "done" ELSE "idle"
SinceOf(r) == IF Began(r) THEN before[r] \div 2 + 1 ELSE 0
GotOf(r) == IF Got(r) THEN copy[r] ELSE Initial
StatusNow == [r \in Readers |-> StatusOf(r)]
SinceNow == [r \in Readers |-> SinceOf(r)]
GotNow == [r \in Readers |-> GotOf(r)]

Register == INSTANCE EntryRegister WITH
  Entries <- [Fields -> Values], log <- LogNow,
  status <- StatusNow, since <- SinceNow, got <- GotNow

AtomicReads == Register!Spec

=============================================================================
