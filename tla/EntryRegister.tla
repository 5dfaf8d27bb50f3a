--------------------------- MODULE EntryRegister ---------------------------
(***************************************************************************)
(* What a PgBackendStatus entry promises its readers: it behaves as a      *)
(* register that every update replaces at one instant, and a read returns  *)
(* a value the register held between the start and the end of the read.    *)
(***************************************************************************)
EXTENDS Naturals, Sequences

CONSTANTS Entries, Initial, Readers

VARIABLES log,      \* the values the register has held, oldest first
          status,   \* reader: "idle", "reading", "done"
          since,    \* reader: the length of log when the read started
          got       \* reader: the value returned

vars == <<log, status, since, got>>

Init ==
  /\ log = <<Initial>>
  /\ status = [r \in Readers |-> "idle"]
  /\ since = [r \in Readers |-> 0]
  /\ got = [r \in Readers |-> Initial]

Publish(e) == log' = Append(log, e) /\ UNCHANGED <<status, since, got>>

Begin(r) ==
  /\ status[r] = "idle"
  /\ status' = [status EXCEPT ![r] = "reading"]
  /\ since' = [since EXCEPT ![r] = Len(log)]
  /\ UNCHANGED <<log, got>>

Return(r) ==
  /\ status[r] = "reading"
  /\ status' = [status EXCEPT ![r] = "done"]
  /\ \E k \in since[r]..Len(log) : got' = [got EXCEPT ![r] = log[k]]
  /\ since' = [since EXCEPT ![r] = 0]
  /\ UNCHANGED log

\* The read is abandoned.
GiveUp(r) ==
  /\ status[r] = "reading"
  /\ status' = [status EXCEPT ![r] = "idle"]
  /\ since' = [since EXCEPT ![r] = 0]
  /\ UNCHANGED <<log, got>>

\* The reader is finished with the value.
Forget(r) ==
  /\ status[r] = "done"
  /\ status' = [status EXCEPT ![r] = "idle"]
  /\ got' = [got EXCEPT ![r] = Initial]
  /\ UNCHANGED <<log, since>>

\* The server restarts and shared memory is initialised anew.
Crash ==
  /\ log' = <<Initial>>
  /\ status' = [r \in Readers |-> "idle"]
  /\ since' = [r \in Readers |-> 0]
  /\ got' = [r \in Readers |-> Initial]

Next ==
  \/ \E e \in Entries : Publish(e)
  \/ \E r \in Readers : Begin(r) \/ Return(r) \/ GiveUp(r) \/ Forget(r)
  \/ Crash

Spec == Init /\ [][Next]_vars
=============================================================================
