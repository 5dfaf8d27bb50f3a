------------------------------ MODULE SpinLock ------------------------------
(***************************************************************************)
(* A spin lock on the memory of x86 processors: a store waits in the       *)
(* buffer of its processor before others see it, in order; a processor     *)
(* sees its own stores at once; a locked instruction waits until its       *)
(* buffer is empty.  The processors are external.                          *)
(*                                                                         *)
(* SpinLockAcquire is InterlockedCompareExchange of a 0 for a 1, a locked  *)
(* instruction, until it finds the 0; SpinLockRelease is a plain store     *)
(* behind a compiler barrier.  s_lock gives up after a time and ends the   *)
(* server: that is left out.                                               *)
(***************************************************************************)
EXTENDS Integers, Sequences, Functions

CONSTANTS Processes,
          Shared,       \* the memory the lock protects
          BufferSize    \* a bound: a store waits while the buffer is full

VARIABLES mem,      \* a value for every location
          buf,      \* the stores of each process that others do not see yet
          holding   \* the processes in a section that the lock protects

Lock == <<"lock", 0>>
Locations == {Lock} \cup Shared

ASSUME SpinLockAssumption == Lock \notin Shared

\* Memory as m, with the stores of b done.
Overlay(m, b) ==
  [l \in DOMAIN m |->
     IF \E i \in DOMAIN b : b[i][1] = l
       THEN b[CHOOSE i \in DOMAIN b : b[i][1] = l /\ \A j \in i + 1..Len(b) : b[j][1] # l][2]
       ELSE m[l]]

View(p) == Overlay(mem, buf[p])

Store(p, stores) ==
  /\ Len(buf[p]) + Len(stores) <= BufferSize
  /\ buf' = [buf EXCEPT ![p] = @ \o stores]
  /\ UNCHANGED mem

\* A store gets to memory.
Drain(p) ==
  /\ buf[p] # << >>
  /\ mem' = [mem EXCEPT ![Head(buf[p])[1]] = Head(buf[p])[2]]
  /\ buf' = [buf EXCEPT ![p] = Tail(@)]
  /\ UNCHANGED holding

\* S_INIT_LOCK.
LockInit(m) ==
  /\ mem = [l \in Locations |-> IF l = Lock THEN 0 ELSE m[l]]
  /\ buf = [p \in Processes |-> << >>]
  /\ holding = {}

\* A variant whose compare-and-exchange is a load and a store.
TasUnlocked(p) ==
  /\ p \notin holding
  /\ View(p)[Lock] = 0
  /\ Store(p, <<<<Lock, 1>>>>)
  /\ holding' = holding \cup {p}

\* S_LOCK: the TAS that finds the lock free; the others change nothing.
SpinLockAcquire(p) ==
  /\ p \notin holding
  /\ buf[p] = << >> /\ mem[Lock] = 0
  /\ mem' = [mem EXCEPT ![Lock] = 1]
  /\ holding' = holding \cup {p}
  /\ UNCHANGED buf

\* A variant whose store passes those before it.
UnlockAhead(p) ==
  /\ p \in holding
  /\ mem' = [mem EXCEPT ![Lock] = 0]
  /\ holding' = holding \ {p}
  /\ UNCHANGED buf

\* S_UNLOCK.
SpinLockRelease(p) ==
  /\ p \in holding
  /\ Store(p, <<<<Lock, 0>>>>)
  /\ holding' = holding \ {p}

\* The contract of S_LOCK and S_UNLOCK: a process that holds the lock is alone and
\* sees everything that those before it stored while they held it, for nothing
\* of that is still in a buffer.
HolderUpToDate ==
  \A p \in holding : \A q \in Processes \ {p} : q \notin holding /\ buf[q] = << >>

=============================================================================
