------------------------------ MODULE WaitList ------------------------------
(***************************************************************************)
(* The wait list of a condition variable: a proclist, doubly linked by     *)
(* process numbers, behind a spin lock.  A node of zeros is in no list,    *)
(* although zero is a process number.  The condition variables themselves  *)
(* are compiled code; their processes enter the list, leave it, and wake   *)
(* up its first or all its members, each in a section of its own.          *)
(***************************************************************************)
EXTENDS SpinLock, FiniteSets

CONSTANT INVALID_PGPROCNO     \* the end of a list, no process

VARIABLE iter       \* the loop a process is in

waitVars == <<mem, buf, holding, iter>>

HeadOf == <<"head", 0>>
TailOf == <<"tail", 0>>
NextOf(p) == <<"next", p>>
PrevOf(p) == <<"prev", p>>

ListMemory ==
  {HeadOf, TailOf} \cup {NextOf(p) : p \in Processes} \cup {PrevOf(p) : p \in Processes}

ASSUME WaitListAssumption ==
  /\ Processes \subseteq Nat /\ IsFiniteSet(Processes)
  /\ INVALID_PGPROCNO \in Nat \ (Processes \cup {0})
  /\ Shared = ListMemory

NoLoop == [cur |-> INVALID_PGPROCNO]

\* proclist_init; the nodes are in no list.
WaitInit ==
  /\ LockInit([l \in Shared |-> IF l \in {HeadOf, TailOf} THEN INVALID_PGPROCNO ELSE 0])
  /\ iter = [p \in Processes |-> NoLoop]

-----------------------------------------------------------------------------
(* The operations, as the stores they make in the memory m. *)

Contains(m, n) == ~(m[PrevOf(n)] = 0 /\ m[NextOf(n)] = 0)

Alone(n) == <<<<PrevOf(n), INVALID_PGPROCNO>>, <<NextOf(n), INVALID_PGPROCNO>>,
              <<TailOf, n>>, <<HeadOf, n>>>>

PushHeadStores(m, n) ==
  IF m[HeadOf] = INVALID_PGPROCNO THEN Alone(n)
  ELSE <<<<NextOf(n), m[HeadOf]>>, <<PrevOf(m[HeadOf]), n>>,
         <<PrevOf(n), INVALID_PGPROCNO>>, <<HeadOf, n>>>>

PushTailStores(m, n) ==
  IF m[TailOf] = INVALID_PGPROCNO THEN Alone(n)
  ELSE <<<<PrevOf(n), m[TailOf]>>, <<NextOf(m[TailOf]), n>>,
         <<NextOf(n), INVALID_PGPROCNO>>, <<TailOf, n>>>>

Unlink(m, n) ==
  <<<<IF m[PrevOf(n)] = INVALID_PGPROCNO THEN HeadOf ELSE NextOf(m[PrevOf(n)]), m[NextOf(n)]>>,
    <<IF m[NextOf(n)] = INVALID_PGPROCNO THEN TailOf ELSE PrevOf(m[NextOf(n)]), m[PrevOf(n)]>>>>

\* A variant that leaves the node as it was.
UnlinkOnly(m, n) == Unlink(m, n)

DeleteStores(m, n) == Unlink(m, n) \o <<<<PrevOf(n), 0>>, <<NextOf(n), 0>>>>

-----------------------------------------------------------------------------
(* The processes. *)

Acquire(p) == SpinLockAcquire(p) /\ UNCHANGED iter

\* The section ends when its operation does.
Operate(p, stores) ==
  /\ p \in holding /\ iter[p] = NoLoop
  /\ Store(p, stores)
  /\ UNCHANGED <<holding, iter>>

Enter(p) ==
  /\ ~Contains(View(p), p)
  /\ \/ Operate(p, PushHeadStores(View(p), p))
     \/ Operate(p, PushTailStores(View(p), p))

Leave(p) == Contains(View(p), p) /\ Operate(p, DeleteStores(View(p), p))

\* proclist_pop_head_node.
WakeFirst(p) ==
  /\ View(p)[HeadOf] # INVALID_PGPROCNO
  /\ Operate(p, DeleteStores(View(p), View(p)[HeadOf]))

\* The node after n in m, the end after the end.
After(m, n) == IF n = INVALID_PGPROCNO THEN INVALID_PGPROCNO ELSE m[NextOf(n)]

\* The members of the list in m, in their order.
Walk(m) ==
  LET at[k \in 1..Cardinality(Processes)] ==
        IF k = 1 THEN m[HeadOf] ELSE After(m, at[k - 1])
      length == Cardinality({k \in 1..Cardinality(Processes) : at[k] # INVALID_PGPROCNO})
  IN [k \in 1..length |-> at[k]]

\* proclist_foreach_modify; what it has to visit is kept for the properties.
StartLoop(p) ==
  LET m == View(p)
  IN /\ p \in holding /\ iter[p] = NoLoop /\ m[HeadOf] # INVALID_PGPROCNO
     /\ iter' = [iter EXCEPT ![p] = [cur |-> m[HeadOf], next |-> After(m, m[HeadOf]),
                                     left |-> Range(Walk(m))]]
     /\ UNCHANGED <<mem, buf, holding>>

\* A variant that looks for the next node when the body is done.
AdvanceLate(p, m) ==
  LET n == After(m, iter[p].cur)
  IN [cur |-> n, next |-> After(m, n), left |-> iter[p].left \ {iter[p].cur}]

\* The step to the next node, in the memory m that the body left.
Advance(p, m) ==
  LET n == iter[p].next
  IN [cur |-> n, next |-> After(m, n), left |-> iter[p].left \ {iter[p].cur}]

\* The body, which may delete the current node.
Visit(p) ==
  /\ iter[p].cur # INVALID_PGPROCNO
  /\ \E stores \in {<< >>, DeleteStores(View(p), iter[p].cur)} :
       /\ Store(p, stores)
       /\ iter' = [iter EXCEPT ![p] = Advance(p, Overlay(View(p), stores))]
  /\ UNCHANGED holding

\* The end of the loop.
EndLoop(p) ==
  /\ iter[p] # NoLoop /\ iter[p].cur = INVALID_PGPROCNO
  /\ iter' = [iter EXCEPT ![p] = NoLoop]
  /\ UNCHANGED <<mem, buf, holding>>

Release(p) == iter[p] = NoLoop /\ SpinLockRelease(p) /\ UNCHANGED iter

WaitNext ==
  \E p \in Processes :
    \/ Acquire(p) \/ Enter(p) \/ Leave(p) \/ WakeFirst(p)
    \/ StartLoop(p) \/ Visit(p) \/ EndLoop(p) \/ Release(p)
    \/ Drain(p) /\ UNCHANGED iter

WaitSpec == WaitInit /\ [][WaitNext]_waitVars

-----------------------------------------------------------------------------
(* Properties. *)

\* The list, the stores that are still in a buffer done.
Latest ==
  IF \A p \in Processes : buf[p] = << >> THEN mem
  ELSE View(CHOOSE p \in Processes : buf[p] # << >>)

\* The links are right both ways, and a node is of zeros if and only if its
\* process is not in the list, process 0 between others included.
WellFormed ==
  LET m == Latest
      q == Walk(m)
  IN /\ \A i \in DOMAIN q :
          /\ m[PrevOf(q[i])] = IF i = 1 THEN INVALID_PGPROCNO ELSE q[i - 1]
          /\ m[NextOf(q[i])] = IF i = Len(q) THEN INVALID_PGPROCNO ELSE q[i + 1]
     /\ m[TailOf] = IF q = << >> THEN INVALID_PGPROCNO ELSE q[Len(q)]
     /\ \A p \in Processes : Contains(m, p) <=> p \in Range(q)

\* A loop that deletes where it is visits every member, none of them twice.
VisitsAll ==
  \A p \in Processes : iter[p] # NoLoop =>
    IF iter[p].cur = INVALID_PGPROCNO THEN iter[p].left = {} ELSE iter[p].cur \in iter[p].left

Queue == INSTANCE WaitQueue WITH Waiters <- Processes, queue <- Walk(Latest)

\* The list is a queue that one process changes at a time, whatever order the
\* stores of their sections get to memory in.
ImplementsQueue == Queue!QueueSpec

=============================================================================
