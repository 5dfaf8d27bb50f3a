------------------------ MODULE SharedMemory_proofs -------------------------
(***************************************************************************)
(* What processes share in memory.                                         *)
(*                                                                         *)
(* The spin lock does what its contract says, and the list that is changed *)
(* under it is a queue whose loops visit every member, for any number of   *)
(* processes and buffers of any size.                                      *)
(*                                                                         *)
(* The operations made of compare and exchange are atomic, for every       *)
(* number of callers, set of calls and size of a half word.                *)
(*                                                                         *)
(* Transaction ids in a word that wraps keep the order and the place of    *)
(* the full ones, for every size of the word.                              *)
(***************************************************************************)
EXTENDS WaitList, Atomics, TransactionIds, FiniteSetTheorems, SequenceTheorems, TLAPS

-----------------------------------------------------------------------------
(* The spin lock. *)

\* Stores that are not to the lock.
ListStores(b) == /\ \E S : b \in Seq(S)
                 /\ \A i \in 1..Len(b) : b[i][1] # Lock

\* A process with something to be seen: it holds the lock or has yet to store the
\* release of it.
Owner(p) == p \in holding \/ buf[p] # << >>

LockInv ==
  /\ \E S : buf \in [Processes -> Seq(S)]
  /\ mem = [l \in Locations |-> mem[l]]
  /\ holding \subseteq Processes
  /\ \A p \in Processes : Owner(p) =>
       mem[Lock] = 1 /\ \A q \in Processes \ {p} : ~Owner(q)
  /\ \A p \in holding : \A i \in 1..Len(buf[p]) : buf[p][i][1] # Lock
  /\ \A p \in Processes \ holding : buf[p] # << >> =>
       /\ buf[p][Len(buf[p])] = <<Lock, 0>>
       /\ \A i \in 1..Len(buf[p]) - 1 : buf[p][i][1] # Lock

\* A loop runs in a section.
LoopInv ==
  /\ iter = [p \in Processes |-> iter[p]]
  /\ \A p \in Processes : iter[p] # NoLoop => p \in holding

-----------------------------------------------------------------------------
(* The operations store to the list only. *)

LEMMA Places ==
  ASSUME NEW n
  PROVE  HeadOf # Lock /\ TailOf # Lock /\ NextOf(n) # Lock /\ PrevOf(n) # Lock
  BY DEF HeadOf, TailOf, NextOf, PrevOf, Lock

LEMMA TwoStores ==
  ASSUME NEW a, NEW b, NEW v, NEW w, a # Lock, b # Lock
  PROVE  ListStores(<<<<a, v>>, <<b, w>>>>)
<1>1. <<<<a, v>>, <<b, w>>>> \in Seq({<<a, v>>, <<b, w>>})
  OBVIOUS
<1>2. \A i \in 1..2 : <<<<a, v>>, <<b, w>>>>[i] \in {<<a, v>>, <<b, w>>}
  OBVIOUS
<1>3. \A e \in {<<a, v>>, <<b, w>>} : e[1] # Lock
  OBVIOUS
<1>4. Len(<<<<a, v>>, <<b, w>>>>) = 2
  OBVIOUS
<1> QED BY <1>1, <1>2, <1>3, <1>4 DEF ListStores

LEMMA FourStores ==
  ASSUME NEW a, NEW b, NEW c, NEW d, NEW u, NEW v, NEW w, NEW x,
         a # Lock, b # Lock, c # Lock, d # Lock
  PROVE  ListStores(<<<<a, u>>, <<b, v>>, <<c, w>>, <<d, x>>>>)
<1>1. <<<<a, u>>, <<b, v>>, <<c, w>>, <<d, x>>>> \in
        Seq({<<a, u>>, <<b, v>>, <<c, w>>, <<d, x>>})
  OBVIOUS
<1>2. \A i \in 1..4 : <<<<a, u>>, <<b, v>>, <<c, w>>, <<d, x>>>>[i] \in
                      {<<a, u>>, <<b, v>>, <<c, w>>, <<d, x>>}
  OBVIOUS
<1>3. \A e \in {<<a, u>>, <<b, v>>, <<c, w>>, <<d, x>>} : e[1] # Lock
  OBVIOUS
<1>4. Len(<<<<a, u>>, <<b, v>>, <<c, w>>, <<d, x>>>>) = 4
  OBVIOUS
<1> QED BY <1>1, <1>2, <1>3, <1>4 DEF ListStores

LEMMA JoinedStores ==
  ASSUME NEW b, NEW c, ListStores(b), ListStores(c)
  PROVE  ListStores(b \o c)
<1>1. PICK S : b \in Seq(S)
  BY DEF ListStores
<1>2. PICK T : c \in Seq(T)
  BY DEF ListStores
<1>3. b \in Seq(S \cup T) /\ c \in Seq(S \cup T)
  BY <1>1, <1>2
<1>4. b \o c \in Seq(S \cup T)
  BY <1>3
<1>5. \A i \in 1..Len(b \o c) : (b \o c)[i][1] # Lock
  BY <1>3 DEF ListStores
<1> QED BY <1>4, <1>5 DEF ListStores

LEMMA OperationStores ==
  ASSUME NEW m, NEW n
  PROVE  /\ ListStores(PushHeadStores(m, n)) /\ ListStores(PushTailStores(m, n))
         /\ ListStores(DeleteStores(m, n)) /\ ListStores(<< >>)
<1>1. ListStores(PushHeadStores(m, n)) /\ ListStores(PushTailStores(m, n))
  BY Places, FourStores DEF PushHeadStores, PushTailStores, Alone
<1>2. ListStores(Unlink(m, n))
  BY Places, TwoStores DEF Unlink
<1>3. ListStores(<<<<PrevOf(n), 0>>, <<NextOf(n), 0>>>>)
  BY Places, TwoStores
<1>4. ListStores(DeleteStores(m, n))
  BY <1>2, <1>3, JoinedStores DEF DeleteStores
<1>5. ListStores(<< >>)
  <2>1. << >> \in Seq({})
    OBVIOUS
  <2> QED BY <2>1 DEF ListStores
<1> QED BY <1>1, <1>4, <1>5

-----------------------------------------------------------------------------
(* The steps. *)

LEMMA AcquireStep ==
  ASSUME LockInv, NEW p \in Processes, SpinLockAcquire(p)
  PROVE  LockInv'
<1> USE DEF SpinLockAcquire, Owner
<1>1. \A q \in Processes : ~Owner(q)
  BY DEF LockInv
<1>2. mem' = [l \in Locations |-> mem'[l]] /\ mem'[Lock] = 1
  BY DEF LockInv, Locations
<1>3. \A q \in Processes : buf'[q] = << >>
  BY <1>1
<1>4. holding' = {p}
  BY <1>1 DEF LockInv
<1> QED BY <1>2, <1>3, <1>4 DEF LockInv

LEMMA StoreStep ==
  ASSUME LockInv, NEW p \in holding, NEW b, ListStores(b), Store(p, b), holding' = holding
  PROVE  LockInv'
<1>1. p \in Processes
  BY DEF LockInv
<1>2. PICK S : buf \in [Processes -> Seq(S)]
  BY DEF LockInv
<1>3. PICK T : b \in Seq(T)
  BY DEF ListStores
<1>4. buf[p] \in Seq(S \cup T) /\ b \in Seq(S \cup T) /\ buf \in [Processes -> Seq(S \cup T)]
  BY <1>1, <1>2, <1>3
<1>5. buf' \in [Processes -> Seq(S \cup T)] /\ buf'[p] = buf[p] \o b
  BY <1>1, <1>4 DEF Store
<1>6. \A i \in 1..Len(buf'[p]) : buf'[p][i][1] # Lock
  BY <1>4, <1>5 DEF LockInv, ListStores
<1>7. \A q \in Processes \ {p} : buf'[q] = buf[q]
  BY <1>1, <1>2 DEF Store
<1>8. mem' = mem
  BY DEF Store
<1>9. Owner(p)
  BY DEF Owner
<1> QED BY <1>1, <1>5, <1>6, <1>7, <1>8, <1>9 DEF LockInv, Owner

LEMMA ReleaseStep ==
  ASSUME LockInv, NEW p \in Processes, SpinLockRelease(p)
  PROVE  LockInv'
<1>1. PICK S : buf \in [Processes -> Seq(S)]
  BY DEF LockInv
<1> DEFINE T == S \cup {<<Lock, 0>>}
<1>2. buf[p] \in Seq(T) /\ <<<<Lock, 0>>>> \in Seq(T) /\ buf \in [Processes -> Seq(T)]
  BY <1>1
<1>3. buf' \in [Processes -> Seq(T)] /\ buf'[p] = buf[p] \o <<<<Lock, 0>>>>
  BY <1>2 DEF SpinLockRelease, Store
<1>4. /\ Len(buf'[p]) = Len(buf[p]) + 1
      /\ buf'[p][Len(buf'[p])] = <<Lock, 0>>
      /\ \A i \in 1..Len(buf[p]) : buf'[p][i] = buf[p][i]
  BY <1>2, <1>3
<1>5. \A i \in 1..Len(buf'[p]) - 1 : buf'[p][i][1] # Lock
  BY <1>2, <1>4 DEF LockInv, SpinLockRelease
<1>6. \A q \in Processes \ {p} : buf'[q] = buf[q]
  BY <1>1 DEF SpinLockRelease, Store
<1>7. mem' = mem /\ holding' = holding \ {p} /\ Owner(p) /\ p \in holding
  BY DEF SpinLockRelease, Store, Owner
<1>8. \A q \in Processes : Owner(q)' => Owner(q)
  BY <1>6, <1>7 DEF Owner
<1> HIDE DEF T
<1> QED BY <1>3, <1>4, <1>5, <1>6, <1>7, <1>8 DEF LockInv

LEMMA DrainStep ==
  ASSUME LockInv, NEW p \in Processes, Drain(p)
  PROVE  LockInv'
<1>1. PICK S : buf \in [Processes -> Seq(S)]
  BY DEF LockInv
<1>2. buf[p] \in Seq(S) /\ buf[p] # << >> /\ buf'[p] = Tail(buf[p]) /\ buf' \in [Processes -> Seq(S)]
  BY <1>1 DEF Drain
<1>3. /\ Len(buf[p]) \in Nat \ {0} /\ Len(buf'[p]) = Len(buf[p]) - 1
      /\ Head(buf[p]) = buf[p][1]
      /\ \A i \in 1..Len(buf'[p]) : buf'[p][i] = buf[p][i + 1]
  BY <1>2
<1>4. \A q \in Processes \ {p} : buf'[q] = buf[q]
  BY <1>1 DEF Drain
<1>5. holding' = holding /\ Owner(p)
  BY <1>2 DEF Drain, Owner
<1>6. mem' = [l \in Locations |-> mem'[l]]
  BY DEF LockInv, Drain
<1>7. \A q \in Processes \ {p} : ~Owner(q) /\ ~Owner(q)'
  BY <1>4, <1>5 DEF LockInv, Owner
<1>8. mem[Lock] = 1
  BY <1>5 DEF LockInv
<1>9. CASE p \in holding
  <2>1. buf[p][1][1] # Lock /\ \A i \in 1..Len(buf'[p]) : buf'[p][i][1] # Lock
    BY <1>3, <1>9 DEF LockInv
  <2>2. mem'[Lock] = 1
    BY <1>3, <1>8, <2>1 DEF LockInv, Drain, Locations
  <2>3. \A q \in Processes \ holding' : buf'[q] = << >>
    BY <1>5, <1>7, <1>9 DEF Owner
  <2>4. \A q \in holding' : q = p
    BY <1>5, <1>7 DEF LockInv, Owner
  <2> QED BY <1>2, <1>5, <1>6, <1>7, <2>1, <2>2, <2>3, <2>4 DEF LockInv
<1>10. CASE p \notin holding /\ Len(buf[p]) = 1
  <2>1. buf'[p] = << >>
    BY <1>2, <1>3, <1>10
  <2>2. \A q \in Processes : ~Owner(q)'
    BY <1>5, <1>7, <1>10, <2>1 DEF Owner
  <2> QED BY <1>2, <1>5, <1>6, <2>2 DEF LockInv, Owner
<1>11. CASE p \notin holding /\ Len(buf[p]) # 1
  <2>0. /\ buf[p][Len(buf[p])] = <<Lock, 0>>
        /\ \A i \in 1..Len(buf[p]) - 1 : buf[p][i][1] # Lock
    BY <1>2, <1>11 DEF LockInv
  <2> DEFINE n == Len(buf[p])
  <2>5. n \in Nat /\ n >= 2 /\ Len(buf'[p]) = n - 1
    <3>1. n \in Nat \ {0} /\ Len(buf'[p]) = n - 1
      BY <1>3
    <3>2. n # 1
      BY <1>11
    <3> HIDE DEF n
    <3> QED BY <3>1, <3>2
  <2>1. buf[p][1][1] # Lock
    BY <2>0, <2>5
  <2>2. /\ buf'[p][Len(buf'[p])] = <<Lock, 0>>
        /\ \A i \in 1..Len(buf'[p]) - 1 : buf'[p][i][1] # Lock
    <3>1. \A i \in 1..n - 1 : buf'[p][i] = buf[p][i + 1]
      BY <1>3, <2>5
    <3> HIDE DEF n
    <3>2. buf[p][n] = <<Lock, 0>> /\ \A i \in 1..n - 1 : buf[p][i][1] # Lock
      BY <2>0 DEF n
    <3>3. buf'[p][n - 1] = buf[p][n - 1 + 1] /\ n - 1 + 1 = n
      BY <2>5, <3>1
    <3>4. \A i \in 1..n - 2 : i + 1 \in 1..n - 1 /\ i \in 1..n - 1
      BY <2>5
    <3>5. \A i \in 1..n - 2 : buf'[p][i][1] # Lock
      BY <3>1, <3>2, <3>4
    <3>6. n - 1 - 1 = n - 2
      BY <2>5
    <3> QED BY <2>5, <3>2, <3>3, <3>5, <3>6
  <2>3. mem'[Lock] = 1
    BY <1>3, <1>8, <2>1 DEF LockInv, Drain, Locations
  <2>4. holding' = {} /\ \A q \in Processes \ {p} : buf'[q] = << >>
    BY <1>5, <1>7, <1>11 DEF LockInv, Owner
  <2> QED BY <1>2, <1>6, <1>7, <2>2, <2>3, <2>4 DEF LockInv
<1> QED BY <1>9, <1>10, <1>11

LEMMA InitInv == WaitInit => LockInv /\ LoopInv
<1> SUFFICES ASSUME WaitInit PROVE LockInv /\ LoopInv
  OBVIOUS
<1>1. buf \in [Processes -> Seq({})] /\ holding = {}
  BY DEF WaitInit, LockInit
<1>2. mem = [l \in Locations |-> mem[l]]
  BY DEF WaitInit, LockInit
<1>3. \A p \in Processes : ~Owner(p)
  BY <1>1 DEF WaitInit, LockInit, Owner
<1> QED BY <1>1, <1>2, <1>3 DEF LockInv, Owner, LoopInv, WaitInit

LEMMA StepInv == LockInv /\ LoopInv /\ [WaitNext]_waitVars => LockInv' /\ LoopInv'
<1> SUFFICES ASSUME LockInv, LoopInv, [WaitNext]_waitVars PROVE LockInv' /\ LoopInv'
  OBVIOUS
<1>1. ASSUME NEW p \in Processes, NEW b, ListStores(b), Operate(p, b)
      PROVE  LockInv' /\ LoopInv'
  BY <1>1, StoreStep DEF Operate, LoopInv
<1>2. ASSUME NEW p \in Processes, Acquire(p) PROVE LockInv' /\ LoopInv'
  BY <1>2, AcquireStep DEF Acquire, SpinLockAcquire, LoopInv
<1>3. ASSUME NEW p \in Processes, Enter(p) \/ Leave(p) \/ WakeFirst(p)
      PROVE  LockInv' /\ LoopInv'
  BY <1>1, <1>3, OperationStores DEF Enter, Leave, WakeFirst
<1>4. ASSUME NEW p \in Processes, StartLoop(p) PROVE LockInv' /\ LoopInv'
  BY <1>4 DEF StartLoop, LockInv, Owner, LoopInv
<1>5. ASSUME NEW p \in Processes, Visit(p) PROVE LockInv' /\ LoopInv'
  <2>1. p \in holding
    BY <1>5 DEF Visit, LoopInv, NoLoop
  <2>2. LockInv'
    BY <1>5, <2>1, StoreStep, OperationStores DEF Visit
  <2>3. LoopInv'
    BY <1>5, <2>1 DEF Visit, LoopInv
  <2> QED BY <2>2, <2>3
<1>6. ASSUME NEW p \in Processes, EndLoop(p) PROVE LockInv' /\ LoopInv'
  BY <1>6 DEF EndLoop, LockInv, Owner, LoopInv
<1>7. ASSUME NEW p \in Processes, Release(p) PROVE LockInv' /\ LoopInv'
  BY <1>7, ReleaseStep DEF Release, SpinLockRelease, LoopInv
<1>8. ASSUME NEW p \in Processes, Drain(p), UNCHANGED iter PROVE LockInv' /\ LoopInv'
  BY <1>8, DrainStep DEF Drain, LoopInv
<1>9. CASE UNCHANGED waitVars
  BY <1>9 DEF waitVars, LockInv, Owner, LoopInv
<1> QED BY <1>2, <1>3, <1>4, <1>5, <1>6, <1>7, <1>8, <1>9 DEF WaitNext

\* Whoever holds the spin lock is alone and sees what those before it stored, for
\* any number of processes.
THEOREM SpinLockContract == WaitSpec => []HolderUpToDate
<1>1. LockInv => HolderUpToDate
  BY DEF LockInv, HolderUpToDate, Owner
<1> QED BY <1>1, InitInv, StepInv, PTL DEF WaitSpec

-----------------------------------------------------------------------------
(* What the stores of a buffer make of memory. *)

\* The induction of this module: a set of numbers that is not empty has a least.
LEMMA Least ==
  ASSUME NEW T \in SUBSET Nat, T # {}
  PROVE  \E x \in T : \A y \in T : x <= y
<1>1. PICK x \in T : \A y \in T : ~(<<y, x>> \in OpToRel(<, Nat))
  BY NatLessThanWellFounded, WFMin, T \subseteq Nat, Zenon
<1>2. \A y \in T : ~(y < x)
  BY <1>1 DEF OpToRel
<1> QED BY <1>2

\* The last store of a sequence to a location.
LEMMA LastStore ==
  ASSUME NEW S, NEW b \in Seq(S), NEW l, \E i \in 1..Len(b) : b[i][1] = l
  PROVE  \E i \in 1..Len(b) : b[i][1] = l /\ \A j \in i + 1..Len(b) : b[j][1] # l
<1> DEFINE T == {n \in Nat : \E i \in 1..Len(b) : b[i][1] = l /\ i + n = Len(b)}
<1>1. Len(b) \in Nat
  OBVIOUS
<1>2. PICK i \in 1..Len(b) : b[i][1] = l
  OBVIOUS
<1>3. Len(b) - i \in T
  BY <1>1, <1>2
<1>4. PICK n \in T : \A k \in T : n <= k
  BY <1>3, Least
<1>5. PICK j \in 1..Len(b) : b[j][1] = l /\ j + n = Len(b)
  BY <1>4
<1>6. ASSUME NEW k \in j + 1..Len(b), b[k][1] = l PROVE FALSE
  <2>1. Len(b) - k \in T
    BY <1>1, <1>6
  <2>2. n <= Len(b) - k
    BY <1>4, <2>1
  <2> QED BY <1>1, <1>5, <2>2
<1> QED BY <1>5, <1>6

\* A location holds what the last store to it says.
LEMMA OverlayAt ==
  ASSUME NEW S, NEW b \in Seq(S), NEW m, NEW l \in DOMAIN m, NEW i \in 1..Len(b),
         b[i][1] = l, \A j \in i + 1..Len(b) : b[j][1] # l
  PROVE  Overlay(m, b)[l] = b[i][2]
<1> DEFINE P(k) == b[k][1] = l /\ \A j \in k + 1..Len(b) : b[j][1] # l
           c == CHOOSE k \in DOMAIN b : P(k)
<1>1. DOMAIN b = 1..Len(b) /\ Len(b) \in Nat
  OBVIOUS
<1>2. c \in 1..Len(b) /\ P(c)
  BY <1>1
<1>3. c = i
  <2>1. ~(c < i) /\ ~(i < c)
    BY <1>1, <1>2
  <2> QED BY <1>2, <2>1
<1>4. Overlay(m, b)[l] = b[c][2]
  BY <1>1 DEF Overlay
<1> QED BY <1>3, <1>4

LEMMA OverlayElse ==
  ASSUME NEW S, NEW b \in Seq(S), NEW m, NEW l \in DOMAIN m,
         \A i \in 1..Len(b) : b[i][1] # l
  PROVE  Overlay(m, b)[l] = m[l]
BY DEF Overlay

LEMMA OverlayDomain ==
  ASSUME NEW m, NEW b
  PROVE  DOMAIN Overlay(m, b) = DOMAIN m /\ Overlay(m, b) = [l \in DOMAIN m |-> Overlay(m, b)[l]]
BY DEF Overlay

\* Stores are done in their order.
LEMMA OverlayJoined ==
  ASSUME NEW S, NEW b \in Seq(S), NEW c \in Seq(S), NEW m
  PROVE  Overlay(m, b \o c) = Overlay(Overlay(m, b), c)
<1> DEFINE d == b \o c
<1>1. /\ d \in Seq(S) /\ Len(b) \in Nat /\ Len(c) \in Nat
      /\ Len(d) = Len(b) + Len(c)
      /\ \A i \in 1..Len(b) : d[i] = b[i]
      /\ \A i \in 1..Len(c) : d[Len(b) + i] = c[i]
  OBVIOUS
<1> HIDE DEF d
<1>2. ASSUME NEW l \in DOMAIN m
      PROVE  Overlay(m, d)[l] = Overlay(Overlay(m, b), c)[l]
  <2>0. l \in DOMAIN Overlay(m, b)
    BY OverlayDomain
  <2>1. CASE \E i \in 1..Len(c) : c[i][1] = l
    <3>1. PICK i \in 1..Len(c) : c[i][1] = l /\ \A j \in i + 1..Len(c) : c[j][1] # l
      BY <2>1, LastStore
    <3>2. Overlay(Overlay(m, b), c)[l] = c[i][2]
      BY <2>0, <3>1, OverlayAt
    <3>3. /\ Len(b) + i \in 1..Len(d) /\ d[Len(b) + i] = c[i]
          /\ \A j \in Len(b) + i + 1..Len(d) : d[j][1] # l
      <4>1. ASSUME NEW j \in Len(b) + i + 1..Len(d) PROVE d[j][1] # l
        <5>1. j - Len(b) \in 1..Len(c) /\ j - Len(b) \in i + 1..Len(c) /\ j = Len(b) + (j - Len(b))
          BY <1>1
        <5>2. d[j] = c[j - Len(b)]
          BY <1>1, <5>1
        <5> QED BY <3>1, <5>1, <5>2
      <4> QED BY <1>1, <4>1
    <3> DEFINE n == Len(b) + i
    <3>4. n \in 1..Len(d) /\ d[n][1] = l /\ d[n][2] = c[i][2] /\ \A j \in n + 1..Len(d) : d[j][1] # l
      BY <3>1, <3>3
    <3> HIDE DEF n
    <3>5. Overlay(m, d)[l] = d[n][2]
      <4>1. d \in Seq(S) /\ l \in DOMAIN m
        BY <1>1
      <4> QED BY ONLY <3>4, <4>1, OverlayAt
    <3> QED BY <3>2, <3>4, <3>5
  <2>2. CASE \A i \in 1..Len(c) : c[i][1] # l
    <3>1. Overlay(Overlay(m, b), c)[l] = Overlay(m, b)[l]
      BY <2>0, <2>2, OverlayElse
    <3>2. \A j \in Len(b) + 1..Len(d) : d[j][1] # l
      <4>1. ASSUME NEW j \in Len(b) + 1..Len(d) PROVE d[j][1] # l
        <5>1. j - Len(b) \in 1..Len(c) /\ j = Len(b) + (j - Len(b))
          BY <1>1
        <5>2. d[j] = c[j - Len(b)]
          BY <1>1, <5>1
        <5> QED BY <2>2, <5>1, <5>2
      <4> QED BY <4>1
    <3>3. CASE \E i \in 1..Len(b) : b[i][1] = l
      <4>1. PICK i \in 1..Len(b) : b[i][1] = l /\ \A j \in i + 1..Len(b) : b[j][1] # l
        BY <3>3, LastStore
      <4>2. Overlay(m, b)[l] = b[i][2]
        BY <4>1, OverlayAt
      <4>3. i \in 1..Len(d) /\ d[i] = b[i]
        BY <1>1
      <4>4. ASSUME NEW j \in i + 1..Len(d) PROVE d[j][1] # l
        <5>1. CASE j <= Len(b)
          BY <1>1, <4>1, <5>1
        <5>2. CASE j > Len(b)
          BY <1>1, <3>2, <5>2
        <5> QED BY <1>1, <5>1, <5>2
      <4>5. Overlay(m, d)[l] = b[i][2]
        BY <1>1, <4>1, <4>3, <4>4, OverlayAt
      <4> QED BY <3>1, <4>2, <4>5
    <3>4. CASE \A i \in 1..Len(b) : b[i][1] # l
      <4>1. Overlay(m, b)[l] = m[l]
        BY <3>4, OverlayElse
      <4>2. \A j \in 1..Len(d) : d[j][1] # l
        BY <1>1, <3>2, <3>4
      <4> QED BY <1>1, <3>1, <4>1, <4>2, OverlayElse
    <3> QED BY <3>3, <3>4
  <2> QED BY <2>1, <2>2
<1>3. Overlay(m, d) = Overlay(Overlay(m, b), c)
  BY <1>2, OverlayDomain
<1> QED BY <1>3 DEF d

LEMMA OverlayNone ==
  ASSUME NEW m, m = [l \in DOMAIN m |-> m[l]]
  PROVE  Overlay(m, << >>) = m
<1> DEFINE b == << >>
<1>1. b \in Seq({}) /\ \A i \in 1..Len(b) : FALSE
  OBVIOUS
<1> HIDE DEF b
<1>2. \A l \in DOMAIN m : Overlay(m, b)[l] = m[l]
  BY <1>1, OverlayElse
<1>3. Overlay(m, b) = m
  BY <1>2, OverlayDomain
<1> QED BY <1>3 DEF b

LEMMA OverlayOne ==
  ASSUME NEW m, NEW l, NEW v
  PROVE  Overlay(m, <<<<l, v>>>>) = [k \in DOMAIN m |-> IF k = l THEN v ELSE m[k]]
<1> DEFINE b == <<<<l, v>>>>
<1>1. b \in Seq({<<l, v>>}) /\ Len(b) = 1 /\ b[1][1] = l /\ b[1][2] = v
  OBVIOUS
<1> HIDE DEF b
<1>2. ASSUME NEW k \in DOMAIN m, k = l PROVE Overlay(m, b)[k] = v
  <2>1. 1 \in 1..Len(b) /\ \A j \in 1 + 1..Len(b) : b[j][1] # l
    BY <1>1
  <2> QED BY <1>1, <1>2, <2>1, OverlayAt
<1>3. ASSUME NEW k \in DOMAIN m, k # l PROVE Overlay(m, b)[k] = m[k]
  BY <1>1, <1>3, OverlayElse
<1>4. Overlay(m, b) = [k \in DOMAIN m |-> IF k = l THEN v ELSE m[k]]
  BY <1>2, <1>3, OverlayDomain
<1> QED BY <1>4 DEF b

\* Four stores to locations that differ.
LEMMA OverlayFour ==
  ASSUME NEW m, NEW a, NEW b, NEW c, NEW d, NEW u, NEW v, NEW w, NEW x,
         a # b, a # c, a # d, b # c, b # d, c # d
  PROVE  Overlay(m, <<<<a, u>>, <<b, v>>, <<c, w>>, <<d, x>>>>) =
           [l \in DOMAIN m |-> IF l = a THEN u ELSE IF l = b THEN v
                               ELSE IF l = c THEN w ELSE IF l = d THEN x ELSE m[l]]
<1> DEFINE s == <<<<a, u>>, <<b, v>>, <<c, w>>, <<d, x>>>>
<1>1. /\ s \in Seq({<<a, u>>, <<b, v>>, <<c, w>>, <<d, x>>}) /\ Len(s) = 4
      /\ s[1][1] = a /\ s[1][2] = u /\ s[2][1] = b /\ s[2][2] = v
      /\ s[3][1] = c /\ s[3][2] = w /\ s[4][1] = d /\ s[4][2] = x
  OBVIOUS
<1> HIDE DEF s
<1>2. \A i \in 1..4 : i = 1 \/ i = 2 \/ i = 3 \/ i = 4
  OBVIOUS
<1>3. \A i, j \in 1..4 : s[i][1] = s[j][1] => i = j
  BY <1>1, <1>2
<1>4. ASSUME NEW i \in 1..4, s[i][1] \in DOMAIN m
      PROVE  Overlay(m, s)[s[i][1]] = s[i][2]
  <2>1. i \in 1..Len(s) /\ \A j \in i + 1..Len(s) : s[j][1] # s[i][1]
    <3>1. \A j \in i + 1..4 : j \in 1..4 /\ j # i
      OBVIOUS
    <3> QED BY <1>1, <1>3, <3>1
  <2> DEFINE l == s[i][1]
  <2>2. /\ l \in DOMAIN m /\ s[i][1] = l /\ i \in 1..Len(s)
        /\ \A j \in i + 1..Len(s) : s[j][1] # l
    BY <1>4, <2>1
  <2> HIDE DEF l
  <2>3. Overlay(m, s)[l] = s[i][2]
    <3>1. PICK S : s \in Seq(S)
      BY <1>1
    <3>2. s[i][1] = l /\ l \in DOMAIN m /\ i \in 1..Len(s) /\ \A j \in i + 1..Len(s) : s[j][1] # l
      BY <2>2
    <3> QED BY ONLY <3>1, <3>2, OverlayAt
  <2> QED BY <2>3 DEF l
<1>5. ASSUME NEW l \in DOMAIN m, l # a, l # b, l # c, l # d
      PROVE  Overlay(m, s)[l] = m[l]
  <2>1. \A i \in 1..4 : s[i][1] # l
    BY <1>1, <1>2, <1>5
  <2> QED BY <1>1, <2>1, OverlayElse
<1>6. /\ a \in DOMAIN m => Overlay(m, s)[a] = u
      /\ b \in DOMAIN m => Overlay(m, s)[b] = v
      /\ c \in DOMAIN m => Overlay(m, s)[c] = w
      /\ d \in DOMAIN m => Overlay(m, s)[d] = x
  BY <1>1, <1>4
<1>7. Overlay(m, s) =
        [l \in DOMAIN m |-> IF l = a THEN u ELSE IF l = b THEN v
                            ELSE IF l = c THEN w ELSE IF l = d THEN x ELSE m[l]]
  BY <1>5, <1>6, OverlayDomain
<1> QED BY <1>7 DEF s

-----------------------------------------------------------------------------
(* The list in memory. *)

\* The links of m make the sequence q; the nodes of the others are of zeros.
IsList(m, q) ==
  /\ q \in Seq(Processes)
  /\ \A i, j \in 1..Len(q) : q[i] = q[j] => i = j
  /\ m[HeadOf] = IF Len(q) = 0 THEN INVALID_PGPROCNO ELSE q[1]
  /\ m[TailOf] = IF Len(q) = 0 THEN INVALID_PGPROCNO ELSE q[Len(q)]
  /\ \A i \in 1..Len(q) :
       /\ m[PrevOf(q[i])] = IF i = 1 THEN INVALID_PGPROCNO ELSE q[i - 1]
       /\ m[NextOf(q[i])] = IF i = Len(q) THEN INVALID_PGPROCNO ELSE q[i + 1]
  /\ \A p \in Processes : (\A i \in 1..Len(q) : q[i] # p) =>
       m[PrevOf(p)] = 0 /\ m[NextOf(p)] = 0

\* No process is in a sequence without repetitions more often than there are
\* processes.
LEMMA ShortList ==
  ASSUME NEW q \in Seq(Processes), \A i, j \in 1..Len(q) : q[i] = q[j] => i = j
  PROVE  Len(q) <= Cardinality(Processes) /\ Cardinality(Processes) \in Nat
<1>1. Len(q) \in Nat /\ q \in [1..Len(q) -> Processes]
  OBVIOUS
<1>2. q \in Injection(1..Len(q), Processes)
  BY <1>1 DEF Injection, IsInjective
<1>3. IsFiniteSet(Processes)
  BY WaitListAssumption
<1>4. Cardinality(1..Len(q)) <= Cardinality(Processes)
  BY <1>2, <1>3, FS_Injection
<1>5. Cardinality(1..Len(q)) = Len(q)
  BY <1>1, FS_Interval
<1>6. Cardinality(Processes) \in Nat
  BY <1>3, FS_CardinalityType
<1> QED BY <1>4, <1>5, <1>6

LEMMA CountUpTo ==
  ASSUME NEW n \in Nat
  PROVE  Cardinality(1..n) = n
BY FS_Interval

\* To walk the links is to read the sequence.
LEMMA WalkIs ==
  ASSUME NEW m, NEW q, IsList(m, q)
  PROVE  Walk(m) = q
<1> DEFINE N == Cardinality(Processes)
           Step(f) == [k \in 1..N |-> IF k = 1 THEN m[HeadOf] ELSE After(m, f[k - 1])]
           g == [k \in 1..N |-> IF k <= Len(q) THEN q[k] ELSE INVALID_PGPROCNO]
           at == CHOOSE f : f = Step(f)
<1>1. /\ q \in Seq(Processes) /\ Len(q) \in Nat /\ Len(q) <= N /\ N \in Nat
      /\ \A i \in 1..Len(q) : q[i] \in Processes /\ q[i] # INVALID_PGPROCNO
  BY ShortList, WaitListAssumption DEF IsList
<1> HIDE DEF N
<1>2. g = Step(g)
  <2>1. ASSUME NEW k \in 1..N PROVE g[k] = Step(g)[k]
    <3>1. CASE k = 1
      BY <1>1, <2>1, <3>1 DEF IsList
    <3>2. CASE k # 1
      <4>1. k - 1 \in 1..N /\ Step(g)[k] = After(m, g[k - 1])
        BY <1>1, <2>1, <3>2
      <4>2. CASE k <= Len(q)
        <5>1. k - 1 \in 1..Len(q) /\ g[k - 1] = q[k - 1] /\ g[k] = q[k] /\ k - 1 # Len(q)
          BY <1>1, <3>2, <4>1, <4>2
        <5>2. m[NextOf(q[k - 1])] = q[k - 1 + 1] /\ k - 1 + 1 = k
          BY <5>1 DEF IsList
        <5> QED BY <1>1, <4>1, <5>1, <5>2 DEF After
      <4>3. CASE k = Len(q) + 1
        <5>1. k - 1 \in 1..Len(q) /\ g[k - 1] = q[k - 1] /\ g[k] = INVALID_PGPROCNO
          BY <1>1, <3>2, <4>1, <4>3
        <5>2. m[NextOf(q[k - 1])] = INVALID_PGPROCNO
          BY <1>1, <4>3, <5>1 DEF IsList
        <5> QED BY <1>1, <4>1, <5>1, <5>2 DEF After
      <4>4. CASE k > Len(q) + 1
        <5>1. g[k - 1] = INVALID_PGPROCNO /\ g[k] = INVALID_PGPROCNO
          BY <1>1, <4>1, <4>4
        <5> QED BY <4>1, <5>1 DEF After
      <4> QED BY <1>1, <4>2, <4>3, <4>4
    <3> QED BY <3>1, <3>2
  <2> QED BY <2>1
<1>3. at = Step(at)
  BY <1>2
<1> HIDE DEF at
<1>4. \A k \in 1..N : at[k] = g[k]
  <2> DEFINE T == {k \in 1..N : at[k] # g[k]}
  <2> SUFFICES ASSUME T # {} PROVE FALSE
    OBVIOUS
  <2>1. PICK k \in T : \A j \in T : k <= j
    <3>1. T \in SUBSET Nat
      OBVIOUS
    <3> QED BY <3>1, Least
  <2>2. k \in 1..N /\ at[k] # g[k] /\ at[k] = Step(at)[k] /\ g[k] = Step(g)[k]
    BY <1>2, <1>3, <2>1
  <2>3. k # 1
    BY <2>2
  <2>4. k - 1 \in 1..N /\ k - 1 \notin T
    BY <1>1, <2>1, <2>2, <2>3
  <2>5. at[k - 1] = g[k - 1]
    BY <2>4
  <2> QED BY <2>2, <2>3, <2>5
<1>5. {k \in 1..N : at[k] # INVALID_PGPROCNO} = 1..Len(q)
  BY <1>1, <1>4
<1>6. Cardinality(1..Len(q)) = Len(q)
  BY <1>1, CountUpTo
<1>7. Walk(m) = [k \in 1..Cardinality({k \in 1..N : at[k] # INVALID_PGPROCNO}) |-> at[k]]
  BY DEF Walk, N, at
<1>8. Walk(m) = [k \in 1..Len(q) |-> q[k]]
  BY <1>1, <1>4, <1>5, <1>6, <1>7
<1> QED BY <1>1, <1>8

\* What a node says of its process.
LEMMA ContainsIs ==
  ASSUME NEW m, NEW q, IsList(m, q), NEW p \in Processes
  PROVE  Contains(m, p) <=> \E i \in 1..Len(q) : q[i] = p
<1>1. /\ q \in Seq(Processes) /\ Len(q) \in Nat
      /\ INVALID_PGPROCNO # 0 /\ INVALID_PGPROCNO \notin Processes
  BY WaitListAssumption DEF IsList
<1>2. ASSUME NEW i \in 1..Len(q), q[i] = p, ~Contains(m, p) PROVE FALSE
  <2>1. m[PrevOf(p)] = 0 /\ m[NextOf(p)] = 0
    BY <1>2 DEF Contains
  <2>2. i # 1 /\ q[i - 1] = 0 /\ i # Len(q) /\ q[i + 1] = 0
    BY <1>1, <1>2, <2>1 DEF IsList
  <2>3. i - 1 \in 1..Len(q) /\ i + 1 \in 1..Len(q) /\ i - 1 # i + 1
    BY <1>1, <2>2
  <2> QED BY <2>2, <2>3 DEF IsList
<1>3. ASSUME \A i \in 1..Len(q) : q[i] # p PROVE ~Contains(m, p)
  BY <1>3 DEF IsList, Contains
<1> QED BY <1>2, <1>3

\* The places of the list do not overlap.
LEMMA PlacesDiffer ==
  /\ HeadOf # TailOf
  /\ \A n, k : /\ NextOf(n) # HeadOf /\ NextOf(n) # TailOf
               /\ PrevOf(n) # HeadOf /\ PrevOf(n) # TailOf
               /\ NextOf(n) # PrevOf(k)
               /\ (NextOf(n) = NextOf(k)) => n = k
               /\ (PrevOf(n) = PrevOf(k)) => n = k
BY DEF HeadOf, TailOf, NextOf, PrevOf

\* The memory has all of them.
LEMMA PlacesThere ==
  /\ HeadOf \in Locations /\ TailOf \in Locations
  /\ \A n \in Processes : NextOf(n) \in Locations /\ PrevOf(n) \in Locations
BY WaitListAssumption DEF Locations, ListMemory

\* Only these places matter.
LEMMA SameList ==
  ASSUME NEW m, NEW m2, NEW q, IsList(m, q),
         \A l \in Locations \ {Lock} : m2[l] = m[l]
  PROVE  IsList(m2, q)
<1>1. /\ m2[HeadOf] = m[HeadOf] /\ m2[TailOf] = m[TailOf]
      /\ \A n \in Processes : m2[NextOf(n)] = m[NextOf(n)] /\ m2[PrevOf(n)] = m[PrevOf(n)]
  BY Places, PlacesThere
<1>2. q \in Seq(Processes) /\ \A i \in 1..Len(q) : q[i] \in Processes
  BY DEF IsList
<1> QED BY <1>1, <1>2 DEF IsList

-----------------------------------------------------------------------------
(* What the operations do to the list. *)

LEMMA PushHeadList ==
  ASSUME NEW m, DOMAIN m = Locations, NEW q, IsList(m, q), NEW n \in Processes,
         \A i \in 1..Len(q) : q[i] # n
  PROVE  IsList(Overlay(m, PushHeadStores(m, n)), <<n>> \o q)
<1> DEFINE m2 == Overlay(m, PushHeadStores(m, n))
           r == <<n>> \o q
<1>1. /\ q \in Seq(Processes) /\ Len(q) \in Nat
      /\ \A i \in 1..Len(q) : q[i] \in Processes /\ q[i] # INVALID_PGPROCNO
  BY WaitListAssumption DEF IsList
<1>2. /\ r \in Seq(Processes) /\ Len(r) = Len(q) + 1 /\ r[1] = n
      /\ \A i \in 1..Len(q) : r[i + 1] = q[i]
      /\ \A i \in 2..Len(r) : r[i] = q[i - 1]
  <2>1. <<n>> \in Seq(Processes) /\ Len(<<n>>) = 1 /\ <<n>>[1] = n
    OBVIOUS
  <2>2. /\ r \in Seq(Processes) /\ Len(r) = 1 + Len(q)
        /\ \A i \in 1..1 + Len(q) : r[i] = IF i <= 1 THEN <<n>>[i] ELSE q[i - 1]
    BY <1>1, <2>1, ConcatProperties
  <2> HIDE DEF r
  <2> QED BY <1>1, <2>1, <2>2
<1> HIDE DEF r
<1>3. /\ m[HeadOf] = INVALID_PGPROCNO <=> Len(q) = 0
      /\ Len(q) # 0 => m[HeadOf] = q[1] /\ 1 \in 1..Len(q)
  BY <1>1 DEF IsList
<1>4. CASE Len(q) = 0
  <2>1. m2 = [l \in Locations |-> IF l = PrevOf(n) THEN INVALID_PGPROCNO
                                  ELSE IF l = NextOf(n) THEN INVALID_PGPROCNO
                                  ELSE IF l = TailOf THEN n ELSE IF l = HeadOf THEN n ELSE m[l]]
    BY <1>3, <1>4, PlacesDiffer, OverlayFour DEF PushHeadStores, Alone
  <2> HIDE DEF m2
  <2>2. /\ m2[HeadOf] = n /\ m2[TailOf] = n
        /\ m2[PrevOf(n)] = INVALID_PGPROCNO /\ m2[NextOf(n)] = INVALID_PGPROCNO
        /\ \A p \in Processes : p # n => m2[PrevOf(p)] = m[PrevOf(p)] /\ m2[NextOf(p)] = m[NextOf(p)]
    BY <2>1, PlacesDiffer, PlacesThere
  <2>3. Len(r) = 1 /\ \A i \in 1..Len(r) : i = 1
    BY <1>2, <1>4
  <2>4. \A p \in Processes : p # n => m[PrevOf(p)] = 0 /\ m[NextOf(p)] = 0
    BY <1>4 DEF IsList
  <2>5. IsList(m2, r)
    BY <1>2, <2>2, <2>3, <2>4 DEF IsList
  <2> QED BY <2>5 DEF m2, r
<1>5. CASE Len(q) # 0
  <2>1. m2 = [l \in Locations |-> IF l = NextOf(n) THEN q[1]
                                  ELSE IF l = PrevOf(q[1]) THEN n
                                  ELSE IF l = PrevOf(n) THEN INVALID_PGPROCNO
                                  ELSE IF l = HeadOf THEN n ELSE m[l]]
    BY <1>3, <1>5, PlacesDiffer, OverlayFour DEF PushHeadStores
  <2> HIDE DEF m2
  <2>2. /\ m2[HeadOf] = n /\ m2[TailOf] = m[TailOf]
        /\ m2[PrevOf(n)] = INVALID_PGPROCNO /\ m2[NextOf(n)] = q[1] /\ m2[PrevOf(q[1])] = n
        /\ \A p \in Processes : p # n => m2[NextOf(p)] = m[NextOf(p)]
        /\ \A p \in Processes : p # n /\ p # q[1] => m2[PrevOf(p)] = m[PrevOf(p)]
    BY <1>1, <1>3, <1>5, <2>1, PlacesDiffer, PlacesThere
  <2>3. ASSUME NEW i \in 1..Len(r)
        PROVE  /\ m2[PrevOf(r[i])] = IF i = 1 THEN INVALID_PGPROCNO ELSE r[i - 1]
               /\ m2[NextOf(r[i])] = IF i = Len(r) THEN INVALID_PGPROCNO ELSE r[i + 1]
    <3>1. CASE i = 1
      <4>1. r[i] = n /\ r[i + 1] = q[1] /\ i # Len(r)
        BY <1>1, <1>2, <1>5, <3>1
      <4> QED BY <2>2, <3>1, <4>1
    <3>2. CASE i = 2
      <4>1. r[i] = q[1] /\ r[i - 1] = n /\ (i = Len(r) <=> 1 = Len(q))
        <5>1. i \in 2..Len(r) /\ i - 1 = 1
          BY <1>1, <1>2, <1>5, <3>2
        <5>2. r[i] = q[i - 1]
          BY <1>2, <5>1
        <5>3. i = Len(r) <=> 1 = Len(q)
          <6>1. \A k \in Nat : 2 = k + 1 <=> 1 = k
            OBVIOUS
          <6> QED BY <1>1, <1>2, <3>2, <6>1
        <5> QED BY <1>2, <5>1, <5>2, <5>3
      <4>2. i # Len(r) => r[i + 1] = q[1 + 1]
        BY <1>1, <1>2, <3>2
      <4>3. m[NextOf(q[1])] = IF 1 = Len(q) THEN INVALID_PGPROCNO ELSE q[1 + 1]
        BY <1>3, <1>5 DEF IsList
      <4>4. m2[NextOf(q[1])] = m[NextOf(q[1])]
        BY <1>1, <1>3, <1>5, <2>2
      <4> QED BY <2>2, <3>2, <4>1, <4>2, <4>3, <4>4
    <3>3. CASE i > 2
      <4>1. /\ i - 1 \in 1..Len(q) /\ r[i] = q[i - 1] /\ i - 1 # 1
            /\ r[i - 1] = q[i - 1 - 1] /\ (i = Len(r) <=> i - 1 = Len(q))
        BY <1>1, <1>2, <3>3
      <4>2. i # Len(r) => r[i + 1] = q[i - 1 + 1]
        BY <1>1, <1>2, <3>3
      <4>3. q[i - 1] # q[1] /\ q[i - 1] # n /\ q[i - 1] \in Processes
        BY <1>1, <1>3, <1>5, <4>1 DEF IsList
      <4>4. /\ m[PrevOf(q[i - 1])] = q[i - 1 - 1]
            /\ m[NextOf(q[i - 1])] = IF i - 1 = Len(q) THEN INVALID_PGPROCNO ELSE q[i - 1 + 1]
        BY <4>1 DEF IsList
      <4> QED BY <2>2, <3>3, <4>1, <4>2, <4>3, <4>4
    <3> QED BY <1>2, <3>1, <3>2, <3>3
  <2>4. \A i, j \in 1..Len(r) : r[i] = r[j] => i = j
    <3> SUFFICES ASSUME NEW i \in 1..Len(r), NEW j \in 1..Len(r), r[i] = r[j] PROVE i = j
      OBVIOUS
    <3>1. /\ i # 1 => i - 1 \in 1..Len(q) /\ r[i] = q[i - 1]
          /\ j # 1 => j - 1 \in 1..Len(q) /\ r[j] = q[j - 1]
      BY <1>1, <1>2
    <3>2. i # 1 /\ j # 1 => i - 1 = j - 1
      BY <3>1 DEF IsList
    <3> QED BY <1>2, <3>1, <3>2
  <2>5. ASSUME NEW p \in Processes, \A i \in 1..Len(r) : r[i] # p
        PROVE  m2[PrevOf(p)] = 0 /\ m2[NextOf(p)] = 0
    <3>1. p # n
      BY <1>1, <1>2, <2>5
    <3>2. \A i \in 1..Len(q) : q[i] # p
      <4>1. \A i \in 1..Len(q) : i + 1 \in 1..Len(r)
        BY <1>1, <1>2
      <4> QED BY <1>2, <2>5, <4>1
    <3>3. m[PrevOf(p)] = 0 /\ m[NextOf(p)] = 0
      BY <3>2 DEF IsList
    <3> QED BY <1>3, <1>5, <2>2, <3>1, <3>2, <3>3
  <2>6. m2[TailOf] = r[Len(r)] /\ Len(r) # 0 /\ m2[HeadOf] = r[1]
    <3>1. Len(q) \in 1..Len(q) /\ Len(r) = Len(q) + 1
      BY <1>1, <1>2, <1>5
    <3>2. r[Len(r)] = q[Len(q)]
      BY <1>2, <3>1
    <3>3. m[TailOf] = q[Len(q)]
      BY <1>5 DEF IsList
    <3> QED BY <1>1, <1>2, <2>2, <3>2, <3>3
  <2>7. IsList(m2, r)
    BY <1>2, <2>3, <2>4, <2>5, <2>6 DEF IsList
  <2> QED BY <2>7 DEF m2, r
<1> QED BY <1>4, <1>5

LEMMA PushTailList ==
  ASSUME NEW m, DOMAIN m = Locations, NEW q, IsList(m, q), NEW n \in Processes,
         \A i \in 1..Len(q) : q[i] # n
  PROVE  IsList(Overlay(m, PushTailStores(m, n)), Append(q, n))
<1> DEFINE m2 == Overlay(m, PushTailStores(m, n))
           r == Append(q, n)
           z == q[Len(q)]
<1>1. /\ q \in Seq(Processes) /\ Len(q) \in Nat
      /\ \A i \in 1..Len(q) : q[i] \in Processes /\ q[i] # INVALID_PGPROCNO
  BY WaitListAssumption DEF IsList
<1>2. /\ r \in Seq(Processes) /\ Len(r) = Len(q) + 1 /\ r[Len(q) + 1] = n
      /\ \A i \in 1..Len(q) : r[i] = q[i]
  BY <1>1, AppendProperties
<1> HIDE DEF r
<1>3. /\ m[TailOf] = INVALID_PGPROCNO <=> Len(q) = 0
      /\ Len(q) # 0 => m[TailOf] = z /\ Len(q) \in 1..Len(q) /\ z \in Processes
  BY <1>1 DEF IsList
<1>4. CASE Len(q) = 0
  <2>1. m2 = [l \in Locations |-> IF l = PrevOf(n) THEN INVALID_PGPROCNO
                                  ELSE IF l = NextOf(n) THEN INVALID_PGPROCNO
                                  ELSE IF l = TailOf THEN n ELSE IF l = HeadOf THEN n ELSE m[l]]
    BY <1>3, <1>4, PlacesDiffer, OverlayFour DEF PushTailStores, Alone
  <2> HIDE DEF m2
  <2>2. /\ m2[HeadOf] = n /\ m2[TailOf] = n
        /\ m2[PrevOf(n)] = INVALID_PGPROCNO /\ m2[NextOf(n)] = INVALID_PGPROCNO
        /\ \A p \in Processes : p # n => m2[PrevOf(p)] = m[PrevOf(p)] /\ m2[NextOf(p)] = m[NextOf(p)]
    BY <2>1, PlacesDiffer, PlacesThere
  <2>3. Len(r) = 1 /\ r[1] = n /\ \A i \in 1..Len(r) : i = 1
    BY <1>2, <1>4
  <2>4. \A p \in Processes : p # n => m[PrevOf(p)] = 0 /\ m[NextOf(p)] = 0
    BY <1>4 DEF IsList
  <2>5. IsList(m2, r)
    BY <1>2, <2>2, <2>3, <2>4 DEF IsList
  <2> QED BY <2>5 DEF m2, r
<1>5. CASE Len(q) # 0
  <2>1. m2 = [l \in Locations |-> IF l = PrevOf(n) THEN z
                                  ELSE IF l = NextOf(z) THEN n
                                  ELSE IF l = NextOf(n) THEN INVALID_PGPROCNO
                                  ELSE IF l = TailOf THEN n ELSE m[l]]
    BY <1>3, <1>5, PlacesDiffer, OverlayFour DEF PushTailStores
  <2> HIDE DEF m2
  <2>2. /\ m2[TailOf] = n /\ m2[HeadOf] = m[HeadOf]
        /\ m2[NextOf(n)] = INVALID_PGPROCNO /\ m2[PrevOf(n)] = z /\ m2[NextOf(z)] = n
        /\ \A p \in Processes : p # n => m2[PrevOf(p)] = m[PrevOf(p)]
        /\ \A p \in Processes : p # n /\ p # z => m2[NextOf(p)] = m[NextOf(p)]
    BY <1>1, <1>3, <1>5, <2>1, PlacesDiffer, PlacesThere
  <2>3. ASSUME NEW i \in 1..Len(r)
        PROVE  /\ m2[PrevOf(r[i])] = IF i = 1 THEN INVALID_PGPROCNO ELSE r[i - 1]
               /\ m2[NextOf(r[i])] = IF i = Len(r) THEN INVALID_PGPROCNO ELSE r[i + 1]
    <3>1. CASE i = Len(q) + 1
      <4>1. r[i] = n /\ r[i - 1] = z /\ i = Len(r) /\ i # 1
        BY <1>1, <1>2, <1>3, <1>5, <3>1
      <4> QED BY <2>2, <4>1
    <3>2. CASE i # Len(q) + 1
      <4>1. i \in 1..Len(q) /\ r[i] = q[i] /\ i # Len(r) /\ (i # 1 => r[i - 1] = q[i - 1])
        BY <1>1, <1>2, <3>2
      <4>2. q[i] # n /\ q[i] \in Processes
        BY <1>1, <4>1
      <4>3. /\ m[PrevOf(q[i])] = IF i = 1 THEN INVALID_PGPROCNO ELSE q[i - 1]
            /\ m[NextOf(q[i])] = IF i = Len(q) THEN INVALID_PGPROCNO ELSE q[i + 1]
        BY <4>1 DEF IsList
      <4>4. CASE i = Len(q)
        <5>1. q[i] = z /\ r[i + 1] = n
          BY <1>2, <4>4
        <5> QED BY <2>2, <4>1, <4>2, <4>3, <5>1
      <4>5. CASE i # Len(q)
        <5>1. q[i] # z
          BY <1>3, <1>5, <4>1, <4>5 DEF IsList
        <5>2. r[i + 1] = q[i + 1]
          BY <1>1, <1>2, <4>1, <4>5
        <5> QED BY <2>2, <4>1, <4>2, <4>3, <4>5, <5>1, <5>2
      <4> QED BY <4>4, <4>5
    <3> QED BY <3>1, <3>2
  <2>4. \A i, j \in 1..Len(r) : r[i] = r[j] => i = j
    <3> SUFFICES ASSUME NEW i \in 1..Len(r), NEW j \in 1..Len(r), r[i] = r[j] PROVE i = j
      OBVIOUS
    <3>1. /\ i # Len(q) + 1 => i \in 1..Len(q) /\ r[i] = q[i]
          /\ j # Len(q) + 1 => j \in 1..Len(q) /\ r[j] = q[j]
      BY <1>1, <1>2
    <3>2. i # Len(q) + 1 /\ j # Len(q) + 1 => i = j
      BY <3>1 DEF IsList
    <3> QED BY <1>2, <3>1, <3>2
  <2>5. ASSUME NEW p \in Processes, \A i \in 1..Len(r) : r[i] # p
        PROVE  m2[PrevOf(p)] = 0 /\ m2[NextOf(p)] = 0
    <3>1. p # n
      BY <1>1, <1>2, <2>5
    <3>2. \A i \in 1..Len(q) : q[i] # p
      <4>1. \A i \in 1..Len(q) : i \in 1..Len(r)
        BY <1>1, <1>2
      <4> QED BY <1>2, <2>5, <4>1
    <3>3. m[PrevOf(p)] = 0 /\ m[NextOf(p)] = 0
      BY <3>2 DEF IsList
    <3> QED BY <1>3, <1>5, <2>2, <3>1, <3>2, <3>3
  <2>6. m2[HeadOf] = r[1] /\ Len(r) # 0 /\ m2[TailOf] = r[Len(r)]
    <3>1. 1 \in 1..Len(q) /\ Len(r) = Len(q) + 1
      BY <1>1, <1>2, <1>5
    <3>2. m[HeadOf] = q[1]
      BY <1>5 DEF IsList
    <3> QED BY <1>1, <1>2, <2>2, <3>1, <3>2
  <2>7. IsList(m2, r)
    BY <1>2, <2>3, <2>4, <2>5, <2>6 DEF IsList
  <2> QED BY <2>7 DEF m2, r
<1> QED BY <1>4, <1>5

\* A sequence without its k-th element.
LEMMA Removed ==
  ASSUME NEW S, NEW q \in Seq(S), NEW k \in 1..Len(q)
  PROVE  LET r == SubSeq(q, 1, k - 1) \o SubSeq(q, k + 1, Len(q))
         IN  /\ r \in Seq(S) /\ Len(r) = Len(q) - 1
             /\ \A i \in 1..Len(q) - 1 : r[i] = IF i < k THEN q[i] ELSE q[i + 1]
<1> DEFINE a == SubSeq(q, 1, k - 1)
           b == SubSeq(q, k + 1, Len(q))
           r == a \o b
<1>1. k \in Nat /\ Len(q) \in Nat /\ 1 <= k /\ k <= Len(q) /\ \A i \in 1..Len(q) : q[i] \in S
  OBVIOUS
<1>2. /\ a \in Seq(S) /\ Len(a) = k - 1 /\ \A i \in 1..k - 1 : a[i] = q[i]
  <2>1. 1 \in Int /\ k - 1 \in Int /\ \A i \in 1..k - 1 : q[i] \in S
    BY <1>1
  <2>2. /\ a \in Seq(S)
        /\ Len(a) = IF 1 <= k - 1 THEN k - 1 - 1 + 1 ELSE 0
        /\ \A i \in 1..k - 1 - 1 + 1 : a[i] = q[1 + i - 1]
    BY <2>1, SubSeqProperties
  <2> HIDE DEF a
  <2> QED BY <1>1, <2>2
<1>3. /\ b \in Seq(S) /\ Len(b) = Len(q) - k /\ \A i \in 1..Len(q) - k : b[i] = q[k + i]
  <2>1. k + 1 \in Int /\ Len(q) \in Int /\ \A i \in k + 1..Len(q) : q[i] \in S
    BY <1>1
  <2>2. /\ b \in Seq(S)
        /\ Len(b) = IF k + 1 <= Len(q) THEN Len(q) - (k + 1) + 1 ELSE 0
        /\ \A i \in 1..Len(q) - (k + 1) + 1 : b[i] = q[k + 1 + i - 1]
    BY <2>1, SubSeqProperties
  <2> HIDE DEF b
  <2> QED BY <1>1, <2>2
<1> HIDE DEF a, b
<1>4. /\ r \in Seq(S) /\ Len(r) = Len(a) + Len(b)
      /\ \A i \in 1..Len(a) + Len(b) : r[i] = IF i <= Len(a) THEN a[i] ELSE b[i - Len(a)]
  BY <1>2, <1>3, ConcatProperties
<1> HIDE DEF r
<1>5. Len(r) = Len(q) - 1
  BY <1>1, <1>2, <1>3, <1>4
<1>6. ASSUME NEW i \in 1..Len(q) - 1 PROVE r[i] = IF i < k THEN q[i] ELSE q[i + 1]
  <2>1. CASE i < k
    BY <1>1, <1>2, <1>3, <1>4, <2>1
  <2>2. CASE ~(i < k)
    <3>1. i - Len(a) \in 1..Len(q) - k /\ k + (i - Len(a)) = i + 1
      BY <1>1, <1>2, <2>2
    <3>2. r[i] = b[i - Len(a)]
      <4>1. i \in 1..Len(a) + Len(b) /\ ~(i <= Len(a))
        BY <1>1, <1>2, <1>3, <2>2
      <4> QED BY <1>4, <4>1
    <3> QED BY <1>3, <2>2, <3>1, <3>2
  <2> QED BY <2>1, <2>2
<1> QED BY <1>4, <1>5, <1>6 DEF r, a, b

LEMMA TwoAndTwo ==
  ASSUME NEW a, NEW b, NEW c, NEW d
  PROVE  <<a, b>> \o <<c, d>> = <<a, b, c, d>>
<1> DEFINE S == {a, b, c, d}
           s == <<a, b>>
           t == <<c, d>>
           u == <<a, b, c, d>>
<1>1. /\ s \in Seq(S) /\ Len(s) = 2 /\ s[1] = a /\ s[2] = b
      /\ t \in Seq(S) /\ Len(t) = 2 /\ t[1] = c /\ t[2] = d
      /\ u \in Seq(S) /\ Len(u) = 4 /\ u[1] = a /\ u[2] = b /\ u[3] = c /\ u[4] = d
  OBVIOUS
<1> HIDE DEF S, s, t, u
<1>2. /\ s \o t \in Seq(S) /\ Len(s \o t) = 4
      /\ \A i \in 1..4 : (s \o t)[i] = IF i <= 2 THEN s[i] ELSE t[i - 2]
  <2>1. /\ s \o t \in Seq(S) /\ Len(s \o t) = Len(s) + Len(t)
        /\ \A i \in 1..Len(s) + Len(t) : (s \o t)[i] = IF i <= Len(s) THEN s[i] ELSE t[i - Len(s)]
    <3>1. s \in Seq(S) /\ t \in Seq(S)
      BY <1>1
    <3> QED BY ONLY <3>1, ConcatProperties
  <2>2. Len(s) + Len(t) = 4
    BY <1>1
  <2> QED BY <1>1, <2>1, <2>2
<1>3. \A i \in 1..4 : i = 1 \/ i = 2 \/ i = 3 \/ i = 4
  OBVIOUS
<1>4. \A i \in 1..4 : (s \o t)[i] = u[i]
  BY <1>1, <1>2, <1>3
<1>5. s \o t = u
  BY <1>1, <1>2, <1>4, SeqEqual
<1> QED BY <1>5 DEF s, t, u

Without(q, k) == SubSeq(q, 1, k - 1) \o SubSeq(q, k + 1, Len(q))

\* A deletion closes the gap, at the ends of the list and between two nodes, and
\* leaves zeros in the node.
LEMMA DeleteList ==
  ASSUME NEW m, DOMAIN m = Locations, NEW q, IsList(m, q), NEW k \in 1..Len(q)
  PROVE  IsList(Overlay(m, DeleteStores(m, q[k])), Without(q, k))
<1> DEFINE n == q[k]
           m2 == Overlay(m, DeleteStores(m, n))
           r == Without(q, k)
           pv == m[PrevOf(n)]
           nx == m[NextOf(n)]
           P == IF k = 1 THEN HeadOf ELSE NextOf(q[k - 1])
           Q == IF k = Len(q) THEN TailOf ELSE PrevOf(q[k + 1])
<1>1. /\ q \in Seq(Processes) /\ Len(q) \in Nat /\ k \in Nat /\ 1 <= k /\ k <= Len(q)
      /\ \A i \in 1..Len(q) : q[i] \in Processes /\ q[i] # INVALID_PGPROCNO
      /\ n \in Processes
      /\ k # 1 => k - 1 \in 1..Len(q)
      /\ k # Len(q) => k + 1 \in 1..Len(q)
  BY WaitListAssumption DEF IsList
<1>2. /\ r \in Seq(Processes) /\ Len(r) = Len(q) - 1
      /\ \A i \in 1..Len(q) - 1 : r[i] = IF i < k THEN q[i] ELSE q[i + 1]
  BY <1>1, Removed DEF Without
<1>3. /\ pv = IF k = 1 THEN INVALID_PGPROCNO ELSE q[k - 1]
      /\ nx = IF k = Len(q) THEN INVALID_PGPROCNO ELSE q[k + 1]
  BY <1>1 DEF IsList
<1>4. \A i, j \in 1..Len(q) : q[i] = q[j] => i = j
  BY DEF IsList
<1> HIDE DEF r, n, pv, nx
<1>5. m2 = [l \in Locations |-> IF l = P THEN nx ELSE IF l = Q THEN pv
                                ELSE IF l = PrevOf(n) THEN 0
                                ELSE IF l = NextOf(n) THEN 0 ELSE m[l]]
  <2>1. k # 1 => q[k - 1] # n
    BY <1>1, <1>4 DEF n
  <2>2. k # Len(q) => q[k + 1] # n
    BY <1>1, <1>4 DEF n
  <2>3. P # Q /\ P # PrevOf(n) /\ P # NextOf(n) /\ Q # PrevOf(n) /\ Q # NextOf(n)
    BY <2>1, <2>2, PlacesDiffer
  <2>4. Unlink(m, n) = <<<<P, nx>>, <<Q, pv>>>>
    <3>1. (IF pv = INVALID_PGPROCNO THEN HeadOf ELSE NextOf(pv)) = P
      BY <1>1, <1>3
    <3>2. (IF nx = INVALID_PGPROCNO THEN TailOf ELSE PrevOf(nx)) = Q
      BY <1>1, <1>3
    <3> QED BY <3>1, <3>2 DEF Unlink, pv, nx
  <2> HIDE DEF P, Q
  <2>5. DeleteStores(m, n) = <<<<P, nx>>, <<Q, pv>>, <<PrevOf(n), 0>>, <<NextOf(n), 0>>>>
    BY <2>4, TwoAndTwo DEF DeleteStores
  <2>6. PrevOf(n) # NextOf(n)
    BY PlacesDiffer
  <2> QED BY <2>3, <2>5, <2>6, OverlayFour
<1> HIDE DEF m2
<1>6. /\ m2[PrevOf(n)] = 0 /\ m2[NextOf(n)] = 0
      /\ \A p \in Processes : p # n => m2[NextOf(p)] = IF k # 1 /\ p = q[k - 1] THEN nx ELSE m[NextOf(p)]
      /\ \A p \in Processes : p # n => m2[PrevOf(p)] = IF k # Len(q) /\ p = q[k + 1] THEN pv ELSE m[PrevOf(p)]
      /\ m2[HeadOf] = IF k = 1 THEN nx ELSE m[HeadOf]
      /\ m2[TailOf] = IF k = Len(q) THEN pv ELSE m[TailOf]
  <2>0. \A p, j : NextOf(p) = NextOf(j) <=> p = j
    BY PlacesDiffer
  <2>1. \A p, j : PrevOf(p) = PrevOf(j) <=> p = j
    BY PlacesDiffer
  <2>2. /\ \A p \in Processes : NextOf(p) # Q /\ PrevOf(p) # P
        /\ \A p \in Processes : NextOf(p) = P <=> k # 1 /\ p = q[k - 1]
        /\ \A p \in Processes : PrevOf(p) = Q <=> k # Len(q) /\ p = q[k + 1]
        /\ HeadOf # Q /\ TailOf # P /\ (HeadOf = P <=> k = 1) /\ (TailOf = Q <=> k = Len(q))
    BY <2>0, <2>1, PlacesDiffer
  <2>3. /\ k # 1 => q[k - 1] # n
        /\ k # Len(q) => q[k + 1] # n
    BY <1>1, <1>4 DEF n
  <2> HIDE DEF P, Q
  <2>4. m2[PrevOf(n)] = 0 /\ m2[NextOf(n)] = 0
    BY <1>1, <1>5, <2>2, <2>3, PlacesThere, PlacesDiffer
  <2>5. ASSUME NEW p \in Processes, p # n
        PROVE  /\ m2[NextOf(p)] = IF k # 1 /\ p = q[k - 1] THEN nx ELSE m[NextOf(p)]
               /\ m2[PrevOf(p)] = IF k # Len(q) /\ p = q[k + 1] THEN pv ELSE m[PrevOf(p)]
    BY <1>5, <2>2, <2>5, PlacesThere, PlacesDiffer
  <2>6. /\ m2[HeadOf] = IF k = 1 THEN nx ELSE m[HeadOf]
        /\ m2[TailOf] = IF k = Len(q) THEN pv ELSE m[TailOf]
    BY <1>5, <2>2, PlacesThere, PlacesDiffer
  <2> QED BY <2>4, <2>5, <2>6
<1>7. ASSUME NEW i \in 1..Len(r)
      PROVE  /\ m2[PrevOf(r[i])] = IF i = 1 THEN INVALID_PGPROCNO ELSE r[i - 1]
             /\ m2[NextOf(r[i])] = IF i = Len(r) THEN INVALID_PGPROCNO ELSE r[i + 1]
  <2>1. CASE i < k
    <3>1. /\ i \in 1..Len(q) /\ r[i] = q[i] /\ i # Len(q)
          /\ i # 1 => r[i - 1] = q[i - 1]
      BY <1>1, <1>2, <2>1
    <3>2. q[i] # n /\ q[i] \in Processes /\ (k # Len(q) => q[i] # q[k + 1])
      BY <1>1, <1>4, <2>1, <3>1 DEF n
    <3>3. m[PrevOf(q[i])] = IF i = 1 THEN INVALID_PGPROCNO ELSE q[i - 1]
      BY <3>1 DEF IsList
    <3>4. m2[PrevOf(r[i])] = IF i = 1 THEN INVALID_PGPROCNO ELSE r[i - 1]
      BY <1>6, <3>1, <3>2, <3>3
    <3>5. m[NextOf(q[i])] = q[i + 1]
      BY <3>1 DEF IsList
    <3>6. CASE i = k - 1
      <4>1. m2[NextOf(r[i])] = nx
        BY <1>1, <1>6, <2>1, <3>1, <3>2, <3>6
      <4>2. i = Len(r) <=> k = Len(q)
        BY <1>1, <1>2, <3>6
      <4>3. k # Len(q) => r[i + 1] = q[k + 1]
        BY <1>1, <1>2, <3>6
      <4> QED BY <1>3, <3>4, <4>1, <4>2, <4>3
    <3>7. CASE i # k - 1
      <4>1. i # Len(r) /\ r[i + 1] = q[i + 1]
        BY <1>1, <1>2, <2>1, <3>7
      <4>2. k # 1 => q[i] # q[k - 1]
        BY <1>1, <1>4, <3>1, <3>7
      <4> QED BY <1>6, <3>1, <3>2, <3>4, <3>5, <4>1, <4>2
    <3> QED BY <3>6, <3>7
  <2>2. CASE i >= k
    <3>1. /\ i + 1 \in 1..Len(q) /\ r[i] = q[i + 1] /\ k # Len(q)
          /\ i # k => r[i - 1] = q[i + 1 - 1] /\ i # 1
          /\ i = Len(r) <=> i + 1 = Len(q)
          /\ i # Len(r) => r[i + 1] = q[i + 1 + 1]
      BY <1>1, <1>2, <2>2
    <3>2. q[i + 1] # n /\ q[i + 1] \in Processes /\ (k # 1 => q[i + 1] # q[k - 1])
      BY <1>1, <1>4, <2>2, <3>1 DEF n
    <3>3. m[NextOf(q[i + 1])] = IF i + 1 = Len(q) THEN INVALID_PGPROCNO ELSE q[i + 1 + 1]
      BY <3>1 DEF IsList
    <3>4. m2[NextOf(r[i])] = IF i = Len(r) THEN INVALID_PGPROCNO ELSE r[i + 1]
      BY <1>6, <3>1, <3>2, <3>3
    <3>5. CASE i = k
      <4>1. m2[PrevOf(r[i])] = pv
        BY <1>6, <3>1, <3>2, <3>5
      <4>2. k # 1 => r[k - 1] = q[k - 1]
        BY <1>1, <1>2
      <4> QED BY <1>3, <3>4, <3>5, <4>1, <4>2
    <3>6. CASE i # k
      <4>1. q[i + 1] # q[k + 1]
        BY <1>1, <1>4, <3>1, <3>6
      <4>2. m[PrevOf(q[i + 1])] = q[i + 1 - 1]
        <5>1. i + 1 # 1
          BY <1>2
        <5> QED BY <3>1, <5>1 DEF IsList
      <4> QED BY <1>6, <3>1, <3>2, <3>4, <3>6, <4>1, <4>2
    <3> QED BY <3>5, <3>6
  <2> QED BY <1>1, <1>2, <2>1, <2>2
<1>8. \A i, j \in 1..Len(r) : r[i] = r[j] => i = j
  <2> SUFFICES ASSUME NEW i \in 1..Len(r), NEW j \in 1..Len(r), r[i] = r[j] PROVE i = j
    OBVIOUS
  <2>1. /\ i \in 1..Len(q) /\ i + 1 \in 1..Len(q) /\ j \in 1..Len(q) /\ j + 1 \in 1..Len(q)
        /\ i \in Nat /\ j \in Nat
    BY <1>1, <1>2
  <2>2. CASE i < k /\ j < k
    BY <1>2, <1>4, <2>1, <2>2
  <2>3. CASE i < k /\ ~(j < k)
    <3>1. q[i] = q[j + 1]
      BY <1>2, <2>3
    <3>2. i = j + 1
      BY <1>4, <2>1, <3>1
    <3> QED BY <1>1, <2>1, <2>3, <3>2
  <2>4. CASE ~(i < k) /\ j < k
    <3>1. q[i + 1] = q[j]
      BY <1>2, <2>4
    <3>2. i + 1 = j
      BY <1>4, <2>1, <3>1
    <3> QED BY <1>1, <2>1, <2>4, <3>2
  <2>5. CASE ~(i < k) /\ ~(j < k)
    <3>1. q[i + 1] = q[j + 1]
      BY <1>2, <2>5
    <3>2. i + 1 = j + 1
      BY <1>4, <2>1, <3>1
    <3> QED BY <2>1, <3>2
  <2> QED BY <2>2, <2>3, <2>4, <2>5
<1>9. ASSUME NEW p \in Processes, \A i \in 1..Len(r) : r[i] # p
      PROVE  m2[PrevOf(p)] = 0 /\ m2[NextOf(p)] = 0
  <2>1. CASE p = n
    BY <1>6, <2>1
  <2>2. CASE p # n
    <3>1. ASSUME NEW i \in 1..Len(q), q[i] = p PROVE FALSE
      <4>1. i # k
        BY <2>2, <3>1 DEF n
      <4>2. CASE i < k
        BY <1>1, <1>2, <1>9, <3>1, <4>2
      <4>3. CASE i > k
        <5>1. i - 1 \in 1..Len(r) /\ ~(i - 1 < k) /\ i - 1 + 1 = i
          BY <1>1, <1>2, <4>3
        <5>2. r[i - 1] = q[i - 1 + 1]
          BY <1>2, <5>1
        <5> QED BY <1>9, <3>1, <5>1, <5>2
      <4> QED BY <1>1, <4>1, <4>2, <4>3
    <3>2. m[PrevOf(p)] = 0 /\ m[NextOf(p)] = 0
      BY <3>1 DEF IsList
    <3>3. /\ k # 1 => p # q[k - 1]
          /\ k # Len(q) => p # q[k + 1]
      BY <1>1, <3>1
    <3> QED BY <1>6, <2>2, <3>2, <3>3
  <2> QED BY <2>1, <2>2
<1>10. m2[HeadOf] = IF Len(r) = 0 THEN INVALID_PGPROCNO ELSE r[1]
  <2>1. m[HeadOf] = q[1]
    BY <1>1 DEF IsList
  <2>2. CASE k = 1
    <3>1. Len(r) = 0 <=> k = Len(q)
      BY <1>1, <1>2, <2>2
    <3>2. Len(r) # 0 => r[1] = q[k + 1]
      BY <1>1, <1>2, <2>2
    <3> QED BY <1>3, <1>6, <2>2, <3>1, <3>2
  <2>3. CASE k # 1
    <3>1. Len(r) # 0 /\ r[1] = q[1]
      BY <1>1, <1>2, <2>3
    <3> QED BY <1>6, <2>1, <2>3, <3>1
  <2> QED BY <2>2, <2>3
<1>11. m2[TailOf] = IF Len(r) = 0 THEN INVALID_PGPROCNO ELSE r[Len(r)]
  <2>1. m[TailOf] = q[Len(q)]
    BY <1>1 DEF IsList
  <2>2. CASE k = Len(q)
    <3>1. Len(r) = 0 <=> k = 1
      BY <1>1, <1>2, <2>2
    <3>2. Len(r) # 0 => r[Len(r)] = q[k - 1]
      BY <1>1, <1>2, <2>2
    <3> QED BY <1>3, <1>6, <2>2, <3>1, <3>2
  <2>3. CASE k # Len(q)
    <3>1. Len(r) # 0 /\ r[Len(r)] = q[Len(q)]
      BY <1>1, <1>2, <2>3
    <3> QED BY <1>6, <2>1, <2>3, <3>1
  <2> QED BY <2>2, <2>3
<1>12. IsList(m2, r)
  BY <1>2, <1>7, <1>8, <1>9, <1>10, <1>11 DEF IsList
<1> QED BY <1>12 DEF m2, r, n

-----------------------------------------------------------------------------
(* Who owns the lock sees the list; the others have nothing to add to it. *)

\* Every buffer is a sequence, and memory has a value everywhere.
LEMMA Buffers ==
  ASSUME LockInv
  PROVE  /\ \E S : buf \in [Processes -> Seq(S)]
         /\ DOMAIN mem = Locations /\ mem = [l \in DOMAIN mem |-> mem[l]]
         /\ \A p \in Processes : DOMAIN View(p) = Locations
                                 /\ View(p) = [l \in DOMAIN View(p) |-> View(p)[l]]
<1>1. DOMAIN mem = Locations
  BY DEF LockInv
<1>2. \A p : DOMAIN View(p) = DOMAIN mem /\ View(p) = [l \in DOMAIN mem |-> View(p)[l]]
  BY OverlayDomain DEF View
<1> QED BY <1>1, <1>2 DEF LockInv

LEMMA LatestIs ==
  ASSUME LockInv, NEW p \in Processes, \A q \in Processes \ {p} : buf[q] = << >>
  PROVE  Latest = View(p)
<1>1. CASE buf[p] = << >>
  <2>1. Latest = mem
    BY <1>1 DEF Latest
  <2>2. View(p) = mem
    BY <1>1, Buffers, OverlayNone DEF View
  <2> QED BY <2>1, <2>2
<1>2. CASE buf[p] # << >>
  <2>1. (CHOOSE q \in Processes : buf[q] # << >>) = p
    BY <1>2
  <2> QED BY <1>2, <2>1 DEF Latest
<1> QED BY <1>1, <1>2

\* The same of the state after a step.
LEMMA LatestIsNext ==
  ASSUME LockInv', NEW p \in Processes, \A q \in Processes \ {p} : buf'[q] = << >>
  PROVE  Latest' = View(p)'
<1>1. CASE buf'[p] = << >>
  <2>1. Latest' = mem'
    BY <1>1 DEF Latest
  <2>2. mem' = [l \in DOMAIN mem' |-> mem'[l]]
    BY DEF LockInv
  <2>3. Overlay(mem', << >>) = mem'
    BY <2>2, OverlayNone
  <2>4. View(p)' = mem'
    BY <1>1, <2>3 DEF View
  <2> QED BY <2>1, <2>4
<1>2. CASE buf'[p] # << >>
  <2>1. (CHOOSE q \in Processes : buf'[q] # << >>) = p
    BY <1>2
  <2> QED BY <1>2, <2>1 DEF Latest
<1> QED BY <1>1, <1>2

LEMMA OwnerSees ==
  ASSUME LockInv, NEW p \in Processes, Owner(p)
  PROVE  Latest = View(p) /\ \A q \in Processes \ {p} : ~Owner(q) /\ buf[q] = << >>
BY LatestIs DEF LockInv, Owner

LEMMA NoOwner ==
  ASSUME LockInv, \A p \in Processes : buf[p] = << >>
  PROVE  Latest = mem
BY DEF Latest

\* What an owner stores is what becomes of the list.
LEMMA LatestStored ==
  ASSUME LockInv, LockInv', NEW p \in Processes, Owner(p),
         NEW T, NEW b \in Seq(T), Store(p, b)
  PROVE  Latest' = Overlay(Latest, b)
<1>1. PICK S : buf \in [Processes -> Seq(S)]
  BY Buffers
<1>2. buf[p] \in Seq(S \cup T) /\ b \in Seq(S \cup T)
  BY <1>1
<1>3. /\ buf'[p] = buf[p] \o b /\ mem' = mem
      /\ \A q \in Processes \ {p} : buf'[q] = buf[q]
  BY <1>1 DEF Store
<1>4. Latest = View(p) /\ \A q \in Processes \ {p} : buf[q] = << >>
  BY OwnerSees
<1>5. Latest' = View(p)'
  <2>1. \A q \in Processes \ {p} : buf'[q] = << >>
    BY <1>3, <1>4
  <2> QED BY <2>1, LatestIsNext
<1>6. Overlay(mem, buf[p] \o b) = Overlay(Overlay(mem, buf[p]), b)
  BY <1>2, OverlayJoined
<1>7. View(p)' = Overlay(mem, buf[p] \o b) /\ View(p) = Overlay(mem, buf[p])
  BY <1>3 DEF View
<1> QED BY <1>4, <1>5, <1>6, <1>7

-----------------------------------------------------------------------------
(* The invariant of the list. *)

ListInv == IsList(Latest, Walk(Latest))

\* What a loop has yet to visit is the rest of the list from its cursor on; the
\* node it looked up ahead is the next one.
VisitInv ==
  \A p \in Processes : iter[p] # NoLoop =>
    LET q == Walk(Latest)
    IN  \/ iter[p].cur = INVALID_PGPROCNO /\ iter[p].left = {}
        \/ \E k \in 1..Len(q) :
             /\ iter[p].cur = q[k]
             /\ iter[p].next = IF k = Len(q) THEN INVALID_PGPROCNO ELSE q[k + 1]
             /\ iter[p].left = {q[j] : j \in k..Len(q)}

IInv == LockInv /\ LoopInv /\ ListInv /\ VisitInv

\* The list is there as long as the places of its links hold what they held.
LEMMA ListStays ==
  ASSUME ListInv, \A l \in Locations \ {Lock} : Latest'[l] = Latest[l]
  PROVE  ListInv' /\ Walk(Latest') = Walk(Latest)
<1>1. IsList(Latest', Walk(Latest))
  BY SameList DEF ListInv
<1>2. Walk(Latest') = Walk(Latest)
  BY <1>1, WalkIs
<1> QED BY <1>1, <1>2 DEF ListInv

\* A list that a step makes.
LEMMA ListBecomes ==
  ASSUME NEW q, IsList(Latest', q)
  PROVE  ListInv' /\ Walk(Latest') = q
BY WalkIs DEF ListInv

LEMMA StoresSeq ==
  ASSUME NEW m, NEW n
  PROVE  /\ \E T : PushHeadStores(m, n) \in Seq(T)
         /\ \E T : PushTailStores(m, n) \in Seq(T)
         /\ \E T : DeleteStores(m, n) \in Seq(T)
BY OperationStores DEF ListStores

\* The queue after a step: one operation, or the same.
QueueStep(q, r) ==
  \/ r = q
  \/ \E p \in Processes :
       \/ (\A i \in 1..Len(q) : q[i] # p) /\ (r = <<p>> \o q \/ r = Append(q, p))
       \/ \E k \in 1..Len(q) : q[k] = p /\ r = Without(q, k)

LEMMA EnterKeeps ==
  ASSUME IInv, LockInv', NEW p \in Processes, Enter(p)
  PROVE  ListInv' /\ QueueStep(Walk(Latest), Walk(Latest')) /\ iter' = iter /\ iter[p] = NoLoop
<1> DEFINE q == Walk(Latest)
<1>1. /\ p \in holding /\ iter[p] = NoLoop /\ iter' = iter /\ Owner(p)
  BY DEF Enter, Operate, Owner
<1>2. Latest = View(p) /\ IsList(Latest, q) /\ DOMAIN Latest = Locations
  BY <1>1, OwnerSees, Buffers DEF IInv, ListInv
<1>3. \A i \in 1..Len(q) : q[i] # p
  BY <1>2, ContainsIs DEF Enter
<1> HIDE DEF q
<1>4. CASE Operate(p, PushHeadStores(View(p), p))
  <2>1. Latest' = Overlay(Latest, PushHeadStores(Latest, p))
    BY <1>1, <1>2, <1>4, StoresSeq, LatestStored DEF IInv, Operate
  <2>2. IsList(Latest', <<p>> \o q)
    BY <1>2, <1>3, <2>1, PushHeadList
  <2>3. ListInv' /\ Walk(Latest') = <<p>> \o q
    BY <2>2, ListBecomes
  <2> QED BY <1>1, <1>3, <2>3 DEF QueueStep, q
<1>5. CASE Operate(p, PushTailStores(View(p), p))
  <2>1. Latest' = Overlay(Latest, PushTailStores(Latest, p))
    BY <1>1, <1>2, <1>5, StoresSeq, LatestStored DEF IInv, Operate
  <2>2. IsList(Latest', Append(q, p))
    BY <1>2, <1>3, <2>1, PushTailList
  <2>3. ListInv' /\ Walk(Latest') = Append(q, p)
    BY <2>2, ListBecomes
  <2> QED BY <1>1, <1>3, <2>3 DEF QueueStep, q
<1> QED BY <1>4, <1>5 DEF Enter

\* The deletion of a member by the holder of the lock.
LEMMA DeletionKeeps ==
  ASSUME LockInv, ListInv, LockInv', NEW p \in holding,
         NEW k \in 1..Len(Walk(Latest)), Store(p, DeleteStores(View(p), Walk(Latest)[k]))
  PROVE  /\ ListInv' /\ Walk(Latest') = Without(Walk(Latest), k)
         /\ Latest' = Overlay(View(p), DeleteStores(View(p), Walk(Latest)[k]))
<1> DEFINE q == Walk(Latest)
<1>1. p \in Processes /\ Owner(p)
  BY DEF LockInv, Owner
<1>2. Latest = View(p) /\ IsList(Latest, q) /\ DOMAIN Latest = Locations
  BY <1>1, OwnerSees, Buffers DEF ListInv
<1> HIDE DEF q
<1>3. Latest' = Overlay(Latest, DeleteStores(Latest, q[k]))
  BY <1>1, <1>2, StoresSeq, LatestStored DEF q
<1>4. IsList(Latest', Without(q, k))
  BY <1>2, <1>3, DeleteList DEF q
<1>5. ListInv' /\ Walk(Latest') = Without(q, k)
  BY <1>4, ListBecomes
<1> QED BY <1>2, <1>3, <1>5 DEF q

LEMMA RemovalKeeps ==
  ASSUME IInv, LockInv', NEW p \in Processes, Leave(p) \/ WakeFirst(p)
  PROVE  ListInv' /\ QueueStep(Walk(Latest), Walk(Latest')) /\ iter' = iter /\ iter[p] = NoLoop
<1> DEFINE q == Walk(Latest)
<1>1. p \in holding /\ iter[p] = NoLoop /\ iter' = iter /\ Owner(p)
  BY DEF Leave, WakeFirst, Operate, Owner
<1>2. Latest = View(p) /\ IsList(Latest, q) /\ q \in Seq(Processes)
  BY <1>1, OwnerSees DEF IInv, ListInv, IsList
<1>3. \E k \in 1..Len(q) : Store(p, DeleteStores(View(p), q[k]))
  <2>1. CASE Leave(p)
    <3>1. \E k \in 1..Len(q) : q[k] = p
      BY <1>2, <2>1, ContainsIs DEF Leave
    <3> QED BY <2>1, <3>1 DEF Leave, Operate
  <2>2. CASE WakeFirst(p)
    <3>1. Len(q) # 0 /\ View(p)[HeadOf] = q[1]
      BY <1>2, <2>2 DEF WakeFirst, IsList
    <3>2. 1 \in 1..Len(q)
      BY <1>2, <3>1
    <3> QED BY <2>2, <3>1, <3>2 DEF WakeFirst, Operate
  <2> QED BY <2>1, <2>2
<1>4. PICK k \in 1..Len(q) : Store(p, DeleteStores(View(p), q[k]))
  BY <1>3
<1>5. ListInv' /\ Walk(Latest') = Without(q, k)
  BY <1>1, <1>4, DeletionKeeps DEF IInv
<1>6. q[k] \in Processes
  BY <1>2
<1> HIDE DEF q
<1> QED BY <1>1, <1>5, <1>6 DEF QueueStep, q

LEMMA StartLoopKeeps ==
  ASSUME IInv, NEW p \in Processes, StartLoop(p)
  PROVE  ListInv' /\ VisitInv' /\ Walk(Latest') = Walk(Latest)
<1> DEFINE q == Walk(Latest)
<1>1. Owner(p) /\ mem' = mem /\ buf' = buf
  BY DEF StartLoop, Owner
<1>2. Latest = View(p) /\ IsList(Latest, q) /\ q \in Seq(Processes)
  BY <1>1, OwnerSees DEF IInv, ListInv, IsList
<1>3. Latest' = Latest
  BY <1>1 DEF Latest, View
<1>4. ListInv' /\ Walk(Latest') = q
  BY <1>3 DEF IInv, ListInv
<1>5. VisitInv'
  <2>0. iter' = [iter EXCEPT ![p] = [cur |-> Latest[HeadOf], next |-> After(Latest, Latest[HeadOf]),
                                     left |-> Range(q)]]
        /\ Latest[HeadOf] # INVALID_PGPROCNO
    BY <1>2 DEF StartLoop
  <2>1. Len(q) \in Nat /\ Len(q) # 0 /\ Latest[HeadOf] = q[1] /\ 1 \in 1..Len(q)
    BY <1>2, <2>0 DEF IsList
  <2>2. Latest[NextOf(q[1])] = IF 1 = Len(q) THEN INVALID_PGPROCNO ELSE q[1 + 1]
    BY <1>2, <2>1 DEF IsList
  <2>3. After(Latest, q[1]) = Latest[NextOf(q[1])]
    BY <2>0, <2>1 DEF After
  <2>4. Range(q) = {q[j] : j \in 1..Len(q)}
    BY <1>2 DEF Range
  <2>5. /\ iter'[p].cur = q[1]
        /\ iter'[p].next = IF 1 = Len(q) THEN INVALID_PGPROCNO ELSE q[1 + 1]
        /\ iter'[p].left = {q[j] : j \in 1..Len(q)}
    BY <2>0, <2>1, <2>2, <2>3, <2>4 DEF IInv, LoopInv
  <2>6. \A o \in Processes : o # p => iter'[o] = NoLoop
    <3>1. \A o \in Processes : o # p => o \notin holding
      BY <1>1, OwnerSees DEF IInv, Owner
    <3> QED BY <2>0, <3>1 DEF IInv, LoopInv
  <2>7. Walk(Latest') = q
    BY <1>4
  <2> HIDE DEF q
  <2>8. \E k \in 1..Len(q) :
          /\ iter'[p].cur = q[k]
          /\ iter'[p].next = IF k = Len(q) THEN INVALID_PGPROCNO ELSE q[k + 1]
          /\ iter'[p].left = {q[j] : j \in k..Len(q)}
    BY <2>1, <2>5
  <2> QED BY <2>6, <2>7, <2>8 DEF VisitInv
<1> QED BY <1>4, <1>5

\* A visit goes on to the next node, which was looked up before the body could
\* delete the current one, and the deletion leaves it in its place.
LEMMA VisitKeeps ==
  ASSUME IInv, LockInv', NEW p \in Processes, Visit(p)
  PROVE  ListInv' /\ VisitInv' /\ QueueStep(Walk(Latest), Walk(Latest'))
<1> DEFINE q == Walk(Latest)
           r == Walk(Latest')
<1>1. iter[p] # NoLoop /\ p \in holding /\ Owner(p) /\ holding' = holding
  BY DEF Visit, NoLoop, IInv, LoopInv, Owner
<1>2. Latest = View(p) /\ IsList(Latest, q) /\ q \in Seq(Processes) /\ Len(q) \in Nat
  BY <1>1, OwnerSees DEF IInv, ListInv, IsList
<1>3. PICK k \in 1..Len(q) :
        /\ iter[p].cur = q[k]
        /\ iter[p].next = IF k = Len(q) THEN INVALID_PGPROCNO ELSE q[k + 1]
        /\ iter[p].left = {q[j] : j \in k..Len(q)}
  BY <1>1 DEF Visit, IInv, VisitInv
<1>4. PICK b \in {<< >>, DeleteStores(View(p), q[k])} :
        Store(p, b) /\ iter' = [iter EXCEPT ![p] = Advance(p, Overlay(View(p), b))]
  BY <1>3 DEF Visit
<1>5. /\ Latest' = Overlay(View(p), b) /\ ListInv'
      /\ \/ r = q
         \/ r = Without(q, k)
  <2>1. CASE b = << >>
    <3>1. b \in Seq({})
      BY <2>1
    <3>2. Latest' = Overlay(Latest, b)
      BY <1>1, <1>4, <3>1, LatestStored DEF IInv
    <3>3. Overlay(Latest, b) = Latest
      BY <1>2, <2>1, Buffers, OverlayNone DEF IInv
    <3>4. Latest' = Latest
      BY <3>2, <3>3
    <3>5. ListInv' /\ r = q
      BY <1>2, <3>4 DEF ListInv
    <3> QED BY <1>2, <3>2, <3>5
  <2>2. CASE b = DeleteStores(View(p), q[k])
    BY <1>1, <1>4, <2>2, DeletionKeeps DEF IInv
  <2> QED BY <1>4, <2>1, <2>2
<1>6. /\ IsList(Latest', r) /\ r \in Seq(Processes) /\ Len(r) \in Nat
      /\ \A i, j \in 1..Len(q) : q[i] = q[j] => i = j
      /\ \A i \in 1..Len(q) : q[i] \in Processes /\ q[i] # INVALID_PGPROCNO
  BY <1>2, <1>5, WaitListAssumption DEF ListInv, IsList
<1>7. q[k] \in Processes
  BY <1>2
<1>8. QueueStep(q, r)
  BY <1>5, <1>7 DEF QueueStep
<1> HIDE DEF q, r
\* The rest of the list from the next node on, in the list as it is now.
<1>9. /\ iter'[p].cur = iter[p].next
      /\ iter'[p].next = After(Latest', iter[p].next)
      /\ iter'[p].left = iter[p].left \ {q[k]}
      /\ \A o \in Processes : o # p => iter'[o] = iter[o]
  BY <1>3, <1>4, <1>5 DEF Advance, IInv, LoopInv
<1>10. iter'[p].left = {q[j] : j \in k + 1..Len(q)}
  <2>1. \A j \in k..Len(q) : j \in 1..Len(q) /\ (q[j] = q[k] <=> j = k)
    BY <1>6
  <2>2. \A j \in k..Len(q) : j # k <=> j \in k + 1..Len(q)
    OBVIOUS
  <2>3. \A j \in k + 1..Len(q) : j \in k..Len(q)
    OBVIOUS
  <2> QED BY <1>3, <1>9, <2>1, <2>2, <2>3
<1>11. \/ iter'[p].cur = INVALID_PGPROCNO /\ iter'[p].left = {}
       \/ \E i \in 1..Len(r) :
             /\ iter'[p].cur = r[i]
             /\ iter'[p].next = IF i = Len(r) THEN INVALID_PGPROCNO ELSE r[i + 1]
             /\ iter'[p].left = {r[j] : j \in i..Len(r)}
  <2>1. CASE k = Len(q)
    <3>1. iter'[p].cur = INVALID_PGPROCNO
      BY <1>3, <1>9, <2>1
    <3>2. iter'[p].left = {}
      BY <1>10, <2>1
    <3> QED BY <3>1, <3>2
  <2>2. CASE k # Len(q)
    <3>1. iter'[p].cur = q[k + 1] /\ k + 1 \in 1..Len(q) /\ q[k + 1] # INVALID_PGPROCNO
      BY <1>2, <1>3, <1>6, <1>9, <2>2
    <3>2. PICK i \in 1..Len(r) : /\ r[i] = q[k + 1]
                                 /\ {r[j] : j \in i..Len(r)} = {q[j] : j \in k + 1..Len(q)}
      <4>1. CASE r = q
        BY <3>1, <4>1
      <4>2. CASE r = Without(q, k)
        <5>1. /\ Len(r) = Len(q) - 1
              /\ \A j \in 1..Len(q) - 1 : r[j] = IF j < k THEN q[j] ELSE q[j + 1]
          BY <1>2, <4>2, Removed DEF Without
        <5>2. k \in 1..Len(r) /\ r[k] = q[k + 1]
          BY <1>2, <2>2, <5>1
        <5>3. \A j \in k..Len(r) : r[j] = q[j + 1] /\ j + 1 \in k + 1..Len(q)
          BY <1>2, <5>1
        <5>4. \A j \in k + 1..Len(q) : j - 1 \in k..Len(r) /\ q[j] = r[j - 1]
          <6>1. ASSUME NEW j \in k + 1..Len(q)
                PROVE  j - 1 \in k..Len(r) /\ j - 1 + 1 = j
            BY <1>2, <5>1
          <6> QED BY <5>3, <6>1
        <5>5. {r[j] : j \in k..Len(r)} = {q[j] : j \in k + 1..Len(q)}
          <6>1. \A e : (\E j \in k..Len(r) : e = r[j]) => \E j \in k + 1..Len(q) : e = q[j]
            BY <5>3
          <6>2. \A e : (\E j \in k + 1..Len(q) : e = q[j]) => \E j \in k..Len(r) : e = r[j]
            BY <5>4
          <6> QED BY <6>1, <6>2
        <5> QED BY <5>2, <5>5
      <4> QED BY <1>5, <4>1, <4>2
    <3>3. After(Latest', r[i]) = IF i = Len(r) THEN INVALID_PGPROCNO ELSE r[i + 1]
      BY <1>6, <3>1, <3>2 DEF After, IsList
    <3>4. iter[p].next = r[i]
      BY <1>9, <3>1, <3>2
    <3> QED BY <1>9, <1>10, <3>1, <3>2, <3>3, <3>4
  <2> QED BY <2>1, <2>2
<1>12. \A o \in Processes : o # p => iter[o] = NoLoop
  <2>1. \A o \in Processes : o # p => o \notin holding
    BY <1>1, OwnerSees DEF IInv, Owner
  <2> QED BY <2>1 DEF IInv, LoopInv
<1>13. VisitInv'
  BY <1>9, <1>11, <1>12 DEF VisitInv, r
<1> QED BY <1>5, <1>8, <1>13 DEF q, r

\* Whatever leaves the loops alone while the list stays.
LEMMA LoopsStay ==
  ASSUME VisitInv, iter' = iter, Walk(Latest') = Walk(Latest)
  PROVE  VisitInv'
BY DEF VisitInv

\* Without a loop the list may change.
LEMMA NoLoopsStay ==
  ASSUME IInv, NEW p \in holding, iter[p] = NoLoop, iter' = iter
  PROVE  VisitInv'
<1>1. p \in Processes /\ Owner(p)
  BY DEF IInv, LockInv, Owner
<1>2. \A o \in Processes : iter[o] = NoLoop
  BY <1>1, OwnerSees DEF IInv, LoopInv, Owner
<1> QED BY <1>2 DEF VisitInv

-----------------------------------------------------------------------------
(* The lock and the memory leave the list as it is. *)

LEMMA AcquireKeeps ==
  ASSUME IInv, LockInv', NEW p \in Processes, Acquire(p)
  PROVE  ListInv' /\ VisitInv' /\ Walk(Latest') = Walk(Latest)
<1>1. /\ buf' = buf /\ iter' = iter /\ mem' = [mem EXCEPT ![Lock] = 1]
      /\ \A q \in Processes : buf[q] = << >>
  BY DEF Acquire, SpinLockAcquire, IInv, LockInv, Owner
<1>2. Latest = mem
  BY <1>1 DEF Latest
<1>3. Latest' = mem'
  BY <1>1 DEF Latest
<1>4. \A l \in Locations \ {Lock} : Latest'[l] = Latest[l]
  BY <1>1, <1>2, <1>3, Buffers DEF IInv
<1> QED BY <1>1, <1>4, ListStays, LoopsStay DEF IInv

LEMMA ReleaseKeeps ==
  ASSUME IInv, LockInv', NEW p \in Processes, Release(p)
  PROVE  ListInv' /\ VisitInv' /\ Walk(Latest') = Walk(Latest)
<1> DEFINE b == <<<<Lock, 0>>>>
<1>1. /\ iter' = iter /\ Owner(p) /\ Store(p, b)
  BY DEF Release, SpinLockRelease, Owner
<1>2. b \in Seq({<<Lock, 0>>})
  OBVIOUS
<1> HIDE DEF b
<1>3. Latest' = Overlay(Latest, b)
  BY <1>1, <1>2, LatestStored DEF IInv
<1>4. DOMAIN Latest = Locations
  BY <1>1, OwnerSees, Buffers DEF IInv
<1>5. Overlay(Latest, b) = [k \in DOMAIN Latest |-> IF k = Lock THEN 0 ELSE Latest[k]]
  BY OverlayOne DEF b
<1>6. \A l \in Locations \ {Lock} : Latest'[l] = Latest[l]
  BY <1>3, <1>4, <1>5
<1> QED BY <1>1, <1>6, ListStays, LoopsStay DEF IInv

\* A store that gets to memory is one that its processor saw before.
LEMMA DrainKeeps ==
  ASSUME IInv, LockInv', NEW p \in Processes, Drain(p), iter' = iter
  PROVE  ListInv' /\ VisitInv' /\ Walk(Latest') = Walk(Latest)
<1>1. PICK S : buf \in [Processes -> Seq(S)]
  BY Buffers DEF IInv
<1> DEFINE b == buf[p]
           c == Tail(b)
<1>2. /\ b \in Seq(S) /\ b # << >> /\ Owner(p) /\ buf'[p] = c
      /\ mem' = [mem EXCEPT ![Head(b)[1]] = Head(b)[2]]
      /\ \A q \in Processes \ {p} : buf'[q] = buf[q]
  BY <1>1 DEF Drain, Owner
<1>3. Latest = View(p) /\ \A q \in Processes \ {p} : buf[q] = << >>
  BY <1>2, OwnerSees DEF IInv
<1>4. Latest' = View(p)'
  BY <1>2, <1>3, LatestIsNext
<1>5. View(p) = Overlay(mem, b) /\ View(p)' = Overlay(mem', c) /\ DOMAIN mem = Locations
  BY <1>2, Buffers DEF View, IInv
<1>6. /\ c \in Seq(S) /\ Len(b) \in Nat \ {0} /\ Len(c) = Len(b) - 1 /\ Head(b) = b[1]
      /\ \A i \in 1..Len(c) : c[i] = b[i + 1]
  BY <1>2
<1> HIDE DEF b, c
<1>7. ASSUME NEW l \in Locations
      PROVE  Overlay(mem', c)[l] = Overlay(mem, b)[l]
  <2>0. l \in DOMAIN mem /\ l \in DOMAIN mem'
    BY <1>2, <1>5
  <2>1. CASE \E i \in 1..Len(c) : c[i][1] = l
    <3>1. PICK i \in 1..Len(c) : c[i][1] = l /\ \A j \in i + 1..Len(c) : c[j][1] # l
      BY <1>6, <2>1, LastStore
    <3>2. Overlay(mem', c)[l] = c[i][2]
      BY <1>6, <2>0, <3>1, OverlayAt
    <3> DEFINE k == i + 1
    <3>3. k \in 1..Len(b) /\ b[k] = c[i]
      BY <1>6
    <3>4. ASSUME NEW j \in k + 1..Len(b) PROVE b[j][1] # l
      <4>1. j - 1 \in i + 1..Len(c) /\ j - 1 \in 1..Len(c) /\ j - 1 + 1 = j
        BY <1>6
      <4>2. c[j - 1] = b[j - 1 + 1]
        BY <1>6, <4>1
      <4> QED BY <3>1, <4>1, <4>2
    <3> HIDE DEF k
    <3>5. b[k][1] = l
      BY <3>1, <3>3
    <3>6. Overlay(mem, b)[l] = b[k][2]
      BY <1>2, <2>0, <3>3, <3>4, <3>5, OverlayAt
    <3> QED BY <3>2, <3>3, <3>6
  <2>2. CASE \A i \in 1..Len(c) : c[i][1] # l
    <3>1. Overlay(mem', c)[l] = mem'[l]
      BY <1>6, <2>0, <2>2, OverlayElse
    <3>2. ASSUME NEW j \in 2..Len(b) PROVE b[j][1] # l
      <4>1. j - 1 \in 1..Len(c) /\ j - 1 + 1 = j
        BY <1>6
      <4>2. c[j - 1] = b[j - 1 + 1]
        BY <1>6, <4>1
      <4> QED BY <2>2, <4>1, <4>2
    <3>3. CASE b[1][1] = l
      <4>1. 1 \in 1..Len(b) /\ \A j \in 1 + 1..Len(b) : b[j][1] # l
        BY <1>6, <3>2
      <4>2. Overlay(mem, b)[l] = b[1][2]
        BY <1>2, <2>0, <3>3, <4>1, OverlayAt
      <4>3. mem'[l] = b[1][2]
        BY <1>2, <1>6, <2>0, <3>3
      <4> QED BY <3>1, <4>2, <4>3
    <3>4. CASE b[1][1] # l
      <4>1. \A j \in 1..Len(b) : b[j][1] # l
        <5>1. \A j \in 1..Len(b) : j = 1 \/ j \in 2..Len(b)
          BY <1>6
        <5> QED BY <3>2, <3>4, <5>1
      <4>2. Overlay(mem, b)[l] = mem[l]
        BY <1>2, <2>0, <4>1, OverlayElse
      <4>3. mem'[l] = mem[l]
        BY <1>2, <1>6, <2>0, <3>4
      <4> QED BY <3>1, <4>2, <4>3
    <3> QED BY <3>3, <3>4
  <2> QED BY <2>1, <2>2
<1>8. \A l \in Locations \ {Lock} : Latest'[l] = Latest[l]
  BY <1>3, <1>4, <1>5, <1>7
<1> QED BY <1>8, ListStays, LoopsStay DEF IInv

-----------------------------------------------------------------------------
(* The theorems. *)

LEMMA InitIInv == WaitInit => IInv /\ Walk(Latest) = << >>
<1> SUFFICES ASSUME WaitInit PROVE IInv /\ Walk(Latest) = << >>
  OBVIOUS
<1>1. LockInv /\ LoopInv
  BY InitInv
<1>2. Latest = mem
  BY DEF WaitInit, LockInit, Latest
<1>3. \A l \in ListMemory : mem[l] = IF l \in {HeadOf, TailOf} THEN INVALID_PGPROCNO ELSE 0
  BY WaitListAssumption, SpinLockAssumption DEF WaitInit, LockInit, Locations
<1> DEFINE q == << >>
<1>4. q \in Seq(Processes) /\ Len(q) = 0 /\ \A i \in 1..Len(q) : FALSE
  OBVIOUS
<1>5. /\ mem[HeadOf] = INVALID_PGPROCNO /\ mem[TailOf] = INVALID_PGPROCNO
      /\ \A p \in Processes : mem[NextOf(p)] = 0 /\ mem[PrevOf(p)] = 0
  BY <1>3, PlacesDiffer DEF ListMemory
<1> HIDE DEF q
<1>6. IsList(Latest, q)
  BY <1>2, <1>4, <1>5 DEF IsList
<1>7. Walk(Latest) = q
  BY <1>6, WalkIs
<1>8. VisitInv
  BY DEF WaitInit, VisitInv
<1> QED BY <1>1, <1>6, <1>7, <1>8 DEF IInv, ListInv, q

LEMMA StepIInv ==
  ASSUME IInv, [WaitNext]_waitVars
  PROVE  IInv' /\ QueueStep(Walk(Latest), Walk(Latest'))
<1>0. LockInv' /\ LoopInv'
  BY StepInv DEF IInv
<1>a. ASSUME Walk(Latest') = Walk(Latest), ListInv', VisitInv'
      PROVE  IInv' /\ QueueStep(Walk(Latest), Walk(Latest'))
  BY <1>0, <1>a DEF IInv, QueueStep
<1>1. ASSUME NEW p \in Processes, Acquire(p) \/ Release(p) \/ StartLoop(p) \/ (Drain(p) /\ UNCHANGED iter)
      PROVE  IInv' /\ QueueStep(Walk(Latest), Walk(Latest'))
  BY <1>0, <1>1, <1>a, AcquireKeeps, ReleaseKeeps, StartLoopKeeps, DrainKeeps
<1>2. ASSUME NEW p \in Processes, Enter(p) \/ Leave(p) \/ WakeFirst(p)
      PROVE  IInv' /\ QueueStep(Walk(Latest), Walk(Latest'))
  <2>1. p \in holding
    BY <1>2 DEF Enter, Leave, WakeFirst, Operate
  <2>2. /\ ListInv' /\ QueueStep(Walk(Latest), Walk(Latest'))
        /\ iter' = iter /\ iter[p] = NoLoop
    BY <1>0, <1>2, EnterKeeps, RemovalKeeps
  <2>3. VisitInv'
    BY <2>1, <2>2, NoLoopsStay
  <2> QED BY <1>0, <2>2, <2>3 DEF IInv
<1>3. ASSUME NEW p \in Processes, Visit(p)
      PROVE  IInv' /\ QueueStep(Walk(Latest), Walk(Latest'))
  BY <1>0, <1>3, VisitKeeps DEF IInv
<1>4. ASSUME NEW p \in Processes, EndLoop(p)
      PROVE  IInv' /\ QueueStep(Walk(Latest), Walk(Latest'))
  <2>1. Latest' = Latest
    BY <1>4 DEF EndLoop, Latest, View
  <2>2. ListInv' /\ Walk(Latest') = Walk(Latest)
    BY <2>1 DEF IInv, ListInv
  <2>3. VisitInv'
    BY <1>4, <2>2 DEF EndLoop, IInv, VisitInv, LoopInv
  <2> QED BY <1>a, <2>2, <2>3
<1>5. CASE UNCHANGED waitVars
  <2>1. Latest' = Latest /\ iter' = iter
    BY <1>5 DEF waitVars, Latest, View
  <2>2. ListInv' /\ Walk(Latest') = Walk(Latest)
    BY <2>1 DEF IInv, ListInv
  <2> QED BY <1>a, <2>1, <2>2, LoopsStay DEF IInv
<1>6. CASE WaitNext
  <2>1. PICK p \in Processes :
          \/ Acquire(p) \/ Enter(p) \/ Leave(p) \/ WakeFirst(p)
          \/ StartLoop(p) \/ Visit(p) \/ EndLoop(p) \/ Release(p)
          \/ Drain(p) /\ UNCHANGED iter
    BY <1>6 DEF WaitNext
  <2>2. CASE Acquire(p) \/ Release(p) \/ StartLoop(p) \/ (Drain(p) /\ UNCHANGED iter)
    BY <1>1, <2>2
  <2>3. CASE Enter(p) \/ Leave(p) \/ WakeFirst(p)
    BY <1>2, <2>3
  <2>4. CASE Visit(p)
    BY <1>3, <2>4
  <2>5. CASE EndLoop(p)
    BY <1>4, <2>5
  <2> QED BY <2>1, <2>2, <2>3, <2>4, <2>5
<1> QED BY <1>5, <1>6

LEMMA Invariance == WaitSpec => []IInv
<1>1. IInv /\ [WaitNext]_waitVars => IInv'
  BY StepIInv
<1> QED BY <1>1, InitIInv, PTL DEF WaitSpec

\* Links that agree both ways and nodes of zeros for those outside, whatever
\* processes enter, leave and are woken up, process 0 included.
THEOREM ListWellFormed == WaitSpec => []WellFormed
<1>1. IInv => WellFormed
  <2> SUFFICES ASSUME IInv PROVE WellFormed
    OBVIOUS
  <2> DEFINE q == Walk(Latest)
  <2>1. IsList(Latest, q) /\ q \in Seq(Processes) /\ Len(q) \in Nat /\ DOMAIN q = 1..Len(q)
    BY DEF IInv, ListInv, IsList
  <2>2. \A p \in Processes : Contains(Latest, p) <=> p \in Range(q)
    BY <2>1, ContainsIs DEF Range
  <2>3. q = << >> <=> Len(q) = 0
    BY <2>1
  <2> HIDE DEF q
  <2>4. /\ \A i \in DOMAIN q :
             /\ Latest[PrevOf(q[i])] = IF i = 1 THEN INVALID_PGPROCNO ELSE q[i - 1]
             /\ Latest[NextOf(q[i])] = IF i = Len(q) THEN INVALID_PGPROCNO ELSE q[i + 1]
        /\ Latest[TailOf] = IF q = << >> THEN INVALID_PGPROCNO ELSE q[Len(q)]
    BY <2>1, <2>3 DEF IsList
  <2> QED BY <2>2, <2>4 DEF WellFormed, q
<1> QED BY <1>1, Invariance, PTL

\* A loop that may delete the node it is at visits what was in the list, each
\* once.
THEOREM LoopVisitsAll == WaitSpec => []VisitsAll
<1>1. IInv => VisitsAll
  <2> SUFFICES ASSUME IInv, NEW p \in Processes, iter[p] # NoLoop
               PROVE  IF iter[p].cur = INVALID_PGPROCNO THEN iter[p].left = {}
                      ELSE iter[p].cur \in iter[p].left
    BY DEF VisitsAll
  <2> DEFINE q == Walk(Latest)
  <2>1. \A i \in 1..Len(q) : q[i] # INVALID_PGPROCNO /\ i \in i..Len(q)
    BY WaitListAssumption DEF IInv, ListInv, IsList
  <2>2. \/ iter[p].cur = INVALID_PGPROCNO /\ iter[p].left = {}
        \/ \E k \in 1..Len(q) : /\ iter[p].cur = q[k]
                                /\ iter[p].left = {q[j] : j \in k..Len(q)}
    BY DEF IInv, VisitInv
  <2> HIDE DEF q
  <2> QED BY <2>1, <2>2
<1> QED BY <1>1, Invariance, PTL

\* The list is a queue: each section takes effect at one instant, that of its
\* stores, whichever of them memory has by then.
THEOREM ListIsQueue == WaitSpec => ImplementsQueue
<1>1. WaitInit => Queue!QueueInit
  BY InitIInv DEF Queue!QueueInit
<1>2. IInv /\ [WaitNext]_waitVars => [Queue!QueueNext]_(Walk(Latest))
  <2> SUFFICES ASSUME IInv, [WaitNext]_waitVars
               PROVE  Queue!QueueNext \/ Walk(Latest') = Walk(Latest)
    OBVIOUS
  <2> DEFINE q == Walk(Latest)
             r == Walk(Latest')
  <2>1. QueueStep(q, r)
    BY StepIInv
  <2>2. DOMAIN q = 1..Len(q)
    BY DEF IInv, ListInv, IsList
  <2>3. ASSUME NEW p \in Processes, \A i \in 1..Len(q) : q[i] # p
        PROVE  p \notin Range(q)
    BY <2>2, <2>3 DEF Range
  <2> HIDE DEF q, r
  <2>4. ASSUME NEW p \in Processes, \A i \in 1..Len(q) : q[i] # p, r = <<p>> \o q
        PROVE  Queue!PushHead(p)
    BY <2>3, <2>4 DEF Queue!PushHead, Queue!Range, Range, q, r
  <2>5. ASSUME NEW p \in Processes, \A i \in 1..Len(q) : q[i] # p, r = Append(q, p)
        PROVE  Queue!PushTail(p)
    BY <2>3, <2>5 DEF Queue!PushTail, Queue!Range, Range, q, r
  <2>6. ASSUME NEW p \in Processes, NEW k \in 1..Len(q), q[k] = p, r = Without(q, k)
        PROVE  Queue!Delete(p)
    BY <2>2, <2>6 DEF Queue!Delete, Queue!RemoveAt, Without, q, r
  <2> QED BY <2>1, <2>4, <2>5, <2>6 DEF QueueStep, Queue!QueueNext, q, r
<1> QED BY <1>1, <1>2, Invariance, PTL DEF WaitSpec, ImplementsQueue, Queue!QueueSpec

-----------------------------------------------------------------------------
(* Atomics. *)

\* The halves of a value are what division by Half leaves.
LEMMA HalvesOf ==
  ASSUME NEW v \in Nat
  PROVE  /\ v \div Half \in Nat /\ v % Half \in 0..Half - 1
         /\ v = Half * (v \div Half) + (v % Half)
  BY AtomicsAssumption, SMT

\* They are halves.
LEMMA Halves ==
  ASSUME NEW v \in Values
  PROVE  v \div Half \in 0..Half - 1 /\ v % Half \in 0..Half - 1
<1> DEFINE h == v \div Half
<1>1. h \in Nat /\ v % Half \in 0..Half - 1 /\ v = Half * h + (v % Half)
  BY HalvesOf, AtomicsAssumption DEF Values, Size
<1> HIDE DEF h
<1>2. h < Half
  <2> SUFFICES ASSUME h >= Half PROVE FALSE
    BY <1>1, AtomicsAssumption
  <2>1. Half * h >= Half * Half
    BY <1>1, AtomicsAssumption, SMT
  <2> QED BY <1>1, <2>1, AtomicsAssumption, SMT DEF Values, Size
<1> QED BY <1>1, <1>2, AtomicsAssumption DEF h

\* A value is made of two halves.
LEMMA Compose ==
  ASSUME NEW h \in 0..Half - 1, NEW l \in 0..Half - 1
  PROVE  Half * h + l \in Values
<1>1. Half * h <= Half * (Half - 1) /\ Half * h >= 0
  BY AtomicsAssumption, SMT
<1>2. Half * (Half - 1) = Half * Half - Half
  BY AtomicsAssumption, SMT
<1> QED BY <1>1, <1>2, AtomicsAssumption, SMT DEF Values, Size

\* An operation leaves a value in the word.
LEMMA NewValueType ==
  ASSUME NEW c \in Calls, NEW v \in Values
  PROVE  NewValue(c, v) \in Values
<1>1. c.arg \in Values /\ c.expected \in Values
  BY AtomicsAssumption
<1>2. Size \in Nat /\ Size > 0
  <2>1. Half * Half > 0 /\ Half * Half \in Nat
    BY AtomicsAssumption, SMT
  <2> QED BY <2>1 DEF Size
<1>3. (v + c.arg) % Size \in Values /\ (v - c.arg) % Size \in Values
  <2> HIDE DEF Size
  <2> QED BY <1>1, <1>2, SMT DEF Values
<1>4. BitAnd(v, c.arg) \in Values /\ BitOr(v, c.arg) \in Values
  BY <1>1, BitAssumption
<1> QED BY <1>1, <1>3, <1>4 DEF NewValue

\* The variables have their types: a torn load gives a value of the word's size.
THEOREM TypeCorrect == AtomicSpec => []AtomicTypeOK
<1>1. AtomicInit => AtomicTypeOK
  <2>1. 0 \in Values
    <3>1. Half * Half > 0
      BY AtomicsAssumption, SMT
    <3> QED BY <3>1, AtomicsAssumption, SMT DEF Values, Size
  <2> QED BY <2>1 DEF AtomicInit, AtomicTypeOK
<1>2. AtomicTypeOK /\ [AtomicNext]_atomicVars => AtomicTypeOK'
  <2> SUFFICES ASSUME AtomicTypeOK, [AtomicNext]_atomicVars PROVE AtomicTypeOK'
    OBVIOUS
  <2> USE DEF AtomicTypeOK
  <2>0. 0 \in Values /\ 0 < Half /\ NoCall \notin Calls
    <3>1. Half * Half > 0
      BY AtomicsAssumption, SMT
    <3>2. NoCall \notin Calls
      <4>1. \A c \in Calls : c.op # "none"
        BY AtomicsAssumption DEF Ops
      <4> QED BY <4>1 DEF NoCall
    <3> QED BY <3>1, <3>2, AtomicsAssumption, SMT DEF Values, Size
  <2>1. ASSUME NEW p \in Callers, NEW c \in Calls, Invoke(p, c) PROVE AtomicTypeOK'
    <3>1. c.expected \in Values
      BY AtomicsAssumption
    <3> QED BY <2>0, <2>1, <3>1 DEF Invoke
  <2>2. ASSUME NEW p \in Callers, LoadLow(p) PROVE AtomicTypeOK'
    <3>1. ptr % Half \in 0..Half - 1 /\ ptr % Half \in Values
      <4>1. 0 \in 0..Half - 1
        BY AtomicsAssumption, SMT
      <4>2. Half * 0 + (ptr % Half) \in Values
        BY <4>1, Halves, Compose
      <4> QED BY <4>2, Halves, AtomicsAssumption, SMT DEF Values
    <3> QED BY <2>2, <3>1, AtomicsAssumption DEF LoadLow
  <2>3. ASSUME NEW p \in Callers, LoadHigh(p) PROVE AtomicTypeOK'
    <3>1. old[p] \in 0..Half - 1
      BY <2>3, AtomicsAssumption, SMT DEF LoadHigh, Values
    <3>2. Half * (ptr \div Half) + old[p] \in Values
      BY <3>1, Halves, Compose
    <3>3. old[p] + Half * (ptr \div Half) \in Values
      BY <3>1, <3>2, Halves, AtomicsAssumption, SMT
    <3> QED BY <2>3, <3>3 DEF LoadHigh
  <2>4. ASSUME NEW p \in Callers, TryExchange(p) PROVE AtomicTypeOK'
    <3>1. NewValue(call[p], old[p]) \in Values
      BY <2>4, NewValueType DEF TryExchange
    <3> QED BY <2>4, <3>1 DEF TryExchange, CompareExchange
  <2>5. ASSUME NEW p \in Callers, ExchangeOnce(p) PROVE AtomicTypeOK'
    <3>1. call[p].arg \in Values
      BY <2>5, AtomicsAssumption DEF ExchangeOnce
    <3> QED BY <2>0, <2>5, <3>1 DEF ExchangeOnce, CompareExchange
  <2>6. ASSUME NEW p \in Callers, Return(p) PROVE AtomicTypeOK'
    BY <2>0, <2>6 DEF Return
  <2>7. CASE UNCHANGED atomicVars
    BY <2>7 DEF atomicVars
  <2> QED BY <2>1, <2>2, <2>3, <2>4, <2>5, <2>6, <2>7 DEF AtomicNext, AtomicStep
<1> QED BY <1>1, <1>2, PTL DEF AtomicSpec

-----------------------------------------------------------------------------

\* What a process in an operation has to know to end it.
Prepared ==
  \A p \in Callers :
    /\ pc[p] = "idle" <=> call[p] = NoCall
    /\ pc[p] = "once" => \/ call[p].op = "read" /\ old[p] = 0
                         \/ call[p].op = "cas" /\ old[p] = call[p].expected

LEMMA PreparedInvariant == AtomicSpec => []Prepared
<1>1. AtomicInit => Prepared
  BY DEF AtomicInit, Prepared
<1>2. AtomicTypeOK /\ Prepared /\ [AtomicNext]_atomicVars => Prepared'
  <2> SUFFICES ASSUME AtomicTypeOK, Prepared, [AtomicNext]_atomicVars PROVE Prepared'
    OBVIOUS
  <2> USE DEF AtomicTypeOK, Prepared
  <2>0. NoCall \notin Calls
    <3>1. \A c \in Calls : c.op # "none"
      BY AtomicsAssumption DEF Ops
    <3> QED BY <3>1 DEF NoCall
  <2>1. ASSUME NEW p \in Callers, NEW c \in Calls, Invoke(p, c) PROVE Prepared'
    BY <2>0, <2>1 DEF Invoke
  <2>2. ASSUME NEW p \in Callers, LoadLow(p) \/ LoadHigh(p) PROVE Prepared'
    BY <2>2 DEF LoadLow, LoadHigh
  <2>3. ASSUME NEW p \in Callers, TryExchange(p) \/ ExchangeOnce(p) PROVE Prepared'
    BY <2>3 DEF TryExchange, ExchangeOnce, CompareExchange
  <2>4. ASSUME NEW p \in Callers, Return(p) PROVE Prepared'
    BY <2>4 DEF Return
  <2>5. CASE UNCHANGED atomicVars
    BY <2>5 DEF atomicVars
  <2> QED BY <2>1, <2>2, <2>3, <2>4, <2>5 DEF AtomicNext, AtomicStep
<1> QED BY <1>1, <1>2, TypeCorrect, PTL DEF AtomicSpec

\* The operations take effect when their exchange succeeds, or, to read and to
\* compare, when it is tried: they implement the atomic word.
THEOREM AtomicOperations == AtomicSpec => ImplementsWord
<1>1. AtomicInit => Word!WordInit
  BY DEF AtomicInit, Word!WordInit, Word!NoCall, NoCall, Word!Nothing
<1>2. AtomicTypeOK /\ Prepared /\ [AtomicNext]_atomicVars => [Word!WordNext]_(Word!wordVars)
  <2> SUFFICES ASSUME AtomicTypeOK, Prepared, [AtomicNext]_atomicVars
               PROVE  [Word!WordNext]_(Word!wordVars)
    OBVIOUS
  <2> USE DEF AtomicTypeOK
  <2>1. ASSUME NEW p \in Callers, NEW c \in Calls, Invoke(p, c) PROVE Word!Call(p, c)
    BY <2>1 DEF Invoke, Word!Call, Word!NoCall, NoCall, Prepared
  <2>2. ASSUME NEW p \in Callers, LoadLow(p) \/ LoadHigh(p) PROVE UNCHANGED Word!wordVars
    BY <2>2 DEF LoadLow, LoadHigh, Word!wordVars
  <2>3. ASSUME NEW p \in Callers, TryExchange(p), ptr # old[p] PROVE UNCHANGED Word!wordVars
    BY <2>3 DEF TryExchange, CompareExchange, Word!wordVars
  <2>4. ASSUME NEW p \in Callers, TryExchange(p), ptr = old[p] PROVE Word!Apply(p)
    BY <2>4 DEF TryExchange, CompareExchange, Word!Apply, Word!NoCall, NoCall, Word!Nothing,
                Word!Found, Prepared
  <2>5. ASSUME NEW p \in Callers, ExchangeOnce(p) PROVE Word!Apply(p)
    <3>1. ptr' = NewValue(call[p], ptr)
      BY <2>5 DEF ExchangeOnce, CompareExchange, NewValue, Prepared
    <3> QED BY <2>5, <3>1 DEF ExchangeOnce, CompareExchange, Word!Apply, Word!NoCall, NoCall,
                 Word!Nothing, Word!Found, Prepared
  <2>6. ASSUME NEW p \in Callers, Return(p) PROVE Word!Return(p)
    BY <2>6 DEF Return, Word!Return, Word!NoCall, NoCall, Word!Nothing
  <2>7. CASE UNCHANGED atomicVars
    BY <2>7 DEF atomicVars, Word!wordVars
  <2> QED BY <2>1, <2>2, <2>3, <2>4, <2>5, <2>6, <2>7 DEF AtomicNext, AtomicStep, Word!WordNext
<1> QED BY <1>1, <1>2, TypeCorrect, PreparedInvariant, PTL
        DEF AtomicSpec, ImplementsWord, Word!WordSpec

-----------------------------------------------------------------------------
(* Transaction ids. *)

HalfRange == Modulus \div 2

\* The number of ids is twice HalfRange.
LEMMA HalfModulus == HalfRange \in Nat /\ HalfRange > 4 /\ Modulus = HalfRange + HalfRange /\ Modulus \in Nat
BY TransactionIdAssumption, SMT DEF HalfRange

\* An integer is a multiple of Modulus and what % leaves of it.
LEMMA DivMod ==
  ASSUME NEW x \in Int
  PROVE  /\ x \div Modulus \in Int /\ x % Modulus \in 0..Modulus - 1
         /\ x = Modulus * (x \div Modulus) + (x % Modulus)
BY TransactionIdAssumption, SMT

\* In one way only.
LEMMA ModUnique ==
  ASSUME NEW q \in Int, NEW r \in 0..Modulus - 1
  PROVE  (Modulus * q + r) % Modulus = r
<1> DEFINE x == Modulus * q + r
           p == x \div Modulus
           s == x % Modulus
           d == p - q
<1>1. x \in Int /\ Modulus \in Nat /\ Modulus > 0
  BY TransactionIdAssumption, SMT
<1>2. p \in Int /\ s \in 0..Modulus - 1 /\ x = Modulus * p + s
  BY <1>1, DivMod
<1>3. Modulus * p + s = Modulus * q + r
  BY <1>2
<1> HIDE DEF p, s
<1>4. d \in Int /\ Modulus * p = Modulus * q + Modulus * d
  BY <1>1, <1>2, SMT
<1> HIDE DEF d
<1>5. Modulus * d = r - s
  BY <1>1, <1>2, <1>3, <1>4, SMT
<1>6. d = 0
  <2>1. ASSUME d >= 1 PROVE FALSE
    <3>1. Modulus * d >= Modulus
      BY <1>1, <1>4, <2>1, SMT
    <3> QED BY <1>1, <1>2, <1>5, <3>1
  <2>2. ASSUME d <= -1 PROVE FALSE
    <3>1. Modulus * d <= -Modulus
      BY <1>1, <1>4, <2>2, SMT
    <3> QED BY <1>1, <1>2, <1>5, <3>1
  <2> QED BY <1>4, <2>1, <2>2
<1>7. s = r
  BY <1>1, <1>2, <1>5, <1>6, SMT
<1> QED BY <1>7 DEF s

\* What is added to a residue is added to the integer.
LEMMA ModAdd ==
  ASSUME NEW x \in Int, NEW k \in Int
  PROVE  /\ (x + k) % Modulus = ((x % Modulus) + k) % Modulus
         /\ (x % Modulus) + k \in 0..Modulus - 1 => (x + k) % Modulus = (x % Modulus) + k
<1> DEFINE q == x \div Modulus
           r == x % Modulus
           p == (r + k) \div Modulus
           s == (r + k) % Modulus
<1>1. q \in Int /\ r \in 0..Modulus - 1 /\ x = Modulus * q + r
  BY DivMod
<1> HIDE DEF q, r
<1>2. p \in Int /\ s \in 0..Modulus - 1 /\ r + k = Modulus * p + s
  <2>1. r + k \in Int
    BY <1>1, TransactionIdAssumption
  <2> QED BY <2>1, DivMod
<1> HIDE DEF p, s
<1>3. p + q \in Int /\ Modulus * (p + q) = Modulus * p + Modulus * q
  BY <1>1, <1>2, TransactionIdAssumption, SMT
<1>4. x + k = Modulus * (p + q) + s
  <2> DEFINE a == Modulus * p
             b == Modulus * q
             c == Modulus * (p + q)
  <2>1. a \in Int /\ b \in Int /\ c = a + b /\ x = b + r /\ r + k = a + s
    BY <1>1, <1>2, <1>3, TransactionIdAssumption, SMT
  <2> HIDE DEF a, b, c
  <2>2. x + k = c + s
    BY <1>1, <1>2, <2>1
  <2> QED BY <2>2 DEF c
<1>5. (x + k) % Modulus = s
  BY <1>2, <1>3, <1>4, ModUnique
<1>6. r + k \in 0..Modulus - 1 => s = r + k
  <2> SUFFICES ASSUME r + k \in 0..Modulus - 1 PROVE s = r + k
    OBVIOUS
  <2>1. (Modulus * 0 + (r + k)) % Modulus = r + k
    BY ModUnique
  <2> QED BY <2>1, <1>1, TransactionIdAssumption DEF s
<1> QED BY <1>5, <1>6 DEF s, r

\* The ids in use are fewer than half of all; the two counters are the same id, and what
\* was assigned last is the id before it.
XidInv ==
  /\ nextXid \in Nat /\ nextFullXid \in Nat /\ oldestXid \in Nat /\ latest \in Nat
  /\ FirstNormalTransactionId <= oldestXid /\ oldestXid <= nextFullXid
  /\ nextFullXid < oldestXid + HalfRange
  /\ nextXid = nextFullXid % Modulus
  /\ nextXid >= FirstNormalTransactionId
  /\ latest # InvalidFullTransactionId =>
       /\ latest < nextFullXid
       /\ FullTransactionIdAdvance(latest) = nextFullXid
       /\ nextFullXid > FirstNormalTransactionId =>
            /\ latest % Modulus >= FirstNormalTransactionId
            /\ TransactionIdRetreat(nextXid) = latest % Modulus

\* Small ids are their own residues.
LEMMA ModSmall ==
  ASSUME NEW r \in 0..Modulus - 1
  PROVE  r % Modulus = r
<1>1. (Modulus * 0 + r) % Modulus = r
  BY ModUnique
<1> QED BY <1>1, TransactionIdAssumption

\* A counter of full ids that does not stand on a special one steps over those.
LEMMA UpNormal ==
  ASSUME NEW x \in Nat
  PROVE  /\ Up(x) \in x..x + FirstNormalTransactionId
         /\ Up(x) % Modulus >= FirstNormalTransactionId
         /\ \A y \in Nat : y >= x /\ y % Modulus >= FirstNormalTransactionId => Up(x) <= y
<1> DEFINE r == x % Modulus
<1>1. r \in 0..Modulus - 1 /\ Modulus > 8 /\ Modulus \in Nat
  BY DivMod, TransactionIdAssumption
<1>2. CASE r >= 3
  BY <1>1, <1>2 DEF Up, XidFromFullTransactionId, FirstNormalTransactionId
<1>3. CASE r < 3
  <2>1. Up(x) = x + (3 - r)
    BY <1>1, <1>3 DEF Up, XidFromFullTransactionId, FirstNormalTransactionId
  <2>2. \A k \in 0..3 - r : (x + k) % Modulus = r + k
    <3> SUFFICES ASSUME NEW k \in 0..3 - r PROVE (x + k) % Modulus = r + k
      OBVIOUS
    <3>1. r + k \in 0..Modulus - 1 /\ k \in Int
      BY <1>1, <1>3
    <3> QED BY <3>1, ModAdd
  <2>3. (x + (3 - r)) % Modulus = 3
    <3>1. 3 - r \in 0..3 - r /\ r + (3 - r) = 3
      BY <1>1, <1>3
    <3>2. (x + (3 - r)) % Modulus = r + (3 - r)
      BY <2>2, <3>1
    <3> QED BY <3>1, <3>2
  <2>4. ASSUME NEW y \in Nat, y >= x, y % Modulus >= 3 PROVE Up(x) <= y
    <3> SUFFICES ASSUME y < x + (3 - r) PROVE FALSE
      BY <1>1, <2>1
    <3>1. y - x \in 0..3 - r /\ x + (y - x) = y
      BY <1>1, <2>4
    <3>2. y % Modulus = r + (y - x)
      BY <2>2, <3>1
    <3> QED BY <1>1, <2>4, <3>2
  <2> QED BY <1>1, <1>3, <2>1, <2>3, <2>4 DEF FirstNormalTransactionId
<1> QED BY <1>1, <1>2, <1>3

\* FullTransactionIdAdvance of an id that is not below the normal ones.
LEMMA AdvanceNormal ==
  ASSUME NEW x \in Nat, x >= FirstNormalTransactionId - 1
  PROVE  FullTransactionIdAdvance(x) = Up(x + 1)
BY DEF FullTransactionIdAdvance, FullTransactionIdIsNormal, FirstNormalTransactionId

\* The next id after a normal one, in 32 bits as in full, and back.
LEMMA AdvanceAgrees ==
  ASSUME NEW x \in Nat, x >= FirstNormalTransactionId,
         x % Modulus >= FirstNormalTransactionId
  PROVE  /\ FullTransactionIdAdvance(x) % Modulus = TransactionIdAdvance(x % Modulus)
         /\ TransactionIdRetreat(TransactionIdAdvance(x % Modulus)) = x % Modulus
<1> DEFINE r == x % Modulus
<1>1. r \in 0..Modulus - 1 /\ Modulus > 8 /\ Modulus \in Nat
  BY DivMod, TransactionIdAssumption
<1>2. FullTransactionIdAdvance(x) = Up(x + 1)
  BY AdvanceNormal DEF FirstNormalTransactionId
<1>3. (x + 1) % Modulus = (r + 1) % Modulus
  BY ModAdd
<1>4. CASE r + 1 < Modulus
  <2>1. (r + 1) % Modulus = r + 1
    BY <1>1, <1>4, ModSmall
  <2>2. r % Modulus = r
    BY <1>1, ModSmall
  <2>3. TransactionIdAdvance(r) = r + 1
    BY <1>1, <2>1 DEF TransactionIdAdvance, FirstNormalTransactionId
  <2>4. TransactionIdRetreat(r + 1) = r
    BY <1>1, <2>2 DEF TransactionIdRetreat, FirstNormalTransactionId
  <2>5. Up(x + 1) = x + 1
    BY <1>1, <1>3, <2>1 DEF Up, XidFromFullTransactionId, FirstNormalTransactionId
  <2> QED BY <1>2, <1>3, <2>1, <2>3, <2>4, <2>5
<1>5. CASE r + 1 = Modulus
  <2>1. Modulus % Modulus = 0
    <3>1. (Modulus * 1 + 0) % Modulus = 0
      BY <1>1, ModUnique
    <3> QED BY <1>1, <3>1
  <2>2. TransactionIdAdvance(r) = 3
    BY <1>5, <2>1 DEF TransactionIdAdvance, FirstNormalTransactionId
  <2>3. 2 % Modulus = 2 /\ 3 % Modulus = 3
    BY <1>1, ModSmall
  <2>4. TransactionIdRetreat(3) = r
    BY <1>1, <1>5, <2>3 DEF TransactionIdRetreat, FirstNormalTransactionId
  <2>5. Up(x + 1) = (x + 1) + 3
    BY <1>1, <1>3, <1>5, <2>1 DEF Up, XidFromFullTransactionId, FirstNormalTransactionId
  <2>6. ((x + 1) + 3) % Modulus = 3
    <3> DEFINE z == x + 1
    <3>1. z \in Int /\ z % Modulus = 0 /\ (z % Modulus) + 3 \in 0..Modulus - 1
      BY <1>1, <1>3, <1>5, <2>1
    <3> HIDE DEF z
    <3>2. (z + 3) % Modulus = (z % Modulus) + 3
      BY <3>1, ModAdd
    <3>3. (z + 3) % Modulus = 3
      BY <3>1, <3>2
    <3> QED BY <3>3 DEF z
  <2> QED BY <1>2, <2>2, <2>4, <2>5, <2>6
<1> QED BY <1>1, <1>4, <1>5

\* After a restart: the id before the next one.
LEMMA RetreatAgrees ==
  ASSUME NEW x \in Nat, x >= FirstNormalTransactionId,
         x % Modulus >= FirstNormalTransactionId
  PROVE  LET y == FullTransactionIdRetreat(x)
         IN /\ y \in Nat /\ y < x /\ FullTransactionIdAdvance(y) = x
            /\ x > FirstNormalTransactionId =>
                 /\ y % Modulus >= FirstNormalTransactionId
                 /\ TransactionIdRetreat(x % Modulus) = y % Modulus
<1> DEFINE r == x % Modulus
<1>1. r \in 0..Modulus - 1 /\ Modulus > 8 /\ Modulus \in Nat /\ r >= 3 /\ x >= 3
  BY DivMod, TransactionIdAssumption DEF FirstNormalTransactionId
<1>2. (x - 1) % Modulus = r - 1
  <2>1. r + (-1) \in 0..Modulus - 1
    BY <1>1
  <2>2. (x + (-1)) % Modulus = r + (-1)
    BY <2>1, ModAdd
  <2> QED BY <1>1, <2>2
<1>3. (r - 1) % Modulus = r - 1
  BY <1>1, ModSmall
<1>4. CASE x = 3
  <2>1. FullTransactionIdRetreat(x) = 2
    BY <1>4 DEF FullTransactionIdRetreat, FullTransactionIdIsNormal, FirstNormalTransactionId
  <2>2. FullTransactionIdAdvance(2) = Up(3)
    BY AdvanceNormal DEF FirstNormalTransactionId
  <2>3. Up(3) = 3
    BY <1>1, <1>4 DEF Up, XidFromFullTransactionId, FirstNormalTransactionId
  <2> QED BY <1>4, <2>1, <2>2, <2>3 DEF FirstNormalTransactionId
<1>5. CASE x > 3 /\ r > 3
  <2>1. FullTransactionIdRetreat(x) = x - 1
    BY <1>1, <1>2, <1>5 DEF FullTransactionIdRetreat, FullTransactionIdIsNormal, Down,
                            XidFromFullTransactionId, FirstNormalTransactionId
  <2>2. FullTransactionIdAdvance(x - 1) = Up(x)
    <3>1. x - 1 \in Nat /\ x - 1 >= 3 - 1 /\ (x - 1) + 1 = x
      BY <1>5
    <3> QED BY <3>1, AdvanceNormal DEF FirstNormalTransactionId
  <2>3. Up(x) = x
    BY <1>1 DEF Up, XidFromFullTransactionId, FirstNormalTransactionId
  <2>4. TransactionIdRetreat(r) = r - 1
    BY <1>1, <1>3, <1>5 DEF TransactionIdRetreat, FirstNormalTransactionId
  <2> QED BY <1>1, <1>2, <1>5, <2>1, <2>2, <2>3, <2>4 DEF FirstNormalTransactionId
<1>6. CASE x > 3 /\ r = 3
  <2>1. FullTransactionIdRetreat(x) = x - 4
    BY <1>1, <1>2, <1>6 DEF FullTransactionIdRetreat, FullTransactionIdIsNormal, Down,
                            XidFromFullTransactionId, FirstNormalTransactionId
  <2>2. x >= Modulus
    BY <1>1, <1>6, ModSmall
  <2>3. (x - 3) % Modulus = 0
    <3>1. r + (-3) \in 0..Modulus - 1
      BY <1>1
    <3>2. (x + (-3)) % Modulus = r + (-3)
      BY <3>1, ModAdd
    <3> QED BY <1>1, <1>6, <3>2
  <2>4. FullTransactionIdAdvance(x - 4) = Up(x - 3)
    <3>1. x - 4 \in Nat /\ x - 4 >= 3 - 1 /\ (x - 4) + 1 = x - 3
      BY <1>1, <2>2
    <3> QED BY <3>1, AdvanceNormal DEF FirstNormalTransactionId
  <2>5. Up(x - 3) = x
    BY <1>1, <2>3 DEF Up, XidFromFullTransactionId, FirstNormalTransactionId
  <2>6. (x - 4) % Modulus = Modulus - 1
    <3>1. (-1) % Modulus = Modulus - 1
      <4>1. (Modulus * (-1) + (Modulus - 1)) % Modulus = Modulus - 1
        BY <1>1, ModUnique
      <4>2. Modulus * (-1) + (Modulus - 1) = -1
        BY <1>1, SMT
      <4> QED BY <4>1, <4>2
    <3>2. ((x - 3) + (-1)) % Modulus = (0 + (-1)) % Modulus
      <4> DEFINE z == x - 3
      <4>1. z \in Int /\ -1 \in Int /\ z % Modulus = 0
        BY <1>1, <2>3
      <4> HIDE DEF z
      <4>2. (z + (-1)) % Modulus = ((z % Modulus) + (-1)) % Modulus
        BY <4>1, ModAdd
      <4> QED BY <4>1, <4>2 DEF z
    <3>3. (x - 3) + (-1) = x - 4 /\ 0 + (-1) = -1
      BY <1>1
    <3> QED BY <3>1, <3>2, <3>3
  <2>7. TransactionIdRetreat(r) = Modulus - 1
    BY <1>1, <1>3, <1>6 DEF TransactionIdRetreat, FirstNormalTransactionId
  <2> QED BY <1>1, <2>1, <2>2, <2>4, <2>5, <2>6, <2>7 DEF FirstNormalTransactionId
<1> QED BY <1>1, <1>4, <1>5, <1>6

\* The invariant.
LEMMA IdsInvariant == XidSpec => []XidInv
<1> USE TransactionIdAssumption
<1>1. XidInit => XidInv
  <2>1. 3 % Modulus = 3
    BY ModSmall
  <2> QED BY <2>1, HalfModulus DEF XidInit, XidInv, FirstNormalTransactionId,
                                   InvalidFullTransactionId
<1>2. XidInv /\ [XidNext]_xidVars => XidInv'
  <2> SUFFICES ASSUME XidInv, [XidNext]_xidVars PROVE XidInv'
    OBVIOUS
  <2>0. nextFullXid \in Nat /\ nextFullXid >= 3 /\ nextFullXid % Modulus >= 3
    BY DEF XidInv, FirstNormalTransactionId
  <2>1. CASE StartUp
    <3> DEFINE y == FullTransactionIdRetreat(nextFullXid)
    <3>1. /\ y \in Nat /\ y < nextFullXid /\ FullTransactionIdAdvance(y) = nextFullXid
          /\ nextFullXid > FirstNormalTransactionId =>
               /\ y % Modulus >= FirstNormalTransactionId
               /\ TransactionIdRetreat(nextFullXid % Modulus) = y % Modulus
      BY <2>0, RetreatAgrees DEF FirstNormalTransactionId
    <3>2. /\ latest' = y /\ nextXid' = nextXid /\ nextFullXid' = nextFullXid
          /\ oldestXid' = oldestXid
      BY <2>1 DEF StartUp
    <3> HIDE DEF y
    <3> QED BY <3>1, <3>2 DEF XidInv
  <2>2. CASE Stop
    BY <2>2 DEF Stop, XidInv, InvalidFullTransactionId
  <2>3. CASE AssignXid
    <3> DEFINE y == FullTransactionIdAdvance(nextFullXid)
               r == nextFullXid % Modulus
    <3>1. /\ latest' = nextFullXid /\ nextXid' = TransactionIdAdvance(r) /\ nextFullXid' = y
          /\ oldestXid' = oldestXid
          /\ nextFullXid + 1 < oldestXid + HalfRange - 3
      BY <2>3 DEF AssignXid, XidInv, FirstNormalTransactionId, HalfRange
    <3>2. y = Up(nextFullXid + 1)
      BY <2>0, AdvanceNormal DEF FirstNormalTransactionId
    <3>3. /\ y \in nextFullXid + 1..nextFullXid + 1 + 3
          /\ y % Modulus >= 3
      BY <2>0, <3>2, UpNormal DEF FirstNormalTransactionId
    <3>4. y % Modulus = TransactionIdAdvance(r) /\ TransactionIdRetreat(TransactionIdAdvance(r)) = r
      BY <2>0, AdvanceAgrees DEF FirstNormalTransactionId
    <3>5. r \in Nat
      BY <2>0, DivMod
    <3> QED BY <2>0, <3>1, <3>3, <3>4, <3>5, HalfModulus DEF XidInv, FirstNormalTransactionId
  <2>4. CASE AdvanceOldest
    <3>1. /\ oldestXid < nextFullXid /\ oldestXid' = FullTransactionIdAdvance(oldestXid)
          /\ nextXid' = nextXid /\ nextFullXid' = nextFullXid /\ latest' = latest
      BY <2>4 DEF AdvanceOldest
    <3>2. oldestXid' = Up(oldestXid + 1)
      BY <3>1, AdvanceNormal DEF XidInv, FirstNormalTransactionId
    <3>3. /\ oldestXid' \in oldestXid + 1..oldestXid + 1 + 3
          /\ oldestXid' <= nextFullXid
      <4>1. oldestXid + 1 \in Nat /\ nextFullXid >= oldestXid + 1
        BY <3>1 DEF XidInv
      <4> QED BY <2>0, <3>2, <4>1, UpNormal DEF FirstNormalTransactionId
    <3> QED BY <3>1, <3>3, HalfModulus DEF XidInv, FirstNormalTransactionId
  <2>5. CASE UNCHANGED xidVars
    BY <2>5 DEF xidVars, XidInv
  <2> QED BY <2>1, <2>2, <2>3, <2>4, <2>5 DEF XidNext
<1> QED BY <1>1, <1>2, PTL DEF XidSpec

\* What is subtracted from an integer is subtracted from its residue, and the other way
\* round.
LEMMA ModDifference ==
  ASSUME NEW x \in Int, NEW y \in Int
  PROVE  ((x % Modulus) - (y % Modulus)) % Modulus = (x - y) % Modulus
<1> DEFINE r == x % Modulus
           s == y % Modulus
           p == x \div Modulus
           q == y \div Modulus
           k == (r - s) \div Modulus
           t == (r - s) % Modulus
           a == Modulus * p
           b == Modulus * q
           c == Modulus * k
           g == k + (p - q)
<1>1. /\ p \in Int /\ r \in 0..Modulus - 1 /\ x = a + r
      /\ q \in Int /\ s \in 0..Modulus - 1 /\ y = b + s
  BY DivMod
<1> HIDE DEF p, q, r, s
<1>2. r - s \in Int
  BY <1>1, HalfModulus
<1>3. k \in Int /\ t \in 0..Modulus - 1 /\ r - s = c + t
  BY <1>2, DivMod
<1> HIDE DEF k, t
<1>4. /\ a \in Int /\ b \in Int /\ c \in Int /\ g \in Int
      /\ Modulus * g = c + (a - b)
  BY <1>1, <1>3, HalfModulus, SMT
<1> HIDE DEF a, b, c, g
<1>5. x - y = Modulus * g + t
  BY <1>1, <1>3, <1>4, HalfModulus
<1>6. (x - y) % Modulus = t
  BY <1>3, <1>4, <1>5, ModUnique
<1> QED BY <1>6 DEF t, r, s

\* Ids less than half of all apart compare like their residues.
LEMMA Compare ==
  ASSUME NEW x \in Nat, NEW y \in Nat, x - y < HalfRange, y - x < HalfRange
  PROVE  /\ NormalTransactionIdPrecedes(x % Modulus, y % Modulus) <=> x < y
         /\ NormalTransactionIdFollows(x % Modulus, y % Modulus) <=> x > y
<1> DEFINE e == (x - y) % Modulus
<1>1. ((x % Modulus) - (y % Modulus)) % Modulus = e
  BY ModDifference
<1>2. CASE x >= y
  <2>1. e = x - y
    <3>1. x - y \in 0..Modulus - 1
      BY <1>2, HalfModulus
    <3> QED BY <3>1, ModSmall
  <2> QED BY <1>1, <1>2, <2>1, HalfModulus
          DEF NormalTransactionIdPrecedes, NormalTransactionIdFollows, HalfRange
<1>3. CASE x < y
  <2>1. e = Modulus + (x - y)
    <3>1. Modulus + (x - y) \in 0..Modulus - 1
      BY <1>3, HalfModulus
    <3>2. (Modulus * (-1) + (Modulus + (x - y))) % Modulus = Modulus + (x - y)
      BY <3>1, ModUnique
    <3>3. Modulus * (-1) + (Modulus + (x - y)) = x - y
      BY HalfModulus, SMT
    <3> QED BY <3>2, <3>3
  <2> QED BY <1>1, <1>3, <2>1, HalfModulus
          DEF NormalTransactionIdPrecedes, NormalTransactionIdFollows, HalfRange
<1> QED BY <1>2, <1>3

\* Of two ids in use the one that was assigned first precedes the other, and the other
\* one follows it, for every even number of ids.
THEOREM OrderAlwaysKept == XidSpec => []OrderKept
<1>1. XidInv => OrderKept
  <2> SUFFICES ASSUME XidInv, NEW x \in InUse, NEW y \in InUse
               PROVE  /\ NormalTransactionIdPrecedes(x % Modulus, y % Modulus) <=> x < y
                      /\ NormalTransactionIdFollows(x % Modulus, y % Modulus) <=> x > y
    BY DEF OrderKept, XidFromFullTransactionId
  <2>1. x \in Nat /\ y \in Nat /\ x - y < HalfRange /\ y - x < HalfRange
    BY HalfModulus DEF InUse, XidInv
  <2> QED BY <2>1, Compare
<1> QED BY <1>1, IdsInvariant, PTL

\* The two counters stay the same id through every wrap, and a retreat finds the id that
\* was assigned last, or so many ids before.
THEOREM CountersAlwaysAgree == XidSpec => []CountersAgree
<1>1. XidInv => CountersAgree
  <2> SUFFICES ASSUME XidInv PROVE CountersAgree
    OBVIOUS
  <2>1. ASSUME NEW x \in InUse
        PROVE  TransactionIdRetreatedBy(nextXid, nextFullXid - x) = x % Modulus
    <3>1. x \in Nat /\ nextFullXid \in Nat /\ nextFullXid - x \in Nat /\ x % Modulus >= 3
      BY DEF InUse, XidInv, XidFromFullTransactionId, FirstNormalTransactionId
    <3> DEFINE k == x - nextFullXid
               r == nextFullXid % Modulus
    <3>2. (nextFullXid + k) % Modulus = (r + k) % Modulus
      BY <3>1, ModAdd
    <3>3. r \in Int /\ nextFullXid + k = x /\ r + k = r - (nextFullXid - x)
      <4>1. r \in Int
        BY <3>1, DivMod, HalfModulus
      <4> HIDE DEF r
      <4> QED BY <3>1, <4>1
    <3>4. (r - (nextFullXid - x)) % Modulus = x % Modulus
      BY <3>2, <3>3
    <3>5. nextXid = r
      BY DEF XidInv
    <3>6. (nextXid - (nextFullXid - x)) % Modulus = x % Modulus
      BY <3>4, <3>5
    <3>7. x % Modulus \in Nat /\ ~(x % Modulus < FirstNormalTransactionId)
      BY <3>1, DivMod, HalfModulus DEF FirstNormalTransactionId
    <3> QED BY <3>6, <3>7 DEF TransactionIdRetreatedBy
  <2> QED BY <2>1 DEF CountersAgree, XidInv, XidFromFullTransactionId
<1> QED BY <1>1, IdsInvariant, PTL

=============================================================================
