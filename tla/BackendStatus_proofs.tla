------------------------ MODULE BackendStatus_proofs ------------------------
(***************************************************************************)
(* For every set of members, values and readers, and every width of        *)
(* st_changecount: a copy that the reader's loop accepts is not torn.      *)
(***************************************************************************)
EXTENDS BackendStatus, Integers, SequenceTheorems, TLAPS

(***************************************************************************)
(* The inductive invariant.  The epoch of a store tells between which two  *)
(* increments it was made, because the writer executes one barrier per     *)
(* increment; so what the waiting stores will make of memory can be        *)
(* compared with the history, for each update that is not in memory yet.   *)
(***************************************************************************)

\* The parity of st_changecount tells whether its owner is writing.
WriterInv ==
  /\ wpc = "idle" => seq % 2 = 0 /\ crit = 0
  /\ wpc = "writing" => seq % 2 = 1 /\ crit = 1
  /\ epoch = seq
  /\ Len(hist) = seq \div 2 + 1
  /\ vis <= seq

\* The increments that wait are vis + 1, ..., seq, each in its epoch.
CountInv ==
  /\ \A c \in pendCount : vis < c.num /\ c.num <= seq /\ c.epoch = 2 * (c.num \div 2)
  /\ \A n \in (vis + 1)..seq : [num |-> n, epoch |-> 2 * (n \div 2)] \in pendCount

\* The stores to members that wait belong to updates that memory does not
\* show as finished.
FieldInv ==
  \A p \in pendField : p.epoch % 2 = 1 /\ vis <= p.epoch /\ p.epoch <= seq

\* Once the stores of pf made in epochs before n have reached memory m, f
\* holds v.
Holds(pf, m, f, n, v) ==
  \/ /\ \A p \in pf : p.fld = f => p.epoch >= n
     /\ m[f] = v
  \/ \E p \in pf :
       /\ p.fld = f /\ p.epoch < n /\ p.val = v
       /\ \A q \in pf : q.fld = f /\ q.epoch < n /\ q # p => q.epoch < p.epoch

ContentInv ==
  /\ \A f \in Fields : Holds(pendField, mem, f, seq + 1, cur[f])
  /\ \A k \in 0..seq : vis <= 2 * k /\ 2 * k <= seq =>
       \A f \in Fields : Holds(pendField, mem, f, 2 * k, hist[k + 1][f])

BeforeLoad == [kind |-> "before"]
AfterLoad == [kind |-> "after"]
FieldLoad(f) == [kind |-> "field", fld |-> f]

\* Member f of r's copy is the one the count read first promises.
Good(r, f) == \A k \in 0..before[r] : before[r] = 2 * k => copy[r][f] = hist[k + 1][f]

ReaderInv(r) ==
  /\ rst[r] = "reading" /\ BeforeLoad \in ld[r] => ld[r] = Loads
  /\ rst[r] = "reading" /\ BeforeLoad \notin ld[r] => before[r] <= vis
  /\ rst[r] = "reading" /\ BeforeLoad \notin ld[r] /\ before[r] = vis =>
       \A f \in Fields : FieldLoad(f) \notin ld[r] => Good(r, f)
  /\ rst[r] = "reading" /\ AfterLoad \notin ld[r] =>
       /\ ld[r] = {}
       /\ before[r] <= after[r] /\ after[r] <= vis
       /\ before[r] = after[r] => \A f \in Fields : Good(r, f)
  /\ rst[r] = "accepted" =>
       /\ Complete(r)
       /\ before[r] <= after[r] /\ after[r] <= vis
       /\ before[r] = after[r] => \A f \in Fields : Good(r, f)

IInv == /\ TypeOK /\ WriterInv /\ CountInv /\ FieldInv /\ ContentInv
        /\ \A r \in Readers : ReaderInv(r)

-----------------------------------------------------------------------------

\* A wait for parity: arithmetic on even and odd counts.
LEMMA Parity ==
  ASSUME NEW n \in Nat
  PROVE  /\ n % 2 = 0 => n = 2 * (n \div 2)
         /\ n % 2 = 1 => n = 2 * (n \div 2) + 1
         /\ n % 2 \in {0, 1}
         /\ n \div 2 \in Nat
BY SMT

\* Two counts less than a wrap apart are equal if their low bits are.
LEMMA NoWrap ==
  ASSUME NEW a \in Nat, NEW b \in Nat, a <= b, b - a < Modulus, Wrap(a) = Wrap(b)
  PROVE  a = b
<1>1. Modulus \in Nat /\ Modulus > 0
  BY ModulusAssumption, SMT
<1>2. a = Modulus * (a \div Modulus) + Wrap(a) /\ a \div Modulus \in Int
  BY <1>1, SMT DEF Wrap
<1>3. b = Modulus * (b \div Modulus) + Wrap(b) /\ b \div Modulus \in Int
  BY <1>1, SMT DEF Wrap
<1> DEFINE qa == a \div Modulus
           qb == b \div Modulus
           d == qb - qa
<1>4. qa \in Int /\ qb \in Int /\ d \in Int /\ Wrap(a) \in Int
  BY <1>1, <1>2, <1>3, SMT DEF Wrap
<1> HIDE DEF qa, qb
<1>5. b - a = Modulus * d
  <2>1. \A m, x, y \in Int : m * y - m * x = m * (y - x)
    BY SMT
  <2>2. b - a = Modulus * qb - Modulus * qa
    BY <1>1, <1>2, <1>3, <1>4, SMT DEF qa, qb
  <2> QED
    BY <1>1, <1>4, <2>1, <2>2, SMT
<1>6. \A m, x \in Int : m > 0 /\ x >= 1 => m * x >= m
  BY SMT
<1>7. \A m, x \in Int : m > 0 /\ x <= -1 => m * x < 0
  BY SMT
<1> HIDE DEF d
<1>8. d = 0
  BY <1>1, <1>4, <1>5, <1>6, <1>7, SMT
<1> QED
  BY <1>1, <1>5, <1>8, SMT

\* Wrapping keeps the parity of a count.
LEMMA WrapParity ==
  ASSUME NEW a \in Nat
  PROVE  Wrap(a) % 2 = a % 2
<1>1. Modulus \in Nat /\ Modulus > 0 /\ Modulus % 2 = 0
  BY ModulusAssumption, SMT
<1>2. PICK h \in Nat : Modulus = 2 * h
  BY <1>1, SMT
<1>3. a = Modulus * (a \div Modulus) + Wrap(a) /\ a \div Modulus \in Nat /\ Wrap(a) \in Nat
  BY <1>1, SMT DEF Wrap
<1> QED
  BY <1>2, <1>3, SMT

\* Holds depends on the waiting stores of its member and epochs only.
LEMMA HoldsSame ==
  ASSUME NEW pf, NEW qf, NEW m, NEW m2, NEW f, NEW n \in Nat, NEW n2 \in Nat, NEW v,
         \A p \in pf : p.epoch \in Nat, \A p \in qf : p.epoch \in Nat,
         \A p \in pf : p.fld = f /\ p.epoch < n => p \in qf /\ p.epoch < n2,
         \A p \in qf : p.fld = f /\ p.epoch < n2 => p \in pf /\ p.epoch < n,
         m[f] = m2[f], Holds(pf, m, f, n, v)
  PROVE  Holds(qf, m2, f, n2, v)
BY DEF Holds

\* The last waiting store of a member is what Holds promises.
LEMMA HoldsLast ==
  ASSUME NEW pf, NEW p \in pf, NEW m, NEW n \in Nat, p.epoch < n,
         \A q \in pf : q.fld = p.fld /\ q # p => q.epoch < p.epoch
  PROVE  Holds(pf, m, p.fld, n, p.val)
BY DEF Holds

\* A drained store was the first of those that Holds looks at.
LEMMA HoldsDrain ==
  ASSUME NEW pf, NEW p \in pf, NEW m, NEW m2, NEW n \in Nat, NEW v,
         \A q \in pf : q.epoch \in Nat /\ q.epoch >= p.epoch,
         p.epoch < n, m2[p.fld] = p.val, Holds(pf, m, p.fld, n, v)
  PROVE  Holds(pf \ {p}, m2, p.fld, n, v)
BY DEF Holds

-----------------------------------------------------------------------------
(* Shared memory as it is created satisfies the invariant. *)

LEMMA InitIInv == Init => IInv
<1> SUFFICES ASSUME Init PROVE IInv
  OBVIOUS
<1>1. TypeOK
  BY EntryAssumption DEF Init, TypeOK
<1>2. WriterInv /\ CountInv /\ FieldInv
  BY DEF Init, WriterInv, CountInv, FieldInv
<1>3. ContentInv
  BY DEF Init, ContentInv, Holds
<1>4. \A r \in Readers : ReaderInv(r)
  BY DEF Init, ReaderInv
<1> QED
  BY <1>1, <1>2, <1>3, <1>4 DEF IInv

LEMMA RestartIInv == Restart => IInv'
<1> SUFFICES ASSUME Restart PROVE IInv'
  OBVIOUS
<1>1. TypeOK'
  BY EntryAssumption DEF Restart, TypeOK
<1>2. WriterInv' /\ CountInv' /\ FieldInv'
  BY DEF Restart, WriterInv, CountInv, FieldInv
<1>3. ContentInv'
  BY DEF Restart, ContentInv, Holds
<1>4. \A r \in Readers : ReaderInv(r)'
  BY DEF Restart, ReaderInv
<1> QED
  BY <1>1, <1>2, <1>3, <1>4 DEF IInv

-----------------------------------------------------------------------------
(* The writer's steps. *)

LEMMA BeginWriteIInv == IInv /\ BeginWrite => IInv'
<1> SUFFICES ASSUME IInv, BeginWrite PROVE IInv'
  OBVIOUS
<1> USE DEF BeginWrite, readerVars
<1>0. /\ seq \in Nat /\ vis \in Nat /\ epoch = seq /\ seq % 2 = 0 /\ vis <= seq
      /\ pendField \subseteq [fld : Fields, val : Values, epoch : Nat]
      /\ pendCount \subseteq [num : Nat, epoch : Nat]
  BY DEF IInv, TypeOK, WriterInv
<1>1. TypeOK'
  BY DEF IInv, TypeOK
<1>2. WriterInv'
  BY DEF IInv, TypeOK, WriterInv
<1>3. CountInv'
  <2>1. 2 * ((seq + 1) \div 2) = seq
    BY <1>0, SMT
  <2>2. \A c \in pendCount : vis < c.num /\ c.num <= seq + 1 /\ c.epoch = 2 * (c.num \div 2)
    BY <1>0 DEF IInv, CountInv
  <2>3. \A c \in pendCount' :
           vis' < c.num /\ c.num <= seq' /\ c.epoch = 2 * (c.num \div 2)
    <3> SUFFICES ASSUME NEW c \in pendCount'
                 PROVE  vis < c.num /\ c.num <= seq + 1 /\ c.epoch = 2 * (c.num \div 2)
      OBVIOUS
    <3>1. CASE c \in pendCount
      BY <2>2, <3>1
    <3>2. CASE c = [num |-> seq + 1, epoch |-> epoch]
      <4>1. c.num = seq + 1 /\ c.epoch = seq
        BY <1>0, <3>2
      <4> QED
        BY <1>0, <2>1, <4>1
    <3> QED
      BY <3>1, <3>2
  <2>4. \A n \in (vis + 1)..(seq + 1) : [num |-> n, epoch |-> 2 * (n \div 2)] \in pendCount'
    <3> SUFFICES ASSUME NEW n \in (vis + 1)..(seq + 1)
                 PROVE  [num |-> n, epoch |-> 2 * (n \div 2)] \in pendCount'
      OBVIOUS
    <3>1. CASE n = seq + 1
      <4>1. [num |-> n, epoch |-> 2 * (n \div 2)] = [num |-> seq + 1, epoch |-> epoch]
        BY <1>0, <2>1, <3>1
      <4> QED
        BY <4>1
    <3>2. CASE n # seq + 1
      <4>1. n \in (vis + 1)..seq
        BY <1>0, <3>2
      <4> QED
        BY <4>1 DEF IInv, CountInv
    <3> QED
      BY <3>1, <3>2
  <2> QED
    BY <2>3, <2>4 DEF CountInv
<1>4. FieldInv'
  <2> SUFFICES ASSUME NEW p \in pendField
               PROVE  p.epoch % 2 = 1 /\ vis <= p.epoch /\ p.epoch <= seq + 1
    BY DEF FieldInv
  <2>1. p.epoch \in Nat /\ p.epoch % 2 = 1 /\ vis <= p.epoch /\ p.epoch <= seq
    BY <1>0 DEF IInv, FieldInv
  <2> QED
    BY <1>0, <2>1
<1>5. ContentInv'
  <2>1. \A p \in pendField : p.epoch \in Nat /\ p.epoch <= seq
    BY <1>0 DEF IInv, FieldInv
  <2>a. /\ seq' = seq + 1 /\ cur' = cur /\ pendField' = pendField
        /\ mem' = mem /\ vis' = vis /\ hist' = hist
    OBVIOUS
  <2> HIDE DEF BeginWrite
  <2>2. ASSUME NEW f \in Fields
        PROVE  Holds(pendField, mem, f, seq + 2, cur[f])
    <3>1. /\ seq + 1 \in Nat /\ seq + 2 \in Nat
          /\ \A p \in pendField : p.epoch < seq + 1 /\ p.epoch < seq + 2
      BY <1>0, <2>1
    <3>2. Holds(pendField, mem, f, seq + 1, cur[f])
      BY DEF IInv, ContentInv
    <3> QED
      BY <2>1, <3>1, <3>2, HoldsSame
  <2>3. ASSUME NEW k \in 0..(seq + 1), vis <= 2 * k, 2 * k <= seq + 1, NEW f \in Fields
        PROVE  Holds(pendField, mem, f, 2 * k, hist[k + 1][f])
    <3>1. k \in 0..seq /\ 2 * k <= seq
      BY <1>0, <2>3
    <3> QED
      BY <2>3, <3>1 DEF IInv, ContentInv
  <2>4. \A f \in Fields : Holds(pendField', mem', f, seq' + 1, cur'[f])
    <3>1. seq' + 1 = seq + 2
      BY <1>0, <2>a
    <3> QED
      BY <2>2, <2>a, <3>1
  <2>5. \A k \in 0..seq' : vis' <= 2 * k /\ 2 * k <= seq' =>
          \A f \in Fields : Holds(pendField', mem', f, 2 * k, hist'[k + 1][f])
    BY <2>3, <2>a
  <2> QED
    BY <2>4, <2>5 DEF ContentInv
<1>6. \A r \in Readers : ReaderInv(r)'
  BY DEF IInv, ReaderInv, Good, Complete
<1> QED
  BY <1>1, <1>2, <1>3, <1>4, <1>5, <1>6 DEF IInv

LEMMA StoreFieldIInv ==
  ASSUME NEW f \in Fields, NEW v \in Values, IInv, StoreField(f, v)
  PROVE  IInv'
<1> USE DEF StoreField, readerVars
<1>0. /\ seq \in Nat /\ vis \in Nat /\ epoch = seq /\ seq % 2 = 1 /\ vis <= seq
      /\ pendField \subseteq [fld : Fields, val : Values, epoch : Nat]
      /\ cur \in [Fields -> Values]
  BY DEF IInv, TypeOK, WriterInv
<1>1. TypeOK'
  BY DEF IInv, TypeOK
<1>2. WriterInv'
  BY DEF IInv, TypeOK, WriterInv
<1>3. CountInv'
  BY DEF IInv, TypeOK, WriterInv, CountInv
<1>4. FieldInv'
  BY DEF IInv, TypeOK, WriterInv, FieldInv
<1>5. ContentInv'
  <2>1. /\ \A p \in pendField : p.epoch \in Nat /\ p.epoch <= seq
        /\ \A p \in pendField' : p.epoch \in Nat /\ p.epoch <= seq
    BY <1>0 DEF IInv, FieldInv
  <2>2. ASSUME NEW g \in Fields
        PROVE  Holds(pendField', mem, g, seq + 1, cur'[g])
    <3>1. CASE g = f
      <4> DEFINE s == [fld |-> f, val |-> v, epoch |-> epoch]
      <4>1. s \in pendField' /\ s.fld = g /\ s.epoch = seq /\ s.val = cur'[g]
        BY <1>0, <3>1
      <4>2. \A q \in pendField' : q.fld = g /\ q # s => q.epoch < seq
        BY <1>0, <2>1, <3>1
      <4>3. seq + 1 \in Nat /\ s.epoch < seq + 1
        BY <1>0, <4>1
      <4> HIDE DEF s
      <4> QED
        BY <4>1, <4>2, <4>3, HoldsLast
    <3>2. CASE g # f
      <4>1. Holds(pendField, mem, g, seq + 1, cur[g])
        BY DEF IInv, ContentInv
      <4>2. cur'[g] = cur[g] /\ seq + 1 \in Nat
        BY <1>0, <3>2
      <4>3. \A p \in pendField : p.fld = g => p \in pendField'
        BY <3>2
      <4>4. \A p \in pendField' : p.fld = g => p \in pendField
        BY <3>2
      <4> QED
        BY <2>1, <4>1, <4>2, <4>3, <4>4, HoldsSame
    <3> QED
      BY <3>1, <3>2
  <2>3. ASSUME NEW k \in 0..seq, vis <= 2 * k, 2 * k <= seq, NEW g \in Fields
        PROVE  Holds(pendField', mem, g, 2 * k, hist[k + 1][g])
    <3>1. Holds(pendField, mem, g, 2 * k, hist[k + 1][g])
      BY <2>3 DEF IInv, ContentInv
    <3>2. 2 * k < seq /\ 2 * k \in Nat
      BY <1>0, <2>3
    <3>3. \A p \in pendField : p.epoch < 2 * k => p \in pendField'
      BY <1>0, <3>2
    <3>4. \A p \in pendField' : p.epoch < 2 * k => p \in pendField
      BY <1>0, <3>2
    <3> QED
      BY <2>1, <3>1, <3>2, <3>3, <3>4, HoldsSame
  <2> QED
    BY <2>2, <2>3 DEF ContentInv
<1>6. \A r \in Readers : ReaderInv(r)'
  BY DEF IInv, ReaderInv, Good, Complete
<1> QED
  BY <1>1, <1>2, <1>3, <1>4, <1>5, <1>6 DEF IInv

LEMMA EndWriteIInv == IInv /\ EndWrite => IInv'
<1> SUFFICES ASSUME IInv, EndWrite PROVE IInv'
  OBVIOUS
<1> USE DEF EndWrite, readerVars
<1>0. /\ seq \in Nat /\ vis \in Nat /\ epoch = seq /\ seq % 2 = 1 /\ vis <= seq
      /\ pendField \subseteq [fld : Fields, val : Values, epoch : Nat]
      /\ pendCount \subseteq [num : Nat, epoch : Nat]
      /\ hist \in Seq([Fields -> Values]) /\ cur \in [Fields -> Values]
      /\ Len(hist) = seq \div 2 + 1
  BY DEF IInv, TypeOK, WriterInv
<1>1. TypeOK'
  BY DEF IInv, TypeOK, WriterInv
<1>2. WriterInv'
  BY DEF IInv, TypeOK, WriterInv
<1>3. CountInv'
  <2>1. 2 * ((seq + 1) \div 2) = seq + 1
    <3>1. PICK k \in Nat : seq = 2 * k + 1
      BY <1>0, Parity
    <3>2. (2 * (k + 1)) \div 2 = k + 1
      BY SMT
    <3> QED
      BY <3>1, <3>2
  <2>2. \A c \in pendCount : vis < c.num /\ c.num <= seq + 1 /\ c.epoch = 2 * (c.num \div 2)
    BY <1>0 DEF IInv, CountInv
  <2>3. ASSUME NEW c \in pendCount'
        PROVE  vis < c.num /\ c.num <= seq + 1 /\ c.epoch = 2 * (c.num \div 2)
    <3>1. CASE c \in pendCount
      BY <2>2, <3>1
    <3>2. CASE c = [num |-> seq + 1, epoch |-> epoch + 1]
      <4>1. c.num = seq + 1 /\ c.epoch = seq + 1
        BY <1>0, <3>2
      <4> QED
        BY <1>0, <2>1, <4>1
    <3> QED
      BY <3>1, <3>2
  <2>4. ASSUME NEW n \in (vis + 1)..(seq + 1)
        PROVE  [num |-> n, epoch |-> 2 * (n \div 2)] \in pendCount'
    <3>1. CASE n = seq + 1
      <4>1. [num |-> n, epoch |-> 2 * (n \div 2)] = [num |-> seq + 1, epoch |-> epoch + 1]
        BY <1>0, <2>1, <3>1
      <4> QED
        BY <4>1
    <3>2. CASE n # seq + 1
      <4>1. n \in (vis + 1)..seq
        BY <1>0, <3>2
      <4> QED
        BY <4>1 DEF IInv, CountInv
    <3> QED
      BY <3>1, <3>2
  <2> QED
    BY <2>3, <2>4 DEF CountInv
<1>4. FieldInv'
  <2>1. \A p \in pendField : p.epoch \in Nat /\ p.epoch % 2 = 1 /\ vis <= p.epoch /\ p.epoch <= seq
    BY <1>0 DEF IInv, FieldInv
  <2> QED
    BY <1>0, <2>1 DEF FieldInv
<1>5. ContentInv'
  <2>1. \A p \in pendField : p.epoch \in Nat /\ p.epoch <= seq
    BY <1>0 DEF IInv, FieldInv
  <2>2. \A f \in Fields : Holds(pendField, mem, f, seq + 1, cur[f])
    BY DEF IInv, ContentInv
  <2>a. /\ seq' = seq + 1 /\ cur' = cur /\ pendField' = pendField
        /\ mem' = mem /\ vis' = vis /\ hist' = Append(hist, cur)
    OBVIOUS
  <2> HIDE DEF EndWrite
  <2>3. ASSUME NEW f \in Fields
        PROVE  Holds(pendField, mem, f, seq + 2, cur[f])
    <3>1. /\ seq + 1 \in Nat /\ seq + 2 \in Nat
          /\ \A p \in pendField : p.epoch < seq + 1 /\ p.epoch < seq + 2
      BY <1>0, <2>1
    <3> QED
      BY <2>1, <2>2, <3>1, HoldsSame
  <2>4. ASSUME NEW k \in 0..(seq + 1), vis <= 2 * k, 2 * k <= seq + 1, NEW f \in Fields
        PROVE  Holds(pendField, mem, f, 2 * k, hist'[k + 1][f])
    <3>1. CASE 2 * k = seq + 1
      <4>1. hist'[k + 1] = cur
        BY <1>0, <2>a, <3>1
      <4> QED
        BY <2>2, <3>1, <4>1
    <3>2. CASE 2 * k # seq + 1
      <4>1. 2 * k <= seq /\ k \in 0..seq /\ k + 1 \in 1..Len(hist)
        BY <1>0, <2>4, <3>2
      <4>2. hist'[k + 1] = hist[k + 1]
        BY <1>0, <2>a, <4>1
      <4> QED
        BY <2>4, <4>1, <4>2 DEF IInv, ContentInv
    <3> QED
      BY <3>1, <3>2
  <2>5. \A f \in Fields : Holds(pendField', mem', f, seq' + 1, cur'[f])
    <3>1. seq' + 1 = seq + 2
      BY <1>0, <2>a
    <3> QED
      BY <2>3, <2>a, <3>1
  <2>6. \A k \in 0..seq' : vis' <= 2 * k /\ 2 * k <= seq' =>
          \A f \in Fields : Holds(pendField', mem', f, 2 * k, hist'[k + 1][f])
    BY <2>4, <2>a
  <2> QED
    BY <2>5, <2>6 DEF ContentInv
<1>6. \A r \in Readers : ReaderInv(r)'
  BY DEF IInv, TypeOK, WriterInv, ReaderInv, Good, Complete
<1> QED
  BY <1>1, <1>2, <1>3, <1>4, <1>5, <1>6 DEF IInv

-----------------------------------------------------------------------------
(* The memory's steps. *)

LEMMA DrainFieldIInv ==
  ASSUME NEW p \in pendField, IInv, DrainField(p)
  PROVE  IInv'
<1> USE DEF DrainField, writerVars, readerVars
<1>0. /\ seq \in Nat /\ vis \in Nat /\ seq >= vis
      /\ pendField \subseteq [fld : Fields, val : Values, epoch : Nat]
      /\ mem \in [Fields -> Values]
  BY DEF IInv, TypeOK, WriterInv
<1>1. TypeOK'
  BY DEF IInv, TypeOK
<1>2. WriterInv'
  BY DEF IInv, TypeOK, WriterInv
<1>3. CountInv'
  BY DEF IInv, TypeOK, WriterInv, CountInv
<1>4. FieldInv'
  BY DEF IInv, TypeOK, WriterInv, FieldInv
<1>5. p.epoch \in Nat /\ p.epoch % 2 = 1 /\ vis <= p.epoch /\ p.epoch <= seq
  BY <1>0 DEF IInv, FieldInv
<1>6. vis = p.epoch
  <2> SUFFICES ASSUME vis < p.epoch PROVE FALSE
    BY <1>0, <1>5
  <2>1. p.epoch \in (vis + 1)..seq /\ 2 * (p.epoch \div 2) < p.epoch
    BY <1>0, <1>5
  <2>2. [num |-> p.epoch, epoch |-> 2 * (p.epoch \div 2)] \in pendCount
    BY <2>1 DEF IInv, CountInv
  <2>3. 2 * (p.epoch \div 2) >= p.epoch
    BY <2>2 DEF Oldest
  <2> QED
    BY <1>5, <2>1, <2>3
<1>7. ContentInv'
  <2>1. \A q \in pendField : q.epoch \in Nat /\ q.epoch >= p.epoch
    BY <1>0 DEF Oldest
  <2>2. ASSUME NEW f \in Fields, NEW n \in Nat, p.epoch < n, NEW v,
               Holds(pendField, mem, f, n, v)
        PROVE  Holds(pendField', mem', f, n, v)
    <3>1. CASE f = p.fld
      <4>1. mem'[p.fld] = p.val
        BY <1>0
      <4> QED
        BY <2>1, <2>2, <3>1, <4>1, HoldsDrain
    <3>2. CASE f # p.fld
      <4>1. mem'[f] = mem[f]
        BY <1>0, <3>2
      <4>2. /\ \A q \in pendField : q.fld = f => q \in pendField'
            /\ \A q \in pendField' : q \in pendField
        BY <3>2
      <4>3. /\ \A q \in pendField : q.fld = f /\ q.epoch < n => q \in pendField' /\ q.epoch < n
            /\ \A q \in pendField' : q.fld = f /\ q.epoch < n => q \in pendField /\ q.epoch < n
            /\ \A q \in pendField' : q.epoch \in Nat
        BY <2>1, <4>2
      <4> HIDE DEF DrainField
      <4> QED
        BY <2>1, <2>2, <4>1, <4>3, HoldsSame
    <3> QED
      BY <3>1, <3>2
  <2>3. ASSUME NEW f \in Fields
        PROVE  Holds(pendField', mem', f, seq + 1, cur[f])
    <3>1. seq + 1 \in Nat /\ p.epoch < seq + 1
      BY <1>0, <1>5
    <3>2. Holds(pendField, mem, f, seq + 1, cur[f])
      BY DEF IInv, ContentInv
    <3> QED
      BY <2>2, <3>1, <3>2
  <2>4. ASSUME NEW k \in 0..seq, vis <= 2 * k, 2 * k <= seq, NEW f \in Fields
        PROVE  Holds(pendField', mem', f, 2 * k, hist[k + 1][f])
    <3>1. 2 * k \in Nat /\ p.epoch < 2 * k
      BY <1>0, <1>5, <1>6, <2>4
    <3>2. Holds(pendField, mem, f, 2 * k, hist[k + 1][f])
      BY <2>4 DEF IInv, ContentInv
    <3> QED
      BY <2>2, <3>1, <3>2
  <2> QED
    BY <2>3, <2>4 DEF ContentInv
<1>8. \A r \in Readers : ReaderInv(r)'
  BY DEF IInv, ReaderInv, Good, Complete
<1> QED
  BY <1>1, <1>2, <1>3, <1>4, <1>7, <1>8 DEF IInv

LEMMA DrainCountIInv ==
  ASSUME NEW c \in pendCount, IInv, DrainCount(c)
  PROVE  IInv'
<1> USE DEF DrainCount, writerVars, readerVars
<1>a. /\ seq \in Nat /\ vis \in Nat /\ seq >= vis
      /\ pendField \subseteq [fld : Fields, val : Values, epoch : Nat]
      /\ pendCount \subseteq [num : Nat, epoch : Nat]
  BY DEF IInv, TypeOK, WriterInv
<1>b. /\ c.num \in Nat /\ vis < c.num /\ c.num <= seq /\ c.epoch = 2 * (c.num \div 2)
  BY <1>a DEF IInv, CountInv
<1>0. c.num = vis + 1
  <2>1. vis + 1 \in (vis + 1)..seq
    BY <1>a, <1>b
  <2>2. [num |-> vis + 1, epoch |-> 2 * ((vis + 1) \div 2)] \in pendCount
    BY <2>1 DEF IInv, CountInv
  <2>3. vis + 1 >= c.num
    BY <2>2
  <2> QED
    BY <1>a, <1>b, <2>3
<1>1. TypeOK'
  BY DEF IInv, TypeOK
<1>2. WriterInv'
  BY <1>0, <1>b DEF IInv, TypeOK, WriterInv
<1>3. CountInv'
  <2>1. ASSUME NEW d \in pendCount, d # c
        PROVE  vis + 1 < d.num /\ d.num <= seq /\ d.epoch = 2 * (d.num \div 2)
    <3>1. vis < d.num /\ d.num <= seq /\ d.epoch = 2 * (d.num \div 2) /\ d.num \in Nat
      BY <1>a DEF IInv, CountInv
    <3>2. d.num # vis + 1
      <4> SUFFICES ASSUME d.num = vis + 1 PROVE FALSE
        OBVIOUS
      <4>1. d.epoch = c.epoch /\ d.num = c.num
        BY <1>0, <1>b, <3>1
      <4> QED
        BY <1>a, <2>1, <4>1
    <3> QED
      BY <1>a, <3>1, <3>2
  <2>2. ASSUME NEW n \in (vis + 2)..seq
        PROVE  [num |-> n, epoch |-> 2 * (n \div 2)] \in pendCount \ {c}
    <3>1. n \in (vis + 1)..seq /\ n # c.num
      BY <1>a, <1>0
    <3>2. [num |-> n, epoch |-> 2 * (n \div 2)] \in pendCount
      BY <3>1 DEF IInv, CountInv
    <3> QED
      BY <3>1, <3>2
  <2> QED
    BY <1>a, <1>0, <2>1, <2>2 DEF CountInv
<1>4. FieldInv'
  <2> SUFFICES ASSUME NEW p \in pendField
               PROVE  p.epoch % 2 = 1 /\ vis + 1 <= p.epoch /\ p.epoch <= seq
    BY <1>0 DEF FieldInv
  <2>1. p.epoch \in Nat /\ p.epoch % 2 = 1 /\ vis <= p.epoch /\ p.epoch <= seq
    BY <1>a DEF IInv, FieldInv
  <2>2. p.epoch >= 2 * ((vis + 1) \div 2)
    BY <1>b, <1>0 DEF Oldest
  <2> QED
    BY <1>a, <2>1, <2>2
<1>5. ContentInv'
  BY <1>a, <1>0 DEF IInv, ContentInv
<1>6. \A r \in Readers : ReaderInv(r)'
  BY <1>0 DEF IInv, TypeOK, ReaderInv, Good, Complete
<1> QED
  BY <1>1, <1>2, <1>3, <1>4, <1>5, <1>6 DEF IInv

-----------------------------------------------------------------------------
(* An even count in memory, and what a member then holds. *)

LEMMA EvenContent ==
  ASSUME IInv, NEW k \in Nat, vis = 2 * k, NEW f \in Fields
  PROVE  mem[f] = hist[k + 1][f]
<1>1. seq \in Nat /\ vis <= seq /\ k \in 0..seq /\ 2 * k <= seq
  BY DEF IInv, TypeOK, WriterInv
<1>2. Holds(pendField, mem, f, 2 * k, hist[k + 1][f])
  BY <1>1 DEF IInv, ContentInv
<1>3. \A p \in pendField : p.epoch \in Nat /\ ~(p.epoch < 2 * k)
  BY DEF IInv, TypeOK, FieldInv
<1> QED
  BY <1>2, <1>3 DEF Holds

-----------------------------------------------------------------------------
(* The readers' steps. *)

\* A step of one reader disturbs nothing else.
LEMMA ReaderFrame ==
  ASSUME NEW r \in Readers, IInv, UNCHANGED <<writerVars, bufferVars>>,
         TypeOK', ReaderInv(r)',
         \A s \in Readers \ {r} :
           /\ rst'[s] = rst[s] /\ ld'[s] = ld[s] /\ before'[s] = before[s]
           /\ after'[s] = after[s] /\ copy'[s] = copy[s]
  PROVE  IInv'
<1> USE DEF writerVars, bufferVars
<1>1. WriterInv' /\ CountInv' /\ FieldInv'
  BY DEF IInv, WriterInv, CountInv, FieldInv
<1>2. ContentInv'
  BY DEF IInv, ContentInv
<1>3. ASSUME NEW s \in Readers, s # r PROVE ReaderInv(s)'
  BY <1>3 DEF IInv, ReaderInv, Good, Complete
<1> QED
  BY <1>1, <1>2, <1>3 DEF IInv

LEMMA LoadsDistinct ==
  /\ BeforeLoad \in Loads /\ AfterLoad \in Loads
  /\ \A f \in Fields : FieldLoad(f) \in Loads
  /\ \A l \in Loads : \/ l = BeforeLoad /\ l.kind = "before" /\ Segment(l) = 0
                      \/ l = AfterLoad /\ l.kind = "after" /\ Segment(l) = 2
                      \/ /\ l.kind = "field" /\ l.fld \in Fields
                         /\ l = FieldLoad(l.fld) /\ Segment(l) = 1
BY DEF Loads, BeforeLoad, AfterLoad, FieldLoad, Segment

LEMMA StartReadIInv ==
  ASSUME NEW r \in Readers, IInv, StartRead(r)
  PROVE  IInv'
<1> USE DEF StartRead
<1>1. TypeOK'
  BY DEF IInv, TypeOK, writerVars, bufferVars
<1>2. ReaderInv(r)'
  BY LoadsDistinct DEF IInv, TypeOK, ReaderInv
<1> QED
  BY <1>1, <1>2, ReaderFrame DEF IInv, TypeOK

LEMMA LoadBeforeIInv ==
  ASSUME NEW r \in Readers, IInv, LoadBefore(r)
  PROVE  IInv'
<1>0. /\ vis \in Nat /\ ld[r] \subseteq Loads
      /\ rst \in [Readers -> {"idle", "reading", "retry", "accepted"}]
      /\ ld \in [Readers -> SUBSET Loads] /\ before \in [Readers -> Nat]
  BY DEF IInv, TypeOK
<1>1. PICK l \in ld[r] : /\ l.kind = "before" /\ Executable(r, l) /\ rst[r] = "reading"
                         /\ before' = [before EXCEPT ![r] = vis]
                         /\ ld' = [ld EXCEPT ![r] = @ \ {l}]
                         /\ UNCHANGED <<rst, after, copy, writerVars, bufferVars>>
  BY DEF LoadBefore, Executable
<1>2. TypeOK'
  BY <1>1 DEF IInv, TypeOK, writerVars, bufferVars
<1>3. l = BeforeLoad /\ ld[r] = Loads
  BY <1>0, <1>1, LoadsDistinct DEF IInv, ReaderInv
<1>4. /\ before'[r] = vis /\ ld'[r] = Loads \ {BeforeLoad} /\ rst'[r] = "reading"
      /\ vis' = vis
  BY <1>0, <1>1, <1>3 DEF bufferVars
<1>5. AfterLoad \in ld'[r] /\ \A f \in Fields : FieldLoad(f) \in ld'[r]
  BY <1>4, LoadsDistinct DEF BeforeLoad, AfterLoad, FieldLoad
<1>6. ReaderInv(r)'
  BY <1>0, <1>4, <1>5 DEF ReaderInv
<1> QED
  BY <1>0, <1>1, <1>2, <1>6, ReaderFrame

LEMMA LoadFieldIInv ==
  ASSUME NEW r \in Readers, IInv, LoadField(r)
  PROVE  IInv'
<1>0. /\ vis \in Nat /\ ld[r] \subseteq Loads /\ mem \in [Fields -> Values]
      /\ rst \in [Readers -> {"idle", "reading", "retry", "accepted"}]
      /\ ld \in [Readers -> SUBSET Loads] /\ before \in [Readers -> Nat]
      /\ copy \in [Readers -> [Fields -> Values]]
  BY DEF IInv, TypeOK
<1>1. PICK l \in ld[r] : /\ l.kind = "field" /\ Executable(r, l) /\ rst[r] = "reading"
                         /\ copy' = [copy EXCEPT ![r][l.fld] = mem[l.fld]]
                         /\ ld' = [ld EXCEPT ![r] = @ \ {l}]
                         /\ UNCHANGED <<rst, before, after, writerVars, bufferVars>>
  BY DEF LoadField, Executable
<1>2. l.fld \in Fields /\ l = FieldLoad(l.fld) /\ Segment(l) = 1
  BY <1>0, <1>1, LoadsDistinct
<1>3. TypeOK'
  <2>1. copy' \in [Readers -> [Fields -> Values]]
    BY <1>0, <1>1, <1>2
  <2> QED
    BY <1>1, <2>1 DEF IInv, TypeOK, writerVars, bufferVars
<1>4. BeforeLoad \notin ld[r]
  <2>1. Segment(BeforeLoad) = 0
    BY DEF Segment, BeforeLoad
  <2> QED
    BY <1>1, <1>2, <2>1 DEF Executable
<1>5. AfterLoad \in ld[r]
  BY <1>1 DEF IInv, ReaderInv
<1>6. /\ rst'[r] = "reading" /\ vis' = vis /\ before'[r] = before[r]
      /\ ld'[r] = ld[r] \ {l} /\ AfterLoad \in ld'[r] /\ BeforeLoad \notin ld'[r]
      /\ hist' = hist
  BY <1>0, <1>1, <1>2, <1>4, <1>5 DEF AfterLoad, FieldLoad, writerVars, bufferVars
<1>7. before[r] <= vis
  BY <1>1, <1>4 DEF IInv, ReaderInv
<1>8. ASSUME before[r] = vis, NEW f \in Fields, FieldLoad(f) \notin ld'[r]
      PROVE  Good(r, f)'
  <2>1. CASE f = l.fld
    <3>1. copy'[r][f] = mem[f]
      BY <1>0, <1>1, <2>1
    <3>2. ASSUME NEW k \in 0..before[r], before[r] = 2 * k
          PROVE  copy'[r][f] = hist[k + 1][f]
      BY <1>0, <1>8, <3>1, <3>2, EvenContent
    <3> QED
      BY <1>6, <3>2 DEF Good
  <2>2. CASE f # l.fld
    <3>1. FieldLoad(f) # l
      BY <1>2, <2>2 DEF FieldLoad
    <3>2. FieldLoad(f) \notin ld[r]
      BY <1>6, <1>8, <3>1
    <3>3. Good(r, f)
      BY <1>1, <1>4, <1>8, <3>2 DEF IInv, ReaderInv
    <3>4. copy'[r][f] = copy[r][f]
      BY <1>0, <1>1, <2>2
    <3> QED
      BY <1>6, <3>3, <3>4 DEF Good
  <2> QED
    BY <2>1, <2>2
<1>9. ReaderInv(r)'
  BY <1>6, <1>7, <1>8 DEF ReaderInv
<1> QED
  BY <1>0, <1>1, <1>3, <1>9, ReaderFrame

LEMMA LoadAfterIInv ==
  ASSUME NEW r \in Readers, IInv, LoadAfter(r)
  PROVE  IInv'
<1>0. /\ vis \in Nat /\ ld[r] \subseteq Loads
      /\ rst \in [Readers -> {"idle", "reading", "retry", "accepted"}]
      /\ ld \in [Readers -> SUBSET Loads] /\ before \in [Readers -> Nat]
      /\ after \in [Readers -> Nat]
  BY DEF IInv, TypeOK
<1>1. PICK l \in ld[r] : /\ l.kind = "after" /\ Executable(r, l) /\ rst[r] = "reading"
                         /\ after' = [after EXCEPT ![r] = vis]
                         /\ ld' = [ld EXCEPT ![r] = @ \ {l}]
                         /\ UNCHANGED <<rst, before, copy, writerVars, bufferVars>>
  BY DEF LoadAfter, Executable
<1>2. l = AfterLoad /\ Segment(l) = 2
  BY <1>0, <1>1, LoadsDistinct
<1>3. TypeOK'
  BY <1>1 DEF IInv, TypeOK, writerVars, bufferVars
<1>4. ld[r] = {l}
  BY <1>0, <1>1, <1>2, LoadsDistinct DEF Executable
<1>5. BeforeLoad \notin ld[r] /\ \A f \in Fields : FieldLoad(f) \notin ld[r]
  BY <1>2, <1>4 DEF BeforeLoad, AfterLoad, FieldLoad
<1>6. before[r] <= vis /\ (before[r] = vis => \A f \in Fields : Good(r, f))
  BY <1>1, <1>5 DEF IInv, ReaderInv
<1>7. /\ rst'[r] = "reading" /\ vis' = vis /\ before'[r] = before[r]
      /\ after'[r] = vis /\ ld'[r] = {}
      /\ \A f \in Fields : Good(r, f)' = Good(r, f)
  BY <1>0, <1>1, <1>4 DEF Good, writerVars, bufferVars
<1>8. ReaderInv(r)'
  BY <1>0, <1>6, <1>7 DEF ReaderInv
<1> QED
  BY <1>0, <1>1, <1>3, <1>8, ReaderFrame

LEMMA FinishReadIInv ==
  ASSUME NEW r \in Readers, IInv, FinishRead(r)
  PROVE  IInv'
<1> USE DEF FinishRead
<1>1. TypeOK'
  BY DEF IInv, TypeOK, writerVars, bufferVars
<1>2. /\ AfterLoad \notin ld[r] /\ rst'[r] \in {"retry", "accepted"}
      /\ rst'[r] = "accepted" => Complete(r)
      /\ vis' = vis /\ hist' = hist
  BY DEF IInv, TypeOK, writerVars, bufferVars
<1>3. ReaderInv(r)'
  BY <1>2 DEF IInv, ReaderInv, Good, Complete
<1> QED
  BY <1>1, <1>3, ReaderFrame DEF IInv, TypeOK

LEMMA InterruptedIInv ==
  ASSUME NEW r \in Readers, IInv, Interrupted(r)
  PROVE  IInv'
<1> USE DEF Interrupted
<1>1. TypeOK'
  BY DEF IInv, TypeOK, writerVars, bufferVars
<1>2. ReaderInv(r)'
  BY DEF IInv, TypeOK, ReaderInv
<1> QED
  BY <1>1, <1>2, ReaderFrame DEF IInv, TypeOK

-----------------------------------------------------------------------------
(* The theorems. *)

LEMMA StutterIInv ==
  ASSUME IInv, UNCHANGED vars
  PROVE  IInv'
<1> USE DEF vars
<1>1. TypeOK'
  BY DEF IInv, TypeOK
<1>2. WriterInv' /\ CountInv' /\ FieldInv'
  BY DEF IInv, WriterInv, CountInv, FieldInv
<1>3. ContentInv'
  BY DEF IInv, ContentInv
<1>4. \A r \in Readers : ReaderInv(r)'
  BY DEF IInv, ReaderInv, Good, Complete
<1> QED
  BY <1>1, <1>2, <1>3, <1>4 DEF IInv

LEMMA StepIInv == IInv /\ [Next]_vars => IInv'
<1> SUFFICES ASSUME IInv, [Next]_vars PROVE IInv'
  OBVIOUS
<1>1. CASE BeginWrite
  BY <1>1, BeginWriteIInv
<1>2. CASE EndWrite
  BY <1>2, EndWriteIInv
<1>3. CASE Error
  <2>1. CASE Restart
    BY <2>1, RestartIInv
  <2>2. CASE ~(crit > 0) /\ wpc' = "idle" /\
             UNCHANGED <<crit, seq, epoch, cur, hist, bufferVars, readerVars>>
    <3>1. UNCHANGED vars
      BY <2>2 DEF IInv, TypeOK, WriterInv, vars, bufferVars, readerVars
    <3> QED
      BY <3>1, StutterIInv
  <2> QED
    BY <1>3, <2>1, <2>2 DEF Error
<1>4. ASSUME NEW f \in Fields, NEW v \in Values, StoreField(f, v) PROVE IInv'
  BY <1>4, StoreFieldIInv
<1>5. ASSUME NEW p \in pendField, DrainField(p) PROVE IInv'
  BY <1>5, DrainFieldIInv
<1>6. ASSUME NEW c \in pendCount, DrainCount(c) PROVE IInv'
  BY <1>6, DrainCountIInv
<1>7. ASSUME NEW r \in Readers, StartRead(r) \/ ReadStep(r) \/ Interrupted(r)
      PROVE  IInv'
  BY <1>7, StartReadIInv, LoadBeforeIInv, LoadFieldIInv, LoadAfterIInv,
     FinishReadIInv, InterruptedIInv DEF ReadStep
<1>8. CASE UNCHANGED vars
  BY <1>8, StutterIInv
<1> QED
  BY <1>1, <1>2, <1>3, <1>4, <1>5, <1>6, <1>7, <1>8 DEF Next

LEMMA Invariance == Spec => []IInv
<1> QED
  BY InitIInv, StepIInv, PTL DEF Spec

\* The variables keep their types, whatever the writer and the readers do.
THEOREM TypeCorrect == Spec => []TypeOK
<1>1. IInv => TypeOK
  BY DEF IInv
<1> QED
  BY <1>1, Invariance, PTL

\* A copy between two loads of the count that pgstat_read_activity_complete
\* accepts is the entry after one complete update.
LEMMA CompleteCopy ==
  ASSUME IInv, NEW r \in Readers, Complete(r), after[r] - before[r] < Modulus,
         before[r] <= after[r], after[r] <= vis,
         before[r] = after[r] => \A f \in Fields : Good(r, f)
  PROVE  before[r] % 2 = 0 /\ copy[r] = hist[before[r] \div 2 + 1]
<1>1. /\ before[r] \in Nat /\ after[r] \in Nat /\ seq \in Nat /\ vis \in Nat
      /\ copy[r] \in [Fields -> Values] /\ hist \in Seq([Fields -> Values])
      /\ Len(hist) = seq \div 2 + 1 /\ vis <= seq
  BY DEF IInv, TypeOK, WriterInv
<1>2. before[r] <= vis
  BY <1>1
<1>3. before[r] = after[r]
  BY <1>1, <1>2, NoWrap DEF Complete
<1>4. before[r] % 2 = 0
  BY <1>1, <1>2, WrapParity DEF Complete
<1>5. PICK k \in Nat : before[r] = 2 * k
  BY <1>1, <1>4, Parity
<1>6. before[r] \div 2 = k /\ k \in 0..before[r]
  BY <1>5
<1>7. k + 1 \in 1..Len(hist)
  BY <1>1, <1>2, <1>5
<1>8. hist[k + 1] \in [Fields -> Values]
  BY <1>1, <1>7
<1>9. \A f \in Fields : copy[r][f] = hist[k + 1][f]
  BY <1>2, <1>3, <1>5, <1>6 DEF Good
<1> QED
  BY <1>1, <1>4, <1>6, <1>8, <1>9

\* What the loop accepted, it accepted so.
LEMMA ValidCopy == IInv => AcceptedCopyValid
<1>1. ASSUME IInv, NEW r \in Readers, rst[r] = "accepted"
      PROVE  /\ Complete(r) /\ before[r] <= after[r] /\ after[r] <= vis
             /\ before[r] = after[r] => \A f \in Fields : Good(r, f)
  BY <1>1 DEF IInv, ReaderInv
<1> QED
  BY <1>1, CompleteCopy DEF AcceptedCopyValid

\* A copy that pgstat_read_activity_complete accepts is not torn: it is the
\* whole entry as one update left it.
THEOREM NoTornCopy == Spec => []AcceptedCopyValid
<1>1. IInv => AcceptedCopyValid
  BY ValidCopy
<1> QED
  BY <1>1, Invariance, PTL

\* The Assert of PGSTAT_END_WRITE_ACTIVITY never fires, and while the count in
\* memory is even the entry in memory is the result of one complete update.
THEOREM EvenIsComplete == Spec => []EvenMeansQuiescent
<1>1. IInv => EvenMeansQuiescent
  <2> SUFFICES ASSUME IInv PROVE EvenMeansQuiescent
    OBVIOUS
  <2>1. /\ seq \in Nat /\ vis \in Nat /\ mem \in [Fields -> Values]
        /\ hist \in Seq([Fields -> Values]) /\ Len(hist) = seq \div 2 + 1 /\ vis <= seq
        /\ wpc = "idle" => seq % 2 = 0
    BY DEF IInv, TypeOK, WriterInv
  <2>2. wpc = "idle" => Wrap(seq) % 2 = 0
    BY <2>1, WrapParity
  <2>3. ASSUME vis % 2 = 0 PROVE mem = hist[vis \div 2 + 1]
    <3>1. PICK k \in Nat : vis = 2 * k
      BY <2>1, <2>3, Parity
    <3>2. vis \div 2 = k /\ k + 1 \in 1..Len(hist)
      BY <2>1, <3>1
    <3>3. hist[k + 1] \in [Fields -> Values]
      BY <2>1, <3>2
    <3>4. \A f \in Fields : mem[f] = hist[k + 1][f]
      BY <3>1, EvenContent
    <3> QED
      BY <2>1, <3>2, <3>3, <3>4
  <2> QED
    BY <2>2, <2>3 DEF EvenMeansQuiescent
<1> QED
  BY <1>1, Invariance, PTL
-----------------------------------------------------------------------------
(* Reads are atomic: the entry implements a register.  An update is        *)
(* published by the store that makes the count in memory even again; a     *)
(* read begins with its first load and returns with its last one.          *)

RegisterNow == <<LogNow, StatusNow, SinceNow, GotNow>>

\* A prefix of a sequence, element by element.
LEMMA Prefix ==
  ASSUME NEW S, NEW h \in Seq(S), NEW n \in 1..Len(h)
  PROVE  /\ SubSeq(h, 1, n) \in Seq(S)
         /\ Len(SubSeq(h, 1, n)) = n
         /\ \A k \in 1..n : SubSeq(h, 1, n)[k] = h[k]
<1>1. n \in Nat /\ 1 <= n /\ \A k \in 1..n : h[k] \in S
  OBVIOUS
<1>2. /\ SubSeq(h, 1, n) \in Seq(S)
      /\ Len(SubSeq(h, 1, n)) = IF 1 <= n THEN n - 1 + 1 ELSE 0
      /\ \A k \in 1..n - 1 + 1 : SubSeq(h, 1, n)[k] = h[1 + k - 1]
  BY <1>1, SubSeqProperties
<1> QED
  BY <1>1, <1>2

\* Equal prefixes.
LEMMA PrefixSame ==
  ASSUME NEW S, NEW h \in Seq(S), NEW g \in Seq(S), NEW n \in 1..Len(h),
         n <= Len(g), \A k \in 1..n : g[k] = h[k]
  PROVE  SubSeq(g, 1, n) = SubSeq(h, 1, n)
<1>1. n \in 1..Len(g)
  OBVIOUS
<1> QED
  BY <1>1, Prefix, SeqEqual

LEMMA PrefixOfOne ==
  ASSUME NEW S, NEW e \in S
  PROVE  SubSeq(<<e>>, 1, 1) = <<e>>
<1> DEFINE s == <<e>>
           p == SubSeq(s, 1, 1)
<1>1. s \in Seq(S) /\ Len(s) = 1 /\ 1 \in 1..Len(s)
  OBVIOUS
<1> HIDE DEF s
<1>2. p \in Seq(S) /\ Len(p) = 1 /\ \A k \in 1..1 : p[k] = s[k]
  BY <1>1, Prefix
<1> HIDE DEF p
<1>3. p = s
  BY <1>1, <1>2, SeqEqual
<1> QED
  BY <1>3 DEF p, s

\* A prefix that grows by one element.
LEMMA PrefixGrows ==
  ASSUME NEW S, NEW h \in Seq(S), NEW n \in 1..Len(h), n + 1 <= Len(h)
  PROVE  SubSeq(h, 1, n + 1) = Append(SubSeq(h, 1, n), h[n + 1])
<1>1. n + 1 \in 1..Len(h) /\ n \in Nat
  OBVIOUS
<1>2. h[n + 1] \in S
  BY <1>1
<1> DEFINE a == SubSeq(h, 1, n)
           b == SubSeq(h, 1, n + 1)
<1>3. a \in Seq(S) /\ Len(a) = n /\ \A k \in 1..n : a[k] = h[k]
  BY Prefix
<1>4. b \in Seq(S) /\ Len(b) = n + 1 /\ \A k \in 1..n + 1 : b[k] = h[k]
  BY <1>1, Prefix
<1> HIDE DEF a, b
<1>5. /\ Append(a, h[n + 1]) \in Seq(S)
      /\ Len(Append(a, h[n + 1])) = n + 1
      /\ \A k \in 1..n : Append(a, h[n + 1])[k] = h[k]
      /\ Append(a, h[n + 1])[n + 1] = h[n + 1]
  BY <1>2, <1>3, AppendProperties
<1>6. \A k \in 1..n + 1 : b[k] = Append(a, h[n + 1])[k]
  BY <1>1, <1>4, <1>5
<1>7. b = Append(a, h[n + 1])
  BY <1>4, <1>5, <1>6, SeqEqual
<1> QED
  BY <1>7 DEF a, b

\* What memory shows is in the history.
LEMMA VisInHist ==
  ASSUME IInv
  PROVE  /\ hist \in Seq([Fields -> Values])
         /\ vis \in Nat /\ vis \div 2 + 1 \in 1..Len(hist)
BY DEF IInv, TypeOK, WriterInv

\* No step of the register: the writer's own steps, and the stores to members
\* that reach memory.
LEMMA WriterStutters ==
  ASSUME IInv, IInv', UNCHANGED <<vis, readerVars>>,
         \A k \in 1..Len(hist) : hist'[k] = hist[k], Len(hist) <= Len(hist')
  PROVE  UNCHANGED RegisterNow
<1>1. /\ hist \in Seq([Fields -> Values]) /\ hist' \in Seq([Fields -> Values])
      /\ vis \div 2 + 1 \in 1..Len(hist)
  BY VisInHist DEF IInv, TypeOK
<1>2. LogNow' = LogNow
  <2> DEFINE n == vis \div 2 + 1
  <2>1. n \in 1..Len(hist) /\ n <= Len(hist') /\ \A k \in 1..n : hist'[k] = hist[k]
    BY <1>1
  <2>2. LogNow = SubSeq(hist, 1, n) /\ LogNow' = SubSeq(hist', 1, n)
    BY DEF LogNow
  <2> HIDE DEF n
  <2> QED
    BY <1>1, <2>1, <2>2, PrefixSame
<1>3. UNCHANGED <<StatusNow, SinceNow, GotNow>>
  BY DEF StatusNow, SinceNow, GotNow, StatusOf, SinceOf, GotOf, Began, Got, readerVars
<1> QED
  BY <1>2, <1>3 DEF RegisterNow

\* The store of an even count publishes the update that it ends; that of an
\* odd count leaves the register as it is.
LEMMA DrainCountPublishes ==
  ASSUME IInv, IInv', NEW c \in pendCount, DrainCount(c)
  PROVE  \/ UNCHANGED RegisterNow
         \/ \E e \in [Fields -> Values] :
              LogNow' = Append(LogNow, e) /\ UNCHANGED <<StatusNow, SinceNow, GotNow>>
<1>1. /\ hist \in Seq([Fields -> Values]) /\ hist' = hist /\ vis' = c.num
      /\ vis \in Nat /\ seq \in Nat /\ vis < c.num /\ c.num <= seq
      /\ c.num \in Nat
      /\ UNCHANGED readerVars
      /\ vis \div 2 + 1 \in 1..Len(hist)
  BY VisInHist DEF IInv, TypeOK, CountInv, DrainCount, writerVars
<1>2. vis' = vis + 1
  <2>1. [num |-> vis + 1, epoch |-> 2 * ((vis + 1) \div 2)] \in pendCount
    <3>1. vis + 1 \in (vis + 1)..seq
      BY <1>1
    <3> QED
      BY <3>1 DEF IInv, CountInv
  <2>2. vis + 1 >= c.num
    <3>1. \A d \in pendCount : d.num >= c.num
      BY DEF DrainCount
    <3> QED
      BY <2>1, <3>1
  <2> QED
    BY <1>1, <2>2
<1>3. UNCHANGED <<StatusNow, SinceNow, GotNow>>
  BY <1>1 DEF StatusNow, SinceNow, GotNow, StatusOf, SinceOf, GotOf, Began, Got, readerVars
<1>4. vis' \div 2 + 1 \in 1..Len(hist)
  BY <1>1 DEF IInv, TypeOK, WriterInv
<1>5. CASE vis % 2 = 0
  <2>1. vis' \div 2 = vis \div 2
    BY <1>1, <1>2, <1>5
  <2>2. LogNow' = LogNow
    BY <1>1, <2>1 DEF LogNow
  <2> QED
    BY <1>3, <2>2 DEF RegisterNow
<1>6. CASE vis % 2 = 1
  <2> DEFINE n == vis \div 2 + 1
  <2>1. vis' \div 2 + 1 = n + 1
    BY <1>1, <1>2, <1>6
  <2>2. n \in 1..Len(hist) /\ n + 1 <= Len(hist) /\ n + 1 \in 1..Len(hist)
    BY <1>1, <1>4, <2>1
  <2>3. LogNow = SubSeq(hist, 1, n) /\ LogNow' = SubSeq(hist, 1, n + 1)
    BY <1>1, <2>1 DEF LogNow
  <2> HIDE DEF n
  <2>4. LogNow' = Append(LogNow, hist[n + 1])
    BY <1>1, <2>2, <2>3, PrefixGrows
  <2>5. hist[n + 1] \in [Fields -> Values]
    BY <1>1, <2>2
  <2> QED
    BY <1>3, <2>4, <2>5
<1> QED
  BY <1>1, <1>5, <1>6, Parity

\* What a step of reader r leaves alone.
OnlyReader(r) ==
  /\ UNCHANGED <<writerVars, bufferVars>>
  /\ \A s \in Readers \ {r} :
       /\ rst'[s] = rst[s] /\ ld'[s] = ld[s] /\ before'[s] = before[s]
       /\ after'[s] = after[s] /\ copy'[s] = copy[s]

\* A step of r changes the register only where r is concerned.
LEMMA OneReader ==
  ASSUME NEW r \in Readers, OnlyReader(r)
  PROVE  /\ LogNow' = LogNow
         /\ StatusNow' = [StatusNow EXCEPT ![r] = StatusOf(r)']
         /\ SinceNow' = [SinceNow EXCEPT ![r] = SinceOf(r)']
         /\ GotNow' = [GotNow EXCEPT ![r] = GotOf(r)']
<1>1. LogNow' = LogNow
  BY DEF OnlyReader, LogNow, writerVars, bufferVars
<1>2. ASSUME NEW s \in Readers, s # r
      PROVE  /\ StatusOf(s)' = StatusOf(s) /\ SinceOf(s)' = SinceOf(s)
             /\ GotOf(s)' = GotOf(s)
  BY <1>2 DEF OnlyReader, StatusOf, SinceOf, GotOf, Began, Got
<1>3. StatusNow' = [StatusNow EXCEPT ![r] = StatusOf(r)']
  BY <1>2 DEF StatusNow
<1>4. SinceNow' = [SinceNow EXCEPT ![r] = SinceOf(r)']
  BY <1>2 DEF SinceNow
<1>5. GotNow' = [GotNow EXCEPT ![r] = GotOf(r)']
  BY <1>2 DEF GotNow
<1> QED
  BY <1>1, <1>3, <1>4, <1>5

\* Nothing that the register shows of r changes.
LEMMA ReaderStutters ==
  ASSUME NEW r \in Readers, OnlyReader(r),
         StatusOf(r)' = StatusOf(r), SinceOf(r)' = SinceOf(r), GotOf(r)' = GotOf(r)
  PROVE  UNCHANGED RegisterNow
BY OneReader DEF RegisterNow, StatusNow, SinceNow, GotNow

-----------------------------------------------------------------------------
(* Each step of a reader is a step of the register or none. *)

LEMMA StartReadMaps ==
  ASSUME NEW r \in Readers, IInv, StartRead(r)
  PROVE  Register!Forget(r) \/ UNCHANGED RegisterNow
<1>1. OnlyReader(r)
  BY DEF StartRead, OnlyReader, IInv, TypeOK
<1>2. ld'[r] = Loads /\ rst'[r] = "reading" /\ rst[r] # "reading"
  BY DEF StartRead, IInv, TypeOK
<1>3. BeforeLoad \in ld'[r]
  BY <1>2, LoadsDistinct
<1>4. ~Began(r) /\ ~Began(r)' /\ ~Got(r)'
  BY <1>2, <1>3 DEF Began, Got, BeforeLoad
<1>5. /\ StatusOf(r)' = "idle" /\ SinceOf(r) = 0 /\ SinceOf(r)' = 0
      /\ GotOf(r)' = Initial
  BY <1>4 DEF StatusOf, SinceOf, GotOf
<1>6. CASE Got(r)
  <2>1. StatusNow[r] = "done" /\ SinceNow[r] = 0
    BY <1>4, <1>6 DEF StatusNow, StatusOf, SinceNow, SinceOf
  <2>2. SinceNow' = SinceNow
    BY <1>1, <1>5, <2>1, OneReader DEF SinceNow
  <2> QED
    BY <1>1, <1>5, <2>1, <2>2, OneReader DEF Register!Forget
<1>7. CASE ~Got(r)
  BY <1>1, <1>4, <1>5, <1>7, ReaderStutters DEF StatusOf, GotOf
<1> QED
  BY <1>6, <1>7

LEMMA LoadBeforeMaps ==
  ASSUME NEW r \in Readers, IInv, LoadBefore(r)
  PROVE  Register!Begin(r)
<1>1. OnlyReader(r)
  BY DEF LoadBefore, OnlyReader, IInv, TypeOK
<1>2. /\ rst[r] = "reading" /\ rst'[r] = "reading" /\ before'[r] = vis
      /\ BeforeLoad \in ld[r] /\ BeforeLoad \notin ld'[r]
  <2>1. PICK l \in ld[r] : /\ l.kind = "before" /\ Executable(r, l)
                           /\ before' = [before EXCEPT ![r] = vis]
                           /\ ld' = [ld EXCEPT ![r] = @ \ {l}]
                           /\ rst' = rst
    BY DEF LoadBefore
  <2>2. ld[r] \subseteq Loads /\ ld \in [Readers -> SUBSET Loads] /\ before \in [Readers -> Nat]
    BY DEF IInv, TypeOK
  <2>3. l = BeforeLoad
    BY <2>1, <2>2, LoadsDistinct
  <2> QED
    BY <2>1, <2>2, <2>3 DEF Executable
<1>3. ~Began(r) /\ Began(r)' /\ ~Got(r) /\ ~Got(r)'
  BY <1>2 DEF Began, Got, BeforeLoad
<1>4. /\ StatusOf(r) = "idle" /\ StatusOf(r)' = "reading"
      /\ GotOf(r) = Initial /\ GotOf(r)' = Initial
      /\ SinceOf(r)' = vis \div 2 + 1
  BY <1>2, <1>3 DEF StatusOf, SinceOf, GotOf
<1>5. StatusNow[r] = "idle" /\ GotNow[r] = Initial
  BY <1>4 DEF StatusNow, GotNow
<1>6. GotNow' = GotNow
  BY <1>1, <1>4, <1>5, OneReader DEF GotNow
<1>7. Len(LogNow) = vis \div 2 + 1
  BY VisInHist, Prefix DEF LogNow
<1> QED
  BY <1>1, <1>4, <1>5, <1>6, <1>7, OneReader DEF Register!Begin

LEMMA LoadFieldMaps ==
  ASSUME NEW r \in Readers, IInv, LoadField(r)
  PROVE  UNCHANGED RegisterNow
<1>1. OnlyReader(r)
  BY DEF LoadField, OnlyReader, IInv, TypeOK
<1>2. /\ rst[r] = "reading" /\ rst'[r] = "reading" /\ before'[r] = before[r]
      /\ BeforeLoad \in ld[r] <=> BeforeLoad \in ld'[r]
  <2>1. PICK l \in ld[r] : /\ l.kind = "field" /\ Executable(r, l)
                           /\ ld' = [ld EXCEPT ![r] = @ \ {l}]
                           /\ rst' = rst /\ before' = before
    BY DEF LoadField
  <2>2. ld[r] \subseteq Loads /\ ld \in [Readers -> SUBSET Loads]
    BY DEF IInv, TypeOK
  <2>3. l # BeforeLoad
    BY <2>1 DEF BeforeLoad
  <2> QED
    BY <2>1, <2>2, <2>3 DEF Executable
<1> QED
  BY <1>1, <1>2, ReaderStutters DEF StatusOf, SinceOf, GotOf, Began, Got, BeforeLoad

LEMMA LoadAfterMaps ==
  ASSUME NEW r \in Readers, IInv, LoadAfter(r)
  PROVE  UNCHANGED RegisterNow
<1>1. OnlyReader(r)
  BY DEF LoadAfter, OnlyReader, IInv, TypeOK
<1>2. /\ rst[r] = "reading" /\ rst'[r] = "reading" /\ before'[r] = before[r]
      /\ BeforeLoad \in ld[r] <=> BeforeLoad \in ld'[r]
  <2>1. PICK l \in ld[r] : /\ l.kind = "after" /\ Executable(r, l)
                           /\ ld' = [ld EXCEPT ![r] = @ \ {l}]
                           /\ rst' = rst /\ before' = before
    BY DEF LoadAfter
  <2>2. ld[r] \subseteq Loads /\ ld \in [Readers -> SUBSET Loads]
    BY DEF IInv, TypeOK
  <2>3. l # BeforeLoad
    BY <2>1 DEF BeforeLoad
  <2> QED
    BY <2>1, <2>2, <2>3 DEF Executable
<1> QED
  BY <1>1, <1>2, ReaderStutters DEF StatusOf, SinceOf, GotOf, Began, Got, BeforeLoad

LEMMA InterruptedMaps ==
  ASSUME NEW r \in Readers, IInv, Interrupted(r)
  PROVE  UNCHANGED RegisterNow
<1>1. OnlyReader(r)
  BY DEF Interrupted, OnlyReader, IInv, TypeOK
<1>2. ~Began(r) /\ ~Began(r)' /\ ~Got(r) /\ ~Got(r)'
  BY DEF Interrupted, Began, Got, IInv, TypeOK
<1> QED
  BY <1>1, <1>2, ReaderStutters DEF StatusOf, SinceOf, GotOf

\* A copy that is accepted is what the register held when the read began: the
\* count did not move, so no update was published that the copy could miss.
LEMMA FinishReadMaps ==
  ASSUME NEW r \in Readers, IInv, IInv', FinishRead(r)
  PROVE  Register!Return(r) \/ Register!GiveUp(r)
<1>1. OnlyReader(r)
  BY DEF FinishRead, OnlyReader, IInv, TypeOK
<1>2. /\ rst[r] = "reading" /\ ld[r] = {} /\ rst'[r] \in {"accepted", "retry"}
      /\ UNCHANGED <<ld, before, after, copy, hist, vis>>
  BY DEF FinishRead, IInv, TypeOK, writerVars, bufferVars
<1>3. Began(r) /\ ~Got(r) /\ ~Began(r)'
  BY <1>2 DEF Began, Got
<1>4. /\ StatusNow[r] = "reading" /\ SinceNow[r] = before[r] \div 2 + 1
      /\ GotNow[r] = Initial /\ SinceOf(r)' = 0
  BY <1>3 DEF StatusNow, SinceNow, GotNow, StatusOf, SinceOf, GotOf
<1>5. CASE ~Got(r)'
  <2>1. StatusOf(r)' = "idle" /\ GotOf(r)' = Initial
    BY <1>3, <1>5 DEF StatusOf, GotOf
  <2>2. GotNow' = GotNow
    BY <1>1, <1>4, <2>1, OneReader DEF GotNow
  <2> QED
    BY <1>1, <1>4, <2>1, <2>2, OneReader DEF Register!GiveUp
<1>6. CASE Got(r)'
  <2>1. StatusOf(r)' = "done" /\ GotOf(r)' = copy[r]
    BY <1>2, <1>3, <1>6 DEF StatusOf, GotOf
  <2>2. /\ Complete(r) /\ after[r] - before[r] < Modulus
        /\ before[r] <= after[r] /\ after[r] <= vis
        /\ before[r] = after[r] => \A f \in Fields : Good(r, f)
    <3>1. Complete(r)
      BY <1>2, <1>6 DEF Got, FinishRead, IInv, TypeOK
    <3> QED
      BY <1>2, <1>6, <3>1 DEF Got, IInv, ReaderInv
  <2>3. before[r] % 2 = 0 /\ copy[r] = hist[before[r] \div 2 + 1]
    BY <2>2, CompleteCopy
  <2>4. before[r] \in Nat /\ vis \in Nat /\ before[r] <= vis
    BY <2>2 DEF IInv, TypeOK
  <2> DEFINE k == before[r] \div 2 + 1
             n == vis \div 2 + 1
  <2>5. k \in Nat /\ n \in Nat /\ 1 <= k /\ k <= n /\ k = before[r] \div 2 + 1
    BY <2>4
  <2>6. Len(LogNow) = n /\ \A i \in 1..n : LogNow[i] = hist[i]
    BY VisInHist, Prefix DEF LogNow
  <2>7. copy[r] = hist[k]
    BY <2>3
  <2> HIDE DEF k, n
  <2>8. k \in SinceNow[r]..Len(LogNow) /\ LogNow[k] = copy[r]
    BY <1>4, <2>5, <2>6, <2>7
  <2> QED
    BY <1>1, <1>4, <2>1, <2>8, OneReader DEF Register!Return
<1> QED
  BY <1>5, <1>6

LEMMA RestartMaps == Restart => Register!Crash
<1> SUFFICES ASSUME Restart PROVE Register!Crash
  OBVIOUS
<1>1. \A r \in Readers : ~Began(r)' /\ ~Got(r)'
  BY DEF Restart, Began, Got
<1>2. LogNow' = <<Initial>>
  <2>1. SubSeq(<<Initial>>, 1, 1) = <<Initial>>
    BY EntryAssumption, PrefixOfOne
  <2>2. 0 \div 2 + 1 = 1
    OBVIOUS
  <2> QED
    BY <2>1, <2>2 DEF Restart, LogNow
<1> QED
  BY <1>1, <1>2
  DEF Register!Crash, StatusNow, SinceNow, GotNow, StatusOf, SinceOf, GotOf

-----------------------------------------------------------------------------
\* An error is a restart or nothing.
LEMMA ErrorMaps ==
  ASSUME IInv, IInv', Error
  PROVE  Register!Crash \/ UNCHANGED RegisterNow
<1>1. CASE Restart
  BY <1>1, RestartMaps
<1>2. CASE UNCHANGED <<hist, vis, readerVars>>
  <2>1. \A k \in 1..Len(hist) : hist'[k] = hist[k]
    BY <1>2
  <2>2. Len(hist) <= Len(hist')
    BY <1>2, VisInHist
  <2> QED
    BY <1>2, <2>1, <2>2, WriterStutters
<1> QED
  BY <1>1, <1>2 DEF Error, bufferVars

LEMMA EndWriteMaps ==
  ASSUME IInv, IInv', EndWrite
  PROVE  UNCHANGED RegisterNow
<1>1. /\ hist \in Seq([Fields -> Values]) /\ cur \in [Fields -> Values]
      /\ hist' = Append(hist, cur) /\ UNCHANGED <<vis, readerVars>>
  BY DEF EndWrite, IInv, TypeOK
<1>2. /\ Len(hist') = Len(hist) + 1 /\ Len(hist) \in Nat
      /\ \A k \in 1..Len(hist) : hist'[k] = hist[k]
  BY <1>1, AppendProperties
<1> QED
  BY <1>1, <1>2, WriterStutters

LEMMA RegisterStep ==
  ASSUME IInv, IInv', [Next]_vars
  PROVE  [Register!Next]_(Register!vars)
<1>0. Register!vars = RegisterNow
  BY DEF Register!vars, RegisterNow
<1>a. ASSUME UNCHANGED <<hist, vis, readerVars>>
      PROVE  UNCHANGED RegisterNow
  <2>1. \A k \in 1..Len(hist) : hist'[k] = hist[k]
    BY <1>a
  <2>2. Len(hist) <= Len(hist')
    BY <1>a, VisInHist
  <2> QED
    BY <1>a, <2>1, <2>2, WriterStutters
<1> SUFFICES Register!Next \/ UNCHANGED RegisterNow
  BY DEF Register!vars, RegisterNow
<1>1. CASE BeginWrite
  BY <1>1, <1>a DEF BeginWrite
<1>2. CASE EndWrite
  BY <1>2, EndWriteMaps
<1>3. CASE Error
  BY <1>3, ErrorMaps DEF Register!Next
<1>4. ASSUME NEW f \in Fields, NEW v \in Values, StoreField(f, v)
      PROVE  UNCHANGED RegisterNow
  BY <1>4, <1>a DEF StoreField
<1>5. ASSUME NEW p \in pendField, DrainField(p)
      PROVE  UNCHANGED RegisterNow
  BY <1>5, <1>a DEF DrainField, writerVars
<1>6. ASSUME NEW c \in pendCount, DrainCount(c)
      PROVE  Register!Next \/ UNCHANGED RegisterNow
  BY <1>6, DrainCountPublishes DEF Register!Next, Register!Publish
<1>7. ASSUME NEW r \in Readers, StartRead(r) \/ ReadStep(r) \/ Interrupted(r)
      PROVE  Register!Next \/ UNCHANGED RegisterNow
  BY <1>7, StartReadMaps, LoadBeforeMaps, LoadFieldMaps, LoadAfterMaps,
     FinishReadMaps, InterruptedMaps DEF ReadStep, Register!Next
<1>8. CASE UNCHANGED vars
  BY <1>8, <1>a DEF vars, readerVars
<1> QED
  BY <1>1, <1>2, <1>3, <1>4, <1>5, <1>6, <1>7, <1>8 DEF Next

LEMMA RegisterInit == Init => Register!Init
<1> SUFFICES ASSUME Init PROVE Register!Init
  OBVIOUS
<1>1. \A r \in Readers : ~Began(r) /\ ~Got(r)
  BY DEF Init, Began, Got
<1>2. LogNow = <<Initial>>
  <2>1. SubSeq(<<Initial>>, 1, 1) = <<Initial>>
    BY EntryAssumption, PrefixOfOne
  <2>2. 0 \div 2 + 1 = 1
    OBVIOUS
  <2> QED
    BY <2>1, <2>2 DEF Init, LogNow
<1> QED
  BY <1>1, <1>2
  DEF Register!Init, StatusNow, SinceNow, GotNow, StatusOf, SinceOf, GotOf

\* The entry implements a register that updates replace at one instant and that
\* each accepted read looked at once, between its first and its last load: the
\* protocol of the two macros and the reader's loop, with every order in which
\* the stores of an update can reach memory.
THEOREM ReadsAreAtomic == Spec => AtomicReads
<1>1. IInv /\ IInv' /\ [Next]_vars => [Register!Next]_(Register!vars)
  BY RegisterStep
<1> QED
  BY <1>1, RegisterInit, Invariance, PTL DEF Spec, AtomicReads, Register!Spec

=============================================================================
