----------------------- MODULE TimePartitions_proofs ------------------------
(***************************************************************************)
(* The calls that maintain a time partitioned table, for any sessions,     *)
(* intervals, times, truncations and partitions of users.                  *)
(*                                                                         *)
(* Every range that a call looks at starts a whole number of intervals     *)
(* after the first one, which is on the grid of the earliest partition.    *)
(***************************************************************************)
EXTENDS TimePartitions, NaturalsInduction, WellFoundedInduction, TLAPS

\* The names of partitions with ranges an interval apart differ.
NamesTellApart ==
  \A i \in Intervals, t, u \in Int :
    (t - u) % i = 0 /\ to_char(i, t) = to_char(i, u) => t = u

\* No user takes a name that a call would give.
UserNamesApart ==
  \A i \in Intervals, t \in Int, r \in ManualRanges : to_char(i, t) # <<"manual", r.from>>

-----------------------------------------------------------------------------
(* Numbers. *)

LEMMA LeastNat ==
  ASSUME NEW T \in SUBSET Nat, T # {}
  PROVE  \E x \in T : \A y \in T : x <= y
<1>1. PICK x \in T : \A y \in T : ~(<<y, x>> \in OpToRel(<, Nat))
  BY NatLessThanWellFounded, WFMin, T \subseteq Nat, Zenon
<1>2. \A y \in T : ~(y < x)
  BY <1>1 DEF OpToRel
<1> QED BY <1>2

\* Min of integers with a lower bound is the least one.
LEMMA MinIs ==
  ASSUME NEW T \in SUBSET Int, T # {}, NEW low \in Int, \A x \in T : x >= low
  PROVE  Min(T) \in T /\ \A y \in T : Min(T) <= y
<1> DEFINE U == {x - low : x \in T}
<1>1. U \in SUBSET Nat /\ U # {}
  <2>1. ASSUME NEW u \in U PROVE u \in Nat
    <3>1. PICK x \in T : u = x - low
      OBVIOUS
    <3>2. x \in Int /\ x >= low
      OBVIOUS
    <3> QED BY <3>1, <3>2
  <2> QED BY <2>1
<1>2. PICK u \in U : \A v \in U : u <= v
  <2> HIDE DEF U
  <2> QED BY <1>1, LeastNat
<1>3. PICK x \in T : u = x - low
  BY <1>2
<1>4. \A y \in T : x <= y
  <2> SUFFICES ASSUME NEW y \in T PROVE x <= y
    OBVIOUS
  <2>1. u <= y - low
    BY <1>2
  <2> QED BY <1>3, <2>1
<1>5. \E z \in T : \A y \in T : z <= y
  BY <1>4
<1> QED BY <1>5 DEF Min

LEMMA MinUnique ==
  ASSUME NEW T \in SUBSET Int, NEW x \in T, \A y \in T : x <= y
  PROVE  Min(T) = x
<1> DEFINE m == Min(T)
<1>1. m \in T /\ \A y \in T : m <= y
  BY DEF Min
<1> HIDE DEF m
<1>2. m \in Int /\ x \in Int /\ m <= x /\ x <= m
  BY <1>1
<1> QED BY <1>2 DEF m

LEMMA DivMod ==
  ASSUME NEW i \in Nat, i >= 1, NEW x \in Int
  PROVE  /\ x \div i \in Int /\ x % i \in 0..i - 1
         /\ x = i * (x \div i) + (x % i)
BY SMT

LEMMA Products ==
  ASSUME NEW i \in Nat, i >= 1, NEW a \in Int, NEW b \in Int
  PROVE  /\ i * a \in Int /\ a * i = i * a /\ i * (a + b) = i * a + i * b
         /\ i * (a - b) = i * a - i * b /\ (a + 1) * i = i * a + i
         /\ a <= b => i * a <= i * b
         /\ a < b => i * a + i <= i * b
<1>1. i * a \in Int /\ a * i = i * a /\ i * (a + b) = i * a + i * b
      /\ i * (a - b) = i * a - i * b /\ (a + 1) * i = i * a + i
  BY SMT
<1>2. ASSUME NEW d \in Nat PROVE i * d >= 0
  BY SMT
<1>3. a <= b => i * a <= i * b
  <2> HAVE a <= b
  <2>1. b - a \in Nat /\ i * (b - a) = i * b - i * a
    BY SMT
  <2>2. i * (b - a) >= 0
    BY <1>2, <2>1
  <2>3. i * b \in Int
    BY SMT
  <2> QED BY <1>1, <2>1, <2>2, <2>3
<1>4. a < b => i * a + i <= i * b
  <2> HAVE a < b
  <2>1. b - a - 1 \in Nat /\ i * (b - a - 1) = i * b - i * a - i
    BY SMT
  <2>2. i * (b - a - 1) >= 0
    BY <1>2, <2>1
  <2>3. i * b \in Int
    BY SMT
  <2> QED BY <1>1, <2>1, <2>2, <2>3
<1> QED BY <1>1, <1>3, <1>4

\* Multiples leave nothing.
LEMMA Multiple ==
  ASSUME NEW i \in Nat, i >= 1, NEW d \in Int
  PROVE  (i * d) % i = 0
<1> DEFINE x == i * d
           e == x \div i
<1>1. x \in Int
  BY Products
<1>2. e \in Int /\ x % i \in 0..i - 1 /\ x = i * e + (x % i)
  BY <1>1, DivMod
<1> HIDE DEF e
<1>3. i * (d - e) = i * d - i * e /\ d - e \in Int /\ i * e \in Int
  BY <1>2, Products
<1>4. x % i = i * (d - e)
  BY <1>1, <1>2, <1>3
<1>5. /\ d - e < 0 => i * (d - e) + i <= i * 0
      /\ 0 < d - e => i * 0 + i <= i * (d - e)
      /\ i * 0 = 0 /\ i * (d - e) \in Int
  BY <1>3, Products
<1>6. x % i = 0
  <2> HIDE DEF x
  <2> QED BY <1>2, <1>3, <1>4, <1>5
<1> QED BY <1>6

\* How many intervals it takes to get as far as x.
LEMMA CeilIs ==
  ASSUME NEW i \in Nat, i >= 1, NEW x \in Int, NEW n, n = (x + i - 1) \div i
  PROVE  /\ n \in Int /\ i * n \in Int /\ i * n >= x /\ i * n < x + i
         /\ x >= 0 => n >= 0
         /\ x > 0 => n >= 1
<1>1. n \in Int /\ (x + i - 1) % i \in 0..i - 1 /\ x + i - 1 = i * n + ((x + i - 1) % i)
  BY DivMod
<1>2. i * n \in Int
  BY <1>1, Products
<1>3. i * n >= x /\ i * n < x + i
  BY <1>1, <1>2
<1>4. i * 0 = 0
  OBVIOUS
<1>5. x >= 0 => n >= 0
  <2> SUFFICES ASSUME x >= 0, n < 0 PROVE FALSE
    BY <1>1
  <2>1. i * n + i <= i * 0
    BY <1>1, Products
  <2> QED BY <1>2, <1>3, <1>4, <2>1
<1>6. x > 0 => n >= 1
  <2> SUFFICES ASSUME x > 0, n <= 0 PROVE FALSE
    BY <1>1
  <2>1. i * n <= i * 0
    BY <1>1, Products
  <2> QED BY <1>2, <1>3, <1>4, <2>1
<1> QED BY <1>1, <1>2, <1>3, <1>5, <1>6

\* Less than that many intervals do not get as far.
LEMMA CeilLess ==
  ASSUME NEW i \in Nat, i >= 1, NEW x \in Int, NEW n, n = (x + i - 1) \div i, NEW k \in Int
  PROVE  k < n <=> i * k < x
<1>1. n \in Int /\ i * n \in Int /\ i * n >= x /\ i * n < x + i
  BY CeilIs
<1>2. i * k \in Int /\ (k < n => i * k + i <= i * n) /\ (n <= k => i * n <= i * k)
  BY <1>1, Products
<1> QED BY <1>1, <1>2

-----------------------------------------------------------------------------
(* The ranges of a call. *)

\* Partitions whose starts have a lower bound, as those of finitely many have.
Bounded(ps) == \E low \in Int : \A p \in ps : p.from \in Int /\ p.from >= low

LEMMA PivotIs ==
  ASSUME NEW ps, Bounded(ps), ps # {}
  PROVE  /\ Pivot(ps) \in Int /\ \A p \in ps : p.from \in Int /\ Pivot(ps) <= p.from
         /\ \E p \in ps : p.from = Pivot(ps)
<1> DEFINE T == {p.from : p \in ps}
<1>1. PICK low \in Int : \A p \in ps : p.from \in Int /\ p.from >= low
  BY DEF Bounded
<1>2. T \in SUBSET Int /\ T # {} /\ \A x \in T : x >= low
  BY <1>1
<1>3. Min(T) \in T /\ \A y \in T : Min(T) <= y
  <2> HIDE DEF T
  <2> QED BY <1>2, MinIs
<1>4. Pivot(ps) = Min(T)
  BY DEF Pivot
<1> QED BY <1>1, <1>3, <1>4

LEMMA PivotUnique ==
  ASSUME NEW ps, NEW q \in ps, \A p \in ps : p.from \in Int /\ q.from <= p.from
  PROVE  Pivot(ps) = q.from
<1> DEFINE T == {p.from : p \in ps}
<1>1. T \in SUBSET Int /\ q.from \in T /\ \A y \in T : q.from <= y
  OBVIOUS
<1>2. Min(T) = q.from
  <2> HIDE DEF T
  <2> QED BY <1>1, MinUnique
<1> QED BY <1>2 DEF Pivot

\* The first range starts on the grid, not after from if it is before all partitions.
LEMMA FirstIs ==
  ASSUME NEW ps, Bounded(ps), NEW i \in Intervals, NEW from \in Times
  PROVE  /\ FirstFrom(ps, i, from) \in Int
         /\ ps = {} => FirstFrom(ps, i, from) <= from
         /\ ps # {} => \E m \in Int : FirstFrom(ps, i, from) = Pivot(ps) + i * m
         /\ ps # {} /\ from >= Pivot(ps) => FirstFrom(ps, i, from) >= Pivot(ps)
         /\ ps # {} /\ from < Pivot(ps) => /\ FirstFrom(ps, i, from) <= from
                                           /\ FirstFrom(ps, i, from) < Pivot(ps)
<1>1. i \in Nat /\ i >= 1 /\ from \in Int
  BY TimePartitionsAssumption
<1>2. CASE ps = {}
  <2>1. FirstFrom(ps, i, from) = date_trunc(i, from)
    BY <1>2 DEF FirstFrom
  <2> QED BY <1>2, <2>1, TimePartitionsAssumption
<1>3. CASE ps # {} /\ from >= Pivot(ps)
  <2> DEFINE x == from - Pivot(ps)
             n == (x + i - 1) \div i
  <2>1. Pivot(ps) \in Int
    BY <1>3, PivotIs
  <2>2. FirstFrom(ps, i, from) = Pivot(ps) + i * n
    BY <1>3 DEF FirstFrom
  <2>3. x \in Int /\ x >= 0
    BY <1>1, <1>3, <2>1
  <2> HIDE DEF x
  <2>4. n \in Int /\ i * n \in Int /\ i * n >= x
    BY <1>1, <2>3, CeilIs
  <2> HIDE DEF n
  <2>5. ~(from < Pivot(ps)) /\ FirstFrom(ps, i, from) \in Int /\ FirstFrom(ps, i, from) >= Pivot(ps)
    BY <1>1, <1>3, <2>1, <2>2, <2>3, <2>4
  <2> QED BY <1>3, <2>2, <2>4, <2>5
<1>4. CASE ps # {} /\ from < Pivot(ps)
  <2> DEFINE x == Pivot(ps) - from
             n == (x + i - 1) \div i
  <2>1. Pivot(ps) \in Int
    BY <1>4, PivotIs
  <2>2. FirstFrom(ps, i, from) = Pivot(ps) - i * n
    BY <1>1, <1>4, <2>1 DEF FirstFrom
  <2>3. x \in Int /\ x > 0 /\ from = Pivot(ps) - x
    BY <1>1, <1>4, <2>1
  <2> HIDE DEF x
  <2>4. n \in Int /\ i * n \in Int /\ i * n >= x
    BY <1>1, <2>3, CeilIs
  <2> HIDE DEF n
  <2>5. 0 - n \in Int /\ i * (0 - n) = i * 0 - i * n /\ i * 0 = 0
    BY <1>1, <2>4, Products
  <2>6. FirstFrom(ps, i, from) = Pivot(ps) + i * (0 - n)
    BY <2>1, <2>2, <2>4, <2>5
  <2>7. FirstFrom(ps, i, from) <= from /\ FirstFrom(ps, i, from) < Pivot(ps)
        /\ FirstFrom(ps, i, from) \in Int
    BY <1>1, <2>1, <2>2, <2>3, <2>4
  <2>8. ~(from >= Pivot(ps))
    BY <1>1, <1>4, <2>1
  <2> QED BY <1>4, <2>5, <2>6, <2>7, <2>8
<1>5. ps # {} => from >= Pivot(ps) \/ from < Pivot(ps)
  BY <1>1, PivotIs
<1> QED BY <1>2, <1>3, <1>4, <1>5

\* The ranges are those on the grid of c that start before to.
OnGrid(c, i, to, r) ==
  \E k \in Nat : c + i * k < to /\ r = [from |-> c + i * k, to |-> c + i * k + i]

LEMMA RangesAre ==
  ASSUME NEW ps, Bounded(ps), NEW i \in Intervals, NEW from \in Times, NEW to \in Times
  PROVE  \A r : r \in Ranges(ps, i, from, to) <=> OnGrid(FirstFrom(ps, i, from), i, to, r)
<1> DEFINE c == FirstFrom(ps, i, from)
           n == IF c < to THEN (to - c + i - 1) \div i ELSE 0
<1>1. i \in Nat /\ i >= 1 /\ to \in Int /\ c \in Int
  BY FirstIs, TimePartitionsAssumption
<1>2. Ranges(ps, i, from, to) = {[from |-> c + k * i, to |-> c + (k + 1) * i] : k \in 0..(n - 1)}
  BY DEF Ranges
<1> HIDE DEF c
<1>3. n \in Int /\ \A k \in Nat : k < n <=> c + i * k < to
  <2>1. CASE c < to
    <3> DEFINE x == to - c
               m == (x + i - 1) \div i
    <3>1. x \in Int /\ n = m
      BY <1>1, <2>1
    <3> HIDE DEF x, n
    <3>a. m = (x + i - 1) \div i
      OBVIOUS
    <3> HIDE DEF m
    <3>2. m \in Int /\ \A k \in Int : k < m <=> i * k < x
      <4>1. m \in Int
        BY <1>1, <3>1, <3>a, CeilIs
      <4>2. ASSUME NEW k \in Int PROVE k < m <=> i * k < x
        BY <1>1, <3>1, <3>a, CeilLess
      <4> QED BY <4>1, <4>2
    <3>3. \A k \in Nat : i * k < x <=> c + i * k < to
      <4> SUFFICES ASSUME NEW k \in Nat PROVE i * k < x <=> c + i * k < to
        OBVIOUS
      <4>1. i * k \in Int
        BY <1>1, Products
      <4> QED BY <1>1, <4>1 DEF x
    <3> QED BY <3>1, <3>2, <3>3
  <2>2. CASE ~(c < to)
    <3>1. n = 0
      BY <2>2
    <3> SUFFICES ASSUME NEW k \in Nat PROVE ~(k < 0) /\ ~(c + i * k < to)
      BY <3>1
    <3>2. i * 0 <= i * k /\ i * 0 = 0 /\ i * k \in Int
      BY <1>1, Products
    <3> QED BY <1>1, <2>2, <3>2
  <2> QED BY <2>1, <2>2
<1> HIDE DEF n
<1>4. \A k \in Nat : k \in 0..(n - 1) <=> c + i * k < to
  BY <1>3
<1>5. \A k \in Nat : c + k * i = c + i * k /\ c + (k + 1) * i = c + i * k + i
  <2> SUFFICES ASSUME NEW k \in Nat PROVE c + k * i = c + i * k /\ c + (k + 1) * i = c + i * k + i
    OBVIOUS
  <2>1. i * k \in Int /\ k * i = i * k /\ (k + 1) * i = i * k + i
    BY <1>1, Products
  <2> QED BY <1>1, <2>1
<1>6. 0..(n - 1) \subseteq Nat
  BY <1>3
<1>7. ASSUME NEW r \in Ranges(ps, i, from, to) PROVE OnGrid(c, i, to, r)
  <2>1. PICK k \in 0..(n - 1) : r = [from |-> c + k * i, to |-> c + (k + 1) * i]
    BY <1>2
  <2>2. k \in Nat /\ c + i * k < to
    BY <1>4, <1>6, <2>1
  <2>3. r = [from |-> c + i * k, to |-> c + i * k + i]
    BY <1>5, <2>1, <2>2
  <2> QED BY <2>2, <2>3 DEF OnGrid
<1>8. ASSUME NEW r, OnGrid(c, i, to, r) PROVE r \in Ranges(ps, i, from, to)
  <2>1. PICK k \in Nat : c + i * k < to /\ r = [from |-> c + i * k, to |-> c + i * k + i]
    BY <1>8 DEF OnGrid
  <2>2. k \in 0..(n - 1) /\ r = [from |-> c + k * i, to |-> c + (k + 1) * i]
    BY <1>4, <1>5, <2>1
  <2> QED BY <1>2, <2>2
<1> QED BY <1>7, <1>8 DEF c

\* The partitions that a call creates.
New(i, rs) == {[name |-> to_char(i, r.from), from |-> r.from, to |-> r.to] : r \in rs}

LEMMA NewHas ==
  ASSUME NEW i, NEW rs, NEW r \in rs
  PROVE  \E q \in New(i, rs) : q.name = to_char(i, r.from) /\ q.from = r.from /\ q.to = r.to
<1> DEFINE q == [name |-> to_char(i, r.from), from |-> r.from, to |-> r.to]
<1>1. q \in New(i, rs)
  BY DEF New
<1>2. q.name = to_char(i, r.from) /\ q.from = r.from /\ q.to = r.to
  OBVIOUS
<1> HIDE DEF q
<1> QED BY <1>1, <1>2

LEMMA MissingIs ==
  ASSUME NEW ps, Bounded(ps), NEW i \in Intervals, NEW from \in Times, NEW to \in Times
  PROVE  \A r : r \in Missing(ps, i, from, to) <=>
                  /\ OnGrid(FirstFrom(ps, i, from), i, to, r)
                  /\ \A p \in ps : p.from # r.from \/ p.to # r.to
BY RangesAre DEF Missing

\* r is k ranges after the first one.
IsAt(r, c, i, k) ==
  /\ i * k \in Int /\ i * k >= 0
  /\ r = [from |-> c + i * k, to |-> c + i * k + i]
  /\ r.from = c + i * k /\ r.to = r.from + i /\ r.from \in Int

\* The bounds of a range.
LEMMA GridIs ==
  ASSUME NEW c \in Int, NEW i \in Nat, i >= 1, NEW to, NEW r, OnGrid(c, i, to, r)
  PROVE  \E k \in Nat : IsAt(r, c, i, k) /\ c + i * k < to
<1>1. PICK k \in Nat : c + i * k < to /\ r = [from |-> c + i * k, to |-> c + i * k + i]
  BY DEF OnGrid
<1>2. i * 0 <= i * k /\ i * 0 = 0 /\ i * k \in Int
  BY Products
<1>3. IsAt(r, c, i, k)
  BY <1>1, <1>2 DEF IsAt
<1> QED BY <1>1, <1>3

\* A range starts no earlier than the first one.
LEMMA NewAfter ==
  ASSUME NEW ps, Bounded(ps), NEW i \in Intervals, NEW from \in Times, NEW to \in Times,
         NEW p \in New(i, Missing(ps, i, from, to))
  PROVE  p.from \in Int /\ p.from >= FirstFrom(ps, i, from) /\ p.to = p.from + i
<1>1. PICK r \in Missing(ps, i, from, to) : p.from = r.from /\ p.to = r.to
  BY DEF New
<1>2. i \in Nat /\ i >= 1 /\ FirstFrom(ps, i, from) \in Int
  BY FirstIs, TimePartitionsAssumption
<1>3. OnGrid(FirstFrom(ps, i, from), i, to, r)
  BY MissingIs
<1> DEFINE c == FirstFrom(ps, i, from)
<1> HIDE DEF c
<1>4. PICK k \in Nat : IsAt(r, c, i, k)
  BY <1>2, <1>3, GridIs DEF c
<1>5. i * k \in Int /\ i * k >= 0 /\ r.from = c + i * k /\ r.to = r.from + i /\ c \in Int
  BY <1>2, <1>4 DEF IsAt, c
<1>6. p.from \in Int /\ p.from >= c /\ p.to = p.from + i
  BY <1>1, <1>2, <1>5
<1> QED BY <1>6 DEF c

LEMMA NewBounded ==
  ASSUME NEW ps, Bounded(ps), NEW i \in Intervals, NEW from \in Times, NEW to \in Times
  PROVE  Bounded(ps \cup New(i, Missing(ps, i, from, to)))
<1> DEFINE c == FirstFrom(ps, i, from)
<1>1. PICK low \in Int : \A p \in ps : p.from \in Int /\ p.from >= low
  BY DEF Bounded
<1>2. c \in Int
  BY FirstIs
<1>3. \A p \in New(i, Missing(ps, i, from, to)) : p.from \in Int /\ p.from >= c
  BY NewAfter
<1> HIDE DEF c
<1>4. PICK b \in Int : b <= low /\ b <= c
  <2>1. low <= c \/ c <= low
    BY <1>2
  <2> QED BY <1>2, <2>1
<1>5. \A p \in ps \cup New(i, Missing(ps, i, from, to)) : p.from \in Int /\ p.from >= b
  BY <1>1, <1>2, <1>3, <1>4
<1> QED BY <1>5 DEF Bounded

\* A first range before all partitions is missing.
LEMMA FirstMissing ==
  ASSUME NEW ps, Bounded(ps), NEW i \in Intervals, NEW from \in Times, NEW to \in Times,
         from < to, ps = {} \/ from < Pivot(ps)
  PROVE  LET c == FirstFrom(ps, i, from)
         IN /\ c <= from
            /\ \E q \in New(i, Missing(ps, i, from, to)) : q.from = c
            /\ \A p \in ps : c < p.from
<1> DEFINE c == FirstFrom(ps, i, from)
           r == [from |-> c, to |-> c + i]
<1>1. i \in Nat /\ i >= 1 /\ from \in Int /\ to \in Int /\ c \in Int /\ c <= from
  BY FirstIs, TimePartitionsAssumption
<1>2. \A p \in ps : c < p.from
  <2> SUFFICES ASSUME NEW p \in ps PROVE c < p.from
    OBVIOUS
  <2>1. c < Pivot(ps) /\ Pivot(ps) \in Int /\ p.from \in Int /\ Pivot(ps) <= p.from
    BY FirstIs, PivotIs
  <2> HIDE DEF c
  <2> QED BY <1>1, <2>1
<1> HIDE DEF c
<1>3. OnGrid(c, i, to, r)
  <2>1. i * 0 = 0 /\ c + 0 = c /\ c < to
    BY <1>1
  <2> QED BY <2>1 DEF OnGrid
<1>4. \A p \in ps : p.from # c
  BY <1>1, <1>2
<1>5. r.from = c
  OBVIOUS
<1>6. r \in Missing(ps, i, from, to)
  BY <1>3, <1>4, <1>5, MissingIs DEF c
<1>7. \E q \in New(i, Missing(ps, i, from, to)) : q.from = c
  BY <1>5, <1>6, NewHas
<1> QED BY <1>1, <1>2, <1>7 DEF c

\* With the partitions of a call the same call starts at one of its ranges.
LEMMA FirstAgain ==
  ASSUME NEW ps, Bounded(ps), NEW i \in Intervals, NEW from \in Times, NEW to \in Times,
         from < to, NEW qs, qs = ps \cup New(i, Missing(ps, i, from, to))
  PROVE  \E j \in Nat : FirstFrom(qs, i, from) = FirstFrom(ps, i, from) + i * j
<1> DEFINE c == FirstFrom(ps, i, from)
           rs == Missing(ps, i, from, to)
<1>1. i \in Nat /\ i >= 1 /\ from \in Int /\ to \in Int /\ c \in Int /\ i * 0 = 0
  BY FirstIs, TimePartitionsAssumption
<1>2. Bounded(qs)
  BY NewBounded
<1>3. \A p \in New(i, rs) : p.from \in Int /\ p.from >= c
  BY NewAfter
<1>4. CASE ps = {} \/ from < Pivot(ps)
  <2>1. /\ c <= from
        /\ \E q \in New(i, rs) : q.from = c
        /\ \A p \in ps : c < p.from
    BY <1>4, FirstMissing
  <2> HIDE DEF c, rs
  <2>2. PICK q \in qs : q.from = c
    BY <2>1 DEF rs
  <2>3. \A p \in ps : p.from \in Int
    BY DEF Bounded
  <2>4. \A p \in qs : p.from \in Int /\ c <= p.from
    BY <1>1, <1>3, <2>1, <2>3 DEF rs
  <2>5. Pivot(qs) = c
    BY <2>2, <2>4, PivotUnique
  <2>6. qs # {} /\ from >= c
    BY <1>1, <2>1, <2>2
  <2> DEFINE x == from - c
             n == (x + i - 1) \div i
  <2>7. FirstFrom(qs, i, from) = c + i * n
    BY <2>5, <2>6 DEF FirstFrom
  <2>8. x \in Int /\ x >= 0
    BY <1>1, <2>6
  <2> HIDE DEF x
  <2>9. n \in Int /\ n >= 0
    BY <1>1, <2>8, CeilIs
  <2> HIDE DEF n
  <2>10. n \in Nat
    BY <2>9
  <2> QED BY <2>7, <2>10 DEF c
<1>5. CASE ps # {} /\ from >= Pivot(ps)
  <2>1. c >= Pivot(ps) /\ Pivot(ps) \in Int /\ \A p \in ps : p.from \in Int /\ Pivot(ps) <= p.from
    BY <1>5, FirstIs, PivotIs
  <2>2. PICK q \in ps : q.from = Pivot(ps)
    BY <1>5, PivotIs
  <2> HIDE DEF c, rs
  <2>3. \A p \in qs : p.from \in Int /\ q.from <= p.from
    BY <1>1, <1>3, <2>1, <2>2 DEF rs
  <2>4. Pivot(qs) = Pivot(ps) /\ qs # {}
    BY <2>2, <2>3, PivotUnique
  <2>5. FirstFrom(qs, i, from) = c
    BY <1>5, <2>4 DEF FirstFrom, c
  <2>6. c = c + i * 0
    BY <1>1
  <2> QED BY <2>5, <2>6 DEF c
<1>6. ps # {} => from < Pivot(ps) \/ from >= Pivot(ps)
  BY <1>1, PivotIs
<1> QED BY <1>4, <1>5, <1>6

\* So it finds nothing missing.
LEMMA NothingMissing ==
  ASSUME NEW ps, Bounded(ps), NEW i \in Intervals, NEW from \in Times, NEW to \in Times,
         from < to, NEW qs, qs = ps \cup New(i, Missing(ps, i, from, to))
  PROVE  Missing(qs, i, from, to) = {}
<1> DEFINE c == FirstFrom(ps, i, from)
           d == FirstFrom(qs, i, from)
<1>1. i \in Nat /\ i >= 1 /\ to \in Int /\ c \in Int /\ Bounded(qs)
  BY FirstIs, NewBounded, TimePartitionsAssumption
<1>2. PICK j \in Nat : d = c + i * j
  BY FirstAgain
<1>a. d \in Int
  BY <1>1, FirstIs
<1> SUFFICES ASSUME NEW r \in Missing(qs, i, from, to) PROVE FALSE
  OBVIOUS
<1>3. OnGrid(d, i, to, r) /\ \A p \in qs : p.from # r.from \/ p.to # r.to
  BY <1>1, MissingIs
<1> HIDE DEF c, d
<1>b. PICK k \in Nat : IsAt(r, d, i, k) /\ d + i * k < to
  BY <1>1, <1>3, <1>a, GridIs
<1>4. i * k \in Int /\ d + i * k < to /\ r = [from |-> d + i * k, to |-> d + i * k + i]
  BY <1>b DEF IsAt
<1>5. i * (j + k) = i * j + i * k /\ i * j \in Int /\ j + k \in Nat
  BY <1>1, Products
<1>6. d + i * k = c + i * (j + k)
  BY <1>1, <1>2, <1>4, <1>5
<1>7. OnGrid(c, i, to, r)
  BY <1>4, <1>5, <1>6 DEF OnGrid
<1>8. \A p \in ps : p.from # r.from \/ p.to # r.to
  BY <1>3
<1>9. r \in Missing(ps, i, from, to)
  BY <1>7, <1>8, MissingIs DEF c
<1>10. PICK q \in New(i, Missing(ps, i, from, to)) : q.from = r.from /\ q.to = r.to
  BY <1>9, NewHas
<1> QED BY <1>3, <1>10

\* Ranges from the first one on, up to the first that ends after to, leave no gap.
LEMMA GridCovers ==
  ASSUME NEW c \in Int, NEW i \in Nat, i >= 1, NEW to \in Int, NEW t \in Int, c <= t, t < to
  PROVE  \E r : OnGrid(c, i, to, r) /\ r.from <= t /\ t < r.to
<1> DEFINE k == (t - c) \div i
           r == [from |-> c + i * k, to |-> c + i * k + i]
<1>1. t - c \in Int
  OBVIOUS
<1>2. k \in Int /\ (t - c) % i \in 0..i - 1 /\ t - c = i * k + ((t - c) % i)
  BY <1>1, DivMod
<1> HIDE DEF k
<1>3. i * k \in Int /\ i * 0 = 0 /\ (k < 0 => i * k + i <= i * 0)
  BY <1>2, Products
<1>4. i * k <= t - c /\ t - c < i * k + i
  BY <1>2, <1>3
<1>5. k \in Nat
  BY <1>2, <1>3, <1>4
<1>6. c + i * k <= t /\ t < c + i * k + i /\ c + i * k < to
  BY <1>3, <1>4
<1>7. OnGrid(c, i, to, r)
  BY <1>5, <1>6 DEF OnGrid
<1>8. r.from = c + i * k /\ r.to = c + i * k + i
  OBVIOUS
<1> QED BY <1>6, <1>7, <1>8

-----------------------------------------------------------------------------
(* The invariant: partitions do not overlap, and whoever creates some is     *)
(* alone and knows what is missing now.                                      *)

IsPartition(p) ==
  /\ p = [name |-> p.name, from |-> p.from, to |-> p.to]
  /\ p.from \in Int /\ p.to \in Int /\ p.from < p.to
  /\ \/ \E i \in Intervals : p.to = p.from + i /\ p.name = to_char(i, p.from)
     \/ \E r \in ManualRanges : p.name = <<"manual", r.from>> /\ p.from = r.from

PartsInv ==
  /\ Bounded(parts)
  /\ \A p \in parts : IsPartition(p)
  /\ \A p, q \in parts : p # q => ~Overlap(p, q)

Results == Success \cup Failure \cup {"none", "undefined table", "interrupted"}

\* s waits to create what is missing in ps.
Knows(s, ps) ==
  /\ arg[s].interval \in Intervals /\ arg[s].start_from \in Times /\ arg[s].end_at \in Times
  /\ arg[s].start_from < arg[s].end_at
  /\ work[s] = Missing(ps, arg[s].interval, arg[s].start_from, arg[s].end_at)

WorkInv ==
  /\ pc \in [Sessions -> {"idle", "creating", "dropping"}] /\ ret \in [Sessions -> Results]
  /\ arg = [s \in Sessions |-> arg[s]] /\ work = [s \in Sessions |-> work[s]]
  /\ \A s \in Sessions : pc[s] = "creating" => Knows(s, parts)
  /\ \A s, t \in Sessions : pc[s] = "creating" /\ pc[t] = "creating" => s = t

NameInv == \A p, q \in parts : p # q => p.name # q.name

\* Why a call that would create the ranges rs fails.
FailsBy(f, ps, i, rs) ==
  \/ f = "misaligned" /\ Misaligned(ps, rs)
  \/ f = "overlap" /\ \E p \in New(i, rs), q \in ps : Overlap(p, q)
  \/ f = "duplicate" /\ \E p \in New(i, rs), q \in New(i, rs) \cup ps : p # q /\ p.name = q.name

\* The two ends of a call that creates partitions.
Succeeds(s) ==
  /\ parts' = parts \cup New(arg[s].interval, work[s])
  /\ ret'[s] \in Success
  /\ \A f \in Failure : ~FailsBy(f, parts, arg[s].interval, work[s])

Fails(s) == parts' = parts /\ ret'[s] \in Failure /\ FailsBy(ret'[s], parts, arg[s].interval, work[s])

LEMMA CreateIs ==
  ASSUME WorkInv, NEW s \in Sessions, CreatePartitions(s)
  PROVE  /\ pc[s] = "creating" /\ Ends(s, ret'[s])
         /\ Succeeds(s) \/ Fails(s)
<1> DEFINE new == {[name |-> to_char(arg[s].interval, r.from), from |-> r.from, to |-> r.to] :
                     r \in work[s]}
           failures == {f \in Failure :
             CASE f = "misaligned" -> Misaligned(parts, work[s])
               [] f = "overlap" -> \E p \in new, q \in parts : Overlap(p, q)
               [] f = "duplicate" -> \E p \in new, q \in new \cup parts : p # q /\ p.name = q.name}
<1>1. new = New(arg[s].interval, work[s])
  BY DEF New
<1>2. /\ pc[s] = "creating"
      /\ \/ /\ failures = {}
            /\ parts' = parts \cup new
            /\ Ends(s, IF new # {} THEN "true" ELSE "false")
         \/ /\ "misaligned" \in failures
            /\ UNCHANGED parts
            /\ Ends(s, "misaligned")
         \/ /\ "misaligned" \notin failures
            /\ UNCHANGED parts
            /\ \E f \in failures : Ends(s, f)
  BY DEF CreatePartitions
<1>3. \A result : Ends(s, result) => ret'[s] = result
  BY DEF Ends, WorkInv
<1> HIDE DEF new
<1>4. \A f : f \in failures <=> f \in Failure /\ FailsBy(f, parts, arg[s].interval, work[s])
  BY <1>1 DEF Failure, FailsBy
<1> HIDE DEF failures
<1>5. CASE failures = {} /\ parts' = parts \cup new /\ Ends(s, IF new # {} THEN "true" ELSE "false")
  <2>1. ret'[s] \in Success /\ Ends(s, ret'[s])
    BY <1>3, <1>5 DEF Success
  <2> QED BY <1>1, <1>2, <1>4, <1>5, <2>1 DEF Succeeds
<1>6. ASSUME NEW f \in failures, parts' = parts, Ends(s, f)
      PROVE  pc[s] = "creating" /\ Ends(s, ret'[s]) /\ Fails(s)
  <2>1. ret'[s] = f
    BY <1>3, <1>6
  <2> QED BY <1>2, <1>4, <1>6, <2>1 DEF Fails
<1> QED BY <1>2, <1>5, <1>6

\* The new partitions of a call do not overlap each other.
LEMMA NewApart ==
  ASSUME NEW ps, Bounded(ps), NEW i \in Intervals, NEW from \in Times, NEW to \in Times,
         NEW p \in New(i, Missing(ps, i, from, to)), NEW q \in New(i, Missing(ps, i, from, to))
  PROVE  /\ IsPartition(p)
         /\ p # q => ~Overlap(p, q)
         /\ (p.from - q.from) % i = 0
         /\ p.from = q.from => p = q
<1> DEFINE c == FirstFrom(ps, i, from)
           rs == Missing(ps, i, from, to)
<1>1. i \in Nat /\ i >= 1 /\ c \in Int /\ \A r \in rs : OnGrid(c, i, to, r)
  BY FirstIs, MissingIs, TimePartitionsAssumption
<1>2. PICK r \in rs : p = [name |-> to_char(i, r.from), from |-> r.from, to |-> r.to]
  BY DEF New
<1>3. PICK u \in rs : q = [name |-> to_char(i, u.from), from |-> u.from, to |-> u.to]
  BY DEF New
<1> HIDE DEF c, rs
<1>a. (\E k \in Nat : IsAt(r, c, i, k)) /\ (\E k \in Nat : IsAt(u, c, i, k))
  BY <1>1, GridIs
<1>4. PICK k \in Nat : i * k \in Int /\ r.from = c + i * k /\ r.to = r.from + i /\ r.from \in Int
  BY <1>a DEF IsAt
<1>5. PICK m \in Nat : i * m \in Int /\ u.from = c + i * m /\ u.to = u.from + i /\ u.from \in Int
  BY <1>a DEF IsAt
<1>6. /\ p.name = to_char(i, r.from) /\ p.from = r.from /\ p.to = r.to
      /\ q.name = to_char(i, u.from) /\ q.from = u.from /\ q.to = u.to
  BY <1>2, <1>3
<1>7. IsPartition(p)
  <2>1. p = [name |-> p.name, from |-> p.from, to |-> p.to]
    BY <1>2
  <2>2. p.from \in Int /\ p.to \in Int /\ p.from < p.to /\ p.to = p.from + i
        /\ p.name = to_char(i, p.from)
    BY <1>1, <1>4, <1>6
  <2> QED BY <2>1, <2>2 DEF IsPartition
<1>8. p.from = q.from => p = q
  BY <1>2, <1>3, <1>4, <1>5, <1>6
<1>9. (p.from - q.from) % i = 0
  <2>1. k - m \in Int /\ i * (k - m) = i * k - i * m
    BY <1>1, Products
  <2>2. p.from - q.from = i * (k - m)
    BY <1>1, <1>4, <1>5, <1>6, <2>1
  <2>3. (i * (k - m)) % i = 0
    BY <1>1, <2>1, Multiple
  <2> QED BY <2>2, <2>3
<1>10. ASSUME Overlap(p, q) PROVE p = q
  <2>1. i * k < i * m + i /\ i * m < i * k + i
    BY <1>1, <1>4, <1>5, <1>6, <1>10 DEF Overlap
  <2>2. (k < m => i * k + i <= i * m) /\ (m < k => i * m + i <= i * k)
    BY <1>1, Products
  <2>3. k = m
    BY <1>1, <1>4, <1>5, <2>1, <2>2
  <2> QED BY <1>4, <1>5, <1>6, <1>8, <2>3
<1> QED BY <1>7, <1>8, <1>9, <1>10

\* A call ends: nobody else creates anything but what it knows.
LEMMA EndsKeeps ==
  ASSUME WorkInv, NEW s \in Sessions, NEW result \in Results, Ends(s, result),
         parts' = parts \/ \A u \in Sessions \ {s} : pc[u] # "creating"
  PROVE  WorkInv'
<1>1. /\ pc' = [pc EXCEPT ![s] = "idle"] /\ ret' = [ret EXCEPT ![s] = result]
      /\ work' = [work EXCEPT ![s] = {}] /\ arg' = arg
  BY DEF Ends
<1>2. /\ pc' \in [Sessions -> {"idle", "creating", "dropping"}] /\ ret' \in [Sessions -> Results]
      /\ arg' = [u \in Sessions |-> arg'[u]] /\ work' = [u \in Sessions |-> work'[u]]
  BY <1>1 DEF WorkInv
<1>3. \A u \in Sessions : pc'[u] = "creating" =>
        u # s /\ pc[u] = "creating" /\ arg'[u] = arg[u] /\ work'[u] = work[u]
  BY <1>1 DEF WorkInv
<1>4. \A u \in Sessions : pc'[u] = "creating" => Knows(u, parts)'
  BY <1>3 DEF WorkInv, Knows
<1>5. \A u, t \in Sessions : pc'[u] = "creating" /\ pc'[t] = "creating" => u = t
  BY <1>3 DEF WorkInv
<1> QED BY <1>2, <1>4, <1>5 DEF WorkInv

LEMMA CreateKeeps ==
  ASSUME PartsInv, WorkInv, NEW s \in Sessions, CreatePartitions(s)
  PROVE  PartsInv' /\ WorkInv'
<1>1. pc[s] = "creating" /\ Ends(s, ret'[s]) /\ (Succeeds(s) \/ Fails(s))
  BY CreateIs
<1>2. ret'[s] \in Results
  BY <1>1 DEF Succeeds, Fails, Results
<1>3. \A u \in Sessions \ {s} : pc[u] # "creating"
  BY <1>1 DEF WorkInv
<1>4. WorkInv'
  BY <1>1, <1>2, <1>3, EndsKeeps
<1>5. CASE Fails(s)
  BY <1>4, <1>5 DEF Fails, PartsInv
<1>6. CASE Succeeds(s)
  <2> DEFINE i == arg[s].interval
             new == New(i, Missing(parts, i, arg[s].start_from, arg[s].end_at))
  <2>1. /\ i \in Intervals /\ arg[s].start_from \in Times /\ arg[s].end_at \in Times
        /\ work[s] = Missing(parts, i, arg[s].start_from, arg[s].end_at)
    BY <1>1 DEF WorkInv, Knows
  <2>2. parts' = parts \cup new /\ \A f \in Failure : ~FailsBy(f, parts, i, work[s])
    BY <1>6, <2>1 DEF Succeeds
  <2>3. Bounded(parts) /\ Bounded(parts')
    BY <2>1, <2>2, NewBounded DEF PartsInv
  <2>4. \A p, q \in new : IsPartition(p) /\ (p # q => ~Overlap(p, q))
    BY <2>1, <2>3, NewApart
  <2>5. \A p \in new, q \in parts : ~Overlap(p, q)
    BY <2>1, <2>2 DEF FailsBy, Failure
  <2> HIDE DEF new
  <2>6. \A p \in parts' : IsPartition(p)
    BY <2>2, <2>4 DEF PartsInv
  <2>7. ASSUME NEW p \in parts', NEW q \in parts', p # q PROVE ~Overlap(p, q)
    <3>1. CASE p \in new /\ q \in new
      BY <2>4, <2>7, <3>1
    <3>2. CASE p \in new /\ q \in parts
      BY <2>5, <3>2
    <3>3. CASE p \in parts /\ q \in new
      <4>1. ~Overlap(q, p)
        BY <2>5, <3>3
      <4> QED BY <4>1 DEF Overlap
    <3>4. CASE p \in parts /\ q \in parts
      BY <2>7, <3>4 DEF PartsInv
    <3> QED BY <2>2, <2>7, <3>1, <3>2, <3>3, <3>4
  <2>8. PartsInv'
    BY <2>3, <2>6, <2>7 DEF PartsInv
  <2> QED BY <1>4, <2>8
<1> QED BY <1>1, <1>5, <1>6

LEMMA StartsKeeps ==
  ASSUME WorkInv, NEW s \in Sessions, NEW state \in {"creating", "dropping"}, NEW a, NEW w,
         Starts(s, state, a), work' = [work EXCEPT ![s] = w], parts' = parts,
         state = "creating" => TableFree /\ Knows(s, parts)'
  PROVE  WorkInv'
<1>1. /\ pc[s] = "idle" /\ pc' = [pc EXCEPT ![s] = state] /\ arg' = [arg EXCEPT ![s] = a]
      /\ ret' = [ret EXCEPT ![s] = "none"]
  BY DEF Starts
<1>2. /\ pc' \in [Sessions -> {"idle", "creating", "dropping"}] /\ ret' \in [Sessions -> Results]
      /\ arg' = [u \in Sessions |-> arg'[u]] /\ work' = [u \in Sessions |-> work'[u]]
  BY <1>1 DEF WorkInv, Results
<1>3. \A u \in Sessions \ {s} : pc'[u] = pc[u] /\ arg'[u] = arg[u] /\ work'[u] = work[u]
  BY <1>1 DEF WorkInv
<1>4. pc'[s] = state
  BY <1>1 DEF WorkInv
<1>5. \A u \in Sessions : pc'[u] = "creating" => Knows(u, parts)'
  <2> SUFFICES ASSUME NEW u \in Sessions, pc'[u] = "creating" PROVE Knows(u, parts)'
    OBVIOUS
  <2>1. CASE u = s
    BY <1>4, <2>1
  <2>2. CASE u # s
    BY <1>3, <2>2 DEF WorkInv, Knows
  <2> QED BY <2>1, <2>2
<1>6. \A u, t \in Sessions : pc'[u] = "creating" /\ pc'[t] = "creating" => u = t
  BY <1>3, <1>4 DEF WorkInv, TableFree
<1> QED BY <1>2, <1>5, <1>6 DEF WorkInv

LEMMA FewerParts ==
  ASSUME PartsInv, parts' \subseteq parts
  PROVE  PartsInv'
BY DEF PartsInv, Bounded

LEMMA ManualKeeps ==
  ASSUME PartsInv, WorkInv, CreateManually
  PROVE  PartsInv' /\ WorkInv'
<1>1. PICK r \in ManualRanges :
        /\ \A q \in parts : ~Overlap([name |-> <<"manual", r.from>>, from |-> r.from, to |-> r.to], q)
        /\ parts' = parts \cup {[name |-> <<"manual", r.from>>, from |-> r.from, to |-> r.to]}
  BY DEF CreateManually
<1> DEFINE p == [name |-> <<"manual", r.from>>, from |-> r.from, to |-> r.to]
<1>2. r.from \in Int /\ r.to \in Int /\ r.from < r.to
  BY TimePartitionsAssumption
<1>3. p.name = <<"manual", r.from>> /\ p.from = r.from /\ p.to = r.to
      /\ p = [name |-> p.name, from |-> p.from, to |-> p.to]
  OBVIOUS
<1>4. parts' = parts \cup {p} /\ \A q \in parts : ~Overlap(p, q)
  BY <1>1
<1> HIDE DEF p
<1>5. IsPartition(p)
  BY <1>2, <1>3 DEF IsPartition
<1>6. Bounded(parts')
  <2>1. PICK low \in Int : \A q \in parts : q.from \in Int /\ q.from >= low
    BY DEF PartsInv, Bounded
  <2>2. PICK b \in Int : b <= low /\ b <= p.from
    <3>1. low <= p.from \/ p.from <= low
      BY <1>2, <1>3
    <3> QED BY <1>2, <1>3, <3>1
  <2>3. \A q \in parts' : q.from \in Int /\ q.from >= b
    BY <1>2, <1>3, <1>4, <2>1, <2>2
  <2> QED BY <2>3 DEF Bounded
<1>7. \A q, u \in parts' : q # u => ~Overlap(q, u)
  <2>1. \A q \in parts : ~Overlap(q, p)
    BY <1>4 DEF Overlap
  <2> QED BY <1>4, <2>1 DEF PartsInv
<1>8. PartsInv'
  BY <1>4, <1>5, <1>6, <1>7 DEF PartsInv
<1>9. WorkInv'
  BY DEF CreateManually, TableFree, WorkInv
<1> QED BY <1>8, <1>9

LEMMA NextKeeps ==
  ASSUME PartsInv, WorkInv, [Next]_vars
  PROVE  PartsInv' /\ WorkInv'
<1>1. CASE UNCHANGED vars
  BY <1>1 DEF vars, PartsInv, WorkInv, Knows
<1>2. ASSUME NEW s \in Sessions, NEW i \in Intervals, NEW end_at \in Times,
             NEW start_from \in Times, create_time_partitions(s, i, end_at, start_from)
      PROVE  PartsInv' /\ WorkInv'
  <2> DEFINE a == [interval |-> i, end_at |-> end_at, start_from |-> start_from]
             w == Missing(parts, i, start_from, end_at)
  <2>1. /\ start_from < end_at /\ TableFree /\ Starts(s, "creating", a)
        /\ work' = [work EXCEPT ![s] = w] /\ parts' = parts
    BY <1>2 DEF create_time_partitions
  <2>2. arg'[s] = a /\ work'[s] = w
    BY <2>1 DEF Starts, WorkInv
  <2>3. arg'[s].interval = i /\ arg'[s].start_from = start_from /\ arg'[s].end_at = end_at
    BY <2>2
  <2>4. Knows(s, parts)'
    BY <2>1, <2>2, <2>3 DEF Knows
  <2> HIDE DEF a, w
  <2>5. WorkInv'
    BY <2>1, <2>4, StartsKeeps
  <2> QED BY <2>1, <2>5 DEF PartsInv
<1>3. ASSUME NEW s \in Sessions, NEW t \in Times, drop_old_time_partitions(s, t)
      PROVE  PartsInv' /\ WorkInv'
  <2> DEFINE a == [older_than |-> t]
             w == {p.name : p \in {q \in parts : q.to <= t}}
  <2>1. Starts(s, "dropping", a) /\ work' = [work EXCEPT ![s] = w] /\ parts' = parts
    BY <1>3 DEF drop_old_time_partitions
  <2> HIDE DEF a, w
  <2>2. WorkInv'
    BY <2>1, StartsKeeps
  <2> QED BY <2>1, <2>2 DEF PartsInv
<1>4. ASSUME NEW s \in Sessions, CreatePartitions(s) PROVE PartsInv' /\ WorkInv'
  BY <1>4, CreateKeeps
<1>5. ASSUME NEW s \in Sessions, DropPartitions(s) PROVE PartsInv' /\ WorkInv'
  <2>1. TableFree /\ parts' \subseteq parts
    BY <1>5 DEF DropPartitions
  <2>2. PICK result \in {"true", "undefined table"} : Ends(s, result)
    BY <1>5 DEF DropPartitions
  <2>3. result \in Results
    BY DEF Results, Success
  <2> QED BY <2>1, <2>2, <2>3, FewerParts, EndsKeeps DEF TableFree
<1>6. ASSUME NEW s \in Sessions, Interrupt(s) PROVE PartsInv' /\ WorkInv'
  <2>1. Ends(s, "interrupted") /\ parts' = parts /\ "interrupted" \in Results
    BY <1>6 DEF Interrupt, Results
  <2> QED BY <2>1, FewerParts, EndsKeeps
<1>7. CASE CreateManually
  BY <1>7, ManualKeeps
<1> QED BY <1>1, <1>2, <1>3, <1>4, <1>5, <1>6, <1>7 DEF Next

LEMMA Invariance == Spec => [](PartsInv /\ WorkInv)
<1>1. Init => PartsInv /\ WorkInv
  <2> SUFFICES ASSUME Init PROVE PartsInv /\ WorkInv
    OBVIOUS
  <2>1. 0 \in Int
    OBVIOUS
  <2> QED BY <2>1 DEF Init, PartsInv, WorkInv, Bounded, Results
<1>2. (PartsInv /\ WorkInv) /\ [Next]_vars => (PartsInv /\ WorkInv)'
  <2>1. (PartsInv /\ WorkInv) /\ [Next]_vars => PartsInv' /\ WorkInv'
    BY NextKeeps
  <2> QED BY <2>1
<1> QED BY <1>1, <1>2, PTL DEF Spec

-----------------------------------------------------------------------------
(* The theorems. *)

LEMMA NamesKept ==
  ASSUME UserNamesApart, PartsInv, WorkInv, NameInv, [Next]_vars
  PROVE  NameInv'
<1>1. ASSUME parts' \subseteq parts PROVE NameInv'
  BY <1>1 DEF NameInv
<1>2. ASSUME NEW s \in Sessions, CreatePartitions(s) PROVE NameInv'
  <2>1. CASE Fails(s)
    BY <1>1, <2>1 DEF Fails
  <2>2. CASE Succeeds(s)
    <3> DEFINE new == New(arg[s].interval, work[s])
    <3>1. parts' = parts \cup new /\ \A p \in new, q \in new \cup parts : p # q => p.name # q.name
      BY <2>2 DEF Succeeds, FailsBy, Failure
    <3> HIDE DEF new
    <3> SUFFICES ASSUME NEW p \in parts', NEW q \in parts', p # q PROVE p.name # q.name
      BY DEF NameInv
    <3>2. CASE p \in new
      BY <3>1, <3>2
    <3>3. CASE q \in new
      BY <3>1, <3>3
    <3>4. CASE p \in parts /\ q \in parts
      BY <3>4 DEF NameInv
    <3> QED BY <3>1, <3>2, <3>3, <3>4
  <2> QED BY <1>2, <2>1, <2>2, CreateIs
<1>3. CASE CreateManually
  <2>1. PICK r \in ManualRanges :
          /\ \A q \in parts : ~Overlap([name |-> <<"manual", r.from>>, from |-> r.from, to |-> r.to], q)
          /\ parts' = parts \cup {[name |-> <<"manual", r.from>>, from |-> r.from, to |-> r.to]}
    BY <1>3 DEF CreateManually
  <2> DEFINE p == [name |-> <<"manual", r.from>>, from |-> r.from, to |-> r.to]
  <2>2. p.name = <<"manual", r.from>> /\ p.from = r.from /\ p.to = r.to
    OBVIOUS
  <2>3. parts' = parts \cup {p} /\ \A q \in parts : ~Overlap(p, q)
    BY <2>1
  <2> HIDE DEF p
  <2>4. r.from \in Int /\ r.to \in Int /\ r.from < r.to
    BY TimePartitionsAssumption
  <2>5. ASSUME NEW q \in parts PROVE q.name # p.name
    <3>1. q.from \in Int /\ q.to \in Int /\ q.from < q.to
      BY DEF PartsInv, IsPartition
    <3>2. CASE \E i \in Intervals : q.name = to_char(i, q.from)
      BY <2>2, <3>1, <3>2 DEF UserNamesApart
    <3>3. CASE \E u \in ManualRanges : q.name = <<"manual", u.from>> /\ q.from = u.from
      <4> SUFFICES ASSUME q.name = p.name PROVE FALSE
        OBVIOUS
      <4>1. PICK u \in ManualRanges : q.name = <<"manual", u.from>> /\ q.from = u.from
        BY <3>3
      <4>2. <<"manual", u.from>> = <<"manual", r.from>>
        BY <2>2, <4>1
      <4>3. q.from = p.from
        BY <2>2, <4>1, <4>2
      <4> QED BY <2>2, <2>3, <2>4, <3>1, <4>3 DEF Overlap
    <3> QED BY <3>2, <3>3 DEF PartsInv, IsPartition
  <2> QED BY <2>3, <2>5 DEF NameInv
<1>4. CASE UNCHANGED vars
  BY <1>1, <1>4 DEF vars
<1>5. ASSUME NEW s \in Sessions,
             \/ \E i \in Intervals, end_at, start_from \in Times :
                  create_time_partitions(s, i, end_at, start_from)
             \/ \E t \in Times : drop_old_time_partitions(s, t)
             \/ DropPartitions(s) \/ Interrupt(s)
      PROVE  NameInv'
  <2>1. parts' \subseteq parts
    BY <1>5 DEF create_time_partitions, drop_old_time_partitions, DropPartitions, Interrupt
  <2> QED BY <1>1, <2>1
<1> QED BY <1>2, <1>3, <1>4, <1>5 DEF Next

LEMMA InvTyped ==
  ASSUME PartsInv, WorkInv, NameInv
  PROVE  TypeOK
<1>1. ASSUME NEW p \in parts PROVE p \in Partition
  <2>1. p = [name |-> p.name, from |-> p.from, to |-> p.to] /\ p.from \in Int /\ p.to \in Int
        /\ \/ \E i \in Intervals : p.to = p.from + i /\ p.name = to_char(i, p.from)
           \/ \E r \in ManualRanges : p.name = <<"manual", r.from>> /\ p.from = r.from
    BY DEF PartsInv, IsPartition
  <2> DEFINE N == {to_char(i, q.from) : i \in Intervals, q \in parts}
                    \cup {<<"manual", r.from>> : r \in ManualRanges}
  <2>2. p.name \in N
    BY <2>1
  <2> HIDE DEF N
  <2>3. p \in [name : N, from : Int, to : Int]
    BY <2>1, <2>2
  <2> QED BY <2>3 DEF Partition, N
<1>2. \A p, q \in parts : p # q => p.name # q.name /\ ~Overlap(p, q)
  BY DEF PartsInv, NameInv
<1> QED BY <1>1, <1>2 DEF TypeOK, WorkInv, Results

\* The partitions of a table never overlap, no two have the same name, and the
\* sessions' calls are where they may be, if users keep away from the names that
\* create_time_partitions gives.
THEOREM TypeCorrect ==
  ASSUME UserNamesApart
  PROVE  Spec => []TypeOK
<1>1. Init => NameInv
  BY DEF Init, NameInv
<1>2. (PartsInv /\ WorkInv) /\ NameInv /\ [Next]_vars => NameInv'
  BY NamesKept
<1>3. PartsInv /\ WorkInv /\ NameInv => TypeOK
  BY InvTyped
<1> QED BY <1>1, <1>2, <1>3, Invariance, PTL DEF Spec

\* A table whose partitions are on the grid of the interval.
LEMMA OnGridIs ==
  ASSUME PartsInv, NEW i \in Intervals, NEW from \in Times, NEW to \in Times, Aligned(parts, i),
         NEW r \in Missing(parts, i, from, to), NEW p \in parts
  PROVE  /\ r.from \in Int /\ r.to = r.from + i /\ p.from \in Int /\ p.to = p.from + i
         /\ (r.from - p.from) % i = 0
         /\ r.from >= p.from + i \/ p.from >= r.from + i
<1> DEFINE c == FirstFrom(parts, i, from)
           v == Pivot(parts)
<1>1. /\ i \in Nat /\ i >= 1 /\ c \in Int /\ v \in Int /\ p.from \in Int /\ Bounded(parts)
      /\ parts # {}
  BY FirstIs, PivotIs, TimePartitionsAssumption DEF PartsInv
<1>2. PICK m \in Int : c = v + i * m
  BY <1>1, FirstIs
<1>3. OnGrid(c, i, to, r) /\ (p.from # r.from \/ p.to # r.to)
  BY <1>1, MissingIs
<1>4. p.to = p.from + i /\ (p.from - v) % i = 0
  BY DEF Aligned
<1> HIDE DEF c, v
<1>a. OnGrid(c, i, to, r)
  BY <1>3
<1>b. \E k \in Nat : IsAt(r, c, i, k)
  BY <1>1, <1>a, GridIs
<1>5. PICK k \in Nat : i * k \in Int /\ r.from = c + i * k /\ r.to = r.from + i /\ r.from \in Int
  BY <1>b DEF IsAt
<1> DEFINE e == (p.from - v) \div i
<1>6. e \in Int /\ p.from - v = i * e
  <2>1. p.from - v \in Int
    BY <1>1
  <2>2. e \in Int /\ p.from - v = i * e + ((p.from - v) % i)
    BY <1>1, <2>1, DivMod
  <2>3. i * e \in Int
    BY <1>1, <2>2, Products
  <2> HIDE DEF e
  <2> QED BY <1>1, <1>4, <2>2, <2>3
<1> HIDE DEF e
<1> DEFINE d == m + k - e
<1>7. d \in Int /\ r.from - p.from = i * d
  <2>1. i * (m + k) = i * m + i * k /\ m + k \in Int /\ i * m \in Int /\ i * e \in Int
    BY <1>1, <1>2, <1>5, <1>6, Products
  <2>2. i * ((m + k) - e) = i * (m + k) - i * e /\ (m + k) - e = d /\ d \in Int
    BY <1>1, <1>6, <2>1, Products
  <2> HIDE DEF d
  <2>a. i * d = i * (m + k) - i * e
    BY <2>2, Zenon
  <2>3. i * d = (i * m + i * k) - i * e
    BY <2>1, <2>a, Zenon
  <2>4. p.from = v + i * e
    BY <1>1, <1>6, <2>1
  <2>5. r.from = v + i * m + i * k
    BY <1>2, <1>5
  <2>6. r.from - p.from = (i * m + i * k) - i * e
    BY <1>1, <1>5, <2>1, <2>4, <2>5
  <2> QED BY <2>2, <2>3, <2>6
<1> HIDE DEF d
<1>8. d # 0
  <2> SUFFICES ASSUME d = 0 PROVE FALSE
    OBVIOUS
  <2>1. r.from = p.from
    BY <1>1, <1>5, <1>7
  <2> QED BY <1>3, <1>4, <1>5, <2>1
<1>9. r.from >= p.from + i \/ p.from >= r.from + i
  <2>1. (d < 0 => i * d + i <= i * 0) /\ (0 < d => i * 0 + i <= i * d) /\ i * 0 = 0 /\ i * d \in Int
    BY <1>1, <1>7, Products
  <2> QED BY <1>1, <1>5, <1>7, <1>8, <2>1
<1>10. (r.from - p.from) % i = 0
  BY <1>1, <1>7, Multiple
<1> QED BY <1>1, <1>4, <1>5, <1>9, <1>10

LEMMA NoFailure ==
  ASSUME NamesTellApart, UserNamesApart, PartsInv,
         NEW i \in Intervals, NEW from \in Times, NEW to \in Times, Aligned(parts, i),
         NEW f \in Failure
  PROVE  ~FailsBy(f, parts, i, Missing(parts, i, from, to))
<1> DEFINE rs == Missing(parts, i, from, to)
<1>1. i \in Nat /\ i >= 1 /\ Bounded(parts)
  BY TimePartitionsAssumption DEF PartsInv
<1>2. ASSUME NEW r \in rs, NEW p \in parts
      PROVE  /\ r.from \in Int /\ r.to = r.from + i /\ p.from \in Int /\ p.to = p.from + i
             /\ (r.from - p.from) % i = 0
             /\ r.from >= p.from + i \/ p.from >= r.from + i
  BY OnGridIs
<1>3. \A p, q \in New(i, rs) : IsPartition(p) /\ (p.from - q.from) % i = 0 /\ (p.from = q.from => p = q)
  BY <1>1, NewApart
<1>4. \A p \in New(i, rs) : \E r \in rs : p.name = to_char(i, r.from) /\ p.from = r.from /\ p.to = r.to
  BY DEF New
<1> HIDE DEF rs
<1>5. ~Misaligned(parts, rs)
  BY <1>1, <1>2 DEF Misaligned
<1>6. ASSUME NEW p \in New(i, rs), NEW q \in parts PROVE ~Overlap(p, q) /\ p.name # q.name
  <2>1. PICK r \in rs : p.name = to_char(i, r.from) /\ p.from = r.from /\ p.to = r.to
    BY <1>4
  <2>2. /\ r.from \in Int /\ r.to = r.from + i /\ q.from \in Int /\ q.to = q.from + i
        /\ (r.from - q.from) % i = 0
        /\ r.from >= q.from + i \/ q.from >= r.from + i
    BY <1>2
  <2>3. ~Overlap(p, q)
    BY <1>1, <2>1, <2>2 DEF Overlap
  <2>4. p.name # q.name
    <3>1. CASE \E j \in Intervals : q.to = q.from + j /\ q.name = to_char(j, q.from)
      <4>1. PICK j \in Intervals : q.to = q.from + j /\ q.name = to_char(j, q.from)
        BY <3>1
      <4>2. j \in Int
        BY TimePartitionsAssumption
      <4>3. j = i
        BY <1>1, <2>2, <4>1, <4>2
      <4>4. r.from # q.from
        BY <1>1, <2>2
      <4> QED BY <2>1, <2>2, <4>1, <4>3, <4>4 DEF NamesTellApart
    <3>2. CASE \E u \in ManualRanges : q.name = <<"manual", u.from>>
      BY <2>1, <2>2, <3>2 DEF UserNamesApart
    <3> QED BY <3>1, <3>2 DEF PartsInv, IsPartition
  <2> QED BY <2>3, <2>4
<1>7. ASSUME NEW p \in New(i, rs), NEW q \in New(i, rs), p # q PROVE p.name # q.name
  <2>1. PICK r \in rs : p.name = to_char(i, r.from) /\ p.from = r.from
    BY <1>4
  <2>2. PICK u \in rs : q.name = to_char(i, u.from) /\ q.from = u.from
    BY <1>4
  <2>3. p.from \in Int /\ q.from \in Int /\ (p.from - q.from) % i = 0 /\ p.from # q.from
    BY <1>3, <1>7 DEF IsPartition
  <2> QED BY <2>1, <2>2, <2>3 DEF NamesTellApart
<1> QED BY <1>5, <1>6, <1>7 DEF FailsBy, rs

\* A step by which s's call ends as one that created partitions, or failed to.
LEMMA EndIs ==
  ASSUME WorkInv, [Next]_vars, NEW s \in Sessions, pc[s] = "creating",
         ret'[s] \in Success \cup Failure, ret'[s] # ret[s] \/ pc'[s] = "idle"
  PROVE  CreatePartitions(s)
<1>1. CASE UNCHANGED vars
  BY <1>1 DEF vars
<1>2. ASSUME NEW u \in Sessions, NEW i \in Intervals, NEW end_at \in Times,
             NEW start_from \in Times, create_time_partitions(u, i, end_at, start_from)
      PROVE  FALSE
  BY <1>2 DEF create_time_partitions, TableFree
<1>3. ASSUME NEW u \in Sessions, NEW t \in Times, drop_old_time_partitions(u, t) PROVE FALSE
  <2>1. Starts(u, "dropping", [older_than |-> t])
    BY <1>3 DEF drop_old_time_partitions
  <2>2. u # s /\ pc'[s] = pc[s] /\ ret'[s] = ret[s]
    BY <2>1 DEF Starts, WorkInv
  <2> QED BY <2>2
<1>4. ASSUME NEW u \in Sessions, CreatePartitions(u) PROVE u = s
  BY <1>4 DEF CreatePartitions, WorkInv
<1>5. ASSUME NEW u \in Sessions, DropPartitions(u) PROVE FALSE
  BY <1>5 DEF DropPartitions, TableFree
<1>6. ASSUME NEW u \in Sessions, Interrupt(u) PROVE FALSE
  <2>1. Ends(u, "interrupted")
    BY <1>6 DEF Interrupt
  <2>2. CASE u = s
    <3>1. ret'[s] = "interrupted"
      BY <2>1, <2>2 DEF Ends, WorkInv
    <3> QED BY <3>1 DEF Success, Failure
  <2>3. CASE u # s
    BY <2>1, <2>3 DEF Ends, WorkInv
  <2> QED BY <2>2, <2>3
<1>7. ~CreateManually
  BY DEF CreateManually, TableFree
<1> QED BY <1>1, <1>2, <1>3, <1>4, <1>5, <1>6, <1>7 DEF Next

\* A call that goes on has no result yet.
QuietInv == \A s \in Sessions : pc[s] = "creating" => ret[s] = "none"

LEMMA QuietKept ==
  ASSUME WorkInv, QuietInv, [Next]_vars
  PROVE  QuietInv'
<1>1. ASSUME NEW s \in Sessions, NEW state, NEW a, Starts(s, state, a) PROVE QuietInv'
  BY <1>1 DEF Starts, WorkInv, QuietInv
<1>2. ASSUME NEW s \in Sessions, NEW result, Ends(s, result) PROVE QuietInv'
  BY <1>2 DEF Ends, WorkInv, QuietInv
<1>3. ASSUME pc' = pc, ret' = ret PROVE QuietInv'
  BY <1>3 DEF QuietInv
<1>4. ASSUME NEW s \in Sessions, NEW i \in Intervals, NEW end_at \in Times,
             NEW start_from \in Times, create_time_partitions(s, i, end_at, start_from)
      PROVE  QuietInv'
  BY <1>1, <1>4 DEF create_time_partitions
<1>5. ASSUME NEW s \in Sessions, NEW t \in Times, drop_old_time_partitions(s, t) PROVE QuietInv'
  BY <1>1, <1>5 DEF drop_old_time_partitions
<1>6. ASSUME NEW s \in Sessions, CreatePartitions(s) PROVE QuietInv'
  <2>1. Ends(s, ret'[s])
    BY <1>6, CreateIs
  <2> QED BY <1>2, <2>1
<1>7. ASSUME NEW s \in Sessions, DropPartitions(s) \/ Interrupt(s) PROVE QuietInv'
  BY <1>2, <1>7 DEF DropPartitions, Interrupt
<1>8. CASE CreateManually \/ UNCHANGED vars
  BY <1>3, <1>8 DEF CreateManually, vars
<1> QED BY <1>4, <1>5, <1>6, <1>7, <1>8 DEF Next

LEMMA QuietInvariance == Spec => []QuietInv
<1>1. Init => QuietInv
  BY DEF Init, QuietInv
<1>2. (PartsInv /\ WorkInv) /\ QuietInv /\ [Next]_vars => QuietInv'
  BY QuietKept
<1> QED BY <1>1, <1>2, Invariance, PTL DEF Spec

\* A call to create partitions fails only on a table that has a partition off the
\* call's grid, whatever other sessions and users did before, if the names tell
\* apart the ranges of one interval.
THEOREM CallsAlwaysSucceed ==
  ASSUME NamesTellApart, UserNamesApart
  PROVE  Spec => CallsSucceed
<1> DEFINE A == \A s \in Sessions :
                  pc[s] = "creating" /\ ret'[s] \in Failure => ~Aligned(parts, arg[s].interval)
<1>1. (PartsInv /\ WorkInv) /\ QuietInv /\ [Next]_vars => [A]_vars
  <2> SUFFICES ASSUME PartsInv, WorkInv, QuietInv, [Next]_vars PROVE A
    OBVIOUS
  <2> SUFFICES ASSUME NEW s \in Sessions, pc[s] = "creating", ret'[s] \in Failure,
                      Aligned(parts, arg[s].interval)
               PROVE  FALSE
    OBVIOUS
  <2>1. ret'[s] # ret[s]
    BY DEF QuietInv, Failure
  <2>2. CreatePartitions(s)
    BY <2>1, EndIs
  <2>3. Fails(s)
    <3>1. Succeeds(s) \/ Fails(s)
      BY <2>2, CreateIs
    <3> QED BY <3>1 DEF Succeeds, Success, Failure
  <2> DEFINE i == arg[s].interval
  <2>4. /\ i \in Intervals /\ arg[s].start_from \in Times /\ arg[s].end_at \in Times
        /\ work[s] = Missing(parts, i, arg[s].start_from, arg[s].end_at)
    BY DEF WorkInv, Knows
  <2>5. ~FailsBy(ret'[s], parts, i, Missing(parts, i, arg[s].start_from, arg[s].end_at))
    BY <2>4, NoFailure
  <2> QED BY <2>3, <2>4, <2>5 DEF Fails
<1> QED BY <1>1, Invariance, QuietInvariance, PTL DEF Spec, CallsSucceed

\* The end of a call that created what was missing.
LEMMA CreatedIs ==
  ASSUME PartsInv, WorkInv, [Next]_vars, NEW s \in Sessions, Created(s)
  PROVE  /\ arg[s].interval \in Intervals /\ arg[s].start_from \in Times /\ arg[s].end_at \in Times
         /\ arg[s].start_from < arg[s].end_at /\ arg'[s] = arg[s]
         /\ parts' = parts \cup New(arg[s].interval, Missing(parts, arg[s].interval,
                                                             arg[s].start_from, arg[s].end_at))
<1>1. CreatePartitions(s)
  BY EndIs DEF Created
<1>2. pc[s] = "creating" /\ Ends(s, ret'[s]) /\ (Succeeds(s) \/ Fails(s))
  BY <1>1, CreateIs
<1>3. Succeeds(s)
  BY <1>2 DEF Created, Fails, Success, Failure
<1>4. Knows(s, parts) /\ arg' = arg
  BY <1>2 DEF WorkInv, Ends
<1> QED BY <1>3, <1>4 DEF Succeeds, Knows

\* The first call on a table makes place for every row of its range.
THEOREM FirstCallCoversAll == Spec => FirstCallCovers
<1> DEFINE A == \A s \in Sessions : Created(s) /\ parts = {} =>
                  Covered(parts', arg[s].start_from, arg[s].end_at)
<1>1. (PartsInv /\ WorkInv) /\ [Next]_vars => [A]_vars
  <2> SUFFICES ASSUME PartsInv, WorkInv, [Next]_vars, NEW s \in Sessions, Created(s), parts = {}
               PROVE  Covered(parts', arg[s].start_from, arg[s].end_at)
    OBVIOUS
  <2> DEFINE i == arg[s].interval
             from == arg[s].start_from
             to == arg[s].end_at
             c == FirstFrom(parts, i, from)
             rs == Missing(parts, i, from, to)
  <2>1. i \in Intervals /\ from \in Times /\ to \in Times /\ parts' = parts \cup New(i, rs)
    BY CreatedIs
  <2> HIDE DEF i, from, to
  <2>2. Bounded(parts) /\ i \in Nat /\ i >= 1 /\ from \in Int /\ to \in Int
    BY <2>1, TimePartitionsAssumption DEF PartsInv
  <2>3. c \in Int /\ c <= from
    BY <2>1, <2>2, FirstIs
  <2>4. \A r : OnGrid(c, i, to, r) => r \in rs
    BY <2>1, <2>2, MissingIs
  <2> HIDE DEF c, rs
  <2>5. ASSUME NEW t \in from..(to - 1) PROVE \E p \in parts' : p.from <= t /\ t < p.to
    <3>1. t \in Int /\ c <= t /\ t < to
      BY <2>2, <2>3
    <3>2. PICK r : OnGrid(c, i, to, r) /\ r.from <= t /\ t < r.to
      BY <2>2, <2>3, <3>1, GridCovers
    <3>3. r \in rs
      BY <2>4, <3>2
    <3>4. PICK p \in New(i, rs) : p.from = r.from /\ p.to = r.to
      BY <3>3, NewHas
    <3> QED BY <2>1, <3>2, <3>4
  <2> QED BY <2>5 DEF Covered, from, to
<1> QED BY <1>1, Invariance, PTL DEF Spec, FirstCallCovers

\* The same call right after one that succeeded has nothing to do, also when the
\* first one put partitions ahead of all others and so moved the pivot.
THEOREM RepeatIsIdle == Spec => RepeatedCallIsIdle
<1> DEFINE A == \A s \in Sessions : Created(s) =>
                  Missing(parts', arg[s].interval, arg[s].start_from, arg[s].end_at) = {}
<1>1. (PartsInv /\ WorkInv) /\ [Next]_vars => [A]_vars
  <2> SUFFICES ASSUME PartsInv, WorkInv, [Next]_vars, NEW s \in Sessions, Created(s)
               PROVE  Missing(parts', arg[s].interval, arg[s].start_from, arg[s].end_at) = {}
    OBVIOUS
  <2>1. /\ arg[s].interval \in Intervals /\ arg[s].start_from \in Times /\ arg[s].end_at \in Times
        /\ arg[s].start_from < arg[s].end_at
        /\ parts' = parts \cup New(arg[s].interval, Missing(parts, arg[s].interval,
                                                            arg[s].start_from, arg[s].end_at))
    BY CreatedIs
  <2>2. Bounded(parts)
    BY DEF PartsInv
  <2> QED BY <2>1, <2>2, NothingMissing
<1> QED BY <1>1, Invariance, PTL DEF Spec, RepeatedCallIsIdle

=============================================================================
