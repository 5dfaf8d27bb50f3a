-------------------------- MODULE SimpleHash_proofs --------------------------
(***************************************************************************)
(* The table stays a robin hood table through every sequence of calls, for *)
(* any keys, hash function, limits of growth and largest size.             *)
(*                                                                         *)
(* The lemmas are about a number n of buckets and an array f of them, and  *)
(* about the calls only in the end.                                        *)
(***************************************************************************)
EXTENDS SimpleHash, Integers, FiniteSetTheorems, NaturalsInduction, WellFoundedInduction, TLAPS

\* A set of naturals that is not empty has a least element, which Min is.
LEMMA Least ==
  ASSUME NEW T \in SUBSET Nat, T # {}
  PROVE  Min(T) \in T /\ \A y \in T : Min(T) <= y
<1>1. PICK x \in T : \A y \in T : ~(<<y, x>> \in OpToRel(<, Nat))
  BY NatLessThanWellFounded, WFMin, T \subseteq Nat, Zenon
<1>2. \A y \in T : ~(y < x)
  BY <1>1 DEF OpToRel
<1>3. \E z \in T : \A y \in T : z <= y
  BY <1>2
<1> QED BY <1>3 DEF Min

-----------------------------------------------------------------------------
(* Buckets in a circle of n. *)

\* d buckets after b, d buckets before b, and how far b is after a.
Fwd(n, b, d) == IF b + d < n THEN b + d ELSE b + d - n
Bwd(n, b, d) == IF d <= b THEN b - d ELSE n + b - d
Gap(n, a, b) == IF a <= b THEN b - a ELSE n + b - a

LEMMA DivMod ==
  ASSUME NEW n \in Nat, n >= 1, NEW x \in Int
  PROVE  /\ x \div n \in Int /\ x % n \in 0..n - 1
         /\ x = n * (x \div n) + (x % n)
BY SMT

\* The remainder of a number that is not too large.
LEMMA ModSmall ==
  ASSUME NEW n \in Nat, n >= 2, NEW x \in 0..2 * n - 1
  PROVE  (x < n => x % n = x) /\ (x >= n => x % n = x - n)
<1> DEFINE p == x \div n
           r == x % n
<1>1. p \in Int /\ r \in 0..n - 1 /\ x = n * p + r
  BY DivMod
<1> HIDE DEF p, r
<1>2. p >= 0
  <2>1. ASSUME p <= -1 PROVE FALSE
    <3>1. n * p <= -n
      BY <1>1, <2>1, SMT
    <3> QED BY <1>1, <3>1
  <2> QED BY <1>1, <2>1
<1>3. p <= 1
  <2>1. ASSUME p >= 2 PROVE FALSE
    <3>1. n * p >= n + n
      BY <1>1, <2>1, SMT
    <3> QED BY <1>1, <3>1
  <2> QED BY <1>1, <2>1
<1>4. p = 0 \/ p = 1
  BY <1>1, <1>2, <1>3
<1>5. n * 0 = 0 /\ n * 1 = n
  OBVIOUS
<1>6. (x < n => r = x) /\ (x >= n => r = x - n)
  BY <1>1, <1>4, <1>5
<1> QED BY <1>6 DEF r

LEMMA Circle ==
  ASSUME NEW n \in Nat, n >= 2, NEW a \in 0..n - 1, NEW b \in 0..n - 1, NEW d \in 0..n
  PROVE  /\ (b + d) % n = Fwd(n, b, d)
         /\ (n + b - d) % n = Bwd(n, b, d)
         /\ (n + b - a) % n = Gap(n, a, b)
<1>1. b + d \in 0..2 * n - 1 /\ n + b - d \in 0..2 * n - 1 /\ n + b - a \in 0..2 * n - 1
  OBVIOUS
<1>2. ASSUME NEW x \in Int, x \in 0..2 * n - 1
      PROVE  (x < n => x % n = x) /\ (x >= n => x % n = x - n)
  BY <1>2, ModSmall, Zenon
<1>3. (b + d) % n = Fwd(n, b, d)
  <2>1. CASE b + d < n
    BY <1>1, <1>2, <2>1 DEF Fwd
  <2>2. CASE b + d >= n
    BY <1>1, <1>2, <2>2 DEF Fwd
  <2> QED BY <2>1, <2>2
<1>4. (n + b - d) % n = Bwd(n, b, d)
  <2>1. CASE n + b - d < n
    BY <1>1, <1>2, <2>1 DEF Bwd
  <2>2. CASE n + b - d >= n
    BY <1>1, <1>2, <2>2 DEF Bwd
  <2> QED BY <2>1, <2>2
<1>5. (n + b - a) % n = Gap(n, a, b)
  <2>1. CASE n + b - a < n
    BY <1>1, <1>2, <2>1 DEF Gap
  <2>2. CASE n + b - a >= n
    BY <1>1, <1>2, <2>2 DEF Gap
  <2> QED BY <2>1, <2>2
<1> QED BY <1>3, <1>4, <1>5

\* The remainder of twice the size has the remainder as its own.
LEMMA ModDouble ==
  ASSUME NEW n \in Nat, n >= 2, NEW m, m = 2 * n, NEW h \in Nat
  PROVE  /\ h % n \in 0..n - 1
         /\ h % m = h % n \/ h % m = (h % n) + n
<1> DEFINE q == h \div m
           s == h % m
           p == h \div n
           r == h % n
           d == p - 2 * q
<1>1. m \in Nat /\ m >= 2 /\ m = n + n
  OBVIOUS
<1>2. q \in Int /\ s \in 0..m - 1 /\ h = m * q + s
  <2>1. m >= 1 /\ h \in Int
    BY <1>1
  <2> QED BY <1>1, <2>1, DivMod, Zenon
<1>3. p \in Int /\ r \in 0..n - 1 /\ h = n * p + r
  BY DivMod
<1>4. m * q = n * (2 * q)
  <2>1. \A x \in Int : (2 * n) * x = n * (2 * x)
    BY SMT
  <2> QED BY <1>2, <2>1
<1> HIDE DEF q, s, p, r
<1>5. d \in Int /\ n * p = n * (2 * q) + n * d
  BY <1>2, <1>3, SMT
<1> HIDE DEF d
<1>6. s = n * d + r
  BY <1>1, <1>2, <1>3, <1>4, <1>5, SMT
<1>7. d >= 0
  <2>1. ASSUME d <= -1 PROVE FALSE
    <3>1. n * d <= -n
      BY <1>5, <2>1, SMT
    <3> DEFINE x == n * d
    <3>2. x \in Int /\ s = x + r /\ x <= -n
      BY <1>5, <1>6, <3>1
    <3> HIDE DEF x
    <3> QED BY <1>2, <1>3, <3>2
  <2> QED BY <1>5, <2>1
<1>8. d <= 1
  <2>1. ASSUME d >= 2 PROVE FALSE
    <3>1. n * d >= n + n
      BY <1>5, <2>1, SMT
    <3> DEFINE x == n * d
    <3>2. x \in Int /\ s = x + r /\ x >= n + n
      BY <1>5, <1>6, <3>1
    <3> HIDE DEF x
    <3> QED BY <1>1, <1>2, <1>3, <3>2
  <2> QED BY <1>5, <2>1
<1>9. n * 0 = 0 /\ n * 1 = n
  OBVIOUS
<1>10. s = r \/ s = r + n
  BY <1>3, <1>5, <1>6, <1>7, <1>8, <1>9
<1> QED BY <1>3, <1>10 DEF s, r

-----------------------------------------------------------------------------
(* Robin hood tables. *)

Opt(n, k) == Hash[k] % n
Far(n, f, b) == Gap(n, Opt(n, f[b]), b)
Next1(n, b) == IF b = n - 1 THEN 0 ELSE b + 1

HasRoom(n, f) == \E b \in 0..n - 1 : f[b] = EMPTY

\* An entry that is not on its optimal bucket is behind one that is at most one bucket
\* less far from its own.
InOrder(n, f) ==
  \A b \in 0..n - 1 :
    LET c == Next1(n, b)
    IN f[c] # EMPTY /\ Far(n, f, c) # 0 => f[b] # EMPTY /\ Far(n, f, c) <= Far(n, f, b) + 1

RobinTable(n, f) ==
  /\ n \in Nat /\ n >= 2
  /\ f \in [0..n - 1 -> Keys \cup {EMPTY}]
  /\ \A b, c \in 0..n - 1 : f[b] = f[c] /\ f[b] # EMPTY => b = c
  /\ InOrder(n, f)

LEMMA OptIs ==
  ASSUME NEW n \in Nat, n >= 2, NEW k \in Keys
  PROVE  Opt(n, k) \in 0..n - 1
BY DivMod, SimpleHashAssumption DEF Opt

LEMMA FarIs ==
  ASSUME NEW n, NEW f, RobinTable(n, f), NEW b \in 0..n - 1, f[b] # EMPTY
  PROVE  /\ f[b] \in Keys /\ Opt(n, f[b]) \in 0..n - 1
         /\ Far(n, f, b) \in 0..n - 1
         /\ b = Fwd(n, Opt(n, f[b]), Far(n, f, b))
<1>1. n \in Nat /\ n >= 2 /\ f[b] \in Keys
  BY DEF RobinTable
<1>2. Opt(n, f[b]) \in 0..n - 1
  BY <1>1, OptIs
<1> QED BY <1>1, <1>2 DEF Far, Gap, Fwd

\* Before an entry there are others, up to its optimal bucket, not much nearer to theirs.
LEMMA Behind ==
  ASSUME NEW n, NEW f, RobinTable(n, f), NEW b \in 0..n - 1, f[b] # EMPTY,
         NEW j \in 0..Far(n, f, b)
  PROVE  LET c == Bwd(n, b, j)
         IN c \in 0..n - 1 /\ f[c] # EMPTY /\ Far(n, f, c) >= Far(n, f, b) - j
<1> DEFINE F == Far(n, f, b)
           OK(i) == f[Bwd(n, b, i)] # EMPTY /\ Far(n, f, Bwd(n, b, i)) >= F - i
           T == {i \in 0..F : ~OK(i)}
<1>1. n \in Nat /\ n >= 2 /\ F \in 0..n - 1
  BY FarIs DEF RobinTable
<1>2. \A i \in 0..F : Bwd(n, b, i) \in 0..n - 1
  BY <1>1 DEF Bwd
<1>3. T = {}
  <2> SUFFICES ASSUME T # {} PROVE FALSE
    OBVIOUS
  <2> DEFINE i == Min(T)
  <2>1. i \in T /\ \A y \in T : i <= y
    <3>1. T \in SUBSET Nat
      BY <1>1
    <3> QED BY <3>1, Least
  <2> HIDE DEF i
  <2>2. i \in 0..F /\ ~OK(i)
    BY <2>1
  <2>3. i # 0
    <3>1. Bwd(n, b, 0) = b
      BY <1>1 DEF Bwd
    <3>2. OK(0)
      BY <1>1, <3>1
    <3> QED BY <2>2, <3>2
  <2>4. i - 1 \in 0..F /\ i - 1 \notin T
    BY <1>1, <2>1, <2>2, <2>3
  <2>5. OK(i - 1)
    BY <2>4
  <2> DEFINE c == Bwd(n, b, i - 1)
             e == Bwd(n, b, i)
  <2>6. c \in 0..n - 1 /\ e \in 0..n - 1 /\ c = Next1(n, e)
    BY <1>1, <2>2, <2>4 DEF Bwd, Next1
  <2> HIDE DEF c, e
  <2>7. f[c] # EMPTY /\ Far(n, f, c) >= F - (i - 1) /\ Far(n, f, c) \in 0..n - 1
    BY <2>5, <2>6, FarIs DEF c
  <2>8. f[e] # EMPTY /\ Far(n, f, c) <= Far(n, f, e) + 1
    BY <1>1, <2>2, <2>6, <2>7 DEF RobinTable, InOrder
  <2>9. Far(n, f, e) \in 0..n - 1
    BY <2>6, <2>8, FarIs
  <2>10. OK(i)
    <3>1. Far(n, f, e) >= F - i
      BY <1>1, <2>2, <2>7, <2>8, <2>9
    <3> QED BY <3>1, <2>8 DEF e
  <2> QED BY <2>2, <2>10
<1>4. OK(j)
  BY <1>3
<1> QED BY <1>2, <1>4

\* So an empty bucket bounds the distances.
LEMMA FarBounded ==
  ASSUME NEW n, NEW f, RobinTable(n, f), NEW e \in 0..n - 1, f[e] = EMPTY,
         NEW b \in 0..n - 1, f[b] # EMPTY
  PROVE  Far(n, f, b) < Gap(n, e, b)
<1> DEFINE g == Gap(n, e, b)
<1>1. n \in Nat /\ n >= 2 /\ Far(n, f, b) \in 0..n - 1
  BY FarIs DEF RobinTable
<1>2. g \in 0..n - 1 /\ Bwd(n, b, g) = e
  BY <1>1 DEF Gap, Bwd
<1> HIDE DEF g
<1>3. ~(g \in 0..Far(n, f, b))
  BY <1>2, Behind
<1> QED BY <1>1, <1>2, <1>3 DEF g

-----------------------------------------------------------------------------
(* Searches. *)

Holds(n, f) == {f[b] : b \in 0..n - 1} \ {EMPTY}
Occupied(n, f) == {b \in 0..n - 1 : f[b] # EMPTY}

\* From the optimal bucket of a key to the key there is no empty bucket, and no entry on
\* its way as short as the key's.
LEMMA Ways ==
  ASSUME NEW n, NEW f, RobinTable(n, f), NEW b \in 0..n - 1, f[b] # EMPTY,
         NEW d \in 0..Far(n, f, b)
  PROVE  LET c == Fwd(n, Opt(n, f[b]), d)
         IN /\ c \in 0..n - 1 /\ f[c] # EMPTY /\ Far(n, f, c) >= d
            /\ f[c] = f[b] => d = Far(n, f, b)
<1> DEFINE o == Opt(n, f[b])
           F == Far(n, f, b)
           c == Fwd(n, o, d)
<1>1. n \in Nat /\ n >= 2 /\ o \in 0..n - 1 /\ F \in 0..n - 1 /\ b = Fwd(n, o, F)
  BY FarIs DEF RobinTable
<1>2. F - d \in 0..F /\ Bwd(n, b, F - d) = c /\ (c = b => d = F)
  <2>1. d \in 0..F
    OBVIOUS
  <2> HIDE DEF o, F
  <2> QED BY <1>1, <2>1 DEF Bwd, Fwd
<1>3. c \in 0..n - 1 /\ f[c] # EMPTY /\ Far(n, f, c) >= d
  <2>1. Far(n, f, Bwd(n, b, F - d)) >= F - (F - d)
    BY <1>2, Behind
  <2>2. F - (F - d) = d
    BY <1>1
  <2> QED BY <1>2, <2>1, <2>2, Behind
<1>4. f[c] = f[b] => d = F
  BY <1>2, <1>3 DEF RobinTable
<1> QED BY <1>3, <1>4

\* The first bucket that satisfies the condition of a search.
LEMMA FirstIs ==
  ASSUME NEW n \in Nat, NEW T \in SUBSET (0..n), T # {}
  PROVE  /\ Min(T) \in T /\ Min(T) \in 0..n /\ Min(T) \in Nat
         /\ \A d \in 0..Min(T) - 1 : d \notin T
<1>1. T \in SUBSET Nat
  OBVIOUS
<1>2. Min(T) \in T /\ \A y \in T : Min(T) <= y
  BY <1>1, Least
<1> DEFINE m == Min(T)
<1> HIDE DEF m
<1>3. m \in T /\ \A y \in T : m <= y
  BY <1>2 DEF m
<1>4. m \in 0..n /\ m \in Nat /\ \A d \in 0..m - 1 : d \notin T
  <2>1. m \in 0..n
    BY <1>3
  <2>2. \A d \in 0..m - 1 : ~(m <= d)
    BY <2>1
  <2> QED BY <1>3, <2>1, <2>2
<1> QED BY <1>3, <1>4 DEF m

\* A search that comes to an empty bucket, or to the key, ends.
LEMMA SearchEnds ==
  ASSUME NEW n \in Nat, n >= 2, NEW f, HasRoom(n, f), NEW o \in 0..n - 1
  PROVE  \E d \in 0..n - 1 : f[Fwd(n, o, d)] = EMPTY
<1>1. PICK e \in 0..n - 1 : f[e] = EMPTY
  BY DEF HasRoom
<1>2. Gap(n, o, e) \in 0..n - 1 /\ Fwd(n, o, Gap(n, o, e)) = e
  BY <1>1 DEF Gap, Fwd
<1> QED BY <1>1, <1>2

\* A lookup ends at the key if it is there.
LEMMA LookupEnds ==
  ASSUME NEW n, NEW f, RobinTable(n, f), HasRoom(n, f), NEW k \in Keys
  PROVE  LET m == Min({d \in 0..n - 1 : f[Fwd(n, Opt(n, k), d)] \in {EMPTY, k}})
             c == Fwd(n, Opt(n, k), m)
         IN /\ m \in 0..n - 1 /\ c \in 0..n - 1
            /\ f[c] \in {EMPTY, k} /\ (f[c] = k <=> k \in Holds(n, f))
<1> DEFINE o == Opt(n, k)
           T == {d \in 0..n - 1 : f[Fwd(n, o, d)] \in {EMPTY, k}}
           m == Min(T)
           c == Fwd(n, o, m)
<1>1. n \in Nat /\ n >= 2 /\ o \in 0..n - 1
  BY OptIs DEF RobinTable
<1> HIDE DEF o
<1>2. T # {}
  BY <1>1, SearchEnds
<1>3. m \in T /\ m \in 0..n - 1 /\ \A d \in 0..m - 1 : d \notin T
  <2>1. T \in SUBSET (0..n - 1) /\ n - 1 \in Nat
    BY <1>1
  <2> HIDE DEF T
  <2> QED BY <1>2, <2>1, FirstIs
<1>4. f[c] \in {EMPTY, k}
  BY <1>3
<1> HIDE DEF T, m
<1>5. c \in 0..n - 1
  BY <1>1, <1>3 DEF Fwd
<1>6. k # EMPTY
  BY SimpleHashAssumption
<1>7. ASSUME k \in Holds(n, f) PROVE f[c] = k
  <2>1. PICK b \in 0..n - 1 : f[b] = k
    BY <1>7 DEF Holds
  <2>2. Far(n, f, b) \in 0..n - 1 /\ b = Fwd(n, o, Far(n, f, b))
    BY <1>6, <2>1, FarIs DEF o
  <2>3. Far(n, f, b) \in T
    BY <2>1, <2>2 DEF T
  <2>4. m <= Far(n, f, b)
    BY <1>3, <2>2, <2>3
  <2>5. m \in 0..Far(n, f, b)
    BY <1>3, <2>2, <2>4
  <2>6. f[Fwd(n, Opt(n, f[b]), m)] # EMPTY
    BY <1>6, <2>1, <2>5, Ways
  <2> QED BY <1>4, <2>1, <2>6 DEF o
<1>8. f[c] = k => k \in Holds(n, f)
  BY <1>5, <1>6 DEF Holds
<1> QED BY <1>3, <1>4, <1>5, <1>7, <1>8 DEF o, m, T

\* Where the search of an insertion stops.
Stops(n, f, k, d) ==
  LET c == Fwd(n, Opt(n, k), d)
  IN f[c] = EMPTY \/ f[c] = k \/ Far(n, f, c) < d

InsertAt(n, f, k) == Min({d \in 0..n - 1 : Stops(n, f, k, d)})

\* It goes no further than the key, so that an insertion finds a key that is there.
LEMMA InsertStops ==
  ASSUME NEW n, NEW f, RobinTable(n, f), HasRoom(n, f), NEW k \in Keys
  PROVE  LET m == InsertAt(n, f, k)
             c == Fwd(n, Opt(n, k), m)
         IN /\ m \in 0..n - 1 /\ c \in 0..n - 1 /\ Stops(n, f, k, m)
            /\ \A d \in 0..m - 1 : ~Stops(n, f, k, d)
            /\ f[c] = k <=> k \in Holds(n, f)
<1> DEFINE o == Opt(n, k)
           T == {d \in 0..n - 1 : Stops(n, f, k, d)}
           m == InsertAt(n, f, k)
           c == Fwd(n, o, m)
<1>1. n \in Nat /\ n >= 2 /\ o \in 0..n - 1
  BY OptIs DEF RobinTable
<1>2. T # {}
  <2>1. PICK d \in 0..n - 1 : f[Fwd(n, o, d)] = EMPTY
    BY <1>1, SearchEnds
  <2> QED BY <2>1 DEF Stops
<1>3. m \in T /\ m \in 0..n - 1 /\ \A d \in 0..m - 1 : d \notin T
  <2>1. T \in SUBSET (0..n - 1) /\ n - 1 \in Nat /\ m = Min(T)
    BY <1>1 DEF InsertAt
  <2> HIDE DEF T, m
  <2> QED BY <1>2, <2>1, FirstIs
<1>4. Stops(n, f, k, m) /\ \A d \in 0..m - 1 : ~Stops(n, f, k, d)
  BY <1>1, <1>3
<1> HIDE DEF T, m, o
<1>5. c \in 0..n - 1
  BY <1>1, <1>3 DEF Fwd
<1>6. k # EMPTY
  BY SimpleHashAssumption
<1>7. ASSUME k \in Holds(n, f) PROVE f[c] = k
  <2>1. PICK b \in 0..n - 1 : f[b] = k
    BY <1>7 DEF Holds
  <2> DEFINE F == Far(n, f, b)
  <2>2. F \in 0..n - 1 /\ b = Fwd(n, o, F)
    BY <1>6, <2>1, FarIs DEF o
  <2> HIDE DEF F
  <2>3. Stops(n, f, k, F)
    BY <2>1, <2>2 DEF Stops, o
  <2>4. m \in 0..F
    BY <1>3, <1>4, <2>2, <2>3
  <2>5. f[c] # EMPTY /\ Far(n, f, c) >= m
    BY <1>6, <2>1, <2>4, Ways DEF o, F
  <2>6. Far(n, f, c) \in 0..n - 1
    BY <1>5, <2>5, FarIs
  <2> QED BY <1>3, <1>4, <2>5, <2>6 DEF Stops, o
<1>8. f[c] = k => k \in Holds(n, f)
  BY <1>5, <1>6 DEF Holds
<1> QED BY <1>3, <1>4, <1>5, <1>7, <1>8 DEF o, m

-----------------------------------------------------------------------------
(* What insertion and deletion do to the buckets. *)

\* The next bucket is one bucket further from everywhere, up to the end of the circle.
LEMMA NextIs ==
  ASSUME NEW n \in Nat, n >= 2, NEW a \in 0..n - 1, NEW b \in 0..n - 1
  PROVE  /\ Next1(n, b) \in 0..n - 1 /\ Next1(n, b) = Fwd(n, b, 1)
         /\ Gap(n, a, b) \in 0..n - 1 /\ Fwd(n, a, Gap(n, a, b)) = b
         /\ Gap(n, a, b) < n - 1 => Gap(n, a, Next1(n, b)) = Gap(n, a, b) + 1
         /\ Gap(n, a, b) = n - 1 => Next1(n, b) = a
         /\ Gap(n, a, b) = 0 <=> b = a
BY DEF Next1, Fwd, Gap

LEMMA AheadIs ==
  ASSUME NEW n \in Nat, n >= 2, NEW a \in 0..n - 1, NEW d \in 0..n - 1
  PROVE  Fwd(n, a, d) \in 0..n - 1 /\ Gap(n, a, Fwd(n, a, d)) = d
BY DEF Fwd, Gap

LEMMA GapIs ==
  ASSUME NEW n \in Nat, n >= 2, NEW a \in 0..n - 1, NEW b \in 0..n - 1
  PROVE  Gap(n, a, b) \in 0..n - 1 /\ Fwd(n, a, Gap(n, a, b)) = b
BY DEF Fwd, Gap

\* The buckets from cur on, up to the m-th after it, move forward by one, and k takes
\* their place.
Pushed(n, f, k, cur, m) ==
  [b \in 0..n - 1 |-> LET d == Gap(n, cur, b)
                      IN IF d = 0 THEN k
                         ELSE IF d \in 1..m THEN f[Fwd(n, cur, d - 1)] ELSE f[b]]

\* The value of a bucket, and of the next.
IsPushed(n, f, k, cur, m, g) ==
  /\ g[cur] = k
  /\ \A b \in 0..n - 1 : Gap(n, cur, b) < m => g[Next1(n, b)] = f[b]
  /\ \A b \in 0..n - 1 : Gap(n, cur, b) > m => g[b] = f[b]

LEMMA PushedIs ==
  ASSUME NEW n \in Nat, n >= 2, NEW f, NEW k, NEW cur \in 0..n - 1, NEW m \in 0..n - 1
  PROVE  IsPushed(n, f, k, cur, m, Pushed(n, f, k, cur, m))
<1> DEFINE g == Pushed(n, f, k, cur, m)
<1>1. g[cur] = k
  BY DEF Pushed, Gap
<1>2. ASSUME NEW b \in 0..n - 1, Gap(n, cur, b) < m PROVE g[Next1(n, b)] = f[b]
  <2> DEFINE d == Gap(n, cur, b)
             c == Next1(n, b)
  <2>1. d \in 0..n - 1 /\ Fwd(n, cur, d) = b /\ c \in 0..n - 1
    BY NextIs
  <2>2. Gap(n, cur, c) = d + 1
    BY <1>2, <2>1, NextIs
  <2>3. d + 1 \in 1..m /\ d + 1 # 0 /\ (d + 1) - 1 = d
    BY <1>2, <2>1
  <2>4. g[c] = f[Fwd(n, cur, (d + 1) - 1)]
    <3> HIDE DEF c, d
    <3> QED BY <2>1, <2>2, <2>3 DEF Pushed
  <2> QED BY <2>1, <2>3, <2>4
<1>3. ASSUME NEW b \in 0..n - 1, Gap(n, cur, b) > m PROVE g[b] = f[b]
  BY <1>3, NextIs DEF Pushed
<1> QED BY <1>1, <1>2, <1>3 DEF IsPushed

\* The entries of the table are those of the old one, each where it was or one bucket
\* further, and k.
LEMMA PushedFrom ==
  ASSUME NEW n \in Nat, n >= 2, NEW f, NEW k, NEW cur \in 0..n - 1, NEW m \in 0..n - 1,
         NEW b \in 0..n - 1
  PROVE  LET g == Pushed(n, f, k, cur, m)
         IN \/ b = cur /\ g[b] = k
            \/ \E a \in 0..n - 1 : /\ Gap(n, cur, a) < m /\ b = Next1(n, a)
                                   /\ Gap(n, cur, b) = Gap(n, cur, a) + 1 /\ g[b] = f[a]
            \/ b # cur /\ Gap(n, cur, b) > m /\ g[b] = f[b]
<1> DEFINE g == Pushed(n, f, k, cur, m)
           d == Gap(n, cur, b)
           a == Fwd(n, cur, d - 1)
<1>1. d \in 0..n - 1 /\ Fwd(n, cur, d) = b /\ (d = 0 <=> b = cur)
  BY NextIs
<1>a. /\ g[cur] = k
      /\ \A c \in 0..n - 1 : Gap(n, cur, c) < m => g[Next1(n, c)] = f[c]
      /\ \A c \in 0..n - 1 : Gap(n, cur, c) > m => g[c] = f[c]
  <2>1. IsPushed(n, f, k, cur, m, Pushed(n, f, k, cur, m))
    BY PushedIs
  <2> HIDE DEF d, a
  <2> QED BY <2>1 DEF IsPushed
<1> HIDE DEF g
<1>2. CASE d = 0
  BY <1>1, <1>2, <1>a DEF g
<1>3. CASE d > m
  <2>1. d # 0
    BY <1>3, <1>1
  <2> QED BY <1>1, <1>3, <2>1, <1>a DEF g
<1>4. CASE d # 0 /\ d <= m
  <2>1. d - 1 \in 0..n - 1 /\ d - 1 < m
    BY <1>1, <1>4
  <2>2. a \in 0..n - 1 /\ Gap(n, cur, a) = d - 1
    BY <2>1, AheadIs
  <2>3. Next1(n, a) = b
    <3>1. Fwd(n, cur, d) = b
      BY <1>1
    <3> QED BY <1>1, <1>4, <3>1 DEF Next1, Fwd
  <2>4. g[Next1(n, a)] = f[a]
    <3> HIDE DEF a, g, d
    <3>1. Gap(n, cur, a) < m
      BY <2>1, <2>2
    <3> QED BY <2>2, <3>1, <1>a
  <2>5. d = (d - 1) + 1
    BY <1>1
  <2> HIDE DEF a, g, d
  <2> QED BY <2>1, <2>2, <2>3, <2>4, <2>5 DEF g, d
<1>5. d = 0 \/ d > m \/ (d # 0 /\ d <= m)
  BY <1>1
<1> QED BY <1>2, <1>3, <1>4, <1>5

\* An insertion keeps the order of the table.
LEMMA PushedTable ==
  ASSUME NEW n, NEW f, RobinTable(n, f), HasRoom(n, f), NEW k \in Keys, k \notin Holds(n, f),
         NEW cur, cur = Fwd(n, Opt(n, k), InsertAt(n, f, k)),
         NEW m \in 0..n - 1, f[Fwd(n, cur, m)] = EMPTY,
         \A d \in 0..m - 1 : f[Fwd(n, cur, d)] # EMPTY
  PROVE  /\ cur \in 0..n - 1
         /\ RobinTable(n, Pushed(n, f, k, cur, m))
         /\ Holds(n, Pushed(n, f, k, cur, m)) = Holds(n, f) \cup {k}
         /\ Occupied(n, Pushed(n, f, k, cur, m)) = Occupied(n, f) \cup {Fwd(n, cur, m)}
<1> DEFINE g == Pushed(n, f, k, cur, m)
           o == Opt(n, k)
           D == InsertAt(n, f, k)
           z == Fwd(n, cur, m)
<1>1. n \in Nat /\ n >= 2 /\ f \in [0..n - 1 -> Keys \cup {EMPTY}] /\ k # EMPTY
  BY SimpleHashAssumption DEF RobinTable
<1>2. o \in 0..n - 1 /\ D \in 0..n - 1 /\ cur \in 0..n - 1 /\ Gap(n, o, cur) = D
  BY <1>1, OptIs, InsertStops, AheadIs
<1>3. f[cur] # EMPTY => f[cur] # k /\ Far(n, f, cur) < D
  BY <1>2, InsertStops DEF Stops
<1>4. \A d \in 0..D - 1 : f[Fwd(n, o, d)] # EMPTY /\ ~(Far(n, f, Fwd(n, o, d)) < d)
  BY InsertStops DEF Stops
<1>5. z \in 0..n - 1 /\ Gap(n, cur, z) = m
  BY <1>1, <1>2, AheadIs
<1>6. \A b \in 0..n - 1 : Gap(n, cur, b) < m => f[b] # EMPTY
  <2> SUFFICES ASSUME NEW b \in 0..n - 1, Gap(n, cur, b) < m PROVE f[b] # EMPTY
    OBVIOUS
  <2>1. Gap(n, cur, b) \in 0..n - 1 /\ Fwd(n, cur, Gap(n, cur, b)) = b
    BY <1>1, <1>2, GapIs
  <2>2. Gap(n, cur, b) \in 0..m - 1
    BY <1>1, <2>1
  <2> QED BY <2>1, <2>2
<1>7. \A b \in 0..n - 1 : f[b] # k
  BY <1>1 DEF Holds
<1>8. /\ \A b \in 0..n - 1 : Gap(n, cur, b) = m => b = z
      /\ \A b \in 0..n - 1 : /\ Gap(n, cur, b) \in 0..n - 1
                            /\ (Gap(n, cur, b) < m \/ Gap(n, cur, b) = m \/ Gap(n, cur, b) > m)
  <2> SUFFICES ASSUME NEW b \in 0..n - 1
               PROVE  /\ Gap(n, cur, b) = m => b = z
                      /\ Gap(n, cur, b) \in 0..n - 1
                      /\ (Gap(n, cur, b) < m \/ Gap(n, cur, b) = m \/ Gap(n, cur, b) > m)
    OBVIOUS
  <2>1. Gap(n, cur, b) \in 0..n - 1 /\ Fwd(n, cur, Gap(n, cur, b)) = b
    BY <1>1, <1>2, GapIs
  <2> HIDE DEF z
  <2> QED BY <2>1, <1>1 DEF z
<1> HIDE DEF z, D, o, g
<1>9. /\ g[cur] = k
      /\ \A b \in 0..n - 1 : Gap(n, cur, b) < m => g[Next1(n, b)] = f[b]
      /\ \A b \in 0..n - 1 : Gap(n, cur, b) > m => g[b] = f[b]
  <2>1. IsPushed(n, f, k, cur, m, Pushed(n, f, k, cur, m))
    BY <1>1, <1>2, PushedIs
  <2> QED BY <2>1 DEF g, IsPushed
<1>10. ASSUME NEW b \in 0..n - 1
       PROVE  \/ b = cur /\ g[b] = k
              \/ \E a \in 0..n - 1 : /\ Gap(n, cur, a) < m /\ b = Next1(n, a)
                                     /\ Gap(n, cur, b) = Gap(n, cur, a) + 1 /\ g[b] = f[a]
              \/ b # cur /\ Gap(n, cur, b) > m /\ g[b] = f[b]
  BY <1>1, <1>2, PushedFrom DEF g
<1>11. g \in [0..n - 1 -> Keys \cup {EMPTY}]
  <2>1. \A b \in 0..n - 1 : g[b] \in Keys \cup {EMPTY}
    BY <1>1, <1>10
  <2>2. g = [b \in 0..n - 1 |-> g[b]]
    BY DEF g, Pushed
  <2> QED BY <2>1, <2>2
<1>12. \A a, b \in 0..n - 1 : g[a] = g[b] /\ g[a] # EMPTY => a = b
  <2> SUFFICES ASSUME NEW a \in 0..n - 1, NEW b \in 0..n - 1, g[a] = g[b], g[a] # EMPTY
               PROVE  a = b
    OBVIOUS
  <2>1. \A c, d \in 0..n - 1 : f[c] = f[d] /\ f[c] # EMPTY => c = d
    BY DEF RobinTable
  <2>2. CASE a = cur \/ b = cur
    BY <1>7, <1>9, <1>10, <2>2
  <2>3. CASE a # cur /\ b # cur
    <3>1. /\ \/ \E i \in 0..n - 1 : /\ Gap(n, cur, i) < m /\ a = Next1(n, i)
                                   /\ Gap(n, cur, a) = Gap(n, cur, i) + 1 /\ g[a] = f[i]
             \/ Gap(n, cur, a) > m /\ g[a] = f[a]
          /\ \/ \E i \in 0..n - 1 : /\ Gap(n, cur, i) < m /\ b = Next1(n, i)
                                   /\ Gap(n, cur, b) = Gap(n, cur, i) + 1 /\ g[b] = f[i]
             \/ Gap(n, cur, b) > m /\ g[b] = f[b]
      BY <1>10, <2>3
    <3>2. \A i \in 0..n - 1 : Gap(n, cur, i) \in Int
      BY <1>8
    <3> QED BY <2>1, <3>1, <3>2
  <2> QED BY <2>2, <2>3
<1>13. ASSUME NEW a \in 0..n - 1, f[a] # EMPTY
       PROVE  \E b \in 0..n - 1 : g[b] = f[a]
  <2>1. Gap(n, cur, a) # m
    BY <1>5, <1>8, <1>13 DEF z
  <2>2. Gap(n, cur, a) < m \/ Gap(n, cur, a) > m
    BY <1>8, <2>1
  <2>3. Next1(n, a) \in 0..n - 1
    BY <1>1, NextIs
  <2> QED BY <1>9, <2>2, <2>3
<1>14. Holds(n, g) = Holds(n, f) \cup {k}
  <2>1. ASSUME NEW x \in Holds(n, g) PROVE x \in Holds(n, f) \cup {k}
    BY <2>1, <1>10 DEF Holds
  <2>2. ASSUME NEW x \in Holds(n, f) PROVE x \in Holds(n, g)
    BY <2>2, <1>13 DEF Holds
  <2>3. k \in Holds(n, g)
    BY <1>1, <1>2, <1>9 DEF Holds
  <2> QED BY <2>1, <2>2, <2>3
<1>15. Occupied(n, g) = Occupied(n, f) \cup {z}
  <2>1. ASSUME NEW b \in 0..n - 1, g[b] # EMPTY PROVE f[b] # EMPTY \/ b = z
    <3>1. Gap(n, cur, b) < m \/ Gap(n, cur, b) = m \/ Gap(n, cur, b) > m
      BY <1>8
    <3> QED BY <1>6, <1>8, <1>9, <2>1, <3>1
  <2>2. ASSUME NEW b \in 0..n - 1, f[b] # EMPTY \/ b = z PROVE g[b] # EMPTY
    <3>1. CASE b = cur
      BY <1>1, <1>9, <3>1
    <3>2. CASE \E a \in 0..n - 1 : Gap(n, cur, a) < m /\ g[b] = f[a]
      BY <1>6, <3>2
    <3>3. CASE Gap(n, cur, b) > m /\ g[b] = f[b]
      BY <1>5, <2>2, <3>3, <1>1
    <3> QED BY <1>10, <3>1, <3>2, <3>3
  <2> QED BY <2>1, <2>2, <1>5 DEF Occupied
<1>16. ASSUME NEW b \in 0..n - 1, g[Next1(n, b)] # EMPTY, Far(n, g, Next1(n, b)) # 0
       PROVE  g[b] # EMPTY /\ Far(n, g, Next1(n, b)) <= Far(n, g, b) + 1
  <2> DEFINE c == Next1(n, b)
             d == Gap(n, cur, b)
  <2>1. c \in 0..n - 1 /\ d \in 0..n - 1
    BY <1>1, <1>2, NextIs
  <2>2. d < n - 1 => Gap(n, cur, c) = d + 1
    BY <1>1, <1>2, NextIs
  <2>3. d = n - 1 => c = cur
    BY <1>1, <1>2, NextIs
  <2>4. CASE c = cur
    <3>1. Far(n, g, cur) = D /\ D # 0
      BY <1>2, <1>9, <1>16, <2>4 DEF Far, o
    <3>2. d = n - 1
      <4>1. Gap(n, cur, cur) = 0
        BY <1>1, <1>2, NextIs
      <4> QED BY <2>1, <2>2, <2>4, <4>1, <1>1
    <3>3. D - 1 \in 0..D - 1 /\ b = Fwd(n, o, D - 1)
      <4>1. D - 1 \in 0..D - 1
        BY <1>2, <3>1
      <4>2. cur = Fwd(n, o, D)
        BY DEF o, D
      <4>3. Next1(n, b) = cur
        BY <2>4
      <4> QED BY <1>1, <1>2, <3>1, <4>1, <4>2, <4>3 DEF Fwd, Next1
    <3>4. f[b] # EMPTY /\ ~(Far(n, f, b) < D - 1)
      BY <1>4, <3>3
    <3>5. d > m
      <4>1. d # m
        BY <1>8, <3>4 DEF z
      <4> QED BY <3>2, <4>1, <1>1
    <3>6. g[b] = f[b] /\ Far(n, g, b) = Far(n, f, b)
      BY <1>9, <3>5 DEF Far
    <3>7. Far(n, f, b) \in 0..n - 1
      BY <3>4, FarIs
    <3> HIDE DEF c, d
    <3> QED BY <1>2, <2>4, <3>1, <3>4, <3>6, <3>7 DEF c
  <2>5. CASE c # cur /\ d < m
    <3>1. g[c] = f[b] /\ f[b] # EMPTY
      BY <1>6, <1>9, <2>5
    <3>2. Far(n, f, b) \in 0..n - 1 /\ Far(n, f, b) < n - 1
      <4>1. Far(n, f, b) < Gap(n, z, b)
        BY <1>5, <3>1, FarBounded DEF z
      <4>2. Gap(n, z, b) \in 0..n - 1
        BY <1>1, <1>5, NextIs
      <4>3. Far(n, f, b) \in 0..n - 1
        BY <3>1, FarIs
      <4> QED BY <4>1, <4>2, <4>3, <1>1
    <3>3. Far(n, g, c) = Far(n, f, b) + 1
      <4>1. Opt(n, f[b]) \in 0..n - 1
        BY <3>1, FarIs
      <4>2. Gap(n, Opt(n, f[b]), Next1(n, b)) = Gap(n, Opt(n, f[b]), b) + 1
        BY <1>1, <3>2, <4>1, NextIs DEF Far
      <4> QED BY <3>1, <4>2 DEF Far
    <3>4. CASE b = cur
      <4>1. g[b] = k /\ Far(n, g, b) = D /\ Far(n, f, b) < D
        BY <1>2, <1>3, <1>9, <3>1, <3>4 DEF Far, o
      <4> HIDE DEF c, d
      <4> QED BY <1>1, <1>2, <3>2, <3>3, <4>1 DEF c
    <3>5. CASE b # cur
      <4>1. PICK a \in 0..n - 1 : /\ Gap(n, cur, a) < m /\ b = Next1(n, a)
                                  /\ Gap(n, cur, b) = Gap(n, cur, a) + 1 /\ g[b] = f[a]
        BY <1>1, <1>10, <2>1, <2>5, <3>5
      <4>2. f[a] # EMPTY /\ Far(n, f, a) \in 0..n - 1
        BY <1>6, <4>1, FarIs
      <4>3. Far(n, f, b) = 0 \/ Far(n, f, b) <= Far(n, f, a) + 1
        BY <3>1, <4>1 DEF RobinTable, InOrder
      <4>4. Far(n, g, b) = Far(n, f, a) + 1
        <5>1. Opt(n, f[a]) \in 0..n - 1
          BY <4>2, FarIs
        <5>2. Far(n, f, a) < n - 1
          <6>1. Far(n, f, a) < Gap(n, z, a)
            BY <1>5, <4>2, FarBounded DEF z
          <6>2. Gap(n, z, a) \in 0..n - 1
            BY <1>1, <1>5, NextIs
          <6> QED BY <6>1, <6>2, <4>2, <1>1
        <5>3. Gap(n, Opt(n, f[a]), Next1(n, a)) = Gap(n, Opt(n, f[a]), a) + 1
          BY <1>1, <5>1, <5>2, NextIs DEF Far
        <5> QED BY <4>1, <5>3 DEF Far
      <4> HIDE DEF c, d
      <4> QED BY <1>1, <3>2, <3>3, <4>1, <4>2, <4>3, <4>4 DEF c
    <3> QED BY <3>4, <3>5
  <2>6. CASE c # cur /\ d = m
    <3>1. f[b] = EMPTY /\ Gap(n, cur, c) > m
      <4>1. d < n - 1
        <5> HIDE DEF c, d
        <5> QED BY <1>1, <2>1, <2>3, <2>6
      <4>2. f[z] = EMPTY
        BY DEF z
      <4> QED BY <1>8, <2>2, <2>6, <4>1, <4>2, <1>1
    <3>2. g[c] = f[c] /\ Far(n, g, c) = Far(n, f, c)
      BY <1>9, <2>1, <3>1 DEF Far
    <3>3. f[c] # EMPTY /\ Far(n, f, c) # 0
      BY <1>16, <3>2
    <3> QED BY <3>1, <3>3 DEF RobinTable, InOrder
  <2>7. CASE c # cur /\ d > m
    <3>1. Gap(n, cur, c) > m
      <4>1. d < n - 1
        <5> HIDE DEF c, d
        <5> QED BY <1>1, <2>1, <2>3, <2>7
      <4> QED BY <2>1, <2>2, <2>7, <4>1, <1>1
    <3>2. g[c] = f[c] /\ Far(n, g, c) = Far(n, f, c) /\ g[b] = f[b] /\ Far(n, g, b) = Far(n, f, b)
      BY <1>9, <2>1, <2>7, <3>1 DEF Far
    <3> QED BY <1>16, <3>2 DEF RobinTable, InOrder
  <2>8. d < m \/ d = m \/ d > m
    BY <2>1, <1>1
  <2> QED BY <2>4, <2>5, <2>6, <2>7, <2>8
<1>17. RobinTable(n, g)
  BY <1>1, <1>11, <1>12, <1>16 DEF RobinTable, InOrder
<1> QED BY <1>2, <1>14, <1>15, <1>17 DEF g, z

LEMMA NextGap ==
  ASSUME NEW n \in Nat, n >= 2, NEW a \in 0..n - 1, NEW b \in 0..n - 1
  PROVE  /\ Next1(n, b) \in 0..n - 1
         /\ Gap(n, a, b) < n - 1 => Gap(n, a, Next1(n, b)) = Gap(n, a, b) + 1
         /\ Gap(n, a, b) = n - 1 => Next1(n, b) = a
         /\ Gap(n, a, b) = 0 <=> b = a
BY DEF Next1, Gap

\* Next1 and back.
LEMMA NextOnce ==
  ASSUME NEW n \in Nat, n >= 2, NEW a \in 0..n - 1, NEW b \in 0..n - 1
  PROVE  /\ Next1(n, a) = Next1(n, b) => a = b
         /\ Gap(n, a, b) # 0 => /\ Bwd(n, b, 1) \in 0..n - 1 /\ Next1(n, Bwd(n, b, 1)) = b
                               /\ Gap(n, a, Bwd(n, b, 1)) = Gap(n, a, b) - 1
BY DEF Next1, Gap, Bwd

\* The buckets after cur, up to the one before the m-th, move back by one.
Pulled(n, f, cur, m) ==
  [b \in 0..n - 1 |-> LET d == Gap(n, cur, b)
                      IN IF d < m - 1 THEN f[Next1(n, b)]
                         ELSE IF d = m - 1 THEN EMPTY ELSE f[b]]

IsPulled(n, f, cur, m, g) ==
  /\ \A b \in 0..n - 1 : Gap(n, cur, b) < m - 1 => g[b] = f[Next1(n, b)]
  /\ \A b \in 0..n - 1 : Gap(n, cur, b) = m - 1 => g[b] = EMPTY
  /\ \A b \in 0..n - 1 : Gap(n, cur, b) > m - 1 => g[b] = f[b]

LEMMA PulledIs ==
  ASSUME NEW n \in Nat, n >= 2, NEW f, NEW cur \in 0..n - 1, NEW m \in 1..n - 1
  PROVE  IsPulled(n, f, cur, m, Pulled(n, f, cur, m))
<1> SUFFICES ASSUME NEW b \in 0..n - 1
             PROVE  /\ Gap(n, cur, b) < m - 1 => Pulled(n, f, cur, m)[b] = f[Next1(n, b)]
                    /\ Gap(n, cur, b) = m - 1 => Pulled(n, f, cur, m)[b] = EMPTY
                    /\ Gap(n, cur, b) > m - 1 => Pulled(n, f, cur, m)[b] = f[b]
  BY DEF IsPulled
<1>1. Gap(n, cur, b) \in 0..n - 1
  BY GapIs
<1> QED BY <1>1 DEF Pulled

\* A deletion keeps the order of the table.
LEMMA PulledTable ==
  ASSUME NEW n, NEW f, RobinTable(n, f), NEW cur \in 0..n - 1, f[cur] # EMPTY,
         NEW m \in 1..n - 1,
         f[Fwd(n, cur, m)] = EMPTY \/ Far(n, f, Fwd(n, cur, m)) = 0,
         \A d \in 1..m - 1 : f[Fwd(n, cur, d)] # EMPTY /\ Far(n, f, Fwd(n, cur, d)) # 0
  PROVE  /\ RobinTable(n, Pulled(n, f, cur, m))
         /\ Holds(n, Pulled(n, f, cur, m)) = Holds(n, f) \ {f[cur]}
         /\ Occupied(n, Pulled(n, f, cur, m)) = Occupied(n, f) \ {Fwd(n, cur, m - 1)}
         /\ Fwd(n, cur, m - 1) \in Occupied(n, f)
<1> DEFINE g == Pulled(n, f, cur, m)
           y == Fwd(n, cur, m - 1)
           z == Fwd(n, cur, m)
<1>1. n \in Nat /\ n >= 2 /\ f \in [0..n - 1 -> Keys \cup {EMPTY}]
  BY DEF RobinTable
<1>2. /\ y \in 0..n - 1 /\ Gap(n, cur, y) = m - 1
      /\ z \in 0..n - 1 /\ Gap(n, cur, z) = m
  <2>1. m - 1 \in 0..n - 1 /\ m \in 0..n - 1
    BY <1>1
  <2> QED BY <1>1, <2>1, AheadIs
<1>3. ASSUME NEW b \in 0..n - 1
      PROVE  /\ Gap(n, cur, b) \in 0..n - 1 /\ Fwd(n, cur, Gap(n, cur, b)) = b
             /\ Next1(n, b) \in 0..n - 1
             /\ Gap(n, cur, b) < n - 1 => Gap(n, cur, Next1(n, b)) = Gap(n, cur, b) + 1
             /\ Gap(n, cur, b) = n - 1 => Next1(n, b) = cur
             /\ Gap(n, cur, b) = 0 <=> b = cur
  <2> HIDE DEF y, z, g
  <2>1. Gap(n, cur, b) \in 0..n - 1 /\ Fwd(n, cur, Gap(n, cur, b)) = b
    BY <1>1, GapIs
  <2>2. /\ Next1(n, b) \in 0..n - 1
        /\ Gap(n, cur, b) < n - 1 => Gap(n, cur, Next1(n, b)) = Gap(n, cur, b) + 1
        /\ Gap(n, cur, b) = n - 1 => Next1(n, b) = cur
        /\ Gap(n, cur, b) = 0 <=> b = cur
    BY <1>1, NextGap
  <2> QED BY <2>1, <2>2
<1>4. ASSUME NEW b \in 0..n - 1, Gap(n, cur, b) \in 1..m - 1
      PROVE  f[b] # EMPTY /\ Far(n, f, b) # 0
  <2>1. Fwd(n, cur, Gap(n, cur, b)) = b
    BY <1>3
  <2> QED BY <1>4, <2>1
<1>5. ASSUME NEW b \in 0..n - 1
      PROVE  /\ Gap(n, cur, b) = m - 1 => b = y
             /\ Gap(n, cur, b) = m => b = z
  BY <1>3
<1>6. /\ \A b \in 0..n - 1 : Gap(n, cur, b) < m - 1 => g[b] = f[Next1(n, b)]
      /\ \A b \in 0..n - 1 : Gap(n, cur, b) = m - 1 => g[b] = EMPTY
      /\ \A b \in 0..n - 1 : Gap(n, cur, b) > m - 1 => g[b] = f[b]
  <2>1. IsPulled(n, f, cur, m, Pulled(n, f, cur, m))
    BY <1>1, PulledIs
  <2> QED BY <2>1 DEF IsPulled
<1>7. f[z] = EMPTY \/ Far(n, f, z) = 0
  OBVIOUS
<1> HIDE DEF g, y, z
<1>8. ASSUME NEW b \in 0..n - 1
      PROVE  \/ /\ Gap(n, cur, b) < m - 1 /\ g[b] = f[Next1(n, b)]
                /\ Gap(n, cur, Next1(n, b)) = Gap(n, cur, b) + 1
             \/ Gap(n, cur, b) = m - 1 /\ g[b] = EMPTY
             \/ Gap(n, cur, b) > m - 1 /\ g[b] = f[b]
  <2>1. Gap(n, cur, b) < m - 1 \/ Gap(n, cur, b) = m - 1 \/ Gap(n, cur, b) > m - 1
    BY <1>3
  <2>2. Gap(n, cur, b) < m - 1 => Gap(n, cur, b) < n - 1
    BY <1>1, <1>3
  <2> QED BY <1>3, <1>6, <2>1, <2>2
<1>9. g \in [0..n - 1 -> Keys \cup {EMPTY}]
  <2>1. \A b \in 0..n - 1 : g[b] \in Keys \cup {EMPTY}
    BY <1>1, <1>3, <1>8
  <2>2. g = [b \in 0..n - 1 |-> g[b]]
    BY DEF g, Pulled
  <2> QED BY <2>1, <2>2
<1>10. \A a, b \in 0..n - 1 : f[a] = f[b] /\ f[a] # EMPTY => a = b
  BY DEF RobinTable
<1>11. \A a, b \in 0..n - 1 : g[a] = g[b] /\ g[a] # EMPTY => a = b
  <2> SUFFICES ASSUME NEW a \in 0..n - 1, NEW b \in 0..n - 1, g[a] = g[b], g[a] # EMPTY
               PROVE  a = b
    OBVIOUS
  <2>1. /\ Gap(n, cur, a) \in Int /\ Gap(n, cur, b) \in Int
        /\ Next1(n, a) \in 0..n - 1 /\ Next1(n, b) \in 0..n - 1
    BY <1>3
  <2>2. Next1(n, a) = Next1(n, b) => a = b
    BY <1>1, NextOnce
  <2>3. CASE Gap(n, cur, a) < m - 1 /\ Gap(n, cur, b) < m - 1
    BY <1>6, <1>10, <2>1, <2>2, <2>3
  <2>4. CASE Gap(n, cur, a) > m - 1 /\ Gap(n, cur, b) > m - 1
    BY <1>6, <1>10, <2>4
  <2>5. CASE Gap(n, cur, a) < m - 1 /\ Gap(n, cur, b) > m - 1
    <3>1. b = Next1(n, a)
      BY <1>6, <1>10, <2>1, <2>5
    <3> QED BY <1>8, <2>1, <2>5, <3>1
  <2>6. CASE Gap(n, cur, a) > m - 1 /\ Gap(n, cur, b) < m - 1
    <3>1. a = Next1(n, b)
      BY <1>6, <1>10, <2>1, <2>6
    <3> QED BY <1>8, <2>1, <2>6, <3>1
  <2> QED BY <1>8, <2>3, <2>4, <2>5, <2>6
<1>12. ASSUME NEW a \in 0..n - 1, a # cur
       PROVE  \E b \in 0..n - 1 : g[b] = f[a]
  <2>1. Gap(n, cur, a) \in 0..n - 1 /\ Gap(n, cur, a) # 0
    BY <1>3, <1>12
  <2>2. CASE Gap(n, cur, a) > m - 1
    BY <1>6, <2>2
  <2>3. CASE Gap(n, cur, a) <= m - 1
    <3> DEFINE b == Bwd(n, a, 1)
    <3>1. b \in 0..n - 1 /\ Next1(n, b) = a /\ Gap(n, cur, b) = Gap(n, cur, a) - 1
      BY <1>1, <2>1, NextOnce
    <3> HIDE DEF b
    <3>2. Gap(n, cur, b) < m - 1
      BY <2>1, <2>3, <3>1
    <3> QED BY <1>6, <3>1, <3>2
  <2> QED BY <2>1, <2>2, <2>3
<1>13. ASSUME NEW b \in 0..n - 1, g[b] # EMPTY
       PROVE  \E a \in 0..n - 1 : a # cur /\ g[b] = f[a]
  <2>1. CASE Gap(n, cur, b) < m - 1 /\ g[b] = f[Next1(n, b)]
    <3>1. Gap(n, cur, Next1(n, b)) = Gap(n, cur, b) + 1
      BY <1>1, <1>3, <2>1
    <3>2. Next1(n, b) # cur
      <4>1. Gap(n, cur, cur) = 0
        BY <1>3
      <4> QED BY <1>3, <3>1, <4>1
    <3> QED BY <1>3, <2>1, <3>2
  <2>2. CASE Gap(n, cur, b) > m - 1 /\ g[b] = f[b]
    <3>1. b # cur
      <4>1. Gap(n, cur, cur) = 0
        BY <1>3
      <4> QED BY <2>2, <4>1
    <3> QED BY <2>2, <3>1
  <2> QED BY <1>8, <1>13, <2>1, <2>2
<1>14. Holds(n, g) = Holds(n, f) \ {f[cur]}
  <2>1. ASSUME NEW x \in Holds(n, g) PROVE x \in Holds(n, f) \ {f[cur]}
    <3>1. PICK b \in 0..n - 1 : x = g[b] /\ g[b] # EMPTY
      BY <2>1 DEF Holds
    <3>2. PICK a \in 0..n - 1 : a # cur /\ g[b] = f[a]
      BY <1>13, <3>1
    <3> QED BY <1>10, <3>1, <3>2 DEF Holds
  <2>2. ASSUME NEW x \in Holds(n, f) \ {f[cur]} PROVE x \in Holds(n, g)
    <3>1. PICK a \in 0..n - 1 : x = f[a] /\ x # EMPTY /\ a # cur
      BY <2>2 DEF Holds
    <3>2. PICK b \in 0..n - 1 : g[b] = f[a]
      BY <1>12, <3>1
    <3> QED BY <3>1, <3>2 DEF Holds
  <2> QED BY <2>1, <2>2
<1>15. f[y] # EMPTY
  <2>1. CASE m = 1
    <3>1. y = cur
      BY <1>2, <1>3, <2>1
    <3> QED BY <3>1
  <2>2. CASE m # 1
    BY <1>2, <1>4, <2>2
  <2> QED BY <2>1, <2>2
<1>16. ASSUME NEW b \in 0..n - 1
       PROVE  g[b] # EMPTY <=> f[b] # EMPTY /\ b # y
  <2>1. CASE Gap(n, cur, b) < m - 1
    <3>1. g[b] = f[Next1(n, b)] /\ Next1(n, b) \in 0..n - 1
      BY <1>3, <1>6, <2>1
    <3>2. Gap(n, cur, Next1(n, b)) \in 1..m - 1
      <4> DEFINE d == Gap(n, cur, b)
                 e == Gap(n, cur, Next1(n, b))
      <4>1. d \in 0..n - 1 /\ (d < n - 1 => e = d + 1) /\ d < m - 1
        BY <1>3, <2>1
      <4> HIDE DEF d, e
      <4>2. e \in 1..m - 1
        BY <1>1, <4>1
      <4> QED BY <4>2 DEF e
    <3>3. f[b] # EMPTY
      <4>1. CASE b = cur
        BY <4>1
      <4>2. CASE b # cur
        BY <1>3, <1>4, <2>1, <4>2
      <4> QED BY <4>1, <4>2
    <3> QED BY <1>2, <1>4, <2>1, <3>1, <3>2, <3>3
  <2>2. CASE Gap(n, cur, b) = m - 1
    BY <1>5, <1>6, <2>2
  <2>3. CASE Gap(n, cur, b) > m - 1
    BY <1>2, <1>6, <2>3
  <2> QED BY <1>8, <2>1, <2>2, <2>3
<1>17. Occupied(n, g) = Occupied(n, f) \ {y} /\ y \in Occupied(n, f)
  BY <1>2, <1>15, <1>16 DEF Occupied
<1>18. ASSUME NEW b \in 0..n - 1, Gap(n, cur, b) < m - 1
       PROVE  LET c == Next1(n, b)
              IN /\ g[b] = f[c] /\ f[c] # EMPTY /\ Far(n, f, c) # 0 /\ c \in 0..n - 1
                 /\ Far(n, f, c) \in 0..n - 1 /\ Far(n, g, b) = Far(n, f, c) - 1
  <2> DEFINE c == Next1(n, b)
             o == Opt(n, f[c])
  <2>1. c \in 0..n - 1 /\ g[b] = f[c] /\ Gap(n, cur, c) \in 1..m - 1
    <3> DEFINE d == Gap(n, cur, b)
               e == Gap(n, cur, c)
    <3>1. d \in 0..n - 1 /\ (d < n - 1 => e = d + 1) /\ d < m - 1 /\ c \in 0..n - 1
      BY <1>3, <1>18
    <3>2. g[b] = f[c]
      BY <1>6, <1>18
    <3> HIDE DEF d, e, c
    <3>3. e \in 1..m - 1
      BY <1>1, <3>1
    <3> QED BY <3>1, <3>2, <3>3 DEF e
  <2>2. f[c] # EMPTY /\ Far(n, f, c) # 0
    BY <1>4, <2>1
  <2>3. Far(n, f, c) \in 0..n - 1 /\ o \in 0..n - 1
    BY <2>1, <2>2, FarIs
  <2> HIDE DEF o
  <2>4. Far(n, f, c) = Gap(n, o, c) /\ Far(n, g, b) = Gap(n, o, b)
    BY <2>1 DEF Far, o
  <2>5. /\ Gap(n, o, b) \in 0..n - 1
        /\ Gap(n, o, b) < n - 1 => Gap(n, o, c) = Gap(n, o, b) + 1
        /\ Gap(n, o, b) = n - 1 => c = o
        /\ Gap(n, o, c) = 0 <=> c = o
    <3>1. Gap(n, o, b) \in 0..n - 1
      BY <1>1, <2>3, GapIs
    <3>2. /\ Gap(n, o, b) < n - 1 => Gap(n, o, c) = Gap(n, o, b) + 1
          /\ Gap(n, o, b) = n - 1 => c = o
      BY <1>1, <2>3, NextGap
    <3>3. Gap(n, o, c) = 0 <=> c = o
      <4> HIDE DEF c
      <4> QED BY <1>1, <2>1, <2>3, NextGap
    <3> QED BY <3>1, <3>2, <3>3
  <2>6. Far(n, g, b) = Far(n, f, c) - 1
    <3> HIDE DEF c
    <3> QED BY <1>1, <2>2, <2>3, <2>4, <2>5
  <2> QED BY <2>1, <2>2, <2>3, <2>6
<1>19. ASSUME NEW b \in 0..n - 1, g[Next1(n, b)] # EMPTY, Far(n, g, Next1(n, b)) # 0
       PROVE  g[b] # EMPTY /\ Far(n, g, Next1(n, b)) <= Far(n, g, b) + 1
  <2> DEFINE c == Next1(n, b)
             d == Gap(n, cur, b)
  <2>1. /\ c \in 0..n - 1 /\ d \in 0..n - 1
        /\ d < n - 1 => Gap(n, cur, c) = d + 1
        /\ d = n - 1 => c = cur
    BY <1>3
  <2>2. f[c] # EMPTY /\ Far(n, f, c) # 0 => f[b] # EMPTY /\ Far(n, f, c) <= Far(n, f, b) + 1
    BY DEF RobinTable, InOrder
  <2>3. CASE d = n - 1
    <3>1. Gap(n, cur, c) = 0
      BY <1>3, <2>1, <2>3
    <3>2. 0 < m - 1
      <4>1. Gap(n, cur, c) # m - 1
        BY <1>6, <1>19, <2>1
      <4> QED BY <3>1, <4>1
    <3>3. LET e == Next1(n, c)
          IN /\ g[c] = f[e] /\ f[e] # EMPTY /\ Far(n, f, e) # 0 /\ e \in 0..n - 1
             /\ Far(n, f, e) \in 0..n - 1 /\ Far(n, g, c) = Far(n, f, e) - 1
      BY <1>18, <2>1, <3>1, <3>2
    <3>4. f[c] # EMPTY /\ Far(n, f, Next1(n, c)) <= Far(n, f, c) + 1
      BY <2>1, <3>3 DEF RobinTable, InOrder
    <3>5. Far(n, f, c) \in 0..n - 1
      BY <2>1, <3>4, FarIs
    <3>6. Far(n, f, c) # 0 /\ Far(n, g, c) <= Far(n, f, c)
      BY <1>19, <3>3, <3>4, <3>5
    <3>7. d > m - 1
      <4> HIDE DEF d
      <4> QED BY <1>1, <2>3
    <3>8. g[b] = f[b] /\ Far(n, g, b) = Far(n, f, b)
      BY <1>6, <3>7 DEF Far
    <3>9. f[b] # EMPTY /\ Far(n, f, c) <= Far(n, f, b) + 1
      BY <2>2, <3>4, <3>6
    <3>10. Far(n, f, b) \in 0..n - 1
      BY <3>9, FarIs
    <3>11. Far(n, g, c) \in Int
      BY <3>3
    <3> HIDE DEF c, d
    <3> QED BY <3>5, <3>6, <3>8, <3>9, <3>10, <3>11 DEF c
  <2>4. CASE d < m - 1
    <3>1. d < n - 1 /\ Gap(n, cur, c) = d + 1
      <4> HIDE DEF c, d
      <4> QED BY <1>1, <2>1, <2>4
    <3>2. d + 1 # m - 1
      BY <1>6, <1>19, <2>1, <3>1
    <3>3. Gap(n, cur, c) < m - 1
      <4> HIDE DEF c, d
      <4> QED BY <2>1, <2>4, <3>1, <3>2
    <3>4. LET e == Next1(n, c)
          IN /\ g[c] = f[e] /\ f[e] # EMPTY /\ Far(n, f, e) # 0 /\ e \in 0..n - 1
             /\ Far(n, f, e) \in 0..n - 1 /\ Far(n, g, c) = Far(n, f, e) - 1
      BY <1>18, <2>1, <3>3
    <3>5. /\ g[b] = f[c] /\ f[c] # EMPTY /\ Far(n, f, c) # 0
          /\ Far(n, f, c) \in 0..n - 1 /\ Far(n, g, b) = Far(n, f, c) - 1
      BY <1>18, <2>4
    <3>6. Far(n, f, Next1(n, c)) <= Far(n, f, c) + 1
      BY <2>1, <3>4 DEF RobinTable, InOrder
    <3> HIDE DEF c, d
    <3> QED BY <3>4, <3>5, <3>6 DEF c
  <2>5. CASE d = m - 1 /\ d < n - 1
    <3>1. Gap(n, cur, c) = m
      <4> HIDE DEF c, d
      <4> QED BY <1>1, <2>1, <2>5
    <3>2. c = z /\ g[c] = f[c]
      BY <1>5, <1>6, <2>1, <3>1
    <3> QED BY <1>7, <1>19, <3>2 DEF Far
  <2>6. CASE d > m - 1 /\ d < n - 1
    <3>1. Gap(n, cur, c) > m - 1
      <4> HIDE DEF c, d
      <4> QED BY <1>1, <2>1, <2>6
    <3>2. g[c] = f[c] /\ g[b] = f[b] /\ Far(n, g, c) = Far(n, f, c) /\ Far(n, g, b) = Far(n, f, b)
      BY <1>6, <2>1, <2>6, <3>1 DEF Far
    <3> QED BY <1>19, <2>2, <3>2
  <2>7. d < m - 1 \/ (d = m - 1 /\ d < n - 1) \/ (d > m - 1 /\ d < n - 1) \/ d = n - 1
    <3> HIDE DEF d
    <3> QED BY <1>1, <2>1
  <2> QED BY <2>3, <2>4, <2>5, <2>6, <2>7
<1>20. RobinTable(n, g)
  BY <1>1, <1>9, <1>11, <1>19 DEF RobinTable, InOrder
<1> QED BY <1>14, <1>17, <1>20 DEF g, y

-----------------------------------------------------------------------------
(* What growing does to the buckets. *)

\* Distances along the circle add up.
LEMMA GapSum ==
  ASSUME NEW n \in Nat, n >= 2, NEW s \in 0..n - 1, NEW a \in 0..n - 1, NEW b \in 0..n - 1,
         Gap(n, s, a) <= Gap(n, s, b)
  PROVE  Gap(n, a, b) = Gap(n, s, b) - Gap(n, s, a)
BY DEF Gap

\* How far the optimal bucket of a key is after s.
Rank(n, s, k) == Gap(n, s, Opt(n, k))

LEMMA RankIs ==
  ASSUME NEW n \in Nat, n >= 2, NEW s \in 0..n - 1, NEW k \in Keys
  PROVE  Rank(n, s, k) \in 0..n - 1
<1>1. Opt(n, k) \in 0..n - 1
  BY OptIs
<1> QED BY <1>1, GapIs DEF Rank

\* With twice the size the optimal bucket of a key is as far, or the old size further.
LEMMA NewRank ==
  ASSUME NEW n \in Nat, n >= 2, NEW m, m = 2 * n, NEW s \in 0..n - 1, NEW k \in Keys
  PROVE  Rank(m, s, k) = Rank(n, s, k) \/ Rank(m, s, k) = Rank(n, s, k) + n
<1>1. Hash[k] \in Nat
  BY SimpleHashAssumption
<1>2. Opt(n, k) \in 0..n - 1 /\ (Opt(m, k) = Opt(n, k) \/ Opt(m, k) = Opt(n, k) + n)
  BY <1>1, ModDouble DEF Opt
<1> QED BY <1>2 DEF Rank, Gap

\* The copy starts at an empty bucket, or at an entry on its optimal one.
StartsAt(n, f, s) == s \in 0..n - 1 /\ (f[s] = EMPTY \/ Far(n, f, s) = 0)

\* From there on no entry is before its optimal bucket.
LEMMA RankBounded ==
  ASSUME NEW n, NEW f, RobinTable(n, f), NEW s, StartsAt(n, f, s),
         NEW b \in 0..n - 1, f[b] # EMPTY
  PROVE  /\ Far(n, f, b) \in 0..Gap(n, s, b)
         /\ Rank(n, s, f[b]) = Gap(n, s, b) - Far(n, f, b)
<1> DEFINE F == Far(n, f, b)
           j == Gap(n, s, b)
           o == Opt(n, f[b])
<1>1. n \in Nat /\ n >= 2 /\ s \in 0..n - 1
  BY DEF RobinTable, StartsAt
<1>2. F \in 0..n - 1 /\ o \in 0..n - 1 /\ F = Gap(n, o, b)
  BY FarIs DEF Far
<1>3. j \in 0..n - 1 /\ Bwd(n, b, j) = s
  BY <1>1 DEF Gap, Bwd
<1>4. F <= j
  <2> SUFFICES ASSUME ~(F <= j) PROVE FALSE
    OBVIOUS
  <2>1. j \in 0..F /\ F - j # 0 /\ F - j >= 0
    <3> HIDE DEF F, j
    <3> QED BY <1>1, <1>2, <1>3
  <2>2. f[s] # EMPTY /\ Far(n, f, s) >= F - j
    BY <1>3, <2>1, Behind
  <2>3. Far(n, f, s) = 0
    BY <2>2 DEF StartsAt
  <2> HIDE DEF F, j
  <2> QED BY <1>2, <1>3, <2>1, <2>2, <2>3
<1>5. Gap(n, s, o) = j - F
  <2> HIDE DEF F, o
  <2> QED BY <1>1, <1>2, <1>4 DEF Gap
<1> QED BY <1>2, <1>3, <1>4, <1>5 DEF Rank

\* And the optimal buckets are in the order of the entries.
LEMMA RankOrder ==
  ASSUME NEW n, NEW f, RobinTable(n, f), NEW s, StartsAt(n, f, s),
         NEW a \in 0..n - 1, NEW b \in 0..n - 1, f[a] # EMPTY, f[b] # EMPTY,
         Gap(n, s, a) <= Gap(n, s, b)
  PROVE  Rank(n, s, f[a]) <= Rank(n, s, f[b])
<1> DEFINE F == Far(n, f, b)
           i == Gap(n, s, a)
           j == Gap(n, s, b)
<1>1. n \in Nat /\ n >= 2 /\ s \in 0..n - 1
  BY DEF RobinTable, StartsAt
<1>2. i \in 0..n - 1 /\ j \in 0..n - 1 /\ i <= j
  BY <1>1, GapIs
<1>3. Far(n, f, a) \in 0..i /\ Rank(n, s, f[a]) = i - Far(n, f, a)
  BY RankBounded
<1>4. F \in 0..j /\ Rank(n, s, f[b]) = j - F
  BY RankBounded
<1>5. Bwd(n, b, j - i) = a
  BY <1>1, <1>2 DEF Bwd, Gap
<1>6. j - i \in 0..F => Far(n, f, a) >= F - (j - i)
  BY <1>5, Behind
<1> HIDE DEF F, i, j
<1> QED BY <1>2, <1>3, <1>4, <1>6

\* After i buckets have been copied to the table g of twice the size: the entries whose
\* rank grew are in the second half, as seen from s, and the others in the first; none is
\* further than where it came from.
Copied(n, f, s, i, m, g) ==
  /\ RobinTable(m, g)
  /\ \A x \in 0..m - 1 : g[x] # EMPTY =>
       /\ \E b \in 0..n - 1 : Gap(n, s, b) < i /\ g[x] = f[b]
       /\ Rank(m, s, g[x]) <= Gap(m, s, x)
       /\ Rank(m, s, g[x]) < n => Gap(m, s, x) < i
       /\ Rank(m, s, g[x]) >= n => Gap(m, s, x) < n + i
  /\ \A b \in 0..n - 1 : Gap(n, s, b) < i /\ f[b] # EMPTY => f[b] \in Holds(m, g)

\* The distance at which the copy finds an empty bucket for k.
CopyDist(m, g, k) == Min({d \in 0..m - 1 : g[Fwd(m, Opt(m, k), d)] = EMPTY})

LEMMA CopyStep ==
  ASSUME NEW n, NEW f, RobinTable(n, f), NEW s, StartsAt(n, f, s),
         NEW i \in 0..n - 1, NEW m, m = 2 * n, NEW g, Copied(n, f, s, i, m, g),
         NEW k, k = f[Fwd(n, s, i)], k # EMPTY
  PROVE  /\ Opt(m, k) \in 0..m - 1 /\ CopyDist(m, g, k) \in 0..m - 1
         /\ Copied(n, f, s, i + 1, m, [g EXCEPT ![Fwd(m, Opt(m, k), CopyDist(m, g, k))] = k])
<1> DEFINE a == Fwd(n, s, i)
           o == Opt(m, k)
           d == CopyDist(m, g, k)
           x == Fwd(m, o, d)
           r == Rank(m, s, k)
           h == [g EXCEPT ![x] = k]
           top == IF r < n THEN i ELSE n + i
           e == Fwd(m, s, top)
<1>1. /\ n \in Nat /\ n >= 2 /\ s \in 0..n - 1 /\ m \in Nat /\ m >= 2 /\ m = n + n
      /\ s \in 0..m - 1 /\ g \in [0..m - 1 -> Keys \cup {EMPTY}]
  BY DEF RobinTable, StartsAt, Copied
<1>2. a \in 0..n - 1 /\ Gap(n, s, a) = i
  BY <1>1, AheadIs
<1>3. k \in Keys
  BY <1>2 DEF RobinTable
<1>4. Rank(n, s, k) \in 0..i
  <2>1. Far(n, f, a) \in 0..i /\ Rank(n, s, k) = i - Far(n, f, a)
    BY <1>2, RankBounded
  <2> QED BY <2>1, <1>2
<1>5. r = Rank(n, s, k) \/ r = Rank(n, s, k) + n
  BY <1>1, <1>3, NewRank
<1>6. o \in 0..m - 1 /\ r = Gap(m, s, o)
  BY <1>1, <1>3, OptIs DEF Rank
<1>7. top \in 0..m - 1 /\ r <= top /\ r \in 0..m - 1
  <2> HIDE DEF r
  <2> QED BY <1>1, <1>4, <1>5
<1>8. e \in 0..m - 1 /\ Gap(m, s, e) = top
  <2> HIDE DEF top
  <2> QED BY <1>1, <1>7, AheadIs
<1>9. g[e] = EMPTY
  <2> SUFFICES ASSUME g[e] # EMPTY PROVE FALSE
    OBVIOUS
  <2> DEFINE q == Rank(m, s, g[e])
  <2>1. q <= top /\ (q < n => top < i) /\ (q >= n => top < n + i)
    BY <1>8 DEF Copied
  <2>2. q \in 0..m - 1
    BY <1>1, <1>8, RankIs
  <2> HIDE DEF q, r
  <2> QED BY <1>1, <1>4, <1>5, <2>1, <2>2
<1>10. Gap(m, o, e) = top - r /\ Fwd(m, o, top - r) = e /\ top - r \in 0..m - 1
  <2> HIDE DEF o, r, e, top
  <2>1. Gap(m, o, e) = top - r
    BY <1>1, <1>6, <1>7, <1>8, GapSum
  <2> QED BY <1>1, <1>6, <1>8, <2>1, GapIs
<1>11. /\ d \in 0..top - r /\ g[x] = EMPTY
       /\ \A c \in 0..d - 1 : g[Fwd(m, o, c)] # EMPTY
  <2> DEFINE T == {c \in 0..m - 1 : g[Fwd(m, o, c)] = EMPTY}
  <2>1. T \in SUBSET (0..m - 1) /\ m - 1 \in Nat /\ top - r \in T
    BY <1>1, <1>9, <1>10
  <2>2. d = Min(T)
    BY DEF CopyDist
  <2> HIDE DEF d
  <2>3. d \in T /\ d \in 0..m - 1 /\ \A c \in 0..d - 1 : c \notin T
    <3> HIDE DEF T
    <3> QED BY <2>1, <2>2, FirstIs
  <2>4. ~(top - r \in 0..d - 1)
    BY <2>1, <2>3
  <2>5. \A c \in 0..d - 1 : c \in 0..m - 1
    BY <1>1, <2>3
  <2> HIDE DEF top, r, o
  <2> QED BY <1>1, <1>7, <1>10, <2>3, <2>4, <2>5
<1> HIDE DEF d, top, e, r, o
<1>12. d \in 0..m - 1 /\ r + d <= top
  BY <1>1, <1>7, <1>10, <1>11
<1>13. x \in 0..m - 1 /\ Gap(m, o, x) = d
  BY <1>1, <1>6, <1>12, AheadIs
<1>14. Gap(m, s, x) = r + d
  BY <1>1, <1>6, <1>7, <1>12 DEF Gap, Fwd
<1> HIDE DEF x
<1>15. h \in [0..m - 1 -> Keys \cup {EMPTY}] /\ h[x] = k /\ \A y \in 0..m - 1 : y # x => h[y] = g[y]
  BY <1>1, <1>3, <1>13
<1> HIDE DEF h
<1>16. ASSUME NEW y \in 0..m - 1, g[y] # EMPTY
       PROVE  /\ g[y] # k
              /\ \E b \in 0..n - 1 : Gap(n, s, b) < i /\ g[y] = f[b]
              /\ Rank(m, s, g[y]) <= Gap(m, s, y)
              /\ Rank(m, s, g[y]) < n => Gap(m, s, y) < i
              /\ Rank(m, s, g[y]) >= n => Gap(m, s, y) < n + i
  <2>1. /\ \E b \in 0..n - 1 : Gap(n, s, b) < i /\ g[y] = f[b]
        /\ Rank(m, s, g[y]) <= Gap(m, s, y)
        /\ Rank(m, s, g[y]) < n => Gap(m, s, y) < i
        /\ Rank(m, s, g[y]) >= n => Gap(m, s, y) < n + i
    BY <1>16 DEF Copied
  <2>2. ASSUME g[y] = k PROVE FALSE
    <3>1. PICK b \in 0..n - 1 : Gap(n, s, b) < i /\ g[y] = f[b]
      BY <2>1
    <3>2. b = a
      BY <1>2, <2>2, <3>1 DEF RobinTable
    <3> QED BY <1>2, <3>1, <3>2
  <2> QED BY <2>1, <2>2
<1>17. \A y, z \in 0..m - 1 : h[y] = h[z] /\ h[y] # EMPTY => y = z
  <2> SUFFICES ASSUME NEW y \in 0..m - 1, NEW z \in 0..m - 1, h[y] = h[z], h[y] # EMPTY
               PROVE  y = z
    OBVIOUS
  <2>1. CASE y = x \/ z = x
    BY <1>15, <1>16, <2>1
  <2>2. CASE y # x /\ z # x
    BY <1>15, <2>2 DEF Copied, RobinTable
  <2> QED BY <2>1, <2>2
<1>18. ASSUME NEW y \in 0..m - 1, Next1(m, y) = x, Far(m, h, x) # 0
       PROVE  h[y] # EMPTY /\ Far(m, h, x) <= Far(m, h, y) + 1
  <2>1. Far(m, h, x) = d /\ d # 0
    BY <1>13, <1>15, <1>18 DEF Far, o
  <2>2. d - 1 \in 0..d - 1 /\ d - 1 \in 0..m - 1
    BY <1>12, <2>1
  <2>3. y = Fwd(m, o, d - 1)
    <3>1. x = Fwd(m, o, d)
      BY DEF x
    <3> QED BY <1>1, <1>6, <1>12, <1>18, <2>1, <3>1 DEF Fwd, Next1
  <2>4. g[y] # EMPTY /\ y # x
    BY <1>11, <2>2, <2>3
  <2>5. Gap(m, o, y) = d - 1
    BY <1>1, <1>6, <2>2, <2>3, AheadIs
  <2>6. Gap(m, s, y) = r + (d - 1)
    BY <1>1, <1>6, <1>7, <1>12, <2>1, <2>3 DEF Gap, Fwd
  <2>7. g[y] \in Keys /\ Rank(m, s, g[y]) \in 0..m - 1
    <3>1. g[y] \in Keys
      BY <1>1, <2>4
    <3> QED BY <1>1, <3>1, RankIs
  <2>8. Rank(m, s, g[y]) <= r
    <3>1. PICK b \in 0..n - 1 : Gap(n, s, b) < i /\ g[y] = f[b]
      BY <1>16, <2>4
    <3>2. Gap(n, s, b) \in 0..n - 1
      BY <1>1, GapIs
    <3>3. Rank(n, s, f[b]) <= Rank(n, s, f[a])
      <4>1. Gap(n, s, b) <= Gap(n, s, a) /\ f[b] # EMPTY /\ f[a] # EMPTY
        BY <1>2, <2>4, <3>1, <3>2
      <4> QED BY <1>2, <4>1, RankOrder
    <3>4. Rank(n, s, g[y]) <= Rank(n, s, k) /\ Rank(n, s, g[y]) \in 0..n - 1
      <4>1. Rank(n, s, g[y]) \in 0..n - 1
        BY <1>1, <2>7, RankIs
      <4> QED BY <3>1, <3>3, <4>1
    <3>5. Rank(m, s, g[y]) = Rank(n, s, g[y]) \/ Rank(m, s, g[y]) = Rank(n, s, g[y]) + n
      BY <1>1, <2>7, NewRank
    <3>6. Rank(m, s, g[y]) <= Gap(m, s, y)
      BY <1>16, <2>4
    <3>7. r < n => r + (d - 1) < n
      BY <1>1, <1>7, <1>12, <2>1 DEF top
    <3> QED BY <1>1, <1>4, <1>5, <1>7, <1>12, <2>1, <2>6, <2>7, <3>4, <3>5, <3>6, <3>7
  <2>9. Far(m, g, y) = r + (d - 1) - Rank(m, s, g[y])
    <3>1. Opt(m, g[y]) \in 0..m - 1
      BY <1>1, <2>7, OptIs
    <3>2. Gap(m, s, Opt(m, g[y])) <= Gap(m, s, y)
      BY <1>16, <2>4 DEF Rank
    <3>3. Gap(m, Opt(m, g[y]), y) = Gap(m, s, y) - Gap(m, s, Opt(m, g[y]))
      BY <1>1, <3>1, <3>2, GapSum
    <3>4. Far(m, g, y) = Gap(m, Opt(m, g[y]), y)
      BY DEF Far
    <3>5. Rank(m, s, g[y]) = Gap(m, s, Opt(m, g[y]))
      BY DEF Rank
    <3> QED BY <1>7, <1>12, <2>7, <2>6, <3>3, <3>4, <3>5
  <2>10. Far(m, h, y) = Far(m, g, y) /\ h[y] = g[y]
    BY <1>15, <2>4 DEF Far
  <2> QED BY <1>7, <1>12, <2>1, <2>4, <2>7, <2>8, <2>9, <2>10
<1>19. InOrder(m, h)
  <2> SUFFICES ASSUME NEW y \in 0..m - 1, h[Next1(m, y)] # EMPTY, Far(m, h, Next1(m, y)) # 0
               PROVE  h[y] # EMPTY /\ Far(m, h, Next1(m, y)) <= Far(m, h, y) + 1
    BY DEF InOrder
  <2> DEFINE z == Next1(m, y)
  <2>1. z \in 0..m - 1
    BY <1>1, NextGap
  <2>2. CASE z = x
    BY <1>18, <2>2
  <2>3. CASE z # x
    <3>1. h[z] = g[z] /\ Far(m, h, z) = Far(m, g, z)
      BY <1>15, <2>1, <2>3 DEF Far
    <3>2. g[y] # EMPTY /\ Far(m, g, z) <= Far(m, g, y) + 1
      BY <3>1 DEF Copied, RobinTable, InOrder
    <3>3. h[y] = g[y] /\ Far(m, h, y) = Far(m, g, y)
      BY <1>11, <1>15, <3>2 DEF Far, x
    <3> QED BY <3>1, <3>2, <3>3
  <2> QED BY <2>2, <2>3
<1>20. RobinTable(m, h)
  BY <1>1, <1>15, <1>17, <1>19 DEF RobinTable
<1>21. ASSUME NEW y \in 0..m - 1, h[y] # EMPTY
       PROVE  /\ \E b \in 0..n - 1 : Gap(n, s, b) < i + 1 /\ h[y] = f[b]
              /\ Rank(m, s, h[y]) <= Gap(m, s, y)
              /\ Rank(m, s, h[y]) < n => Gap(m, s, y) < i + 1
              /\ Rank(m, s, h[y]) >= n => Gap(m, s, y) < n + (i + 1)
  <2>1. CASE y = x
    <3>1. Gap(n, s, a) < i + 1 /\ h[y] = f[a] /\ Rank(m, s, h[y]) = r
      BY <1>2, <1>15, <2>1 DEF r
    <3>2. r <= Gap(m, s, y) /\ Gap(m, s, y) <= top
      BY <1>7, <1>12, <1>14, <2>1
    <3>3. (r < n => top < i + 1) /\ (r >= n => top < n + (i + 1))
      BY <1>1, <1>7 DEF top
    <3>4. Gap(m, s, y) \in Int /\ top \in Int
      BY <1>7, <1>12, <1>14, <2>1
    <3> QED BY <1>1, <1>2, <3>1, <3>2, <3>3, <3>4
  <2>2. CASE y # x
    <3>1. h[y] = g[y] /\ Gap(m, s, y) \in 0..m - 1 /\ Rank(m, s, g[y]) \in 0..m - 1
      <4>1. h[y] = g[y] /\ g[y] \in Keys
        BY <1>15, <2>2, <1>21, <1>1
      <4> QED BY <1>1, <4>1, GapIs, RankIs
    <3>2. PICK b \in 0..n - 1 : Gap(n, s, b) < i /\ g[y] = f[b]
      BY <1>16, <1>21, <3>1
    <3>3. Gap(n, s, b) < i + 1
      <4>1. Gap(n, s, b) \in 0..n - 1
        BY <1>1, GapIs
      <4> QED BY <3>2, <4>1
    <3> QED BY <1>1, <1>16, <1>21, <3>1, <3>2, <3>3
  <2> QED BY <2>1, <2>2
<1>22. ASSUME NEW b \in 0..n - 1, Gap(n, s, b) < i + 1, f[b] # EMPTY
       PROVE  f[b] \in Holds(m, h)
  <2>1. Gap(n, s, b) \in 0..n - 1 /\ Fwd(n, s, Gap(n, s, b)) = b
    BY <1>1, GapIs
  <2>2. CASE Gap(n, s, b) = i
    BY <1>3, <1>13, <1>15, <1>22, <2>1, <2>2 DEF Holds
  <2>3. CASE Gap(n, s, b) < i
    <3>1. f[b] \in Holds(m, g)
      BY <1>22, <2>3 DEF Copied
    <3>2. PICK y \in 0..m - 1 : g[y] = f[b]
      BY <3>1 DEF Holds
    <3>3. y # x
      BY <1>11, <1>22, <3>2 DEF x
    <3>4. h[y] = f[b]
      BY <1>15, <3>2, <3>3
    <3> QED BY <1>22, <3>4 DEF Holds
  <2>4. Gap(n, s, b) = i \/ Gap(n, s, b) < i
    BY <1>22, <2>1
  <2> QED BY <2>2, <2>3, <2>4
<1>23. Copied(n, f, s, i + 1, m, h)
  BY <1>20, <1>21, <1>22 DEF Copied
<1> QED BY <1>6, <1>12, <1>23 DEF h, x, o, d

LEMMA CopyEmpty ==
  ASSUME NEW n, NEW f, RobinTable(n, f), NEW s, StartsAt(n, f, s),
         NEW i \in 0..n - 1, NEW m, m = 2 * n, NEW g, Copied(n, f, s, i, m, g),
         f[Fwd(n, s, i)] = EMPTY
  PROVE  Copied(n, f, s, i + 1, m, g)
<1>1. n \in Nat /\ n >= 2 /\ s \in 0..n - 1 /\ m \in Nat /\ m >= 2 /\ s \in 0..m - 1 /\ m = n + n
  BY DEF RobinTable, StartsAt
<1>2. \A b \in 0..n - 1 : Gap(n, s, b) \in 0..n - 1 /\ Fwd(n, s, Gap(n, s, b)) = b
  BY <1>1, GapIs
<1>3. \A b \in 0..n - 1 : Gap(n, s, b) < i + 1 /\ f[b] # EMPTY => Gap(n, s, b) < i
  <2> SUFFICES ASSUME NEW b \in 0..n - 1, Gap(n, s, b) < i + 1, f[b] # EMPTY
               PROVE  Gap(n, s, b) < i
    OBVIOUS
  <2>1. Gap(n, s, b) # i
    BY <1>2
  <2> QED BY <1>2, <2>1
<1>4. \A b \in 0..n - 1 : Gap(n, s, b) < i => Gap(n, s, b) < i + 1
  BY <1>2
<1>5. ASSUME NEW x \in 0..m - 1, g[x] # EMPTY
      PROVE  /\ \E b \in 0..n - 1 : Gap(n, s, b) < i + 1 /\ g[x] = f[b]
             /\ Rank(m, s, g[x]) <= Gap(m, s, x)
             /\ Rank(m, s, g[x]) < n => Gap(m, s, x) < i + 1
             /\ Rank(m, s, g[x]) >= n => Gap(m, s, x) < n + (i + 1)
  <2>1. /\ \E b \in 0..n - 1 : Gap(n, s, b) < i /\ g[x] = f[b]
        /\ Rank(m, s, g[x]) <= Gap(m, s, x)
        /\ Rank(m, s, g[x]) < n => Gap(m, s, x) < i
        /\ Rank(m, s, g[x]) >= n => Gap(m, s, x) < n + i
    BY <1>5 DEF Copied
  <2>2. Gap(m, s, x) \in 0..m - 1
    BY <1>1, GapIs
  <2>3. \E b \in 0..n - 1 : Gap(n, s, b) < i + 1 /\ g[x] = f[b]
    BY <1>4, <2>1
  <2> QED BY <1>1, <2>1, <2>2, <2>3
<1>6. ASSUME NEW b \in 0..n - 1, Gap(n, s, b) < i + 1, f[b] # EMPTY
      PROVE  f[b] \in Holds(m, g)
  BY <1>3, <1>6 DEF Copied
<1>7. RobinTable(m, g)
  BY DEF Copied
<1> QED BY <1>5, <1>6, <1>7 DEF Copied

LEMMA CopyFirst ==
  ASSUME NEW n, NEW f, RobinTable(n, f), NEW s, StartsAt(n, f, s), NEW m, m = 2 * n
  PROVE  Copied(n, f, s, 0, m, [b \in 0..m - 1 |-> EMPTY])
<1> DEFINE g == [b \in 0..m - 1 |-> EMPTY]
<1>1. n \in Nat /\ n >= 2 /\ s \in 0..n - 1 /\ m \in Nat /\ m >= 2
  BY DEF RobinTable, StartsAt
<1>2. \A b \in 0..n - 1 : Gap(n, s, b) \in 0..n - 1
  BY <1>1, GapIs
<1>3. \A b \in 0..n - 1 : ~(Gap(n, s, b) < 0)
  BY <1>2
<1>4. \A b \in 0..m - 1 : Next1(m, b) \in 0..m - 1
  BY <1>1, NextGap
<1>5. \A b \in 0..m - 1 : g[b] = EMPTY
  OBVIOUS
<1>6. g \in [0..m - 1 -> Keys \cup {EMPTY}]
  OBVIOUS
<1> HIDE DEF g
<1>7. RobinTable(m, g)
  BY <1>1, <1>4, <1>5, <1>6 DEF RobinTable, InOrder
<1>8. Copied(n, f, s, 0, m, g)
  BY <1>3, <1>5, <1>7 DEF Copied
<1> QED BY <1>8 DEF g

\* The loop of SH_GROW.
CopyPath(n, f, s, m, c) ==
  /\ c[0] = [b \in 0..m - 1 |-> EMPTY]
  /\ \A i \in 0..n - 1 :
       LET k == f[Fwd(n, s, i)]
       IN c[i + 1] = IF k = EMPTY THEN c[i]
                     ELSE [c[i] EXCEPT ![(Opt(m, k) + CopyDist(m, c[i], k)) % m] = k]

LEMMA CopyIs ==
  ASSUME NEW n, NEW f, RobinTable(n, f), NEW s, StartsAt(n, f, s), NEW m, m = 2 * n,
         NEW c, CopyPath(n, f, s, m, c)
  PROVE  RobinTable(m, c[n]) /\ Holds(m, c[n]) = Holds(n, f)
<1>1. n \in Nat /\ n >= 2 /\ s \in 0..n - 1 /\ m \in Nat /\ m >= 2
  BY DEF RobinTable, StartsAt
<1>2. Copied(n, f, s, 0, m, c[0])
  BY CopyFirst DEF CopyPath
<1>3. ASSUME NEW i \in 0..n - 1, Copied(n, f, s, i, m, c[i])
      PROVE  Copied(n, f, s, i + 1, m, c[i + 1])
  <2> DEFINE k == f[Fwd(n, s, i)]
  <2>1. CASE k = EMPTY
    <3>1. c[i + 1] = c[i]
      BY <2>1 DEF CopyPath
    <3> QED BY <1>3, <2>1, <3>1, CopyEmpty
  <2>2. CASE k # EMPTY
    <3>1. /\ Opt(m, k) \in 0..m - 1 /\ CopyDist(m, c[i], k) \in 0..m - 1
          /\ Copied(n, f, s, i + 1, m, [c[i] EXCEPT ![Fwd(m, Opt(m, k), CopyDist(m, c[i], k))] = k])
      BY <1>3, <2>2, CopyStep
    <3>2. (Opt(m, k) + CopyDist(m, c[i], k)) % m = Fwd(m, Opt(m, k), CopyDist(m, c[i], k))
      <4>1. CopyDist(m, c[i], k) \in 0..m
        BY <1>1, <3>1
      <4> HIDE DEF k
      <4> QED BY <1>1, <3>1, <4>1, Circle, Zenon
    <3>3. c[i + 1] = [c[i] EXCEPT ![(Opt(m, k) + CopyDist(m, c[i], k)) % m] = k]
      BY <2>2 DEF CopyPath
    <3> QED BY <3>1, <3>2, <3>3
  <2> QED BY <2>1, <2>2
<1>4. Copied(n, f, s, n, m, c[n])
  <2> DEFINE T == {i \in 0..n : ~Copied(n, f, s, i, m, c[i])}
  <2> SUFFICES ASSUME T # {} PROVE FALSE
    BY <1>1
  <2> DEFINE i == Min(T)
  <2>1. i \in T /\ \A y \in T : i <= y
    <3>1. T \in SUBSET Nat
      BY <1>1
    <3> HIDE DEF T
    <3> QED BY <3>1, Least
  <2> HIDE DEF i
  <2>2. i \in 0..n /\ ~Copied(n, f, s, i, m, c[i])
    BY <2>1
  <2>3. i # 0
    BY <1>2, <2>2
  <2>4. i - 1 \in 0..n - 1 /\ (i - 1) + 1 = i /\ ~(i <= i - 1) /\ i - 1 \in 0..n
    BY <1>1, <2>2, <2>3
  <2>5. Copied(n, f, s, i - 1, m, c[i - 1])
    BY <2>1, <2>4
  <2>6. Copied(n, f, s, (i - 1) + 1, m, c[(i - 1) + 1])
    <3> HIDE DEF T
    <3> QED BY <1>3, <2>4, <2>5
  <2> HIDE DEF T
  <2> QED BY <2>2, <2>4, <2>6
<1>5. ASSUME NEW x \in Holds(m, c[n]) PROVE x \in Holds(n, f)
  <2>1. PICK y \in 0..m - 1 : x = c[n][y] /\ x # EMPTY
    BY <1>5 DEF Holds
  <2>2. PICK b \in 0..n - 1 : x = f[b]
    BY <1>4, <2>1 DEF Copied
  <2> QED BY <2>1, <2>2 DEF Holds
<1>6. ASSUME NEW x \in Holds(n, f) PROVE x \in Holds(m, c[n])
  <2>1. PICK b \in 0..n - 1 : x = f[b] /\ x # EMPTY
    BY <1>6 DEF Holds
  <2>2. Gap(n, s, b) < n
    <3>1. Gap(n, s, b) \in 0..n - 1
      BY <1>1, GapIs
    <3> QED BY <1>1, <3>1
  <2> QED BY <1>4, <2>1, <2>2 DEF Copied
<1> QED BY <1>4, <1>5, <1>6 DEF Copied

-----------------------------------------------------------------------------
(* Counting. *)

\* A table has as many keys as occupied buckets.
LEMMA HoldsCount ==
  ASSUME NEW n, NEW f, RobinTable(n, f)
  PROVE  /\ IsFiniteSet(Occupied(n, f)) /\ Cardinality(Occupied(n, f)) \in Nat
         /\ IsFiniteSet(Holds(n, f)) /\ Cardinality(Holds(n, f)) = Cardinality(Occupied(n, f))
<1> DEFINE S == Occupied(n, f)
           T == Holds(n, f)
           h == [b \in S |-> f[b]]
<1>1. n \in Nat /\ n >= 2 /\ \A a, b \in 0..n - 1 : f[a] = f[b] /\ f[a] # EMPTY => a = b
  BY DEF RobinTable
<1>2. IsFiniteSet(S)
  <2>1. IsFiniteSet(0..n - 1)
    BY <1>1, FS_Interval
  <2>2. S \in SUBSET (0..n - 1)
    BY DEF Occupied
  <2> HIDE DEF S
  <2> QED BY <2>1, <2>2, FS_Subset
<1>3. Cardinality(S) \in Nat
  BY <1>2, FS_CardinalityType
<1>4. h \in Bijection(S, T)
  <2>1. \A b \in S : h[b] \in T
    BY DEF Occupied, Holds
  <2>2. \A a, b \in S : h[a] = h[b] => a = b
    BY <1>1 DEF Occupied
  <2>3. \A y \in T : \E b \in S : h[b] = y
    BY DEF Occupied, Holds
  <2> HIDE DEF S, T
  <2>4. h \in [S -> T]
    BY <2>1
  <2> HIDE DEF h
  <2> QED BY <2>2, <2>3, <2>4 DEF Bijection, Injection, Surjection, IsInjective
<1>5. IsFiniteSet(T) /\ Cardinality(T) = Cardinality(S)
  <2> HIDE DEF S, T, h
  <2>1. ExistsBijection(S, T)
    BY <1>4 DEF ExistsBijection
  <2> QED BY <1>2, <2>1, FS_Bijection
<1> QED BY <1>2, <1>3, <1>5

\* With fewer keys than buckets there is room.
LEMMA RoomByCount ==
  ASSUME NEW n, NEW f, RobinTable(n, f), Cardinality(Occupied(n, f)) < n
  PROVE  HasRoom(n, f)
<1>1. n \in Nat /\ n >= 2
  BY DEF RobinTable
<1>2. Cardinality(0..n - 1) = n
  BY <1>1, FS_Interval
<1>3. ~(Cardinality(Occupied(n, f)) = n)
  <2>1. Cardinality(Occupied(n, f)) \in Nat
    BY HoldsCount
  <2> QED BY <1>1, <2>1
<1>4. Occupied(n, f) # 0..n - 1
  BY <1>2, <1>3
<1> QED BY <1>4 DEF Occupied, HasRoom

-----------------------------------------------------------------------------
(* Powers of two. *)

\* A multiple of d has no remainder.
LEMMA Multiple ==
  ASSUME NEW d \in Nat, d >= 1, NEW q \in Int
  PROVE  (d * q) % d = 0
<1> DEFINE x == d * q
           p == x \div d
           r == x % d
           e == q - p
<1>1. x \in Int
  OBVIOUS
<1>2. p \in Int /\ r \in 0..d - 1 /\ x = d * p + r
  <2> HIDE DEF x
  <2> QED BY <1>1, DivMod
<1> HIDE DEF p, r
<1>3. e \in Int /\ d * e = r
  <2>1. d * q = d * p + r
    BY <1>2
  <2>2. d * (q - p) = d * q - d * p
    BY <1>2, SMT
  <2> QED BY <1>2, <2>1, <2>2, SMT
<1> HIDE DEF e
<1>4. ~(e >= 1)
  <2> SUFFICES ASSUME e >= 1 PROVE FALSE
    OBVIOUS
  <2>1. d * e >= d
    BY <1>3, SMT
  <2> QED BY <1>2, <1>3, <2>1
<1>5. ~(e <= -1)
  <2> SUFFICES ASSUME e <= -1 PROVE FALSE
    OBVIOUS
  <2>1. d * e <= -d
    BY <1>3, SMT
  <2> QED BY <1>2, <1>3, <2>1
<1>6. e = 0 /\ d * 0 = 0
  BY <1>3, <1>4, <1>5
<1>7. r = 0
  BY <1>3, <1>6
<1> QED BY <1>7 DEF r, x

LEMMA DoublePower ==
  ASSUME NEW n \in Nat, n >= 1, IsPowerOfTwo(n)
  PROVE  IsPowerOfTwo(2 * n)
<1> SUFFICES ASSUME NEW d \in 2..2 * n, (2 * n) % d = 0, d % 2 # 0
             PROVE  FALSE
  BY DEF IsPowerOfTwo
<1> DEFINE q == (2 * n) \div d
           e == d \div 2
           p == n - e * q
<1>1. q \in Int /\ 2 * n = d * q
  <2>1. d \in Nat /\ d >= 1 /\ 2 * n \in Int
    OBVIOUS
  <2>2. q \in Int /\ 2 * n = d * q + 0
    BY <2>1, DivMod, Zenon
  <2>3. d * q \in Int
    BY <2>1, <2>2
  <2> QED BY <2>2, <2>3
<1>2. e \in Int /\ d = 2 * e + 1
  <2>1. e \in Int /\ d % 2 \in 0..1 /\ d = 2 * e + (d % 2)
    BY DivMod
  <2> QED BY <2>1
<1> HIDE DEF q, e
<1>3. p \in Int /\ q = 2 * p
  <2>1. (2 * e + 1) * q = 2 * (e * q) + q
    BY <1>1, <1>2, SMT
  <2>2. 2 * n = 2 * (e * q) + q
    BY <1>1, <1>2, <2>1
  <2>3. e * q \in Int
    BY <1>1, <1>2
  <2> DEFINE z == e * q
  <2>4. z \in Int /\ 2 * n = 2 * z + q /\ p = n - z
    BY <2>2, <2>3
  <2> HIDE DEF z, p
  <2> QED BY <1>1, <2>4
<1> HIDE DEF p
<1>4. n = d * p
  <2>1. d * (2 * p) = 2 * (d * p)
    BY <1>3, SMT
  <2>2. d * p \in Int
    BY <1>3
  <2> QED BY <1>1, <1>3, <2>1, <2>2
<1>5. n % d = 0
  <2>1. d \in Nat /\ d >= 1
    OBVIOUS
  <2>2. (d * p) % d = 0
    BY <1>3, <2>1, Multiple
  <2> QED BY <1>4, <2>2
<1>6. d <= n
  <2>1. p >= 1
    <3> SUFFICES ASSUME p <= 0 PROVE FALSE
      BY <1>3
    <3>1. d * p <= 0
      BY <1>3, SMT
    <3> QED BY <1>4, <3>1
  <2>2. d * p >= d
    BY <1>3, <2>1, SMT
  <2> QED BY <1>4, <2>2
<1>7. d \in 2..n
  BY <1>6
<1> QED BY <1>5, <1>7 DEF IsPowerOfTwo

\* A power of two from 2 on is twice another one.
LEMMA HalfPower ==
  ASSUME NEW n \in Nat, n >= 2, IsPowerOfTwo(n)
  PROVE  \E m \in Nat : m >= 1 /\ n = 2 * m /\ IsPowerOfTwo(m)
<1> DEFINE m == n \div 2
<1>1. n % 2 = 0
  <2>1. (n * 1) % n = 0
    BY Multiple
  <2>2. n % n = 0 /\ n \in 2..n
    BY <2>1
  <2> QED BY <2>2 DEF IsPowerOfTwo
<1>2. m \in Int /\ n = 2 * m
  <2>1. m \in Int /\ n = 2 * m + (n % 2)
    BY DivMod
  <2> QED BY <1>1, <2>1
<1> HIDE DEF m
<1>3. m \in Nat /\ m >= 1
  BY <1>2
<1>4. IsPowerOfTwo(m)
  <2> SUFFICES ASSUME NEW d \in 2..m, m % d = 0 PROVE d % 2 = 0
    BY DEF IsPowerOfTwo
  <2> DEFINE q == m \div d
  <2>1. q \in Int /\ m = d * q
    <3>1. d \in Nat /\ d >= 1 /\ m \in Int
      BY <1>3
    <3>2. q \in Int /\ m = d * q + 0
      BY <3>1, DivMod, Zenon
    <3>3. d * q \in Int
      BY <3>1, <3>2
    <3> QED BY <3>2, <3>3
  <2> HIDE DEF q
  <2>2. n = d * (2 * q)
    <3>1. d * (2 * q) = 2 * (d * q)
      BY <1>3, <2>1, SMT
    <3> QED BY <1>2, <2>1, <3>1
  <2>3. d \in Nat /\ d >= 1 /\ d \in 2..n /\ 2 * q \in Int
    BY <1>2, <1>3, <2>1
  <2>4. n % d = 0
    BY <2>2, <2>3, Multiple
  <2> QED BY <2>3, <2>4 DEF IsPowerOfTwo
<1> QED BY <1>2, <1>3, <1>4

\* There is none between n and twice n.
LEMMA NextPower ==
  ASSUME NEW n \in Nat, n >= 1, IsPowerOfTwo(n), NEW m \in Nat, IsPowerOfTwo(m), n < m
  PROVE  2 * n <= m
<1> DEFINE T == {i \in Nat : i >= 1 /\ \E j \in Nat : i < j /\ j < 2 * i /\ IsPowerOfTwo(i) /\ IsPowerOfTwo(j)}
<1>1. T = {}
  <2> SUFFICES ASSUME T # {} PROVE FALSE
    OBVIOUS
  <2> DEFINE i == Min(T)
  <2>1. i \in T /\ \A y \in T : i <= y
    <3>1. T \in SUBSET Nat
      OBVIOUS
    <3> HIDE DEF T
    <3> QED BY <3>1, Least
  <2> HIDE DEF i
  <2>2. i \in Nat /\ i >= 1
    BY <2>1
  <2>3. PICK j \in Nat : i < j /\ j < 2 * i /\ IsPowerOfTwo(i) /\ IsPowerOfTwo(j)
    BY <2>1
  <2>4. i >= 2 /\ j >= 2
    BY <2>2, <2>3
  <2>5. PICK a \in Nat : a >= 1 /\ i = 2 * a /\ IsPowerOfTwo(a)
    BY <2>2, <2>3, <2>4, HalfPower
  <2>6. PICK b \in Nat : b >= 1 /\ j = 2 * b /\ IsPowerOfTwo(b)
    BY <2>3, <2>4, HalfPower
  <2>7. a < b /\ b < 2 * a /\ ~(i <= a)
    BY <2>3, <2>5, <2>6
  <2>8. a \in T
    BY <2>5, <2>6, <2>7
  <2> HIDE DEF T
  <2> QED BY <2>1, <2>7, <2>8
<1>2. n \notin T
  BY <1>1
<1>3. ~(n < m /\ m < 2 * n /\ IsPowerOfTwo(n) /\ IsPowerOfTwo(m))
  BY <1>2
<1>4. ~(m < 2 * n)
  BY <1>3
<1> QED BY <1>4

-----------------------------------------------------------------------------
(* Tables. *)

Arrays == UNION {[0..n - 1 -> Keys \cup {EMPTY}] : n \in Nat}

Tables == [size : 2..MaxSize, data : Arrays, members : Nat, grow_threshold : Nat]

\* What every call keeps.
Good(t) ==
  /\ t \in Tables /\ IsPowerOfTwo(t.size)
  /\ RobinTable(t.size, t.data)
  /\ t.members = Cardinality(Occupied(t.size, t.data)) /\ t.members < t.size
  /\ t.grow_threshold = GrowThreshold(t.size) \/ (t.grow_threshold = 0 /\ t.size = MaxSize)

LEMMA GoodIs ==
  ASSUME NEW t, Good(t)
  PROVE  /\ t.size \in Nat /\ t.size >= 2 /\ t.size <= MaxSize
         /\ t.data \in [0..t.size - 1 -> Keys \cup {EMPTY}]
         /\ RobinTable(t.size, t.data) /\ HasRoom(t.size, t.data)
         /\ t.members \in Nat /\ t.grow_threshold \in Nat
<1>1. t.size \in 2..MaxSize /\ RobinTable(t.size, t.data) /\ t.members \in Nat /\ t.grow_threshold \in Nat
  BY DEF Good, Tables
<1>2. HasRoom(t.size, t.data)
  BY <1>1, RoomByCount DEF Good
<1> QED BY <1>1, <1>2, SimpleHashAssumption DEF RobinTable

\* There is always an empty bucket left.
LEMMA ThresholdIs ==
  ASSUME NEW n \in Nat, n >= 2
  PROVE  GrowThreshold(n) \in Nat /\ GrowThreshold(n) < n /\ GrowThreshold(n) >= 1
         /\ n <= 10 * GrowThreshold(n)
<1> DEFINE p == (n * 98) \div 100
           q == (n * 9) \div 10
<1>1. p \in Int /\ 100 * p <= n * 98 /\ n * 98 <= 100 * p + 99
  <2>1. (n * 98) % 100 \in 0..99 /\ p \in Int /\ n * 98 = 100 * p + ((n * 98) % 100)
    BY DivMod
  <2> QED BY <2>1
<1>2. q \in Int /\ 10 * q <= n * 9 /\ n * 9 <= 10 * q + 9
  <2>1. (n * 9) % 10 \in 0..9 /\ q \in Int /\ n * 9 = 10 * q + ((n * 9) % 10)
    BY DivMod
  <2> QED BY <2>1
<1> HIDE DEF p, q
<1>3. p \in Nat /\ p < n /\ p >= 1 /\ n <= 10 * p
  BY <1>1
<1>4. q \in Nat /\ q < n /\ q >= 1 /\ n <= 10 * q
  BY <1>2
<1> QED BY <1>3, <1>4 DEF GrowThreshold, p, q

\* A new table is one.
LEMMA NewTableIs ==
  ASSUME NEW n \in 2..MaxSize, IsPowerOfTwo(n)
  PROVE  Good(NewTable(n)) /\ Holds(n, NewTable(n).data) = {} /\ NewTable(n).size = n
<1> DEFINE t == NewTable(n)
           f == [b \in 0..n - 1 |-> EMPTY]
<1>1. n \in Nat /\ n >= 2
  BY SimpleHashAssumption
<1>2. t.size = n /\ t.data = f /\ t.members = 0 /\ t.grow_threshold = GrowThreshold(n)
  BY DEF NewTable
<1>3. t \in Tables
  <2>1. f \in Arrays
    BY <1>1 DEF Arrays
  <2>2. GrowThreshold(n) \in Nat
    BY <1>1, ThresholdIs
  <2> QED BY <2>1, <2>2 DEF NewTable, Tables
<1>4. \A b \in 0..n - 1 : f[b] = EMPTY /\ Next1(n, b) \in 0..n - 1
  BY <1>1, NextGap
<1>5. RobinTable(n, f) /\ Occupied(n, f) = {} /\ Holds(n, f) = {}
  <2>1. f \in [0..n - 1 -> Keys \cup {EMPTY}]
    OBVIOUS
  <2> HIDE DEF f
  <2> QED BY <1>1, <1>4, <2>1 DEF RobinTable, InOrder, Occupied, Holds
<1>6. Cardinality(Occupied(n, f)) = 0
  BY <1>5, FS_EmptySet
<1> HIDE DEF t, f
<1>7. Good(t)
  BY <1>1, <1>2, <1>3, <1>5, <1>6 DEF Good
<1> QED BY <1>2, <1>5, <1>7 DEF t

\* SH_CREATE makes one.
LEMMA CreateIs ==
  ASSUME NEW e \in Nat
  PROVE  Good(Create(e)) /\ Holds(Create(e).size, Create(e).data) = {}
<1> DEFINE x == (e * 10) \div 9
           y == Min({MaxSize, x})
           T == {p \in 2..MaxSize : IsPowerOfTwo(p) /\ p >= y}
<1>1. x \in Nat
  <2>1. x \in Int /\ (e * 10) % 9 \in 0..8 /\ e * 10 = 9 * x + ((e * 10) % 9)
    BY DivMod
  <2> QED BY <2>1
<1> HIDE DEF x
<1>2. MaxSize \in Nat /\ MaxSize >= 2 /\ IsPowerOfTwo(MaxSize)
  BY SimpleHashAssumption
<1>3. y \in Nat /\ y <= MaxSize
  <2>1. {MaxSize, x} \in SUBSET Nat /\ {MaxSize, x} # {}
    BY <1>1, <1>2
  <2>2. y \in {MaxSize, x} /\ \A z \in {MaxSize, x} : y <= z
    BY <2>1, Least, Zenon
  <2> QED BY <1>1, <1>2, <2>2
<1> HIDE DEF y
<1>4. T \in SUBSET Nat /\ MaxSize \in T
  BY <1>2, <1>3
<1>5. Min(T) \in T
  <2> HIDE DEF T
  <2> QED BY <1>4, Least
<1>6. PowerOfTwo(y) = Min(T)
  BY DEF PowerOfTwo
<1>7. PowerOfTwo(y) \in 2..MaxSize /\ IsPowerOfTwo(PowerOfTwo(y))
  BY <1>5, <1>6
<1>8. Create(e) = NewTable(PowerOfTwo(y))
  BY DEF Create, y, x
<1> QED BY <1>7, <1>8, NewTableIs

-----------------------------------------------------------------------------
(* Recursion. *)

\* What is made of s by one step after another.
IsPath(f, S, s, n, step) ==
  f \in [0..n -> S] /\ f[0] = s /\ \A k \in 1..n : f[k] = step[k][f[k - 1]]

LEMMA Iterated ==
  ASSUME NEW S, NEW s \in S, NEW n \in Nat, NEW step \in [1..n -> [S -> S]]
  PROVE  \E f : IsPath(f, S, s, n, step)
<1> DEFINE Path(m, f) == f[0] = s /\ \A k \in 1..m : f[k] = step[k][f[k - 1]]
           T == {m \in 0..n : ~\E f \in [0..m -> S] : Path(m, f)}
<1>1. T = {}
  <2> SUFFICES ASSUME T # {} PROVE FALSE
    OBVIOUS
  <2>1. PICK m \in T : \A k \in T : m <= k
    <3>1. T \in SUBSET Nat
      OBVIOUS
    <3> QED BY <3>1, Least
  <2>2. CASE m = 0
    <3>1. [k \in 0..0 |-> s] \in [0..m -> S] /\ Path(m, [k \in 0..0 |-> s])
      BY <2>2
    <3> QED BY <2>1, <3>1
  <2>3. CASE m # 0
    <3>1. m \in 1..n /\ m - 1 \in 0..n /\ m - 1 \notin T
      <4>1. m \in 0..n
        BY <2>1
      <4>2. m \in 1..n /\ m - 1 \in 0..n /\ ~(m <= m - 1)
        BY <4>1, <2>3
      <4> HIDE DEF T
      <4> QED BY <2>1, <4>2
    <3>2. PICK f \in [0..m - 1 -> S] : Path(m - 1, f)
      BY <3>1
    <3> DEFINE g == [k \in 0..m |-> IF k = m THEN step[m][f[m - 1]] ELSE f[k]]
    <3>3. f[m - 1] \in S /\ step[m][f[m - 1]] \in S
      <4>1. m - 1 \in 0..m - 1
        BY <3>1
      <4>2. f[m - 1] \in S
        BY <3>2, <4>1
      <4>3. step[m] \in [S -> S]
        BY <3>1
      <4> QED BY <4>2, <4>3
    <3>4. g \in [0..m -> S]
      <4>1. \A k \in 0..m : k # m => k \in 0..m - 1
        BY <3>1
      <4> QED BY <3>2, <3>3, <4>1
    <3>5. g[0] = s
      BY <3>1, <3>2
    <3>6. ASSUME NEW k \in 1..m PROVE g[k] = step[k][g[k - 1]]
      <4>1. CASE k = m
        BY <3>1, <4>1
      <4>2. CASE k # m
        <5>1. k \in 1..m - 1 /\ k \in 0..m /\ k - 1 \in 0..m /\ k - 1 # m
          BY <3>1, <4>2
        <5>2. g[k] = f[k] /\ g[k - 1] = f[k - 1]
          BY <4>2, <5>1
        <5> QED BY <3>2, <5>1, <5>2
      <4> QED BY <4>1, <4>2
    <3> HIDE DEF g
    <3>7. Path(m, g)
      BY <3>5, <3>6
    <3> QED BY <2>1, <3>4, <3>7
  <2> QED BY <2>2, <2>3
<1>2. n \in 0..n /\ n \notin T
  BY <1>1
<1>3. PICK f \in [0..n -> S] : Path(n, f)
  BY <1>2
<1> QED BY <1>3 DEF IsPath

-----------------------------------------------------------------------------
(* SH_GROW. *)

\* The bucket that the copy starts with.
StartElem(n, f, m) ==
  Min({b \in 0..n - 1 : f[b] = EMPTY \/ Opt(m, f[b]) = b})

LEMMA StartElemIs ==
  ASSUME NEW n, NEW f, RobinTable(n, f), HasRoom(n, f), NEW m, m = 2 * n
  PROVE  /\ {b \in 0..n - 1 : f[b] = EMPTY \/ Opt(m, f[b]) = b} # {}
         /\ StartsAt(n, f, StartElem(n, f, m))
<1> DEFINE T == {b \in 0..n - 1 : f[b] = EMPTY \/ Opt(m, f[b]) = b}
           s == Min(T)
<1>1. n \in Nat /\ n >= 2
  BY DEF RobinTable
<1>2. T # {} /\ T \in SUBSET Nat
  BY <1>1 DEF HasRoom
<1>3. s \in T
  <2> HIDE DEF T
  <2> QED BY <1>2, Least
<1> HIDE DEF s
<1>4. s \in 0..n - 1 /\ (f[s] = EMPTY \/ Opt(m, f[s]) = s)
  BY <1>3
<1>5. ASSUME f[s] # EMPTY PROVE Far(n, f, s) = 0
  <2>1. f[s] \in Keys
    BY <1>4, <1>5 DEF RobinTable
  <2>2. Hash[f[s]] \in Nat
    BY <2>1, SimpleHashAssumption
  <2>3. Opt(n, f[s]) \in 0..n - 1 /\ (Opt(m, f[s]) = Opt(n, f[s]) \/ Opt(m, f[s]) = Opt(n, f[s]) + n)
    BY <1>1, <2>2, ModDouble DEF Opt
  <2>4. Opt(n, f[s]) = s
    BY <1>1, <1>4, <1>5, <2>3
  <2> QED BY <1>1, <1>4, <2>4 DEF Far, Gap
<1> QED BY <1>2, <1>4, <1>5 DEF StartsAt, StartElem, s

LEMMA GrowCopies ==
  ASSUME NEW t, Good(t), t.size < MaxSize
  PROVE  \E c : /\ CopyPath(t.size, t.data, StartElem(t.size, t.data, 2 * t.size), 2 * t.size, c)
               /\ Grow(t) = [NewTable(2 * t.size) EXCEPT !.data = c[t.size], !.members = t.members]
<1> DEFINE n == t.size
           f == t.data
           new == NewTable(2 * t.size)
           anchors == {b \in Buckets(t) : \/ t.data[b] = EMPTY
                                          \/ SH_INITIAL_BUCKET(new, t.data[b]) = b}
           startelem == IF anchors = {} THEN 0 ELSE Min(anchors)
           Put(data, k) ==
             IF k = EMPTY THEN data
             ELSE LET opt == SH_INITIAL_BUCKET(new, k)
                      d == Min({x \in Buckets(new) : data[Ahead(new, opt, x)] = EMPTY})
                  IN [data EXCEPT ![Ahead(new, opt, d)] = k]
           Step(c) == [i \in 0..t.size |->
                         IF i = 0 THEN new.data
                         ELSE Put(c[i - 1], t.data[Ahead(t, startelem, i - 1)])]
           copied == CHOOSE c : c = Step(c)
           m == 2 * n
           s == StartElem(n, f, m)
           S == [0..m - 1 -> Keys \cup {EMPTY}]
<1>1. /\ n \in Nat /\ n >= 2 /\ m \in Nat /\ m >= 2 /\ RobinTable(n, f) /\ HasRoom(n, f)
      /\ f \in [0..n - 1 -> Keys \cup {EMPTY}]
  BY GoodIs
<1>2. new.size = m /\ new.data = [b \in 0..m - 1 |-> EMPTY]
  BY DEF NewTable
<1>3. Grow(t) = [new EXCEPT !.data = copied[t.size], !.members = t.members]
  BY DEF Grow
<1>4. startelem = s /\ s \in 0..n - 1 /\ StartsAt(n, f, s)
  <2>1. \A k : SH_INITIAL_BUCKET(new, k) = Opt(m, k)
    <3> HIDE DEF new, m
    <3> QED BY <1>2 DEF SH_INITIAL_BUCKET, Opt
  <2>2. anchors = {b \in 0..n - 1 : f[b] = EMPTY \/ Opt(m, f[b]) = b}
    <3> HIDE DEF new, m
    <3> QED BY <2>1 DEF Buckets
  <2>3. anchors # {} /\ StartsAt(n, f, s)
    <3> HIDE DEF anchors
    <3> QED BY <1>1, <2>2, StartElemIs
  <2> HIDE DEF anchors, m
  <2> QED BY <2>2, <2>3 DEF StartElem, StartsAt
<1> HIDE DEF new, startelem, m, s
<1>5. \A k : SH_INITIAL_BUCKET(new, k) = Opt(m, k)
  BY <1>2 DEF SH_INITIAL_BUCKET, Opt
<1>6. \A i \in 1..n : Ahead(t, startelem, i - 1) = Fwd(n, s, i - 1) /\ Fwd(n, s, i - 1) \in 0..n - 1
  <2> SUFFICES ASSUME NEW i \in 1..n
               PROVE  Ahead(t, startelem, i - 1) = Fwd(n, s, i - 1) /\ Fwd(n, s, i - 1) \in 0..n - 1
    OBVIOUS
  <2>1. i - 1 \in 0..n /\ i - 1 \in 0..n - 1
    BY <1>1
  <2>2. (s + (i - 1)) % n = Fwd(n, s, i - 1)
    <3> HIDE DEF n
    <3> QED BY <1>1, <1>4, <2>1, Circle, Zenon
  <2>3. Fwd(n, s, i - 1) \in 0..n - 1
    BY <1>1, <1>4, <2>1, AheadIs
  <2> QED BY <1>4, <2>2, <2>3 DEF Ahead
<1>7. ASSUME NEW g, NEW k \in Keys
      PROVE  Put(g, k) = [g EXCEPT ![(Opt(m, k) + CopyDist(m, g, k)) % m] = k]
  <2>1. Opt(m, k) \in 0..m - 1
    BY <1>1, OptIs
  <2>2. \A x \in 0..m - 1 : (Opt(m, k) + x) % m = Fwd(m, Opt(m, k), x)
    <3> SUFFICES ASSUME NEW x \in 0..m - 1 PROVE (Opt(m, k) + x) % m = Fwd(m, Opt(m, k), x)
      OBVIOUS
    <3>1. x \in 0..m
      BY <1>1
    <3> QED BY <1>1, <2>1, <3>1, Circle, Zenon
  <2>3. {x \in Buckets(new) : g[Ahead(new, Opt(m, k), x)] = EMPTY}
        = {x \in 0..m - 1 : g[Fwd(m, Opt(m, k), x)] = EMPTY}
    BY <1>2, <2>2 DEF Buckets, Ahead
  <2>4. k # EMPTY
    BY SimpleHashAssumption
  <2> DEFINE At(o) == Ahead(new, o, Min({x \in Buckets(new) : g[Ahead(new, o, x)] = EMPTY}))
  <2>5. Put(g, k) = [g EXCEPT ![At(SH_INITIAL_BUCKET(new, k))] = k]
    BY <2>4
  <2>6. At(Opt(m, k)) = (Opt(m, k) + CopyDist(m, g, k)) % m
    BY <1>2, <2>3 DEF Ahead, CopyDist
  <2> HIDE DEF At, Put
  <2> QED BY <1>5, <2>5, <2>6
<1>8. ASSUME NEW g \in S, NEW k \in Keys \cup {EMPTY} PROVE Put(g, k) \in S
  <2>1. CASE k = EMPTY
    BY <2>1
  <2>2. CASE k # EMPTY
    <3>1. \A x : [g EXCEPT ![x] = k] \in S
      OBVIOUS
    <3> HIDE DEF Put, S
    <3> QED BY <1>7, <2>2, <3>1
  <2> QED BY <2>1, <2>2
<1> HIDE DEF Put
<1>9. PICK c : c = Step(c)
  <2> DEFINE step == [i \in 1..n |-> [g \in S |-> Put(g, f[Fwd(n, s, i - 1)])]]
  <2>1. new.data \in S
    BY <1>2
  <2>2. step \in [1..n -> [S -> S]]
    <3>1. \A i \in 1..n : f[Fwd(n, s, i - 1)] \in Keys \cup {EMPTY}
      BY <1>1, <1>6
    <3> HIDE DEF S
    <3> QED BY <1>8, <3>1
  <2>3. PICK c : IsPath(c, S, new.data, n, step)
    <3> HIDE DEF step, S
    <3> QED BY <1>1, <2>1, <2>2, Iterated
  <2>4. c \in [0..n -> S] /\ c[0] = new.data /\ \A i \in 1..n : c[i] = step[i][c[i - 1]]
    BY <2>3 DEF IsPath
  <2>5. ASSUME NEW i \in 1..n
        PROVE  i - 1 \in 0..n /\ i \in 0..n /\ i # 0 /\ c[i] = Put(c[i - 1], t.data[Ahead(t, startelem, i - 1)])
    <3>1. i - 1 \in 0..n /\ i \in 0..n /\ i # 0
      BY <1>1
    <3>2. c[i - 1] \in S
      BY <2>4, <3>1
    <3>3. c[i] = step[i][c[i - 1]]
      BY <2>4
    <3>4. step[i] = [g \in S |-> Put(g, f[Fwd(n, s, i - 1)])]
      OBVIOUS
    <3>5. c[i] = Put(c[i - 1], f[Fwd(n, s, i - 1)])
      <4> HIDE DEF S, step
      <4> QED BY <3>2, <3>3, <3>4
    <3> QED BY <1>6, <3>1, <3>5
  <2>6. c = Step(c)
    <3>1. c = [i \in 0..n |-> c[i]]
      BY <2>4
    <3>2. \A i \in 0..n : i = 0 \/ i \in 1..n
      BY <1>1
    <3>3. \A i \in 0..n : c[i] = IF i = 0 THEN new.data
                                 ELSE Put(c[i - 1], t.data[Ahead(t, startelem, i - 1)])
      BY <2>4, <2>5, <3>2
    <3> HIDE DEF S, step
    <3> QED BY <3>1, <3>3
  <2> QED BY <2>6
<1>10. copied = Step(copied)
  <2> HIDE DEF Step
  <2> QED BY <1>9
<1> HIDE DEF copied
<1>11. copied[0] = new.data
  BY <1>1, <1>10
<1>12. ASSUME NEW i \in 0..n - 1
       PROVE  LET k == f[Fwd(n, s, i)]
              IN copied[i + 1] = IF k = EMPTY THEN copied[i]
                                 ELSE [copied[i] EXCEPT ![(Opt(m, k) + CopyDist(m, copied[i], k)) % m] = k]
  <2> DEFINE k == f[Fwd(n, s, i)]
  <2>1. i + 1 \in 1..n /\ i + 1 \in 0..n /\ i + 1 # 0 /\ (i + 1) - 1 = i
    BY <1>1
  <2>2. copied[i + 1] = Put(copied[(i + 1) - 1], t.data[Ahead(t, startelem, (i + 1) - 1)])
    <3> HIDE DEF n
    <3> QED BY <1>10, <2>1 DEF n
  <2>3. Ahead(t, startelem, i) = Fwd(n, s, i) /\ Fwd(n, s, i) \in 0..n - 1
    BY <1>6, <2>1
  <2>4. copied[i + 1] = Put(copied[i], k)
    BY <2>1, <2>2, <2>3
  <2>5. k \in Keys \cup {EMPTY}
    BY <1>1, <2>3
  <2>6. CASE k = EMPTY
    BY <2>4, <2>6 DEF Put
  <2>7. CASE k # EMPTY
    BY <1>7, <2>4, <2>5, <2>7
  <2> QED BY <2>6, <2>7
<1>13. CopyPath(n, f, s, m, copied)
  BY <1>2, <1>11, <1>12 DEF CopyPath
<1> QED BY <1>3, <1>13 DEF new, s, m

\* SH_GROW keeps the entries, and the order of the table: the copy needs no comparison of
\* distances.
LEMMA GrowIs ==
  ASSUME NEW t, Good(t), t.size < MaxSize
  PROVE  /\ Good(Grow(t)) /\ Grow(t).size = 2 * t.size /\ Grow(t).members = t.members
         /\ Holds(Grow(t).size, Grow(t).data) = Holds(t.size, t.data)
         /\ Grow(t).grow_threshold # 0
<1> DEFINE n == t.size
           f == t.data
           m == 2 * n
           s == StartElem(n, f, m)
           new == NewTable(m)
<1>1. n \in Nat /\ n >= 2 /\ RobinTable(n, f) /\ HasRoom(n, f) /\ t.members \in Nat /\ n < MaxSize
  BY GoodIs
<1>2. m \in 2..MaxSize /\ IsPowerOfTwo(m) /\ n < m /\ m \in Nat /\ m >= 2
  <2>1. IsPowerOfTwo(n) /\ IsPowerOfTwo(MaxSize) /\ MaxSize \in Nat
    BY SimpleHashAssumption DEF Good
  <2>2. 2 * n <= MaxSize
    BY <1>1, <2>1, NextPower
  <2>3. IsPowerOfTwo(m)
    BY <1>1, <2>1, DoublePower
  <2> QED BY <1>1, <2>1, <2>2, <2>3
<1>3. PICK c : CopyPath(n, f, s, m, c) /\ Grow(t) = [new EXCEPT !.data = c[n], !.members = t.members]
  BY GrowCopies
<1>4. RobinTable(m, c[n]) /\ Holds(m, c[n]) = Holds(n, f)
  BY <1>1, <1>3, StartElemIs, CopyIs
<1>5. Cardinality(Occupied(m, c[n])) = t.members
  BY <1>1, <1>4, HoldsCount DEF Good
<1>6. new \in Tables /\ new.size = m /\ new.grow_threshold = GrowThreshold(m)
  <2>1. Good(new)
    BY <1>2, NewTableIs
  <2> QED BY <2>1 DEF Good, NewTable
<1>7. c[n] \in Arrays
  BY <1>2, <1>4 DEF RobinTable, Arrays
<1>8. GrowThreshold(m) >= 1
  BY <1>2, ThresholdIs
<1>9. t.members < m
  BY <1>1, <1>2 DEF Good
<1> DEFINE u == [new EXCEPT !.data = c[n], !.members = t.members]
<1>10. /\ u \in Tables /\ u.size = m /\ u.data = c[n] /\ u.members = t.members
       /\ u.grow_threshold = GrowThreshold(m)
  <2> HIDE DEF new, m, n
  <2> QED BY <1>1, <1>6, <1>7 DEF Tables
<1>11. Grow(t) = u
  BY <1>3
<1>12. u.grow_threshold # 0
  <2>1. GrowThreshold(m) \in Nat
    BY <1>2, ThresholdIs
  <2> QED BY <1>8, <1>10, <2>1
<1> HIDE DEF u, new, m, s
<1>13. Good(u)
  BY <1>2, <1>4, <1>5, <1>9, <1>10 DEF Good
<1> QED BY <1>4, <1>10, <1>11, <1>12, <1>13 DEF m

-----------------------------------------------------------------------------
(* Growing for an insertion. *)

\* What the tables that t grows to have in common with it.
GrownFrom(t, x) ==
  /\ Good(x) /\ x.members = t.members
  /\ Holds(x.size, x.data) = Holds(t.size, t.data)
  /\ x.size >= t.size /\ (x.size = t.size => x = t)
  /\ x = t \/ (x.size <= 20 * x.members /\ x.grow_threshold # 0)

LEMMA GrownStep ==
  ASSUME NEW t, Good(t), NEW k, NEW x, GrownFrom(t, x), x.size < MaxSize, MustGrow(x, k)
  PROVE  GrownFrom(t, Grow(x)) /\ Grow(x).size = 2 * x.size
<1>1. x.size \in Nat /\ x.size >= 2 /\ x.members \in Nat /\ t.size \in Nat /\ t.size >= 2
  BY GoodIs DEF GrownFrom
<1>2. MaxSize \in Nat
  BY SimpleHashAssumption
<1>3. x.grow_threshold = GrowThreshold(x.size)
  BY <1>1, <1>2 DEF GrownFrom, Good
<1>4. x.size <= 10 * x.members
  <2>1. CASE x.members >= x.grow_threshold
    <3>1. GrowThreshold(x.size) \in Nat /\ x.size <= 10 * GrowThreshold(x.size)
      BY <1>1, ThresholdIs
    <3> QED BY <1>1, <1>3, <2>1, <3>1
  <2>2. CASE Restarts(x, k)
    <3>1. x.members * 10 >= x.size
      BY <2>2 DEF Restarts
    <3> QED BY <1>1, <3>1
  <2> QED BY <2>1, <2>2 DEF MustGrow
<1>5. /\ Good(Grow(x)) /\ Grow(x).size = 2 * x.size /\ Grow(x).members = x.members
      /\ Holds(Grow(x).size, Grow(x).data) = Holds(x.size, x.data)
      /\ Grow(x).grow_threshold # 0
  BY GrowIs DEF GrownFrom
<1>6. Grow(x).size >= t.size /\ Grow(x).size # t.size /\ Grow(x).size <= 20 * Grow(x).members
  BY <1>1, <1>4, <1>5 DEF GrownFrom
<1> QED BY <1>5, <1>6 DEF GrownFrom

\* The growing ends, with a table on which the insertion succeeds or at the largest size.
EndsAs(t, k, u) ==
  /\ GrownFrom(t, u)
  /\ MustGrow(u, k) => u.size = MaxSize
  /\ Prepared(t, k) =
       IF ~MustGrow(u, k) THEN [ok |-> TRUE, t |-> u]
       ELSE [ok |-> FALSE, t |-> IF u.members >= u.grow_threshold THEN u
                                 ELSE [u EXCEPT !.grow_threshold = 0]]

LEMMA GrowthEnds ==
  ASSUME NEW t, Good(t), NEW k
  PROVE  \E u : EndsAs(t, k, u)
<1> DEFINE growths == MaxSize \div t.size
           Unfinished(u) == u.size < MaxSize /\ MustGrow(u, k)
           F(u) == IF u.size < MaxSize /\ MustGrow(u, k) THEN Grow(u) ELSE u
           Step(g) == [i \in 0..growths |->
                         IF i = 0 THEN t
                         ELSE LET u == g[i - 1]
                              IN IF u.size < MaxSize /\ MustGrow(u, k) THEN Grow(u) ELSE u]
           grown == CHOOSE g : g = Step(g)
           S == {u \in Tables : GrownFrom(t, u)}
           N == growths
<1>1. MaxSize \in Nat /\ t.size \in Nat /\ t.size >= 2 /\ t.size <= MaxSize
  BY GoodIs, SimpleHashAssumption
<1>2. N \in Nat /\ MaxSize < t.size * N + t.size
  <2>1. N \in Int /\ MaxSize % t.size \in 0..t.size - 1 /\ MaxSize = t.size * N + (MaxSize % t.size)
    <3>1. t.size >= 1 /\ MaxSize \in Int
      BY <1>1
    <3> QED BY <1>1, <3>1, DivMod, Zenon
  <2> DEFINE z == t.size * N
             r == MaxSize % t.size
  <2>2. N \in Int /\ r \in 0..t.size - 1 /\ MaxSize = z + r /\ z \in Int
    BY <1>1, <2>1
  <2>3. N >= 0
    <3> SUFFICES ASSUME N <= -1 PROVE FALSE
      BY <2>1
    <3>1. z <= - t.size
      <4> HIDE DEF growths
      <4> QED BY <1>1, <2>1, SMT
    <3> HIDE DEF z, r, growths
    <3> QED BY <1>1, <2>2, <3>1
  <2> HIDE DEF r, growths
  <2>4. MaxSize < z + t.size
    <3> HIDE DEF z
    <3> QED BY <1>1, <2>2
  <2> QED BY <2>2, <2>3, <2>4
<1>3. Prepared(t, k) =
        LET u == grown[growths]
        IN IF ~MustGrow(u, k) THEN [ok |-> TRUE, t |-> u]
           ELSE [ok |-> FALSE, t |-> IF u.members >= u.grow_threshold THEN u
                                     ELSE [u EXCEPT !.grow_threshold = 0]]
  BY DEF Prepared
<1> HIDE DEF growths
<1>4. t \in S
  <2>1. t \in Tables
    BY DEF Good
  <2>2. GrownFrom(t, t)
    BY <1>1 DEF GrownFrom
  <2> QED BY <2>1, <2>2
<1>5. ASSUME NEW u \in S PROVE F(u) \in S /\ (Unfinished(u) => F(u).size = 2 * u.size)
  <2>1. CASE Unfinished(u)
    <3>1. GrownFrom(t, Grow(u)) /\ Grow(u).size = 2 * u.size
      BY <2>1, GrownStep
    <3>2. Grow(u) \in Tables
      BY <3>1 DEF GrownFrom, Good
    <3> QED BY <2>1, <3>1, <3>2
  <2>2. CASE ~Unfinished(u)
    BY <2>2
  <2> QED BY <2>1, <2>2
<1>6. PICK g : g \in [0..N -> S] /\ g[0] = t /\ \A i \in 1..N : g[i] = F(g[i - 1])
  <2> DEFINE step == [i \in 1..N |-> [u \in S |-> F(u)]]
  <2>1. step \in [1..N -> [S -> S]]
    <3> HIDE DEF S, F
    <3> QED BY <1>5
  <2>2. PICK g : IsPath(g, S, t, N, step)
    <3> HIDE DEF S, step
    <3> QED BY <1>2, <1>4, <2>1, Iterated
  <2>3. ASSUME NEW i \in 1..N PROVE g[i] = F(g[i - 1])
    <3>1. i - 1 \in 0..N
      BY <1>2
    <3>2. g[i - 1] \in S /\ g[i] = step[i][g[i - 1]]
      <4> HIDE DEF S, step
      <4> QED BY <2>2, <3>1 DEF IsPath
    <3>3. step[i] = [u \in S |-> F(u)]
      OBVIOUS
    <3> HIDE DEF S, F, step
    <3> QED BY <3>2, <3>3
  <2> HIDE DEF S, F, step
  <2> QED BY <2>2, <2>3 DEF IsPath
<1>7. g = Step(g)
  <2>1. \A i \in 0..N : i = 0 \/ i \in 1..N
    BY <1>2
  <2>2. \A i \in 0..N : g[i] = IF i = 0 THEN t ELSE F(g[i - 1])
    <3> HIDE DEF F, S
    <3> QED BY <1>6, <2>1
  <2>3. g = [i \in 0..N |-> g[i]]
    <3> HIDE DEF F, S
    <3> QED BY <1>6
  <2>4. g = [i \in 0..N |-> IF i = 0 THEN t ELSE F(g[i - 1])]
    <3> HIDE DEF F
    <3> QED BY <2>2, <2>3
  <2> QED BY <2>4
<1>8. grown = Step(grown)
  <2> HIDE DEF Step
  <2> QED BY <1>7
<1> HIDE DEF grown, S
<1>9. grown[0] = t /\ \A i \in 1..N : grown[i] = F(grown[i - 1])
  <2>1. 0 \in 0..N /\ \A i \in 1..N : i \in 0..N /\ i # 0
    BY <1>2
  <2>2. grown[0] = t
    BY <1>8, <2>1
  <2>3. ASSUME NEW i \in 1..N PROVE grown[i] = F(grown[i - 1])
    <3>1. i \in 0..N /\ i # 0
      BY <2>1
    <3>2. \A j \in 0..N : grown[j] = IF j = 0 THEN t ELSE F(grown[j - 1])
      BY <1>8
    <3> HIDE DEF F, Step
    <3> QED BY <3>1, <3>2
  <2> QED BY <2>2, <2>3
<1> DEFINE P(i) == grown[i] \in S /\ (Unfinished(grown[i]) => grown[i].size >= t.size * i + t.size)
<1> HIDE DEF F, Unfinished, Step
<1>10. P(0)
  <2>1. t.size * 0 = 0
    BY <1>1
  <2> QED BY <1>1, <1>4, <1>9, <2>1
<1>11. ASSUME NEW i \in 1..N, P(i - 1) PROVE P(i)
  <2> DEFINE u == grown[i - 1]
  <2>1. u \in S /\ grown[i] = F(u)
    BY <1>9, <1>11
  <2>2. F(u) \in S /\ (Unfinished(u) => F(u).size = 2 * u.size)
    BY <1>5, <2>1 DEF F, Unfinished
  <2>3. CASE Unfinished(u)
    <3>1. u.size >= t.size * (i - 1) + t.size
      BY <1>11, <2>3
    <3>2. t.size * i = t.size * (i - 1) + t.size /\ t.size * i \in Int
      BY <1>1, SMT
    <3>3. u.size \in Nat /\ u.size >= t.size
      BY <2>1, GoodIs DEF S, GrownFrom
    <3>4. grown[i].size = 2 * u.size
      BY <2>1, <2>2, <2>3
    <3> DEFINE z == t.size * i
               y == t.size * (i - 1)
    <3>5. y \in Int /\ z = y + t.size /\ u.size >= y + t.size
      BY <1>1, <3>1, <3>2
    <3> HIDE DEF z, y, u
    <3>6. 2 * u.size >= z + t.size
      BY <1>1, <3>3, <3>5
    <3> QED BY <2>1, <2>2, <3>4, <3>6 DEF z
  <2>4. CASE ~Unfinished(u)
    <3>1. F(u) = u
      BY <2>4 DEF F, Unfinished
    <3> QED BY <2>1, <2>4, <3>1
  <2> QED BY <2>3, <2>4
<1>12. P(N)
  <2> DEFINE T == {i \in 0..N : ~P(i)}
  <2> SUFFICES ASSUME T # {} PROVE FALSE
    BY <1>2
  <2> DEFINE i == Min(T)
  <2>1. i \in T /\ \A y \in T : i <= y
    <3>1. T \in SUBSET Nat
      BY <1>2
    <3> HIDE DEF T
    <3> QED BY <3>1, Least
  <2> HIDE DEF i
  <2>2. i \in 0..N /\ ~P(i)
    BY <2>1
  <2>3. i # 0
    <3> HIDE DEF P
    <3> QED BY <1>10, <2>2
  <2>4. i \in 1..N /\ i - 1 \in 0..N /\ ~(i <= i - 1)
    BY <1>2, <2>2, <2>3
  <2>5. P(i - 1)
    <3> HIDE DEF P
    <3> QED BY <2>1, <2>4
  <2> HIDE DEF P, T
  <2> QED BY <1>11, <2>2, <2>4, <2>5
<1> DEFINE u == grown[N]
<1>13. u \in S /\ GrownFrom(t, u)
  BY <1>12 DEF S
<1>14. ASSUME MustGrow(u, k) PROVE u.size = MaxSize
  <2>1. u.size \in Nat /\ u.size <= MaxSize
    BY <1>13, GoodIs DEF GrownFrom
  <2>2. ASSUME u.size < MaxSize PROVE FALSE
    <3>1. u.size >= t.size * N + t.size
      BY <1>12, <1>14, <2>2 DEF Unfinished
    <3> DEFINE z == t.size * N
    <3>2. z \in Int /\ MaxSize < z + t.size /\ u.size >= z + t.size
      BY <1>1, <1>2, <3>1
    <3> HIDE DEF z, u
    <3> QED BY <1>1, <2>1, <3>2
  <2> QED BY <1>1, <2>1, <2>2
<1> HIDE DEF P, S
<1> QED BY <1>3, <1>13, <1>14 DEF EndsAs

\* The table that the insertion works on.
LEMMA PreparedIs ==
  ASSUME NEW t, Good(t), NEW k
  PROVE  LET p == Prepared(t, k)
         IN /\ p.ok \in BOOLEAN /\ Good(p.t) /\ p.t.members = t.members
            /\ Holds(p.t.size, p.t.data) = Holds(t.size, t.data)
            /\ p.t.size >= t.size
            /\ p.ok => p.t.members < p.t.grow_threshold
            /\ p.t.size > t.size => p.t.size <= 20 * p.t.members
            /\ p.t.grow_threshold = 0 => t.grow_threshold = 0 \/ p.t.size <= 10 * p.t.members
<1>a. PICK u : EndsAs(t, k, u)
  BY GrowthEnds
<1>1. /\ GrownFrom(t, u)
      /\ MustGrow(u, k) => u.size = MaxSize
      /\ Prepared(t, k) =
           IF ~MustGrow(u, k) THEN [ok |-> TRUE, t |-> u]
           ELSE [ok |-> FALSE, t |-> IF u.members >= u.grow_threshold THEN u
                                     ELSE [u EXCEPT !.grow_threshold = 0]]
  BY <1>a DEF EndsAs
<1>2. /\ Good(u) /\ u.members = t.members /\ Holds(u.size, u.data) = Holds(t.size, t.data)
      /\ u.size >= t.size /\ (u.size = t.size => u = t)
      /\ u = t \/ (u.size <= 20 * u.members /\ u.grow_threshold # 0)
  BY <1>1 DEF GrownFrom
<1>3. u.size \in Nat /\ u.members \in Nat /\ u.grow_threshold \in Nat /\ t.size \in Nat
  BY <1>2, GoodIs
<1>4. u.size > t.size => u.size <= 20 * u.members
  BY <1>2, <1>3
<1>5. u.grow_threshold = 0 => t.grow_threshold = 0
  BY <1>2
<1>6. CASE ~MustGrow(u, k)
  <2>1. Prepared(t, k) = [ok |-> TRUE, t |-> u]
    BY <1>1, <1>6
  <2>2. u.members < u.grow_threshold
    BY <1>3, <1>6 DEF MustGrow
  <2> QED BY <1>2, <1>4, <1>5, <2>1, <2>2
<1>7. CASE MustGrow(u, k) /\ u.members >= u.grow_threshold
  <2>1. Prepared(t, k) = [ok |-> FALSE, t |-> u]
    BY <1>1, <1>7
  <2> QED BY <1>2, <1>4, <1>5, <2>1
<1>8. CASE MustGrow(u, k) /\ ~(u.members >= u.grow_threshold)
  <2> DEFINE v == [u EXCEPT !.grow_threshold = 0]
  <2>1. Prepared(t, k) = [ok |-> FALSE, t |-> v]
    BY <1>1, <1>8
  <2>2. u \in Tables
    BY <1>2 DEF Good
  <2>3. /\ v \in Tables /\ v.size = u.size /\ v.data = u.data /\ v.members = u.members
        /\ v.grow_threshold = 0
    BY <2>2 DEF Tables
  <2>4. u.size = MaxSize /\ u.size <= 10 * u.members
    <3>1. u.members * 10 >= u.size
      BY <1>8 DEF MustGrow, Restarts
    <3> QED BY <1>1, <1>3, <1>8, <3>1
  <2> HIDE DEF v
  <2>5. Good(v)
    BY <1>2, <2>3, <2>4 DEF Good
  <2> QED BY <1>2, <1>4, <2>1, <2>3, <2>4, <2>5
<1> QED BY <1>6, <1>7, <1>8

-----------------------------------------------------------------------------
(* The calls on a table. *)

\* The operators of the module, in terms of the circle.
LEMMA OperatorsAre ==
  ASSUME NEW t, Good(t)
  PROVE  /\ \A k : SH_INITIAL_BUCKET(t, k) = Opt(t.size, k)
         /\ Buckets(t) = 0..t.size - 1
         /\ Contents(t) = Holds(t.size, t.data)
         /\ \A b \in 0..t.size - 1, d \in 0..t.size : Ahead(t, b, d) = Fwd(t.size, b, d)
         /\ \A a, b \in 0..t.size - 1 : (t.size + b - a) % t.size = Gap(t.size, a, b)
         /\ \A b \in 0..t.size - 1, d \in 0..t.size : (t.size + b - d) % t.size = Bwd(t.size, b, d)
         /\ \A b \in 0..t.size - 1 :
              t.data[b] # EMPTY =>
                SH_DISTANCE_FROM_OPTIMAL(t, t.data[b], b) = Far(t.size, t.data, b)
<1> DEFINE n == t.size
<1>1. n \in Nat /\ n >= 2 /\ RobinTable(n, t.data)
  BY GoodIs
<1>2. \A k : SH_INITIAL_BUCKET(t, k) = Opt(n, k)
  BY DEF SH_INITIAL_BUCKET, Opt
<1>3. Buckets(t) = 0..n - 1 /\ Contents(t) = Holds(n, t.data)
  BY DEF Buckets, Contents, Holds
<1> HIDE DEF n
<1>4. ASSUME NEW b \in 0..n - 1, NEW d \in 0..n
      PROVE  (b + d) % n = Fwd(n, b, d) /\ (n + b - d) % n = Bwd(n, b, d)
  BY <1>1, Circle, Zenon
<1>5. ASSUME NEW a \in 0..n - 1, NEW b \in 0..n - 1
      PROVE  (n + b - a) % n = Gap(n, a, b)
  <2>1. 0 \in 0..n
    BY <1>1
  <2> QED BY <1>1, <2>1, Circle, Zenon
<1>6. ASSUME NEW b \in 0..n - 1, t.data[b] # EMPTY
      PROVE  SH_DISTANCE_FROM_OPTIMAL(t, t.data[b], b) = Far(n, t.data, b)
  <2>1. Opt(n, t.data[b]) \in 0..n - 1
    BY <1>1, <1>6, FarIs
  <2> QED BY <1>2, <1>5, <2>1 DEF SH_DISTANCE_FROM_OPTIMAL, Far, n
<1> QED BY <1>2, <1>3, <1>4, <1>5, <1>6 DEF Ahead, n

IsChanged(t, a, g, u) == u = [t EXCEPT !.members = a, !.data = g]

LEMMA ChangedIs ==
  ASSUME NEW t \in Tables, NEW a \in Nat, NEW g \in Arrays, NEW u, IsChanged(t, a, g, u)
  PROVE  /\ u \in Tables /\ u.size = t.size /\ u.data = g /\ u.members = a
         /\ u.grow_threshold = t.grow_threshold
BY DEF Tables, IsChanged

\* A lookup, or a deletion, finds the key if it is there.
LEMMA FindIs ==
  ASSUME NEW t, Good(t), NEW k \in Keys
  PROVE  Find(t, k) \in 0..t.size - 1 /\ (t.data[Find(t, k)] = k <=> k \in Contents(t))
<1> DEFINE n == t.size
           f == t.data
           o == Opt(n, k)
           T == {d \in 0..n - 1 : f[Fwd(n, o, d)] \in {EMPTY, k}}
           m == Min(T)
<1>1. n \in Nat /\ n >= 2 /\ RobinTable(n, f) /\ HasRoom(n, f) /\ o \in 0..n - 1
  BY GoodIs, OptIs
<1>2. /\ m \in 0..n - 1 /\ Fwd(n, o, m) \in 0..n - 1
      /\ f[Fwd(n, o, m)] = k <=> k \in Holds(n, f)
  BY <1>1, LookupEnds
<1> HIDE DEF o
<1>3. \A d \in 0..n - 1 : d \in 0..n
  BY <1>1
<1>4. /\ SH_INITIAL_BUCKET(t, k) = o /\ Buckets(t) = 0..n - 1 /\ Contents(t) = Holds(n, f)
      /\ \A d \in 0..n - 1 : Ahead(t, o, d) = Fwd(n, o, d)
  BY <1>1, <1>3, OperatorsAre DEF o
<1>5. {d \in Buckets(t) : f[Ahead(t, o, d)] \in {EMPTY, k}} = T
  BY <1>4
<1>6. Find(t, k) = Ahead(t, o, m)
  BY <1>4, <1>5 DEF Find
<1> HIDE DEF m, T
<1>7. Find(t, k) = Fwd(n, o, m)
  BY <1>2, <1>4, <1>6
<1> QED BY <1>2, <1>4, <1>7

\* An insertion of a new key.
LEMMA PlacedIs ==
  ASSUME NEW t, Good(t), t.members < t.grow_threshold, NEW k \in Keys, k \notin Contents(t)
  PROVE  /\ Good(Placed(t, k)) /\ Placed(t, k).size = t.size
         /\ Placed(t, k).grow_threshold = t.grow_threshold
         /\ Contents(Placed(t, k)) = Contents(t) \cup {k}
<1> DEFINE n == t.size
           f == t.data
           o == Opt(n, k)
           D == InsertAt(n, f, k)
           cur == Fwd(n, o, D)
           T == {d \in 0..n - 1 : f[Fwd(n, cur, d)] = EMPTY}
           m == Min(T)
           g == Pushed(n, f, k, cur, m)
           u == Placed(t, k)
<1>1. /\ n \in Nat /\ n >= 2 /\ RobinTable(n, f) /\ HasRoom(n, f) /\ o \in 0..n - 1
      /\ t.members \in Nat /\ t \in Tables
  BY GoodIs, OptIs DEF Good
<1>2. D \in 0..n - 1 /\ cur \in 0..n - 1
  BY <1>1, InsertStops
<1> HIDE DEF o, D
<1>3. /\ SH_INITIAL_BUCKET(t, k) = o /\ Buckets(t) = 0..n - 1 /\ Contents(t) = Holds(n, f)
      /\ \A b \in 0..n - 1, d \in 0..n - 1 : Ahead(t, b, d) = Fwd(n, b, d)
      /\ \A b \in 0..n - 1 :
           f[b] # EMPTY => SH_DISTANCE_FROM_OPTIMAL(t, f[b], b) = Far(n, f, b)
      /\ \A b \in 0..n - 1, a \in 0..n - 1 : (n + b - a) % n = Gap(n, a, b)
  <2>1. \A d \in 0..n - 1 : d \in 0..n
    BY <1>1
  <2> QED BY <2>1, OperatorsAre DEF o
<1>4. InsertDist(t, k) = D
  <2> DEFINE C(d) == LET e == f[Ahead(t, o, d)]
                     IN \/ e = EMPTY \/ e = k
                        \/ SH_DISTANCE_FROM_OPTIMAL(t, e, Ahead(t, o, d)) < d
  <2>1. \A d \in 0..n - 1 : Ahead(t, o, d) = Fwd(n, o, d) /\ Fwd(n, o, d) \in 0..n - 1
    BY <1>1, <1>3, AheadIs
  <2>2. \A d \in 0..n - 1 : C(d) <=> Stops(n, f, k, d)
    BY <1>3, <2>1 DEF Stops, o
  <2>3. {d \in Buckets(t) : C(d)} = {d \in 0..n - 1 : Stops(n, f, k, d)}
    <3> HIDE DEF C
    <3> QED BY <1>3, <2>2
  <2>4. InsertDist(t, k) = Min({d \in Buckets(t) : C(d)})
    BY <1>3 DEF InsertDist
  <2> QED BY <2>3, <2>4 DEF D, InsertAt
<1>5. Ahead(t, SH_INITIAL_BUCKET(t, k), InsertDist(t, k)) = cur
  BY <1>1, <1>2, <1>3, <1>4
<1>6. m \in 0..n - 1 /\ f[Fwd(n, cur, m)] = EMPTY /\ \A d \in 0..m - 1 : f[Fwd(n, cur, d)] # EMPTY
  <2> HIDE DEF cur
  <2>1. T # {} /\ T \in SUBSET (0..n - 1) /\ n - 1 \in Nat
    BY <1>1, <1>2, SearchEnds
  <2>2. m \in T /\ m \in 0..n - 1 /\ \A d \in 0..m - 1 : d \notin T
    <3> HIDE DEF T
    <3> QED BY <2>1, FirstIs
  <2>3. \A d \in 0..m - 1 : d \in 0..n - 1
    BY <1>1, <2>2
  <2> HIDE DEF m
  <2> QED BY <2>2, <2>3
<1> HIDE DEF cur
<1>7. MoveDist(t, cur) = m
  <2>1. {d \in Buckets(t) : f[Ahead(t, cur, d)] = EMPTY} = T
    BY <1>2, <1>3
  <2> QED BY <2>1 DEF MoveDist
<1> HIDE DEF m, T
<1>8. /\ RobinTable(n, g) /\ Holds(n, g) = Holds(n, f) \cup {k}
      /\ Occupied(n, g) = Occupied(n, f) \cup {Fwd(n, cur, m)}
  <2>1. k \notin Holds(n, f)
    BY <1>3
  <2> QED BY <1>1, <1>6, <2>1, PushedTable DEF cur, o, D
<1>9. u = [t EXCEPT !.members = t.members + 1,
                    !.data = [b \in Buckets(t) |->
                      LET d == (n + b - cur) % n
                      IN CASE d = 0 -> k
                           [] d \in 1..m -> f[Ahead(t, cur, d - 1)]
                           [] OTHER -> f[b]]]
  BY <1>5, <1>7 DEF Placed
<1>10. u = [t EXCEPT !.members = t.members + 1, !.data = g]
  <2> SUFFICES [b \in Buckets(t) |->
                  LET d == (n + b - cur) % n
                  IN CASE d = 0 -> k
                       [] d \in 1..m -> f[Ahead(t, cur, d - 1)]
                       [] OTHER -> f[b]] = g
    BY <1>9
  <2> SUFFICES ASSUME NEW b \in 0..n - 1
               PROVE  (LET d == (n + b - cur) % n
                       IN CASE d = 0 -> k
                            [] d \in 1..m -> f[Ahead(t, cur, d - 1)]
                            [] OTHER -> f[b])
                      = LET d == Gap(n, cur, b)
                        IN IF d = 0 THEN k ELSE IF d \in 1..m THEN f[Fwd(n, cur, d - 1)] ELSE f[b]
    BY <1>3 DEF Pushed
  <2> DEFINE d == Gap(n, cur, b)
  <2>1. (n + b - cur) % n = d
    BY <1>2, <1>3
  <2>2. d \in 1..m => Ahead(t, cur, d - 1) = Fwd(n, cur, d - 1)
    <3> HIDE DEF d
    <3>1. d \in 1..m => d - 1 \in 0..n - 1
      BY <1>1, <1>6
    <3> QED BY <1>2, <1>3, <3>1
  <2>3. d = 0 => ~(d \in 1..m)
    BY <1>6
  <2> HIDE DEF d
  <2> QED BY <2>1, <2>2, <2>3 DEF d
<1>11. g \in Arrays
  BY <1>1, <1>8 DEF RobinTable, Arrays
<1> HIDE DEF g, u
<1>12. /\ u \in Tables /\ u.size = n /\ u.data = g /\ u.members = t.members + 1
       /\ u.grow_threshold = t.grow_threshold
  <2>1. t.members + 1 \in Nat
    BY <1>1
  <2>2. IsChanged(t, t.members + 1, g, u)
    BY <1>10 DEF IsChanged
  <2> QED BY <1>1, <1>11, <2>1, <2>2, ChangedIs
<1>13. Cardinality(Occupied(n, g)) = t.members + 1
  <2>1. IsFiniteSet(Occupied(n, f)) /\ Cardinality(Occupied(n, f)) = t.members
    BY <1>1, HoldsCount DEF Good
  <2>2. Fwd(n, cur, m) \notin Occupied(n, f)
    BY <1>6 DEF Occupied
  <2> QED BY <1>8, <2>1, <2>2, FS_AddElement
<1>14. t.members + 1 < n
  <2>1. t.grow_threshold = GrowThreshold(n)
    BY <1>1 DEF Good
  <2>2. GrowThreshold(n) \in Nat /\ GrowThreshold(n) < n
    BY <1>1, ThresholdIs
  <2> QED BY <1>1, <2>1, <2>2
<1>15. Good(u)
  BY <1>8, <1>12, <1>13, <1>14 DEF Good
<1>16. Contents(u) = Contents(t) \cup {k}
  BY <1>3, <1>8, <1>12, <1>15, OperatorsAre
<1> QED BY <1>12, <1>15, <1>16 DEF u

\* A deletion of the entry in bucket cur.
LEMMA RemovedIs ==
  ASSUME NEW t, Good(t), NEW cur \in 0..t.size - 1, t.data[cur] # EMPTY
  PROVE  /\ Good(Removed(t, cur)) /\ Removed(t, cur).size = t.size
         /\ Removed(t, cur).grow_threshold = t.grow_threshold
         /\ Contents(Removed(t, cur)) = Contents(t) \ {t.data[cur]}
         /\ \A e, x \in 0..t.size - 1 :
              t.data[e] = EMPTY /\ Gap(t.size, cur, x) >= Gap(t.size, cur, e) =>
                Removed(t, cur).data[x] = t.data[x]
<1> DEFINE n == t.size
           f == t.data
           T == {d \in 1..n : f[Fwd(n, cur, d)] = EMPTY \/ Far(n, f, Fwd(n, cur, d)) = 0}
           m == Min(T)
           g == Pulled(n, f, cur, m)
           u == Removed(t, cur)
<1>1. /\ n \in Nat /\ n >= 2 /\ RobinTable(n, f) /\ HasRoom(n, f) /\ cur \in 0..n - 1
      /\ t.members \in Nat /\ t \in Tables /\ t.members < n
  BY GoodIs DEF Good
<1>2. /\ \A k : SH_INITIAL_BUCKET(t, k) = Opt(n, k)
      /\ Buckets(t) = 0..n - 1 /\ Contents(t) = Holds(n, f)
      /\ \A b \in 0..n - 1, d \in 0..n : Ahead(t, b, d) = Fwd(n, b, d)
      /\ \A b \in 0..n - 1, a \in 0..n - 1 : (n + b - a) % n = Gap(n, a, b)
  BY OperatorsAre
<1>3. m \in 1..n - 1 /\ m \in T /\ \A d \in 1..m - 1 : d \notin T
  <2>1. PICK e \in 0..n - 1 : f[e] = EMPTY
    BY <1>1 DEF HasRoom
  <2>2. Gap(n, cur, e) \in 0..n - 1 /\ Fwd(n, cur, Gap(n, cur, e)) = e
    BY <1>1, GapIs
  <2>3. Gap(n, cur, e) # 0
    BY <1>1, <2>1, NextGap
  <2>4. Gap(n, cur, e) \in 1..n - 1
    BY <1>1, <2>2, <2>3
  <2>5. Gap(n, cur, e) \in 1..n
    BY <1>1, <2>4
  <2>6. Gap(n, cur, e) \in T
    BY <2>1, <2>2, <2>5
  <2>7. T \in SUBSET Nat
    OBVIOUS
  <2>8. m \in T /\ \A y \in T : m <= y
    <3> HIDE DEF T
    <3> QED BY <2>6, <2>7, Least
  <2>9. m \in 1..n /\ m <= Gap(n, cur, e)
    BY <2>6, <2>8
  <2>10. m \in 1..n - 1
    <3> HIDE DEF m
    <3> QED BY <1>1, <2>4, <2>9
  <2>11. \A d \in 1..m - 1 : ~(m <= d)
    <3> HIDE DEF m
    <3> QED BY <2>10
  <2> HIDE DEF m, T
  <2> QED BY <2>8, <2>10, <2>11
<1>a. ASSUME NEW e \in 0..n - 1, f[e] = EMPTY, NEW x \in 0..n - 1,
             Gap(n, cur, x) >= Gap(n, cur, e)
      PROVE  Gap(n, cur, x) > m - 1
  <2>1. Gap(n, cur, e) \in 0..n - 1 /\ Fwd(n, cur, Gap(n, cur, e)) = e /\ Gap(n, cur, x) \in 0..n - 1
    BY <1>1, GapIs
  <2>2. Gap(n, cur, e) # 0
    BY <1>1, <1>a, NextGap
  <2>3. Gap(n, cur, e) \in 1..n /\ ~(Gap(n, cur, e) \in 1..m - 1)
    <3>1. Gap(n, cur, e) \in 1..n
      BY <1>1, <2>1, <2>2
    <3>2. Gap(n, cur, e) \in T
      BY <1>a, <2>1, <3>1
    <3> HIDE DEF T, m
    <3> QED BY <1>3, <3>1, <3>2
  <2> HIDE DEF m, T
  <2> QED BY <1>1, <1>3, <1>a, <2>1, <2>3
<1>4. /\ f[Fwd(n, cur, m)] = EMPTY \/ Far(n, f, Fwd(n, cur, m)) = 0
      /\ \A d \in 1..m - 1 : f[Fwd(n, cur, d)] # EMPTY /\ Far(n, f, Fwd(n, cur, d)) # 0
  <2>1. \A d \in 1..m - 1 : d \in 1..n
    <3> HIDE DEF m
    <3> QED BY <1>1, <1>3
  <2>2. m \in T
    BY <1>3
  <2> HIDE DEF m
  <2> QED BY <1>3, <2>1, <2>2
<1>5. {d \in 1..n : LET b == Ahead(t, cur, d)
                    IN f[b] = EMPTY \/ SH_INITIAL_BUCKET(t, f[b]) = b} = T
  <2> SUFFICES ASSUME NEW d \in 1..n
               PROVE  f[Ahead(t, cur, d)] = EMPTY \/ SH_INITIAL_BUCKET(t, f[Ahead(t, cur, d)]) = Ahead(t, cur, d)
                      <=> f[Fwd(n, cur, d)] = EMPTY \/ Far(n, f, Fwd(n, cur, d)) = 0
    BY Zenon
  <2> DEFINE b == Fwd(n, cur, d)
  <2>1. d \in 0..n
    BY <1>1
  <2>2. Ahead(t, cur, d) = b
    BY <1>1, <1>2, <2>1
  <2>3. b \in 0..n - 1
    BY <1>1 DEF Fwd
  <2> HIDE DEF b
  <2>4. ASSUME f[b] # EMPTY PROVE Opt(n, f[b]) = b <=> Far(n, f, b) = 0
    <3>1. Opt(n, f[b]) \in 0..n - 1
      BY <1>1, <2>3, <2>4, FarIs
    <3> QED BY <1>1, <2>3, <3>1, NextGap DEF Far
  <2> QED BY <1>2, <2>2, <2>4 DEF b
<1> HIDE DEF m, T
<1>6. /\ RobinTable(n, g) /\ Holds(n, g) = Holds(n, f) \ {f[cur]}
      /\ Occupied(n, g) = Occupied(n, f) \ {Fwd(n, cur, m - 1)}
      /\ Fwd(n, cur, m - 1) \in Occupied(n, f)
  BY <1>1, <1>3, <1>4, PulledTable
<1>7. u = [t EXCEPT !.members = t.members - 1,
                    !.data = [b \in Buckets(t) |->
                      LET d == (n + b - cur) % n
                      IN CASE d < m - 1 -> f[Ahead(t, b, 1)]
                           [] d = m - 1 -> EMPTY
                           [] OTHER -> f[b]]]
  <2> DEFINE R(q) == [t EXCEPT !.members = t.members - 1,
                               !.data = [b \in Buckets(t) |->
                                 LET d == (n + b - cur) % n
                                 IN CASE d < q - 1 -> f[Ahead(t, b, 1)]
                                      [] d = q - 1 -> EMPTY
                                      [] OTHER -> f[b]]]
             A == {d \in 1..n : LET b == Ahead(t, cur, d)
                                IN f[b] = EMPTY \/ SH_INITIAL_BUCKET(t, f[b]) = b}
  <2>1. u = R(Min(A))
    BY DEF Removed
  <2>2. A = T
    BY <1>5
  <2>3. Min(A) = m
    <3> HIDE DEF A, T
    <3> QED BY <2>2 DEF m
  <2>4. u = R(m)
    <3> HIDE DEF R, A, u
    <3> QED BY <2>1, <2>3
  <2> QED BY <2>4
<1>8. u = [t EXCEPT !.members = t.members - 1, !.data = g]
  <2> SUFFICES [b \in Buckets(t) |->
                  LET d == (n + b - cur) % n
                  IN CASE d < m - 1 -> f[Ahead(t, b, 1)]
                       [] d = m - 1 -> EMPTY
                       [] OTHER -> f[b]] = g
    BY <1>7
  <2> SUFFICES ASSUME NEW b \in 0..n - 1
               PROVE  (LET d == (n + b - cur) % n
                       IN CASE d < m - 1 -> f[Ahead(t, b, 1)]
                            [] d = m - 1 -> EMPTY
                            [] OTHER -> f[b])
                      = LET d == Gap(n, cur, b)
                        IN IF d < m - 1 THEN f[Next1(n, b)] ELSE IF d = m - 1 THEN EMPTY ELSE f[b]
    BY <1>2 DEF Pulled
  <2> DEFINE d == Gap(n, cur, b)
  <2>1. (n + b - cur) % n = d
    BY <1>1, <1>2
  <2>2. Ahead(t, b, 1) = Next1(n, b)
    <3>1. 1 \in 0..n
      BY <1>1
    <3>2. Ahead(t, b, 1) = Fwd(n, b, 1)
      BY <1>1, <1>2, <3>1
    <3> QED BY <1>1, <3>2 DEF Fwd, Next1
  <2>3. d < m - 1 => d # m - 1
    <3>1. d \in 0..n - 1
      BY <1>1, GapIs
    <3> HIDE DEF d
    <3> QED BY <1>3, <3>1
  <2> HIDE DEF d
  <2> QED BY <2>1, <2>2, <2>3 DEF d
<1>9. g \in Arrays
  BY <1>1, <1>6 DEF RobinTable, Arrays
<1>10. IsFiniteSet(Occupied(n, f)) /\ Cardinality(Occupied(n, f)) = t.members
  BY <1>1, HoldsCount DEF Good
<1>11. t.members - 1 \in Nat /\ Cardinality(Occupied(n, g)) = t.members - 1
  <2>1. t.members # 0
    BY <1>6, <1>10, FS_EmptySet
  <2>2. Cardinality(Occupied(n, f) \ {Fwd(n, cur, m - 1)}) = Cardinality(Occupied(n, f)) - 1
    BY <1>6, <1>10, FS_RemoveElement
  <2> QED BY <1>1, <1>6, <1>10, <2>1, <2>2
<1> HIDE DEF g, u
<1>12. /\ u \in Tables /\ u.size = n /\ u.data = g /\ u.members = t.members - 1
       /\ u.grow_threshold = t.grow_threshold
  <2>1. IsChanged(t, t.members - 1, g, u)
    BY <1>8 DEF IsChanged
  <2> QED BY <1>1, <1>9, <1>11, <2>1, ChangedIs
<1>13. t.members - 1 < n
  BY <1>1
<1>14. Good(u)
  BY <1>6, <1>11, <1>12, <1>13 DEF Good
<1>15. Contents(u) = Contents(t) \ {f[cur]}
  BY <1>2, <1>6, <1>12, <1>14, OperatorsAre
<1>16. ASSUME NEW e \in 0..n - 1, NEW x \in 0..n - 1, f[e] = EMPTY, Gap(n, cur, x) >= Gap(n, cur, e)
       PROVE  u.data[x] = f[x]
  <2>1. Gap(n, cur, x) > m - 1
    BY <1>16, <1>a
  <2>2. IsPulled(n, f, cur, m, g)
    BY <1>1, <1>3, PulledIs DEF g
  <2> QED BY <1>12, <2>1, <2>2 DEF IsPulled
<1> QED BY <1>12, <1>14, <1>15, <1>16 DEF u

\* Removing all.
LEMMA ResetIs ==
  ASSUME NEW t, Good(t),
         NEW u, u = [t EXCEPT !.members = 0, !.data = [b \in Buckets(t) |-> EMPTY]]
  PROVE  Good(u) /\ u.size = t.size /\ u.grow_threshold = t.grow_threshold /\ Contents(u) = {}
<1> DEFINE n == t.size
           f == [b \in 0..n - 1 |-> EMPTY]
<1>1. n \in Nat /\ n >= 2 /\ n \in 2..MaxSize /\ IsPowerOfTwo(n) /\ t \in Tables
  BY GoodIs DEF Good, Tables
<1>2. /\ RobinTable(n, f) /\ Cardinality(Occupied(n, f)) = 0 /\ Holds(n, f) = {}
      /\ f \in Arrays
  <2>1. Good(NewTable(n)) /\ Holds(n, NewTable(n).data) = {}
    BY <1>1, NewTableIs
  <2>2. NewTable(n).size = n /\ NewTable(n).data = f /\ NewTable(n).members = 0
    BY DEF NewTable
  <2>3. f \in Arrays
    BY <1>1 DEF Arrays
  <2> HIDE DEF f
  <2> QED BY <2>1, <2>2, <2>3 DEF Good
<1>3. /\ u \in Tables /\ u.size = n /\ u.data = f /\ u.members = 0
      /\ u.grow_threshold = t.grow_threshold
  <2>1. Buckets(t) = 0..n - 1
    BY DEF Buckets
  <2> HIDE DEF f
  <2>2. u = [t EXCEPT !.members = 0, !.data = f]
    BY <2>1 DEF f
  <2>3. 0 \in Nat
    OBVIOUS
  <2>4. IsChanged(t, 0, f, u)
    BY <2>2 DEF IsChanged
  <2>5. t \in Tables /\ f \in Arrays
    BY <1>1, <1>2
  <2> QED BY ONLY <2>3, <2>4, <2>5, ChangedIs
<1> HIDE DEF f
<1>4. Good(u)
  BY <1>1, <1>2, <1>3 DEF Good
<1> QED BY <1>2, <1>3, <1>4, OperatorsAre

-----------------------------------------------------------------------------
(* The iteration. *)

\* The entries from bucket end on, up to the m-th after it.
Until(n, f, end, m) == {f[b] : b \in {x \in 0..n - 1 : Gap(n, end, x) \in 1..m}} \ {EMPTY}

\* How many buckets there are from cur back to the one after end.
Left(n, cur, end) == IF cur = end THEN n - 1 ELSE Gap(n, end, cur)

\* What an iteration knows: the entry returned last is behind the iterator, and a strict
\* one still has to return those before it.
IterInv ==
  LET n == tb.size
      f == tb.data
  IN /\ iter \in [cur : 0..n - 1, end : 0..n - 1, done : BOOLEAN]
     /\ phase \in {"none", "strict", "at", "loose"} /\ todo \subseteq Keys
     /\ last \in Keys \cup {"null"}
     /\ elem = {} \/ \E b \in 0..n - 1 :
          /\ elem = {b} /\ f[b] # EMPTY /\ phase # "none"
          /\ phase # "loose" => /\ last = f[b] /\ iter.cur = Bwd(n, b, 1)
                                /\ iter.done = (iter.cur = iter.end)
     /\ elem = {} => last = "null"
     /\ phase \in {"none", "loose"} => last = "null" /\ todo = {}
     /\ phase = "strict" =>
          /\ f[iter.end] = EMPTY
          /\ todo = IF iter.done THEN {} ELSE Until(n, f, iter.end, Left(n, iter.cur, iter.end))

TableInv == Good(tb)

\* Counting back from cur is counting down from the distance of cur to end.
LEMMA BackGap ==
  ASSUME NEW n \in Nat, n >= 2, NEW cur \in 0..n - 1, NEW end \in 0..n - 1,
         NEW x \in 0..n - 1, x # end,
         NEW r, r = IF cur = end THEN n - 1 ELSE Gap(n, end, cur) - 1
  PROVE  /\ Gap(n, x, cur) \in 0..n - 1 /\ Bwd(n, cur, Gap(n, x, cur)) = x
         /\ Gap(n, x, cur) <= r <=> Gap(n, end, x) <= Left(n, cur, end)
         /\ Gap(n, x, cur) <= r => Gap(n, end, x) = (IF cur = end THEN n ELSE Gap(n, end, cur)) - Gap(n, x, cur)
<1>1. CASE cur = end
  BY <1>1 DEF Gap, Bwd, Left
<1>2. CASE cur # end
  BY <1>2 DEF Gap, Bwd, Left
<1> QED BY <1>1, <1>2

LEMMA BwdIs ==
  ASSUME NEW n \in Nat, n >= 2, NEW cur \in 0..n - 1, NEW d \in 0..n - 1
  PROVE  Bwd(n, cur, d) \in 0..n - 1 /\ Gap(n, Bwd(n, cur, d), cur) = d
BY DEF Bwd, Gap

LEMMA BehindGap ==
  ASSUME NEW n \in Nat, n >= 2, NEW end \in 0..n - 1, NEW b \in 0..n - 1, NEW x \in 0..n - 1,
         Gap(n, end, x) >= 1, Gap(n, end, x) < Gap(n, end, b)
  PROVE  Gap(n, b, x) >= Gap(n, b, end)
BY DEF Gap

\* What a walk back from bucket cur to the one after bucket end meets first.
Walk(n, f, cur, end, r, R, m, b, prev) ==
  LET U == Until(n, f, end, Left(n, cur, end))
  IN /\ r \in 0..n - 1
     /\ R = {} /\ f[end] = EMPTY => U = {}
     /\ R # {} => m \in 0..r /\ b \in 0..n - 1 /\ f[b] # EMPTY /\ prev \in 0..n - 1
     /\ R # {} /\ f[end] = EMPTY =>
          /\ f[b] \in U
          /\ U \ {f[b]} = IF prev = end THEN {} ELSE Until(n, f, end, Left(n, prev, end))

LEMMA IterateIs ==
  ASSUME NEW n, NEW f, RobinTable(n, f), NEW cur \in 0..n - 1, NEW end \in 0..n - 1,
         NEW r, r = IF cur = end THEN n - 1 ELSE Gap(n, end, cur) - 1,
         NEW R, R = {d \in 0..r : f[Bwd(n, cur, d)] # EMPTY},
         NEW m, m = Min(R), NEW b, b = Bwd(n, cur, m), NEW prev, prev = Bwd(n, b, 1)
  PROVE  Walk(n, f, cur, end, r, R, m, b, prev)
<1> DEFINE U == Until(n, f, end, Left(n, cur, end))
           L == IF cur = end THEN n ELSE Gap(n, end, cur)
<1>1. n \in Nat /\ n >= 2 /\ \A x, y \in 0..n - 1 : f[x] = f[y] /\ f[x] # EMPTY => x = y
  BY DEF RobinTable
<1>2. Gap(n, end, cur) \in 0..n - 1 /\ (Gap(n, end, cur) = 0 <=> cur = end)
  BY <1>1, GapIs, NextGap
<1>3. r \in 0..n - 1
  BY <1>1, <1>2
<1>4. ASSUME NEW x \in 0..n - 1, x # end
      PROVE  /\ Gap(n, x, cur) \in 0..n - 1 /\ Bwd(n, cur, Gap(n, x, cur)) = x
             /\ Gap(n, x, cur) <= r <=> Gap(n, end, x) <= Left(n, cur, end)
             /\ Gap(n, x, cur) <= r => Gap(n, end, x) = L - Gap(n, x, cur)
             /\ Gap(n, end, x) \in 1..n - 1
  <2>1. Gap(n, end, x) \in 0..n - 1 /\ Gap(n, end, x) # 0
    BY <1>1, <1>4, GapIs, NextGap
  <2>2. Gap(n, end, x) \in 1..n - 1
    BY <1>1, <2>1
  <2> QED BY <1>1, <1>4, <2>2, BackGap
<1> HIDE DEF L
<1>5. ASSUME NEW x \in 0..n - 1, Gap(n, end, x) \in 1..Left(n, cur, end), f[x] # EMPTY
      PROVE  x # end /\ Gap(n, x, cur) \in R
  <2>1. x # end
    BY <1>1, <1>5, NextGap
  <2>2. Gap(n, x, cur) \in 0..r
    <3>1. Gap(n, end, x) <= Left(n, cur, end)
      BY <1>1, <1>2, <1>4, <1>5, <2>1 DEF Left
    <3> QED BY <1>3, <1>4, <2>1, <3>1
  <2> QED BY <1>4, <1>5, <2>1, <2>2
<1>6. R = {} => U = {}
  BY <1>5 DEF Until
<1>7. ASSUME R # {} PROVE /\ m \in 0..r /\ b \in 0..n - 1 /\ f[b] # EMPTY /\ prev \in 0..n - 1
                         /\ Gap(n, b, cur) = m /\ \A d \in R : m <= d
  <2>1. R \in SUBSET Nat
    BY <1>3
  <2>2. m \in R /\ \A d \in R : m <= d
    BY <1>7, <2>1, Least
  <2>3. m \in 0..r /\ f[b] # EMPTY
    BY <2>2
  <2>4. m \in 0..n - 1
    BY ONLY <1>1, <1>3, <2>3
  <2>5. b \in 0..n - 1 /\ Gap(n, b, cur) = m
    BY <1>1, <2>4, BwdIs
  <2>6. 1 \in 0..n - 1
    BY <1>1
  <2>7. prev \in 0..n - 1
    BY <1>1, <2>5, <2>6, BwdIs
  <2> QED BY <2>2, <2>3, <2>5, <2>7
<1>8. ASSUME R # {}, f[end] = EMPTY
      PROVE  /\ f[b] \in U
             /\ U \ {f[b]} = IF prev = end THEN {} ELSE Until(n, f, end, Left(n, prev, end))
  <2> DEFINE G == Gap(n, end, b)
             V == Until(n, f, end, G - 1)
  <2>1. b \in 0..n - 1 /\ f[b] # EMPTY /\ b # end /\ m \in 0..r
    BY <1>7, <1>8
  <2>2. G \in 1..n - 1 /\ G = L - m /\ G <= Left(n, cur, end) /\ m <= r /\ m \in Int
    BY <1>3, <1>4, <1>7, <1>8, <2>1
  <2>3. L \in Int /\ Left(n, cur, end) \in 0..n - 1
    BY <1>1, <1>2 DEF L, Left
  <2>4. f[b] \in U
    <3>1. G \in 1..Left(n, cur, end)
      BY <2>2, <2>3
    <3> QED BY <2>1, <3>1 DEF Until
  <2>5. ASSUME NEW y \in U, y # f[b] PROVE y \in V
    <3>1. PICK x \in 0..n - 1 : y = f[x] /\ f[x] # EMPTY /\ Gap(n, end, x) \in 1..Left(n, cur, end)
      BY <2>5 DEF Until
    <3>2. x # end /\ Gap(n, x, cur) \in R /\ x # b
      BY <1>5, <2>5, <3>1
    <3>3. Gap(n, x, cur) >= m /\ Gap(n, x, cur) <= r /\ Gap(n, x, cur) \in Int
      BY <1>3, <1>7, <1>8, <3>2, <2>2
    <3>4. Gap(n, end, x) = L - Gap(n, x, cur) /\ Gap(n, end, x) \in 1..n - 1
      BY <1>4, <3>2, <3>3
    <3>5. Gap(n, x, cur) # m
      <4>1. Bwd(n, cur, Gap(n, x, cur)) = x
        BY <1>4, <3>2
      <4> QED BY <3>2, <4>1
    <3>6. Gap(n, end, x) \in 1..G - 1
      <4> HIDE DEF G
      <4> QED BY <2>2, <2>3, <3>3, <3>4, <3>5
    <3> HIDE DEF G
    <3> QED BY <3>1, <3>6 DEF Until
  <2>6. ASSUME NEW y \in V PROVE y \in U /\ y # f[b]
    <3>1. PICK x \in 0..n - 1 : y = f[x] /\ f[x] # EMPTY /\ Gap(n, end, x) \in 1..G - 1
      <4> HIDE DEF G
      <4> QED BY <2>6 DEF Until
    <3>2. Gap(n, end, x) \in 1..Left(n, cur, end) /\ Gap(n, end, x) # G
      <4> HIDE DEF G
      <4> QED BY <2>2, <2>3, <3>1
    <3>3. x # b
      BY <3>2
    <3> QED BY <1>1, <2>1, <3>1, <3>2, <3>3 DEF Until
  <2>7. U \ {f[b]} = V
    <3> HIDE DEF U, V
    <3> QED BY <2>5, <2>6
  <2>8. Gap(n, end, prev) = G - 1
    BY <1>1, <2>1, <2>2, NextOnce
  <2>9. prev = end => V = {}
    <3> SUFFICES ASSUME prev = end PROVE V = {}
      OBVIOUS
    <3>1. G - 1 = 0
      BY <1>1, <1>7, <1>8, <2>2, <2>8, NextGap
    <3>2. \A x : ~(x \in 1..0)
      OBVIOUS
    <3> QED BY <3>1, <3>2 DEF Until
  <2>10. prev # end => V = Until(n, f, end, Left(n, prev, end))
    BY <2>8 DEF Left
  <2> HIDE DEF U, V
  <2> QED BY <2>4, <2>7, <2>9, <2>10
<1> QED BY <1>3, <1>6, <1>7, <1>8 DEF Walk

-----------------------------------------------------------------------------
(* The steps. *)

\* What the lemmas on the calls say of a step.
BoundedGrowth ==
  /\ tb'.size > tb.size => tb'.size <= 20 * tb.members
  /\ tb'.grow_threshold = 0 /\ tb.grow_threshold # 0 => tb'.size <= 10 * tb.members

Kept == TableInv' /\ IterInv' /\ HashSetSpec!Next /\ BoundedGrowth

\* A step that leaves size and threshold alone does not grow the table.
LEMMA NoGrowth ==
  ASSUME TableInv, tb'.size = tb.size, tb'.grow_threshold = tb.grow_threshold
  PROVE  BoundedGrowth
<1>1. tb.size \in Nat
  BY GoodIs DEF TableInv
<1> QED BY <1>1 DEF BoundedGrowth

\* A table has one size.
LEMMA SameSize ==
  ASSUME NEW t, Good(t), NEW u, Good(u), t.data = u.data
  PROVE  t.size = u.size
<1> DEFINE n == t.size
           m == u.size
<1>1. /\ n \in Nat /\ n >= 2 /\ m \in Nat /\ m >= 2
      /\ t.data \in [0..n - 1 -> Keys \cup {EMPTY}] /\ u.data \in [0..m - 1 -> Keys \cup {EMPTY}]
  BY GoodIs
<1>2. 0..n - 1 = 0..m - 1
  BY <1>1
<1> HIDE DEF n, m
<1>3. n - 1 \in 0..n - 1 /\ m - 1 \in 0..m - 1
  BY <1>1
<1>4. n - 1 \in 0..m - 1 /\ m - 1 \in 0..n - 1
  BY <1>2, <1>3
<1>5. n = m
  BY <1>1, <1>4
<1> QED BY <1>5 DEF n, m

\* An iteration without guarantees keeps its place.
LEMMA LooseInv ==
  ASSUME TableInv, IterInv, TableInv', tb'.size >= tb.size, iter' = iter, Loosen
  PROVE  IterInv' /\ HashSetSpec!Loosen
<1>1. tb.size \in Nat /\ tb'.size \in Nat
  BY GoodIs DEF TableInv
<1>2. 0..tb.size - 1 \subseteq 0..tb'.size - 1
  BY <1>1
<1>3. iter' \in [cur : 0..tb'.size - 1, end : 0..tb'.size - 1, done : BOOLEAN]
  BY <1>2 DEF IterInv
<1>4. phase' \in {"none", "loose"} /\ todo' = {} /\ last' = "null" /\ elem' = {}
  BY DEF Loosen
<1>5. IterInv'
  BY <1>3, <1>4 DEF IterInv
<1>6. phase \in {"none", "strict", "at", "loose"}
  BY DEF IterInv
<1>7. HashSetSpec!Loosen
  BY <1>6 DEF Loosen, HashSetSpec!Loosen
<1> QED BY <1>5, <1>7

\* Nothing but what is returned changes.
LEMMA SameInv ==
  ASSUME TableInv, IterInv, tb' = tb, UNCHANGED <<iter, elem, phase, todo, last>>
  PROVE  TableInv' /\ IterInv' /\ BoundedGrowth
<1>1. TableInv' /\ IterInv'
  BY DEF TableInv, IterInv
<1>2. BoundedGrowth
  BY NoGrowth
<1> QED BY <1>1, <1>2

LEMMA LastIs ==
  ASSUME TableInv, IterInv, last # "null"
  PROVE  /\ last \in Contents(tb) /\ phase \in {"strict", "at"}
         /\ \E b \in 0..tb.size - 1 : elem = {b} /\ tb.data[b] = last /\ tb.data[b] # EMPTY
<1>1. PICK b \in 0..tb.size - 1 : /\ elem = {b} /\ tb.data[b] # EMPTY
                                  /\ phase # "loose" => last = tb.data[b]
  BY DEF IterInv
<1>2. phase \in {"strict", "at"}
  BY DEF IterInv
<1>3. tb.data[b] = last
  BY <1>1, <1>2
<1>4. Contents(tb) = Holds(tb.size, tb.data)
  BY OperatorsAre DEF TableInv
<1> QED BY <1>1, <1>2, <1>3, <1>4 DEF Holds

LEMMA InsertStep ==
  ASSUME TableInv, IterInv, NEW k \in Keys, SH_INSERT(k)
  PROVE  Kept
<1> DEFINE p == Prepared(tb, k)
<1>1. /\ p.ok \in BOOLEAN /\ Good(p.t) /\ p.t.members = tb.members
      /\ Holds(p.t.size, p.t.data) = Holds(tb.size, tb.data)
      /\ p.t.size >= tb.size
      /\ p.ok => p.t.members < p.t.grow_threshold
      /\ p.t.size > tb.size => p.t.size <= 20 * p.t.members
      /\ p.t.grow_threshold = 0 => tb.grow_threshold = 0 \/ p.t.size <= 10 * p.t.members
  BY PreparedIs DEF TableInv
<1>2. /\ CASE ~p.ok -> /\ tb' = p.t
                       /\ ret' = "error"
            [] p.ok /\ k \in Contents(p.t) -> tb' = p.t /\ ret' = "yes"
            [] p.ok /\ k \notin Contents(p.t) -> tb' = Placed(p.t, k) /\ ret' = "no"
      /\ IF tb'.data = tb.data /\ p.ok THEN UNCHANGED <<elem, phase, todo, last>> ELSE Loosen
      /\ iter' = iter
  BY DEF SH_INSERT
<1> HIDE DEF p
<1>3. Contents(p.t) = Contents(tb)
  BY <1>1, OperatorsAre DEF TableInv
<1>4. tb.size \in Nat /\ tb.size >= 2 /\ p.t.size \in Nat /\ tb.members \in Nat
  BY <1>1, GoodIs DEF TableInv
<1>5. CASE ~p.ok
  <2>1. tb' = p.t /\ ret' = "error" /\ Loosen
    BY <1>2, <1>5
  <2>2. TableInv' /\ IterInv' /\ HashSetSpec!Loosen
    BY <1>1, <1>2, <2>1, LooseInv DEF TableInv
  <2>3. Contents(tb)' = Contents(tb)
    BY <1>3, <2>1
  <2>4. HashSetSpec!Next
    BY <2>1, <2>2, <2>3 DEF HashSetSpec!Next, HashSetSpec!Insert
  <2>5. BoundedGrowth
    BY <1>1, <2>1 DEF BoundedGrowth
  <2> QED BY <2>2, <2>4, <2>5 DEF Kept
<1>6. CASE p.ok /\ k \in Contents(p.t)
  <2>1. tb' = p.t /\ ret' = "yes"
    BY <1>2, <1>6
  <2>2. TableInv' /\ BoundedGrowth
    BY <1>1, <2>1 DEF BoundedGrowth, TableInv
  <2>3. Contents(tb)' = Contents(tb) /\ k \in Contents(tb)
    BY <1>3, <1>6, <2>1
  <2>4. CASE tb'.data = tb.data
    <3>1. UNCHANGED <<iter, elem, phase, todo, last>>
      BY <1>2, <1>6, <2>4
    <3>2. tb'.size = tb.size
      BY <2>2, <2>4, SameSize DEF TableInv
    <3>3. IterInv'
      BY <2>4, <3>1, <3>2 DEF IterInv
    <3>4. HashSetSpec!Next
      BY <2>1, <2>3, <3>1 DEF HashSetSpec!Next, HashSetSpec!Insert
    <3> QED BY <2>2, <3>3, <3>4 DEF Kept
  <2>5. CASE tb'.data # tb.data
    <3>1. Loosen
      BY <1>2, <2>5
    <3>2. IterInv' /\ HashSetSpec!Loosen
      BY <1>1, <1>2, <2>1, <2>2, <3>1, LooseInv
    <3>3. HashSetSpec!Next
      BY <2>1, <2>3, <3>2 DEF HashSetSpec!Next, HashSetSpec!InsertMoves
    <3> QED BY <2>2, <3>2, <3>3 DEF Kept
  <2> QED BY <2>4, <2>5
<1>7. CASE p.ok /\ k \notin Contents(p.t)
  <2>1. tb' = Placed(p.t, k) /\ ret' = "no"
    BY <1>2, <1>7
  <2>2. /\ Good(tb') /\ tb'.size = p.t.size /\ tb'.grow_threshold = p.t.grow_threshold
        /\ Contents(tb') = Contents(tb) \cup {k}
    BY <1>1, <1>3, <1>7, <2>1, PlacedIs
  <2>3. tb'.data # tb.data
    <3> SUFFICES ASSUME tb'.data = tb.data PROVE FALSE
      OBVIOUS
    <3>1. tb'.size = tb.size
      BY <2>2, SameSize DEF TableInv
    <3>2. Contents(tb') = Contents(tb)
      BY <2>2, <3>1, OperatorsAre DEF TableInv
    <3> QED BY <1>3, <1>7, <2>2, <3>2
  <2>4. Loosen
    BY <1>2, <2>3
  <2>5. TableInv' /\ IterInv' /\ HashSetSpec!Loosen
    BY <1>1, <1>2, <2>2, <2>4, LooseInv DEF TableInv
  <2>6. Contents(tb)' = Contents(tb) \cup {k} /\ k \notin Contents(tb)
    BY <1>3, <1>7, <2>2
  <2>7. HashSetSpec!Next
    BY <2>1, <2>5, <2>6 DEF HashSetSpec!Next, HashSetSpec!Insert
  <2>8. BoundedGrowth
    BY <1>1, <2>2 DEF BoundedGrowth
  <2> QED BY <2>5, <2>7, <2>8 DEF Kept
<1> QED BY <1>1, <1>5, <1>6, <1>7

LEMMA LookupStep ==
  ASSUME TableInv, IterInv, NEW k \in Keys, SH_LOOKUP(k)
  PROVE  Kept
<1>1. tb.data[Find(tb, k)] = k <=> k \in Contents(tb)
  BY FindIs DEF TableInv
<1>2. tb' = tb /\ UNCHANGED <<iter, elem, phase, todo, last>>
  BY DEF SH_LOOKUP
<1>3. TableInv' /\ IterInv' /\ BoundedGrowth
  BY <1>2, SameInv
<1>4. HashSetSpec!Lookup(k)
  BY <1>1, <1>2 DEF SH_LOOKUP, HashSetSpec!Lookup, HashSetSpec!YesNo
<1> QED BY <1>3, <1>4 DEF Kept, HashSetSpec!Next

\* The entry returned last is removed.
LEMMA RemoveElem ==
  ASSUME TableInv, IterInv, NEW b \in 0..tb.size - 1, elem = {b},
         tb' = Removed(tb, b), UNCHANGED <<iter, phase, todo>>, last' = "null", elem' = {}
  PROVE  /\ TableInv' /\ IterInv' /\ BoundedGrowth
         /\ Contents(tb)' = Contents(tb) \ {tb.data[b]} /\ tb.data[b] \in Contents(tb)
         /\ tb.data[b] \in Keys
<1> DEFINE n == tb.size
           f == tb.data
           g == tb'.data
           end == iter.end
<1>1. /\ n \in Nat /\ n >= 2 /\ RobinTable(n, f) /\ iter.cur \in 0..n - 1 /\ end \in 0..n - 1
      /\ iter.done \in BOOLEAN
  BY GoodIs DEF TableInv, IterInv
<1>2. /\ f[b] # EMPTY /\ phase # "none"
      /\ phase # "loose" => /\ last = f[b] /\ iter.cur = Bwd(n, b, 1)
                            /\ iter.done = (iter.cur = iter.end)
  BY DEF IterInv
<1>3. /\ Good(tb') /\ tb'.size = n /\ tb'.grow_threshold = tb.grow_threshold
      /\ Contents(tb') = Contents(tb) \ {f[b]}
      /\ \A e, x \in 0..n - 1 : f[e] = EMPTY /\ Gap(n, b, x) >= Gap(n, b, e) => g[x] = f[x]
  BY <1>2, RemovedIs DEF TableInv
<1>4. f[b] \in Contents(tb) /\ f[b] \in Keys
  <2>1. Contents(tb) = Holds(n, f)
    BY OperatorsAre DEF TableInv
  <2> QED BY <1>1, <1>2, <2>1, FarIs DEF Holds
<1> HIDE DEF n, f, g, end
<1>5. ASSUME phase = "strict"
      PROVE  /\ g[end] = EMPTY
             /\ todo = IF iter.done THEN {} ELSE Until(n, g, end, Left(n, iter.cur, end))
  <2>1. f[end] = EMPTY /\ todo = IF iter.done THEN {} ELSE Until(n, f, end, Left(n, iter.cur, end))
    BY <1>5 DEF IterInv, n, f, end
  <2>2. Gap(n, b, end) \in 0..n - 1
    BY <1>1, GapIs DEF n
  <2>3. g[end] = EMPTY
    <3>1. Gap(n, b, end) >= Gap(n, b, end)
      BY <2>2
    <3> QED BY <1>1, <1>3, <2>1, <3>1
  <2>4. ASSUME ~iter.done PROVE Until(n, f, end, Left(n, iter.cur, end)) = Until(n, g, end, Left(n, iter.cur, end))
    <3>1. iter.cur = Bwd(n, b, 1) /\ iter.cur # end
      BY <1>2, <1>5, <2>4 DEF end
    <3>2. b # end
      BY <1>2, <2>1
    <3>3. Gap(n, end, b) \in 0..n - 1 /\ Gap(n, end, b) # 0
      BY <1>1, <3>2, GapIs, NextGap DEF n
    <3>4. Gap(n, end, iter.cur) = Gap(n, end, b) - 1
      BY <1>1, <3>1, <3>3, NextOnce DEF n
    <3>5. Left(n, iter.cur, end) = Gap(n, end, b) - 1
      BY <3>1, <3>4 DEF Left
    <3>6. \A x \in 0..n - 1 : Gap(n, end, x) \in 1..Gap(n, end, b) - 1 => g[x] = f[x]
      <4> SUFFICES ASSUME NEW x \in 0..n - 1, Gap(n, end, x) \in 1..Gap(n, end, b) - 1
                   PROVE  g[x] = f[x]
        OBVIOUS
      <4>1. Gap(n, end, x) >= 1 /\ Gap(n, end, x) < Gap(n, end, b)
        BY <3>3
      <4>2. Gap(n, b, x) >= Gap(n, b, end)
        BY <1>1, <4>1, BehindGap DEF n
      <4> QED BY <1>1, <1>3, <2>1, <4>2
    <3> QED BY <3>5, <3>6 DEF Until
  <2> QED BY <2>1, <2>3, <2>4
<1>6. TableInv'
  BY <1>3 DEF TableInv
<1>7. IterInv'
  <2>1. /\ iter' \in [cur : 0..n - 1, end : 0..n - 1, done : BOOLEAN]
        /\ phase' \in {"none", "strict", "at", "loose"} /\ todo' \subseteq Keys
    BY DEF IterInv, n
  <2>2. phase' \in {"none", "loose"} => last' = "null" /\ todo' = {}
    BY DEF IterInv
  <2>3. phase' = "strict" =>
          /\ g[iter'.end] = EMPTY
          /\ todo' = IF iter'.done THEN {} ELSE Until(n, g, iter'.end, Left(n, iter'.cur, iter'.end))
    BY <1>5 DEF end
  <2>4. last' = "null" /\ elem' = {}
    OBVIOUS
  <2>5. tb'.size = n /\ tb'.data = g
    BY <1>3 DEF g
  <2> QED BY <2>1, <2>2, <2>3, <2>4, <2>5 DEF IterInv
<1>8. BoundedGrowth
  BY <1>3, NoGrowth DEF n
<1> QED BY <1>3, <1>4, <1>6, <1>7, <1>8 DEF f

LEMMA DeleteStep ==
  ASSUME TableInv, IterInv, NEW k \in Keys, SH_DELETE(k)
  PROVE  Kept
<1> DEFINE c == Find(tb, k)
<1>1. c \in 0..tb.size - 1 /\ (tb.data[c] = k <=> k \in Contents(tb)) /\ k # EMPTY /\ k # "null"
  BY FindIs, SimpleHashAssumption DEF TableInv
<1>2. /\ IF tb.data[c] = k
           THEN /\ ret' = "yes"
                /\ tb' = Removed(tb, c)
                /\ IF k = last
                     THEN last' = "null" /\ elem' = {} /\ UNCHANGED <<phase, todo>>
                     ELSE Loosen
           ELSE ret' = "no" /\ UNCHANGED <<tb, elem, phase, todo, last>>
      /\ UNCHANGED iter
  BY DEF SH_DELETE
<1> HIDE DEF c
<1>3. phase \in {"none", "strict", "at", "loose"}
  BY DEF IterInv
<1>4. CASE tb.data[c] # k
  <2>1. ret' = "no" /\ UNCHANGED <<tb, iter, elem, phase, todo, last>> /\ k \notin Contents(tb)
    BY <1>1, <1>2, <1>4
  <2>2. TableInv' /\ IterInv' /\ BoundedGrowth
    BY <2>1, SameInv
  <2>3. k # last
    BY <1>1, <2>1, LastIs
  <2>4. HashSetSpec!Delete(k)
    BY <1>1, <2>1, <2>3 DEF HashSetSpec!Delete, HashSetSpec!YesNo
  <2> QED BY <2>2, <2>4 DEF Kept, HashSetSpec!Next
<1>5. CASE tb.data[c] = k /\ k = last
  <2>1. PICK b \in 0..tb.size - 1 : elem = {b} /\ tb.data[b] = last /\ tb.data[b] # EMPTY
    BY <1>1, <1>5, LastIs
  <2>2. b = c
    <3>1. RobinTable(tb.size, tb.data)
      BY GoodIs DEF TableInv
    <3> QED BY <1>1, <1>5, <2>1, <3>1 DEF RobinTable
  <2>3. /\ ret' = "yes" /\ tb' = Removed(tb, b) /\ UNCHANGED <<iter, phase, todo>>
        /\ last' = "null" /\ elem' = {}
    BY <1>2, <1>5, <2>2
  <2>4. /\ TableInv' /\ IterInv' /\ BoundedGrowth
        /\ Contents(tb)' = Contents(tb) \ {k} /\ k \in Contents(tb)
    BY <1>5, <2>1, <2>3, RemoveElem
  <2>5. phase \in {"strict", "at"}
    BY <1>1, <1>5, LastIs
  <2>6. HashSetSpec!Delete(k)
    <3>1. CASE phase = "strict"
      BY <1>1, <1>5, <2>3, <2>4, <3>1 DEF HashSetSpec!Delete, HashSetSpec!YesNo
    <3>2. CASE phase = "at"
      BY <1>1, <2>3, <2>4, <3>2 DEF HashSetSpec!Delete, HashSetSpec!YesNo, HashSetSpec!Loosen
    <3> QED BY <2>5, <3>1, <3>2
  <2> QED BY <2>4, <2>6 DEF Kept, HashSetSpec!Next
<1>6. CASE tb.data[c] = k /\ k # last
  <2>1. ret' = "yes" /\ tb' = Removed(tb, c) /\ Loosen /\ iter' = iter
    BY <1>2, <1>6
  <2>2. /\ Good(tb') /\ tb'.size = tb.size /\ tb'.grow_threshold = tb.grow_threshold
        /\ Contents(tb') = Contents(tb) \ {k}
    BY <1>1, <1>6, <2>1, RemovedIs DEF TableInv
  <2>3. tb'.size >= tb.size
    <3>1. tb.size \in Nat
      BY GoodIs DEF TableInv
    <3> QED BY <2>2, <3>1
  <2>4. TableInv' /\ IterInv' /\ HashSetSpec!Loosen /\ BoundedGrowth
    BY <2>1, <2>2, <2>3, LooseInv, NoGrowth DEF TableInv
  <2>5. HashSetSpec!Delete(k)
    <3>1. (IF phase = "at" THEN "null" ELSE last) # k
      BY <1>1, <1>6
    <3>2. Contents(tb)' = Contents(tb) \ {k} /\ k \in Contents(tb)
      BY <1>1, <1>6, <2>2
    <3> QED BY <2>1, <2>4, <3>1, <3>2 DEF HashSetSpec!Delete, HashSetSpec!YesNo
  <2> QED BY <2>4, <2>5 DEF Kept, HashSetSpec!Next
<1> QED BY <1>4, <1>5, <1>6

LEMMA DeleteItemStep ==
  ASSUME TableInv, IterInv, SH_DELETE_ITEM
  PROVE  Kept
<1>1. PICK b \in 0..tb.size - 1 : /\ elem = {b} /\ phase # "none"
                                  /\ phase # "loose" => last = tb.data[b]
  BY DEF IterInv, SH_DELETE_ITEM
<1>2. /\ ret' = "yes" /\ tb' = Removed(tb, b) /\ UNCHANGED <<iter, phase, todo>>
      /\ last' = "null" /\ elem' = {}
  BY <1>1 DEF SH_DELETE_ITEM
<1> DEFINE k == tb.data[b]
<1>3. /\ TableInv' /\ IterInv' /\ BoundedGrowth
      /\ Contents(tb)' = Contents(tb) \ {k} /\ k \in Contents(tb) /\ k \in Keys
  BY <1>1, <1>2, RemoveElem
<1>4. k # "null"
  BY <1>3, SimpleHashAssumption
<1>5. phase \in {"strict", "at", "loose"} /\ (phase = "loose" => last = "null" /\ todo = {})
  BY <1>1 DEF IterInv
<1> HIDE DEF k
<1>6. HashSetSpec!Delete(k)
  <2>1. CASE phase = "strict"
    BY <1>1, <1>2, <1>3, <2>1 DEF HashSetSpec!Delete, HashSetSpec!YesNo, k
  <2>2. CASE phase = "at"
    BY <1>2, <1>3, <1>4, <2>2 DEF HashSetSpec!Delete, HashSetSpec!YesNo, HashSetSpec!Loosen
  <2>3. CASE phase = "loose"
    BY <1>2, <1>3, <1>4, <1>5, <2>3 DEF HashSetSpec!Delete, HashSetSpec!YesNo, HashSetSpec!Loosen
  <2> QED BY <1>5, <2>1, <2>2, <2>3
<1> QED BY <1>3, <1>6 DEF Kept, HashSetSpec!Next

LEMMA ResetStep ==
  ASSUME TableInv, IterInv, SH_RESET
  PROVE  Kept
<1>1. /\ tb' = [tb EXCEPT !.members = 0, !.data = [b \in Buckets(tb) |-> EMPTY]]
      /\ ret' = "null" /\ Loosen /\ iter' = iter
  BY DEF SH_RESET
<1>2. /\ Good(tb') /\ tb'.size = tb.size /\ tb'.grow_threshold = tb.grow_threshold
      /\ Contents(tb') = {}
  BY <1>1, ResetIs DEF TableInv
<1>3. tb'.size >= tb.size
  <2>1. tb.size \in Nat
    BY GoodIs DEF TableInv
  <2> QED BY <1>2, <2>1
<1>4. TableInv' /\ IterInv' /\ HashSetSpec!Loosen /\ BoundedGrowth
  BY <1>1, <1>2, <1>3, LooseInv, NoGrowth DEF TableInv
<1>5. HashSetSpec!Reset
  BY <1>1, <1>2, <1>4 DEF HashSetSpec!Reset
<1> QED BY <1>4, <1>5 DEF Kept, HashSetSpec!Next

\* An iteration that has just started at an empty bucket has every entry before it.
LEMMA AllUntil ==
  ASSUME NEW n, NEW f, RobinTable(n, f), NEW end \in 0..n - 1, f[end] = EMPTY
  PROVE  Holds(n, f) = Until(n, f, end, n - 1)
<1>1. n \in Nat /\ n >= 2
  BY DEF RobinTable
<1>2. \A x \in 0..n - 1 : f[x] # EMPTY => Gap(n, end, x) \in 1..n - 1
  <2> SUFFICES ASSUME NEW x \in 0..n - 1, f[x] # EMPTY PROVE Gap(n, end, x) \in 1..n - 1
    OBVIOUS
  <2>1. x # end
    OBVIOUS
  <2>2. Gap(n, end, x) \in 0..n - 1 /\ Gap(n, end, x) # 0
    BY <1>1, <2>1, GapIs, NextGap
  <2> QED BY <1>1, <2>2
<1> QED BY <1>2 DEF Holds, Until

LEMMA Started ==
  ASSUME TableInv, IterInv, NEW b \in 0..tb.size - 1, NEW g,
         g = "at" \/ (g = "strict" /\ tb.data[b] = EMPTY), Iterating(b, g)
  PROVE  TableInv' /\ IterInv' /\ BoundedGrowth
<1>1. /\ iter' = [cur |-> b, end |-> b, done |-> FALSE] /\ tb' = tb
      /\ ret' = "null" /\ elem' = {} /\ phase' = g /\ todo' = Contents(tb) /\ last' = "null"
  BY DEF Iterating
<1>2. tb.size \in Nat /\ tb.size >= 2 /\ RobinTable(tb.size, tb.data)
      /\ Contents(tb) = Holds(tb.size, tb.data)
  BY GoodIs, OperatorsAre DEF TableInv
<1>3. TableInv' /\ BoundedGrowth
  BY <1>1, NoGrowth DEF TableInv
<1>4. /\ iter' \in [cur : 0..tb.size - 1, end : 0..tb.size - 1, done : BOOLEAN]
      /\ iter'.cur = b /\ iter'.end = b /\ iter'.done = FALSE
  BY <1>1
<1>5. todo' \subseteq Keys
  BY <1>1, <1>2 DEF Holds, RobinTable
<1>6. ASSUME g = "strict" PROVE todo' = Until(tb.size, tb.data, b, Left(tb.size, b, b))
  <2>1. Left(tb.size, b, b) = tb.size - 1
    BY DEF Left
  <2> QED BY <1>1, <1>2, <1>6, <2>1, AllUntil
<1>7. IterInv'
  BY <1>1, <1>4, <1>5, <1>6 DEF IterInv
<1> QED BY <1>3, <1>7

LEMMA StartStep ==
  ASSUME TableInv, IterInv, SH_START_ITERATE
  PROVE  Kept
<1> DEFINE T == {b \in 0..tb.size - 1 : tb.data[b] = EMPTY}
<1>1. tb.size \in Nat /\ tb.size >= 2 /\ HasRoom(tb.size, tb.data) /\ Buckets(tb) = 0..tb.size - 1
  BY GoodIs, OperatorsAre DEF TableInv
<1>2. T \in SUBSET Nat /\ T # {}
  BY <1>1 DEF HasRoom
<1>3. Min(T) \in T
  BY <1>2, Least
<1>4. PICK b \in 0..tb.size - 1 : b = Min(T) /\ tb.data[b] = EMPTY
  BY <1>3
<1>5. Iterating(b, "strict")
  BY <1>1, <1>4 DEF SH_START_ITERATE
<1>6. TableInv' /\ IterInv' /\ BoundedGrowth
  BY <1>4, <1>5, Started
<1>7. HashSetSpec!Start
  BY <1>5 DEF Iterating, HashSetSpec!Start
<1> QED BY <1>6, <1>7 DEF Kept, HashSetSpec!Next

LEMMA StartAtStep ==
  ASSUME TableInv, IterInv, NEW at \in Ats, SH_START_ITERATE_AT(at)
  PROVE  Kept
<1>1. tb.size \in Nat /\ tb.size >= 1 /\ at \in Int
  BY GoodIs, SimpleHashAssumption DEF TableInv
<1>2. at % tb.size \in 0..tb.size - 1
  BY <1>1, DivMod
<1>3. PICK b \in 0..tb.size - 1 : b = at % tb.size
  BY <1>2
<1>4. Iterating(b, IF tb.data[b] = EMPTY THEN "strict" ELSE "at")
  BY <1>3 DEF SH_START_ITERATE_AT
<1>5. CASE tb.data[b] = EMPTY
  <2>1. Iterating(b, "strict")
    BY <1>4, <1>5
  <2>2. TableInv' /\ IterInv' /\ BoundedGrowth
    BY <1>5, <2>1, Started
  <2>3. HashSetSpec!Start
    BY <2>1 DEF Iterating, HashSetSpec!Start
  <2> QED BY <2>2, <2>3 DEF Kept, HashSetSpec!Next
<1>6. CASE tb.data[b] # EMPTY
  <2>1. Iterating(b, "at")
    BY <1>4, <1>6
  <2>2. TableInv' /\ IterInv' /\ BoundedGrowth
    BY <2>1, Started
  <2>3. HashSetSpec!StartAnywhere
    BY <2>1 DEF Iterating, HashSetSpec!StartAnywhere
  <2> QED BY <2>2, <2>3 DEF Kept, HashSetSpec!Next
<1> QED BY <1>5, <1>6

\* The buckets that an iteration has left.
LEMMA RemainingIs ==
  ASSUME TableInv, IterInv
  PROVE  LET r == IF iter.cur = iter.end THEN tb.size - 1
                  ELSE Gap(tb.size, iter.end, iter.cur) - 1
         IN /\ r \in 0..tb.size - 1
            /\ Remaining = {d \in 0..r : tb.data[Bwd(tb.size, iter.cur, d)] # EMPTY}
<1> DEFINE n == tb.size
           cur == iter.cur
           end == iter.end
           r == IF cur = end THEN n - 1 ELSE Gap(n, end, cur) - 1
<1>1. n \in Nat /\ n >= 2 /\ cur \in 0..n - 1 /\ end \in 0..n - 1
  BY GoodIs DEF TableInv, IterInv
<1>2. \A b \in 0..n - 1, d \in 0..n : (n + b - d) % n = Bwd(n, b, d)
  BY OperatorsAre DEF TableInv
<1>a. Remaining = {d \in 0..((n + cur - end - 1) % n) : tb.data[(n + cur - d) % n] # EMPTY}
  BY DEF Remaining
<1> HIDE DEF n, cur, end
<1>3. (n + cur - end - 1) % n = r /\ r \in 0..n - 1
  <2>1. CASE cur = end
    <3>1. n + cur - end - 1 = n - 1 /\ n - 1 \in 0..2 * n - 1 /\ n - 1 < n
      BY <1>1, <2>1
    <3>2. (n - 1) % n = n - 1
      BY <1>1, <3>1, ModSmall
    <3> QED BY <1>1, <2>1, <3>1, <3>2
  <2>2. CASE end < cur
    <3>1. n + cur - end - 1 \in 0..2 * n - 1 /\ n + cur - end - 1 >= n
      BY <1>1, <2>2
    <3>2. (n + cur - end - 1) % n = n + cur - end - 1 - n
      BY <1>1, <3>1, ModSmall
    <3>3. Gap(n, end, cur) = cur - end
      BY <1>1, <2>2 DEF Gap
    <3> QED BY <1>1, <2>2, <3>2, <3>3
  <2>3. CASE cur < end
    <3>1. n + cur - end - 1 \in 0..2 * n - 1 /\ n + cur - end - 1 < n
      BY <1>1, <2>3
    <3>2. (n + cur - end - 1) % n = n + cur - end - 1
      BY <1>1, <3>1, ModSmall
    <3>3. Gap(n, end, cur) = n + cur - end
      BY <1>1, <2>3 DEF Gap
    <3> QED BY <1>1, <2>3, <3>2, <3>3
  <2> QED BY <1>1, <2>1, <2>2, <2>3
<1> HIDE DEF r
<1>4. \A d \in 0..r : (n + cur - d) % n = Bwd(n, cur, d)
  BY <1>1, <1>2, <1>3
<1>5. Remaining = {d \in 0..r : tb.data[Bwd(n, cur, d)] # EMPTY}
  BY <1>a, <1>3, <1>4
<1> QED BY <1>3, <1>5 DEF r, n, cur, end

LEMMA IterateEnds ==
  ASSUME TableInv, IterInv, SH_ITERATE, iter.done \/ Remaining = {}
  PROVE  Kept
<1> DEFINE n == tb.size
           r == IF iter.cur = iter.end THEN n - 1 ELSE Gap(n, iter.end, iter.cur) - 1
<1>1. /\ phase # "none" /\ ret' = "null" /\ elem' = {}
      /\ iter' = [iter EXCEPT !.cur = iter.end, !.done = TRUE]
      /\ phase' = "none" /\ todo' = {} /\ last' = "null" /\ tb' = tb
  BY DEF SH_ITERATE
<1>2. /\ n \in Nat /\ n >= 2 /\ RobinTable(n, tb.data)
      /\ iter \in [cur : 0..n - 1, end : 0..n - 1, done : BOOLEAN]
      /\ phase \in {"strict", "at", "loose"}
  BY <1>1, GoodIs DEF TableInv, IterInv
<1>3. TableInv' /\ BoundedGrowth
  BY <1>1, NoGrowth DEF TableInv
<1>4. iter' \in [cur : 0..n - 1, end : 0..n - 1, done : BOOLEAN]
  BY <1>1, <1>2
<1>5. IterInv'
  BY <1>1, <1>4 DEF IterInv
<1>6. CASE phase = "strict"
  <2>1. todo = {}
    <3>1. CASE iter.done
      BY <1>6, <3>1 DEF IterInv
    <3>2. CASE ~iter.done
      <4>1. Remaining = {} /\ Remaining = {d \in 0..r : tb.data[Bwd(n, iter.cur, d)] # EMPTY}
        BY <3>2, RemainingIs
      <4>2. /\ tb.data[iter.end] = EMPTY
            /\ todo = Until(n, tb.data, iter.end, Left(n, iter.cur, iter.end))
        BY <1>6, <3>2 DEF IterInv
      <4>3. iter.cur \in 0..n - 1 /\ iter.end \in 0..n - 1
        BY <1>2
      <4> HIDE DEF n, r
      <4>4. r = IF iter.cur = iter.end THEN n - 1 ELSE Gap(n, iter.end, iter.cur) - 1
        BY DEF r
      <4>5. PICK m, b, prev : m = Min(Remaining) /\ b = Bwd(n, iter.cur, m) /\ prev = Bwd(n, b, 1)
        OBVIOUS
      <4>6. Walk(n, tb.data, iter.cur, iter.end, r, Remaining, m, b, prev)
        BY <1>2, <4>1, <4>3, <4>4, <4>5, IterateIs
      <4>7. Until(n, tb.data, iter.end, Left(n, iter.cur, iter.end)) = {}
        BY <4>1, <4>2, <4>6 DEF Walk
      <4> QED BY <4>2, <4>7
    <3> QED BY <3>1, <3>2
  <2>2. HashSetSpec!IterateStrict
    BY <1>1, <1>6, <2>1 DEF HashSetSpec!IterateStrict
  <2> QED BY <1>3, <1>5, <2>2 DEF Kept, HashSetSpec!Next
<1>7. CASE phase \in {"at", "loose"}
  <2>1. phase = "loose" => todo = {}
    BY DEF IterInv
  <2>2. HashSetSpec!IterateLoose
    BY <1>1, <1>7, <2>1 DEF HashSetSpec!IterateLoose
  <2> QED BY <1>3, <1>5, <2>2 DEF Kept, HashSetSpec!Next
<1> QED BY <1>2, <1>6, <1>7

LEMMA IterateReturns ==
  ASSUME TableInv, IterInv, SH_ITERATE, ~iter.done, Remaining # {}
  PROVE  Kept
<1> DEFINE n == tb.size
           f == tb.data
           cur == iter.cur
           end == iter.end
           r == IF cur = end THEN n - 1 ELSE Gap(n, end, cur) - 1
           m == Min(Remaining)
           b == Bwd(n, cur, m)
           prev == Bwd(n, b, 1)
<1>1. /\ n \in Nat /\ n >= 2 /\ RobinTable(n, f)
      /\ cur \in 0..n - 1 /\ end \in 0..n - 1
      /\ iter \in [cur : 0..n - 1, end : 0..n - 1, done : BOOLEAN]
  BY GoodIs DEF TableInv, IterInv
<1>2. r \in 0..n - 1 /\ Remaining = {d \in 0..r : f[Bwd(n, cur, d)] # EMPTY}
  BY RemainingIs
<1>3. /\ \A x \in 0..n - 1, d \in 0..n : (n + x - d) % n = Bwd(n, x, d)
      /\ Contents(tb) = Holds(n, f)
  BY OperatorsAre DEF TableInv
<1>4. /\ phase # "none" /\ tb' = tb /\ phase' = phase
      /\ LET c == (n + cur - m) % n
             p == (n + c - 1) % n
         IN /\ ret' = f[c]
            /\ iter' = [iter EXCEPT !.cur = p, !.done = (p = end)]
            /\ elem' = {c}
            /\ IF phase # "loose"
                 THEN last' = f[c] /\ todo' = todo \ {f[c]}
                 ELSE UNCHANGED <<last, todo>>
  BY DEF SH_ITERATE
<1>5. /\ m \in 0..r /\ b \in 0..n - 1 /\ f[b] # EMPTY /\ prev \in 0..n - 1
      /\ f[end] = EMPTY =>
           LET U == Until(n, f, end, Left(n, cur, end))
           IN f[b] \in U /\ U \ {f[b]} = IF prev = end THEN {} ELSE Until(n, f, end, Left(n, prev, end))
  <2> HIDE DEF n, f, cur, end, r, m, b, prev
  <2>1. r = IF cur = end THEN n - 1 ELSE Gap(n, end, cur) - 1
    BY DEF r
  <2>2. m = Min(Remaining) /\ b = Bwd(n, cur, m) /\ prev = Bwd(n, b, 1)
    BY DEF m, b, prev
  <2>3. Walk(n, f, cur, end, r, Remaining, m, b, prev)
    BY <1>1, <1>2, <2>1, <2>2, IterateIs
  <2>4. Remaining # {}
    OBVIOUS
  <2> QED BY <2>3, <2>4 DEF Walk
<1> HIDE DEF n, f, cur, end, r, m, b, prev
<1>6. (n + cur - m) % n = b /\ (n + b - 1) % n = prev
  <2>1. m \in 0..n /\ 1 \in 0..n
    BY <1>1, <1>2, <1>5
  <2> QED BY <1>1, <1>3, <1>5, <2>1 DEF b, prev
<1>7. /\ ret' = f[b] /\ elem' = {b} /\ iter' = [iter EXCEPT !.cur = prev, !.done = (prev = end)]
      /\ phase # "loose" => last' = f[b] /\ todo' = todo \ {f[b]}
      /\ phase = "loose" => last' = last /\ todo' = todo
  BY <1>4, <1>6
<1>8. f[b] \in Keys /\ f[b] \in Contents(tb)
  BY <1>1, <1>3, <1>5 DEF Holds, RobinTable
<1>9. phase \in {"strict", "at", "loose"} /\ todo \subseteq Keys /\ last \in Keys \cup {"null"}
      /\ (phase = "loose" => last = "null" /\ todo = {})
      /\ (phase = "strict" => f[end] = EMPTY /\ todo = Until(n, f, end, Left(n, cur, end)))
  BY <1>4 DEF IterInv, n, f, cur, end
<1>10. /\ iter' \in [cur : 0..n - 1, end : 0..n - 1, done : BOOLEAN]
       /\ iter'.cur = prev /\ iter'.end = end /\ iter'.done = (prev = end)
  BY <1>1, <1>5, <1>7 DEF end
<1>11. TableInv' /\ BoundedGrowth
  BY <1>4, NoGrowth DEF TableInv
<1>12. IterInv'
  <2>1. tb'.size = n /\ tb'.data = f
    BY <1>4 DEF n, f
  <2>2. todo' \subseteq Keys /\ last' \in Keys \cup {"null"}
        /\ phase' \in {"none", "strict", "at", "loose"}
    BY <1>4, <1>7, <1>8, <1>9
  <2>3. /\ b \in 0..n - 1 /\ elem' = {b} /\ f[b] # EMPTY /\ phase' # "none"
        /\ phase' # "loose" => /\ last' = f[b] /\ iter'.cur = Bwd(n, b, 1)
                               /\ iter'.done = (iter'.cur = iter'.end)
    BY <1>4, <1>5, <1>7, <1>10 DEF prev
  <2>4. elem' # {}
    BY <2>3
  <2>5. phase' \in {"none", "loose"} => last' = "null" /\ todo' = {}
    BY <1>4, <1>7, <1>9
  <2>6. phase' = "strict" =>
          /\ f[iter'.end] = EMPTY
          /\ todo' = IF iter'.done THEN {} ELSE Until(n, f, iter'.end, Left(n, iter'.cur, iter'.end))
    BY <1>4, <1>5, <1>7, <1>9, <1>10
  <2> QED BY <1>10, <2>1, <2>2, <2>3, <2>4, <2>5, <2>6 DEF IterInv
<1>13. CASE phase = "strict"
  <2>1. f[b] \in todo
    BY <1>5, <1>9, <1>13
  <2>2. HashSetSpec!IterateStrict
    BY <1>4, <1>7, <1>13, <2>1 DEF HashSetSpec!IterateStrict
  <2> QED BY <1>11, <1>12, <2>2 DEF Kept, HashSetSpec!Next
<1>14. CASE phase \in {"at", "loose"}
  <2>1. HashSetSpec!IterateLoose
    BY <1>4, <1>7, <1>8, <1>9, <1>14 DEF HashSetSpec!IterateLoose
  <2> QED BY <1>11, <1>12, <2>1 DEF Kept, HashSetSpec!Next
<1> QED BY <1>9, <1>13, <1>14

LEMMA InitStep ==
  ASSUME Init
  PROVE  TableInv /\ IterInv /\ HashSetSpec!Init
<1>1. PICK e \in Nat : tb = Create(e)
  BY SimpleHashAssumption DEF Init
<1>2. Good(tb) /\ Holds(tb.size, tb.data) = {}
  BY <1>1, CreateIs
<1>3. tb.size \in Nat /\ tb.size >= 2 /\ Contents(tb) = {}
  BY <1>2, GoodIs, OperatorsAre
<1>4. /\ iter = [cur |-> 0, end |-> 0, done |-> TRUE] /\ ret = "null" /\ elem = {}
      /\ phase = "none" /\ todo = {} /\ last = "null"
  BY DEF Init
<1>5. iter \in [cur : 0..tb.size - 1, end : 0..tb.size - 1, done : BOOLEAN]
  BY <1>3, <1>4
<1>6. IterInv
  BY <1>4, <1>5 DEF IterInv
<1>7. HashSetSpec!Init
  BY <1>3, <1>4 DEF HashSetSpec!Init
<1> QED BY <1>2, <1>6, <1>7 DEF TableInv

\* Every call keeps the invariants, is a step of the set, and grows the table
\* only as far as its entries warrant.
LEMMA NextKept ==
  ASSUME TableInv, IterInv, [Next]_vars
  PROVE  TableInv' /\ IterInv' /\ [HashSetSpec!Next]_(HashSetSpec!vars)
         /\ (UNCHANGED vars \/ BoundedGrowth)
<1>1. CASE UNCHANGED vars
  <2>1. tb' = tb /\ UNCHANGED <<iter, ret, elem, phase, todo, last>>
    BY <1>1 DEF vars
  <2>2. TableInv' /\ IterInv'
    BY <2>1, SameInv
  <2>3. UNCHANGED HashSetSpec!vars
    BY <2>1 DEF HashSetSpec!vars
  <2> QED BY <1>1, <2>2, <2>3
<1>2. CASE Next
  <2>1. Kept
    <3>1. CASE \E k \in Keys : SH_INSERT(k) \/ SH_LOOKUP(k) \/ SH_DELETE(k)
      BY <3>1, InsertStep, LookupStep, DeleteStep
    <3>2. CASE SH_DELETE_ITEM \/ SH_RESET \/ SH_START_ITERATE
      BY <3>2, DeleteItemStep, ResetStep, StartStep
    <3>3. CASE SH_ITERATE
      BY <3>3, IterateEnds, IterateReturns
    <3>4. CASE \E at \in Ats : SH_START_ITERATE_AT(at)
      BY <3>4, StartAtStep
    <3> QED BY <1>2, <3>1, <3>2, <3>3, <3>4 DEF Next
  <2> QED BY <2>1 DEF Kept
<1> QED BY <1>1, <1>2

-----------------------------------------------------------------------------
(* The theorems. *)

LEMMA Invariance == Spec => [](TableInv /\ IterInv)
<1>1. Init => TableInv /\ IterInv
  BY InitStep
<1>2. (TableInv /\ IterInv) /\ [Next]_vars => (TableInv /\ IterInv)'
  <2>1. (TableInv /\ IterInv) /\ [Next]_vars => TableInv' /\ IterInv'
    BY NextKept
  <2> QED BY <2>1
<1> QED BY <1>1, <1>2, PTL DEF Spec

LEMMA InvTyped ==
  ASSUME TableInv, IterInv
  PROVE  TypeOK
<1>1. /\ tb.size \in 2..MaxSize /\ IsPowerOfTwo(tb.size) /\ tb.size \in Nat /\ tb.size >= 2
      /\ tb.data \in [0..tb.size - 1 -> Keys \cup {EMPTY}] /\ Buckets(tb) = 0..tb.size - 1
      /\ tb.members \in Nat /\ tb.grow_threshold \in Nat
  BY GoodIs, OperatorsAre DEF TableInv, Good, Tables
<1>2. \E b \in 0..tb.size - 1 : elem \subseteq {b}
  <2>1. CASE elem = {}
    <3>1. 0 \in 0..tb.size - 1
      BY <1>1
    <3> QED BY <2>1, <3>1
  <2>2. CASE elem # {}
    BY <2>2 DEF IterInv
  <2> QED BY <2>1, <2>2
<1> QED BY <1>1, <1>2 DEF TypeOK, IterInv

\* The table, the iterator and what its caller knows have their types after any
\* calls: SH_CREATE, SH_COMPUTE_PARAMETERS, SH_GROW and the iterator's functions.
THEOREM TypeCorrect == Spec => []TypeOK
<1>1. TableInv /\ IterInv => TypeOK
  BY InvTyped
<1> QED BY <1>1, Invariance, PTL

\* members counts the entries and is less than the size, whatever was inserted,
\* moved, copied and deleted: the Asserts of SH_NEXT and SH_PREV, that a search
\* never comes back to where it started, hold for every table and hash function.
THEOREM RoomForSearches == Spec => []EmptyBucketLeft
<1>1. TableInv => EmptyBucketLeft
  BY OperatorsAre DEF TableInv, Good, EmptyBucketLeft, Occupied
<1> QED BY <1>1, Invariance, PTL

LEMMA TableReachable ==
  ASSUME TableInv
  PROVE  Reachable
<1> DEFINE n == tb.size
           f == tb.data
<1>1. n \in Nat /\ n >= 2 /\ RobinTable(n, f)
  BY GoodIs DEF TableInv
<1>2. /\ Buckets(tb) = 0..n - 1
      /\ \A b \in 0..n - 1, d \in 0..n : (n + b - d) % n = Bwd(n, b, d)
      /\ \A b \in 0..n - 1 : f[b] # EMPTY => SH_DISTANCE_FROM_OPTIMAL(tb, f[b], b) = Far(n, f, b)
  BY OperatorsAre DEF TableInv
<1>3. ASSUME NEW b \in 0..n - 1, f[b] # EMPTY, NEW d \in 0..Far(n, f, b)
      PROVE  f[(n + b - d) % n] # EMPTY
  <2> HIDE DEF n, f
  <2>1. Far(n, f, b) \in 0..n - 1
    BY <1>1, <1>3, FarIs
  <2>2. d \in 0..n
    BY <1>1, <2>1
  <2>3. f[Bwd(n, b, d)] # EMPTY
    BY <1>1, <1>3, Behind
  <2> QED BY <1>2, <2>2, <2>3
<1>4. \A b, c \in 0..n - 1 : f[b] = f[c] /\ f[b] # EMPTY => b = c
  BY <1>1 DEF RobinTable
<1> QED BY <1>2, <1>3, <1>4 DEF Reachable

\* No empty bucket lies between a key and the bucket where its lookup starts,
\* and no key is there twice: what SH_LOOKUP and SH_DELETE rely on when they
\* stop at the first empty bucket, after any insertions, deletions and growths.
THEOREM KeysAreReachable == Spec => []Reachable
<1>1. TableInv => Reachable
  BY TableReachable
<1> QED BY <1>1, Invariance, PTL

LEMMA TableInOrder ==
  ASSUME TableInv
  PROVE  RobinHood
<1> DEFINE n == tb.size
           f == tb.data
<1>1. n \in Nat /\ n >= 2 /\ RobinTable(n, f)
  BY GoodIs DEF TableInv
<1>2. /\ Buckets(tb) = 0..n - 1
      /\ \A b \in 0..n - 1, d \in 0..n : Ahead(tb, b, d) = Fwd(n, b, d)
      /\ \A b \in 0..n - 1 : f[b] # EMPTY => SH_DISTANCE_FROM_OPTIMAL(tb, f[b], b) = Far(n, f, b)
  BY OperatorsAre DEF TableInv
<1> HIDE DEF n, f
<1>3. ASSUME NEW b \in 0..n - 1, NEW c, c = Ahead(tb, b, 1), f[c] # EMPTY
      PROVE  SH_DISTANCE_FROM_OPTIMAL(tb, f[c], c) <=
               (IF f[b] = EMPTY THEN 0 ELSE SH_DISTANCE_FROM_OPTIMAL(tb, f[b], b) + 1)
  <2>1. 1 \in 0..n
    BY <1>1
  <2>2. c = Fwd(n, b, 1)
    BY <1>2, <1>3, <2>1
  <2>3. c = Next1(n, b) /\ c \in 0..n - 1
    BY <1>1, <2>2 DEF Fwd, Next1
  <2>4. SH_DISTANCE_FROM_OPTIMAL(tb, f[c], c) = Far(n, f, c) /\ Far(n, f, c) \in 0..n - 1
    BY <1>1, <1>2, <1>3, <2>3, FarIs
  <2>5. Far(n, f, c) # 0 => f[b] # EMPTY /\ Far(n, f, c) <= Far(n, f, b) + 1
    BY <1>1, <1>3, <2>3 DEF RobinTable, InOrder
  <2>6. CASE f[b] = EMPTY
    BY <1>1, <2>4, <2>5, <2>6
  <2>7. CASE f[b] # EMPTY
    <3>1. SH_DISTANCE_FROM_OPTIMAL(tb, f[b], b) = Far(n, f, b) /\ Far(n, f, b) \in 0..n - 1
      BY <1>1, <1>2, <2>7, FarIs
    <3> QED BY <1>1, <2>4, <2>5, <2>7, <3>1
  <2> QED BY <2>6, <2>7
<1> QED BY <1>2, <1>3 DEF RobinHood, n, f

\* The entries stay in robin hood order: insertion, backward shift, and the copy
\* of SH_GROW, which compares no distances and is right because it starts where
\* no entry is displaced.
THEOREM RobinHoodOrder == Spec => []RobinHood
<1>1. TableInv => RobinHood
  BY TableInOrder
<1> QED BY <1>1, Invariance, PTL

\* A table grows to at most 20 times its entries, and gives up on colliding keys
\* only when it is one tenth full: the restarts of SH_INSERT_HASH_INTERNAL and
\* their limit SH_GROW_MIN_FILLFACTOR.
THEOREM GrowthIsBounded == Spec => NoSpaceExplosion
<1>1. TableInv /\ IterInv /\ [Next]_vars =>
        [/\ tb'.size > tb.size => tb'.size <= 20 * tb.members
         /\ tb'.grow_threshold = 0 /\ tb.grow_threshold # 0 => tb'.size <= 10 * tb.members]_vars
  BY NextKept DEF BoundedGrowth
<1> QED BY <1>1, Invariance, PTL DEF Spec, NoSpaceExplosion

\* What the users of simplehash.h are promised holds: the table is a set, and an
\* iteration that starts at an empty bucket returns every key once although its
\* caller deletes the entries it returns.
THEOREM TableIsSet == Spec => ImplementsSet
<1>1. Init => HashSetSpec!Init
  BY InitStep
<1>2. TableInv /\ IterInv /\ [Next]_vars => [HashSetSpec!Next]_(HashSetSpec!vars)
  BY NextKept
<1> QED BY <1>1, <1>2, Invariance, PTL DEF Spec, ImplementsSet, HashSetSpec!Spec

=============================================================================
