----------------------------- MODULE SimpleHash -----------------------------
(***************************************************************************)
(* The open-addressing hash table that lib/simplehash.h generates: robin   *)
(* hood insertion, growth, deletion by backward shift, and the iterator    *)
(* that walks the buckets backwards.  A table belongs to one process, so   *)
(* every function is one step.                                             *)
(*                                                                         *)
(* A loop over buckets that stops at the first one satisfying a condition  *)
(* is the least distance at which the condition holds.  That one exists    *)
(* before the search comes back to its first bucket is what the Asserts of *)
(* SH_NEXT and SH_PREV say; see EmptyBucketLeft.                           *)
(***************************************************************************)
EXTENDS Naturals, FiniteSets, FiniteSetsExt

CONSTANTS Keys,
          Hash,        \* SH_HASH_KEY: a function from Keys to numbers
          MaxSize,     \* SH_MAX_SIZE, a power of two
          MaxDib,      \* SH_GROW_MAX_DIB
          MaxMove,     \* SH_GROW_MAX_MOVE
          Sizes,       \* the nelements that SH_CREATE is called with
          Ats          \* the buckets that SH_START_ITERATE_AT is called with

EMPTY == "empty"

\* 1, or a number that no odd number but 1 divides.
IsPowerOfTwo(n) == \A d \in 2..n : n % d = 0 => d % 2 = 0

ASSUME SimpleHashAssumption ==
  /\ Hash \in [Keys -> Nat] /\ EMPTY \notin Keys /\ "null" \notin Keys
  /\ MaxSize \in Nat /\ MaxSize >= 2 /\ IsPowerOfTwo(MaxSize)
  /\ MaxDib \in Nat /\ MaxMove \in Nat /\ Sizes \subseteq Nat /\ Ats \subseteq Nat

VARIABLES tb,       \* the table: [size, data, members, grow_threshold]
          iter,     \* SH_ITERATOR: [cur, end, done]
          ret,      \* what the last call returned
          elem,     \* the bucket of the entry that SH_ITERATE returned last, as a set
          phase, todo, last   \* the iteration as its caller sees it (history)

vars == <<tb, iter, ret, elem, phase, todo, last>>

Buckets(t) == 0..(t.size - 1)
SH_INITIAL_BUCKET(t, k) == Hash[k] % t.size
Ahead(t, b, d) == (b + d) % t.size
SH_DISTANCE_FROM_OPTIMAL(t, k, b) ==
  (t.size + b - SH_INITIAL_BUCKET(t, k)) % t.size
Contents(t) == {t.data[b] : b \in Buckets(t)} \ {EMPTY}

\* A variant that fills the last bucket too.
GrowThresholdFull(n) == n

\* (double) n * SH_FILLFACTOR, or SH_MAX_FILLFACTOR at the largest size, as an
\* integer.
GrowThreshold(n) == IF n = MaxSize THEN (n * 98) \div 100 ELSE (n * 9) \div 10

\* SH_COMPUTE_PARAMETERS and SH_ALLOCATE, for a size that is a power of two.
NewTable(n) == [size |-> n, data |-> [b \in 0..(n - 1) |-> EMPTY],
                members |-> 0, grow_threshold |-> GrowThreshold(n)]

\* pg_nextpower2_64(Max(n, 2))
PowerOfTwo(n) == Min({p \in 2..MaxSize : IsPowerOfTwo(p) /\ p >= n})

\* SH_CREATE
Create(nelements) == NewTable(PowerOfTwo(Min({MaxSize, (nelements * 10) \div 9})))

\* A variant of the copy that starts at the first bucket.
GrowFromFirst(t) ==
  LET new == NewTable(2 * t.size)
      Put(data, k) ==
        IF k = EMPTY THEN data
        ELSE LET opt == SH_INITIAL_BUCKET(new, k)
                 d == Min({x \in Buckets(new) : data[Ahead(new, opt, x)] = EMPTY})
             IN [data EXCEPT ![Ahead(new, opt, d)] = k]
      copied[i \in 0..t.size] ==
        IF i = 0 THEN new.data ELSE Put(copied[i - 1], t.data[i - 1])
  IN [new EXCEPT !.data = copied[t.size], !.members = t.members]

\* SH_GROW, to twice the size.  The start of the copy is looked for with the
\* new size already in place.
Grow(t) ==
  LET new == NewTable(2 * t.size)
      anchors == {b \in Buckets(t) : \/ t.data[b] = EMPTY
                                     \/ SH_INITIAL_BUCKET(new, t.data[b]) = b}
      startelem == IF anchors = {} THEN 0 ELSE Min(anchors)
      Put(data, k) ==
        IF k = EMPTY THEN data
        ELSE LET opt == SH_INITIAL_BUCKET(new, k)
                 d == Min({x \in Buckets(new) : data[Ahead(new, opt, x)] = EMPTY})
             IN [data EXCEPT ![Ahead(new, opt, d)] = k]
      copied[i \in 0..t.size] ==
        IF i = 0 THEN new.data ELSE Put(copied[i - 1], t.data[Ahead(t, startelem, i - 1)])
  IN [new EXCEPT !.data = copied[t.size], !.members = t.members]

\* The distance at which the search of SH_INSERT_HASH_INTERNAL stops: an empty
\* bucket, the key, or a key closer to its optimal bucket.
InsertDist(t, k) ==
  LET opt == SH_INITIAL_BUCKET(t, k)
  IN Min({d \in Buckets(t) :
            LET e == t.data[Ahead(t, opt, d)]
            IN \/ e = EMPTY \/ e = k
               \/ SH_DISTANCE_FROM_OPTIMAL(t, e, Ahead(t, opt, d)) < d})

\* How many entries the insertion moves forward by one.
MoveDist(t, cur) == Min({d \in Buckets(t) : t.data[Ahead(t, cur, d)] = EMPTY})

\* A variant that restarts however empty the table is.
RestartsWhenEmpty(t, k) ==
  LET cur == Ahead(t, SH_INITIAL_BUCKET(t, k), InsertDist(t, k))
  IN \/ InsertDist(t, k) > MaxDib
     \/ t.data[cur] # k /\ MoveDist(t, cur) - 1 > MaxMove

\* goto restart: the search or the move is too long and the table not too empty.
Restarts(t, k) ==
  LET cur == Ahead(t, SH_INITIAL_BUCKET(t, k), InsertDist(t, k))
  IN /\ t.members * 10 >= t.size
     /\ \/ InsertDist(t, k) > MaxDib
        \/ t.data[cur] # k /\ MoveDist(t, cur) - 1 > MaxMove

\* The insertion of k grows the table before it searches, or restarts to grow it.
MustGrow(t, k) == t.members >= t.grow_threshold \/ Restarts(t, k)

\* The table on which the insertion of k succeeds or fails: grown when it is
\* full, then once more for every restart, as long as it can be.
Prepared(t, k) ==
  LET growths == MaxSize \div t.size
      grown[i \in 0..growths] ==
        IF i = 0 THEN t
        ELSE LET u == grown[i - 1]
             IN IF u.size < MaxSize /\ MustGrow(u, k) THEN Grow(u) ELSE u
      u == grown[growths]
  IN IF ~MustGrow(u, k) THEN [ok |-> TRUE, t |-> u]
     ELSE [ok |-> FALSE, t |-> IF u.members >= u.grow_threshold THEN u
                               ELSE [u EXCEPT !.grow_threshold = 0]]

\* k goes into its bucket, and the run from there up to the next empty bucket
\* forward by one.
Placed(t, k) ==
  LET cur == Ahead(t, SH_INITIAL_BUCKET(t, k), InsertDist(t, k))
      n == MoveDist(t, cur)
  IN [t EXCEPT
        !.members = @ + 1,
        !.data = [b \in Buckets(t) |->
                    LET d == (t.size + b - cur) % t.size
                    IN CASE d = 0 -> k
                         [] d \in 1..n -> t.data[Ahead(t, cur, d - 1)]
                         [] OTHER -> t.data[b]]]

\* The bucket where SH_LOOKUP_HASH_INTERNAL and SH_DELETE stop.
Find(t, k) ==
  LET opt == SH_INITIAL_BUCKET(t, k)
  IN Ahead(t, opt, Min({d \in Buckets(t) : t.data[Ahead(t, opt, d)] \in {EMPTY, k}}))

\* A variant that empties the bucket and leaves the entries after it.
RemovedNoShift(t, cur) ==
  [t EXCEPT !.members = @ - 1, !.data[cur] = EMPTY]

\* The backward shift of SH_DELETE and SH_DELETE_ITEM: the entries after bucket
\* cur move back by one, up to an empty bucket or an entry at its optimal one.
Removed(t, cur) ==
  LET n == Min({d \in 1..t.size :
                  LET b == Ahead(t, cur, d)
                  IN t.data[b] = EMPTY \/ SH_INITIAL_BUCKET(t, t.data[b]) = b})
  IN [t EXCEPT
        !.members = @ - 1,
        !.data = [b \in Buckets(t) |->
                    LET d == (t.size + b - cur) % t.size
                    IN CASE d < n - 1 -> t.data[Ahead(t, b, 1)]
                         [] d = n - 1 -> EMPTY
                         [] OTHER -> t.data[b]]]

-----------------------------------------------------------------------------
(* The interface. *)

Init ==
  /\ \E n \in Sizes : tb = Create(n)
  /\ iter = [cur |-> 0, end |-> 0, done |-> TRUE]
  /\ ret = "null" /\ elem = {}
  /\ phase = "none" /\ todo = {} /\ last = "null"

\* The table changed otherwise than by the deletion of the current entry.
Loosen == /\ phase' = (IF phase = "none" THEN "none" ELSE "loose")
          /\ todo' = {} /\ last' = "null" /\ elem' = {}

SH_INSERT(k) ==
  LET p == Prepared(tb, k)
  IN /\ CASE ~p.ok -> /\ tb' = p.t
                      /\ ret' = "error"
           [] p.ok /\ k \in Contents(p.t) -> tb' = p.t /\ ret' = "yes"
           [] p.ok /\ k \notin Contents(p.t) -> tb' = Placed(p.t, k) /\ ret' = "no"
     /\ IF tb'.data = tb.data /\ p.ok THEN UNCHANGED <<elem, phase, todo, last>> ELSE Loosen
     /\ UNCHANGED iter

SH_LOOKUP(k) ==
  /\ ret' = IF tb.data[Find(tb, k)] = k THEN "yes" ELSE "no"
  /\ UNCHANGED <<tb, iter, elem, phase, todo, last>>

SH_DELETE(k) ==
  /\ IF tb.data[Find(tb, k)] = k
       THEN /\ ret' = "yes"
            /\ tb' = Removed(tb, Find(tb, k))
            /\ IF k = last
                 THEN last' = "null" /\ elem' = {} /\ UNCHANGED <<phase, todo>>
                 ELSE Loosen
       ELSE ret' = "no" /\ UNCHANGED <<tb, elem, phase, todo, last>>
  /\ UNCHANGED iter

\* The caller deletes the entry that SH_ITERATE has just returned.
SH_DELETE_ITEM ==
  /\ elem # {}
  /\ ret' = "yes"
  /\ \E b \in elem : tb' = Removed(tb, b)
  /\ last' = "null" /\ elem' = {}
  /\ UNCHANGED <<iter, phase, todo>>

SH_RESET ==
  /\ tb' = [tb EXCEPT !.members = 0, !.data = [b \in Buckets(tb) |-> EMPTY]]
  /\ ret' = "null"
  /\ Loosen
  /\ UNCHANGED iter

Iterating(b, guarantee) ==
  /\ iter' = [cur |-> b, end |-> b, done |-> FALSE]
  /\ ret' = "null" /\ elem' = {}
  /\ phase' = guarantee /\ todo' = Contents(tb) /\ last' = "null"
  /\ UNCHANGED tb

\* A variant that starts at the first bucket, empty or not.
StartIterateFirst == Iterating(0, "strict")

\* A variant that takes the bucket as it is given.
StartIterateAtUnmasked(at) == Iterating(at, "at")

SH_START_ITERATE == Iterating(Min({b \in Buckets(tb) : tb.data[b] = EMPTY}), "strict")

\* The caller may ask for an occupied bucket.
SH_START_ITERATE_AT(at) ==
  LET b == at % tb.size
  IN Iterating(b, IF tb.data[b] = EMPTY THEN "strict" ELSE "at")

\* The buckets from iter.cur backwards to the one after iter.end, that is up to
\* where iter.done is set.
Remaining == LET n == (tb.size + iter.cur - iter.end - 1) % tb.size
             IN {d \in 0..n : tb.data[(tb.size + iter.cur - d) % tb.size] # EMPTY}

SH_ITERATE ==
  /\ phase # "none"
  /\ IF iter.done \/ Remaining = {}
       THEN /\ ret' = "null" /\ elem' = {}
            /\ iter' = [iter EXCEPT !.cur = iter.end, !.done = TRUE]
            /\ phase' = "none" /\ todo' = {} /\ last' = "null"
       ELSE LET b == (tb.size + iter.cur - Min(Remaining)) % tb.size
                prev == (tb.size + b - 1) % tb.size
            IN /\ ret' = tb.data[b]
               /\ iter' = [iter EXCEPT !.cur = prev, !.done = (prev = iter.end)]
               /\ elem' = {b}
               /\ IF phase # "loose"
                    THEN last' = tb.data[b] /\ todo' = todo \ {tb.data[b]}
                    ELSE UNCHANGED <<last, todo>>
               /\ UNCHANGED phase
  /\ UNCHANGED tb

Next ==
  \/ \E k \in Keys : SH_INSERT(k) \/ SH_LOOKUP(k) \/ SH_DELETE(k)
  \/ SH_DELETE_ITEM \/ SH_RESET
  \/ SH_START_ITERATE \/ SH_ITERATE
  \/ \E at \in Ats : SH_START_ITERATE_AT(at)

Spec == Init /\ [][Next]_vars

-----------------------------------------------------------------------------
(* Properties. *)

\* The table's members have their types, its size is a power of two and the
\* iterator points into it.
TypeOK ==
  /\ tb.size \in 2..MaxSize /\ IsPowerOfTwo(tb.size)
  /\ tb.data \in [Buckets(tb) -> Keys \cup {EMPTY}]
  /\ tb.members \in Nat /\ tb.grow_threshold \in Nat
  /\ iter \in [cur : Buckets(tb), end : Buckets(tb), done : BOOLEAN]
  /\ \E b \in Buckets(tb) : elem \subseteq {b}
  /\ phase \in {"none", "strict", "at", "loose"} /\ todo \subseteq Keys
  /\ last \in Keys \cup {"null"}

\* "There always has to be an empty bucket": every search over the buckets ends
\* before it comes back to where it started, as the Asserts of SH_NEXT and
\* SH_PREV demand; and members counts the entries.
EmptyBucketLeft ==
  /\ tb.members = Cardinality({b \in Buckets(tb) : tb.data[b] # EMPTY})
  /\ tb.members < tb.size

\* A lookup starts at a key's optimal bucket and stops at the first empty one;
\* so no empty bucket may lie between the two, after any sequence of insertions
\* that move entries forward, deletions that move them back, and growths; and
\* no key is there twice.
Reachable ==
  \A b \in Buckets(tb) : tb.data[b] # EMPTY =>
    /\ \A d \in 0..SH_DISTANCE_FROM_OPTIMAL(tb, tb.data[b], b) :
         tb.data[(tb.size + b - d) % tb.size] # EMPTY
    /\ \A c \in Buckets(tb) : tb.data[c] = tb.data[b] => c = b

\* Robin hood: an entry is not further from its optimal bucket than the entry
\* before it is, by more than one bucket.  Growing must keep this although it
\* places entries without comparing distances, "without having to deal with
\* conflicts".
RobinHood ==
  \A b \in Buckets(tb) :
    LET c == Ahead(tb, b, 1)
    IN tb.data[c] # EMPTY =>
         SH_DISTANCE_FROM_OPTIMAL(tb, tb.data[c], c) <=
           (IF tb.data[b] = EMPTY THEN 0
            ELSE SH_DISTANCE_FROM_OPTIMAL(tb, tb.data[b], b) + 1)

\* "Don't grow if the hashtable would be too empty, to prevent quick space
\* explosion": however many times one insertion restarts, its table ends at most
\* 20 times as large as the entries it holds, twice the inverse of
\* SH_GROW_MIN_FILLFACTOR; and colliding keys make it give up, at the largest
\* size, only if it is at least one tenth full.
NoSpaceExplosion ==
  [][/\ tb'.size > tb.size => tb'.size <= 20 * tb.members
     /\ tb'.grow_threshold = 0 /\ tb.grow_threshold # 0 => tb'.size <= 10 * tb.members]_vars

\* "During iteration the current entry in the hash table may be deleted, without
\* leading to elements being skipped": an iteration during which nothing else
\* changed ends when every entry was returned.
IterationComplete == [][phase # "loose" /\ phase' = "none" => todo = {}]_vars

\* The table is a set for those who insert, look up and delete, and an
\* iteration that starts at an empty bucket, as SH_START_ITERATE does, returns
\* every key once, even if its caller deletes the current entry.
HashSetSpec == INSTANCE HashSet WITH
  set   <- Contents(tb),
  phase <- IF phase = "at" THEN "loose" ELSE phase,
  todo  <- IF phase = "at" THEN {} ELSE todo,
  last  <- IF phase = "at" THEN "null" ELSE last

ImplementsSet == HashSetSpec!Spec

=============================================================================
