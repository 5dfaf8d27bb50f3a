---------------------------- MODULE SortTemplate ----------------------------
(***************************************************************************)
(* ST_SORT: quicksort with a partition into less, equal and greater        *)
(* elements, insertion sort for short segments and a test whether the      *)
(* segment is sorted already.  It calls itself for the shorter part and    *)
(* goes on with the longer one.                                            *)
(*                                                                         *)
(* One step per comparison.  Comparators are functions of the users of the *)
(* template, among them operators that anyone defines in SQL, so a sort    *)
(* has to end inside its array also when they contradict themselves.       *)
(***************************************************************************)
EXTENDS Integers, Sequences

CONSTANTS Inputs,       \* arrays of keys, and whether the comparator is that of their order
          Insertion,    \* segments shorter than this are sorted by insertion: 7
          Ninther       \* longer ones than this take the median of nine: 40

VARIABLES data,     \* the array
          sane,     \* the comparator is that of the order
          at,       \* where the sort is
          seg,      \* the segment it sorts, n elements from a on
          ptr4,     \* pa, pb, pc, pd of the partition
          scan,     \* pm and pl of the other loops
          stack     \* what the callers of this call go on with

sortVars == <<data, sane, at, seg, ptr4, scan, stack>>

ASSUME SortAssumption ==
  /\ Insertion \in Nat \ {0, 1, 2} /\ Ninther \in Nat /\ Ninther >= 8 /\ Ninther >= Insertion
  /\ \A i \in Inputs : i.keys \in Seq(Int) /\ i.sane \in BOOLEAN

Nowhere == [pa |-> 0, pb |-> 0, pc |-> 0, pd |-> 0]
Begin == [pm |-> 0, pl |-> 0]
Last == seg.a + seg.n - 1

SortInit ==
  /\ data = << >> /\ sane = TRUE /\ at = "idle" /\ stack = << >>
  /\ seg = [a |-> 1, n |-> 0] /\ ptr4 = Nowhere /\ scan = Begin

\* DO_COMPARE(i, j): what it can be.
Compare(i, j) ==
  IF ~sane THEN {-1, 0, 1}
  ELSE IF data[i] < data[j] THEN {-1}
  ELSE IF data[i] > data[j] THEN {1} ELSE {0}

\* ST_MED3.
Med3(a, b, c) ==
  {m \in {a, b, c} :
     \/ /\ \E r \in Compare(a, b) : r < 0
        /\ \/ m = b /\ \E r \in Compare(b, c) : r < 0
           \/ /\ \E r \in Compare(b, c) : r >= 0
              /\ \E r \in Compare(a, c) : m = IF r < 0 THEN c ELSE a
     \/ /\ \E r \in Compare(a, b) : r >= 0
        /\ \/ m = b /\ \E r \in Compare(b, c) : r > 0
           \/ /\ \E r \in Compare(b, c) : r <= 0
              /\ \E r \in Compare(a, c) : m = IF r < 0 THEN a ELSE c}

\* ST_MED3 of three positions that are medians themselves.
Med3Of(A, B, C) == UNION {Med3(a, b, c) : a \in A, b \in B, c \in C}

Swapped(d, i, j) == [d EXCEPT ![i] = d[j], ![j] = d[i]]

\* DO_SWAPN: n swaps, in their order, for the blocks may share an element when the
\* comparator is not that of an order.
BlockSwapped(d, i, j, n) ==
  LET after[k \in 0..n] == IF k = 0 THEN d ELSE Swapped(after[k - 1], i + k - 1, j + k - 1)
  IN [k \in DOMAIN d |-> after[n][k]]

\* At loop, with the segment s.
Loop(s) ==
  /\ seg' = s
  /\ IF s.n < Insertion THEN /\ at' = "insertion"
                             /\ scan' = [pm |-> s.a + 1, pl |-> s.a + 1]
                        ELSE /\ at' = "presorted"
                             /\ scan' = [pm |-> s.a + 1, pl |-> s.a]

\* To the caller, which goes on with the longer part.
ReturnFrom ==
  IF stack = << >>
    THEN at' = "done" /\ UNCHANGED <<seg, scan, stack>>
    ELSE LET s == stack[Len(stack)]
         IN /\ stack' = SubSeq(stack, 1, Len(stack) - 1)
            /\ IF s.n > 1 THEN Loop(s) ELSE at' = "return" /\ seg' = s /\ UNCHANGED scan

-----------------------------------------------------------------------------

StartSort ==
  /\ at = "idle"
  /\ \E i \in Inputs : /\ data' = i.keys /\ sane' = i.sane
                      /\ Loop([a |-> 1, n |-> Len(i.keys)])
  /\ UNCHANGED <<ptr4, stack>>

\* An outer turn is over when pl met the start or an element that is not greater.
InsertionStep ==
  /\ at = "insertion" /\ scan.pm <= Last
  /\ \/ /\ scan.pl > seg.a
        /\ \E r \in Compare(scan.pl - 1, scan.pl) : r > 0
        /\ data' = Swapped(data, scan.pl, scan.pl - 1)
        /\ scan' = [scan EXCEPT !.pl = @ - 1]
     \/ /\ scan.pl > seg.a => \E r \in Compare(scan.pl - 1, scan.pl) : r <= 0
        /\ scan' = [pm |-> scan.pm + 1, pl |-> scan.pm + 1]
        /\ UNCHANGED data
  /\ UNCHANGED <<sane, at, seg, ptr4, stack>>

InsertionEnd ==
  /\ at = "insertion" /\ scan.pm > Last
  /\ ReturnFrom
  /\ UNCHANGED <<data, sane, ptr4>>

PresortedStep ==
  /\ at = "presorted" /\ scan.pm <= Last
  /\ \E r \in Compare(scan.pm - 1, scan.pm) :
       IF r > 0 THEN at' = "pivot" /\ UNCHANGED scan
                ELSE at' = at /\ scan' = [scan EXCEPT !.pm = @ + 1]
  /\ UNCHANGED <<data, sane, seg, ptr4, stack>>

PresortedEnd ==
  /\ at = "presorted" /\ scan.pm > Last
  /\ ReturnFrom
  /\ UNCHANGED <<data, sane, ptr4>>

\* The positions the pivot is taken from.
Pivots ==
  LET middle == seg.a + (seg.n \div 2)
      d == seg.n \div 8
  IN IF seg.n <= Insertion THEN {middle}
     ELSE IF seg.n <= Ninther THEN Med3(seg.a, middle, Last)
     ELSE Med3Of(Med3(seg.a, seg.a + d, seg.a + 2 * d), Med3(middle - d, middle, middle + d),
                 Med3(Last - 2 * d, Last - d, Last))

ChoosePivot ==
  /\ at = "pivot"
  /\ \E pm \in Pivots : data' = Swapped(data, seg.a, pm)
  /\ ptr4' = [pa |-> seg.a + 1, pb |-> seg.a + 1, pc |-> Last, pd |-> Last]
  /\ at' = "left"
  /\ UNCHANGED <<sane, seg, scan, stack>>

\* A variant that goes on to the end, if the comparator does not stop it.
LeftToEnd ==
  /\ at = "left" /\ ptr4.pb <= Last
  /\ \E r \in Compare(ptr4.pb, seg.a) :
       /\ r <= 0
       /\ data' = IF r = 0 THEN Swapped(data, ptr4.pa, ptr4.pb) ELSE data
       /\ ptr4' = [ptr4 EXCEPT !.pa = IF r = 0 THEN @ + 1 ELSE @, !.pb = @ + 1]
  /\ UNCHANGED <<sane, at, seg, scan, stack>>

\* while (pb <= pc && (r = DO_COMPARE(pb, a)) <= 0)
Left ==
  /\ at = "left" /\ ptr4.pb <= ptr4.pc
  /\ \E r \in Compare(ptr4.pb, seg.a) :
       /\ r <= 0
       /\ data' = IF r = 0 THEN Swapped(data, ptr4.pa, ptr4.pb) ELSE data
       /\ ptr4' = [ptr4 EXCEPT !.pa = IF r = 0 THEN @ + 1 ELSE @, !.pb = @ + 1]
  /\ UNCHANGED <<sane, at, seg, scan, stack>>

LeftEnd ==
  /\ at = "left"
  /\ ptr4.pb <= ptr4.pc => \E r \in Compare(ptr4.pb, seg.a) : r > 0
  /\ at' = "right"
  /\ UNCHANGED <<data, sane, seg, ptr4, scan, stack>>

\* while (pb <= pc && (r = DO_COMPARE(pc, a)) >= 0)
Right ==
  /\ at = "right" /\ ptr4.pb <= ptr4.pc
  /\ \E r \in Compare(ptr4.pc, seg.a) :
       /\ r >= 0
       /\ data' = IF r = 0 THEN Swapped(data, ptr4.pc, ptr4.pd) ELSE data
       /\ ptr4' = [ptr4 EXCEPT !.pd = IF r = 0 THEN @ - 1 ELSE @, !.pc = @ - 1]
  /\ UNCHANGED <<sane, at, seg, scan, stack>>

\* A variant that leaves the pointers to the next turn.
ExchangeInPlace ==
  /\ at = "right" /\ ptr4.pb <= ptr4.pc
  /\ \E r \in Compare(ptr4.pc, seg.a) : r < 0
  /\ data' = Swapped(data, ptr4.pb, ptr4.pc)
  /\ at' = "left"
  /\ UNCHANGED <<sane, seg, ptr4, scan, stack>>

\* Both loops met an element of the other side.
Exchange ==
  /\ at = "right" /\ ptr4.pb <= ptr4.pc
  /\ \E r \in Compare(ptr4.pc, seg.a) : r < 0
  /\ data' = Swapped(data, ptr4.pb, ptr4.pc)
  /\ ptr4' = [ptr4 EXCEPT !.pb = @ + 1, !.pc = @ - 1]
  /\ at' = "left"
  /\ UNCHANGED <<sane, seg, scan, stack>>

Lesser(i, j) == IF i <= j THEN i ELSE j

\* A variant that calls itself for the left part whatever their lengths.
RecurseLeft(less, greater) ==
  /\ stack' = Append(stack, greater)
  /\ IF less.n > 1 THEN Loop(less) ELSE at' = "return" /\ seg' = less /\ UNCHANGED scan

\* A call for the shorter part, if it has two elements; the longer one waits.
Recurse(less, greater) ==
  LET first == IF less.n <= greater.n THEN less ELSE greater
      then == IF less.n <= greater.n THEN greater ELSE less
  IN /\ stack' = Append(stack, then)
     /\ IF first.n > 1 THEN Loop(first) ELSE at' = "return" /\ seg' = first /\ UNCHANGED scan

\* A variant that leaves the greater equal elements at the end.
GatherLeft ==
  BlockSwapped(data, seg.a, ptr4.pb - Lesser(ptr4.pa - seg.a, ptr4.pb - ptr4.pa),
               Lesser(ptr4.pa - seg.a, ptr4.pb - ptr4.pa))

\* The equal elements at both ends are moved to the middle.
Gathered ==
  LET d1 == Lesser(ptr4.pa - seg.a, ptr4.pb - ptr4.pa)
      d2 == Lesser(ptr4.pd - ptr4.pc, Last - ptr4.pd)
  IN BlockSwapped(BlockSwapped(data, seg.a, ptr4.pb - d1, d1),
                  ptr4.pb, Last + 1 - d2, d2)

EndPartition ==
  /\ at = "right" /\ ptr4.pb > ptr4.pc
  /\ data' = Gathered
  /\ LET less == ptr4.pb - ptr4.pa
         greater == ptr4.pd - ptr4.pc
     IN Recurse([a |-> seg.a, n |-> less], [a |-> Last + 1 - greater, n |-> greater])
  /\ UNCHANGED <<sane, ptr4>>

\* No call, or nothing to go on with.
GoOn ==
  /\ at = "return"
  /\ ReturnFrom
  /\ UNCHANGED <<data, sane, ptr4>>

EndSort ==
  /\ at = "done"
  /\ at' = "idle" /\ data' = << >> /\ sane' = TRUE
  /\ seg' = [a |-> 1, n |-> 0] /\ ptr4' = Nowhere /\ scan' = Begin /\ stack' = << >>

SortStep ==
  \/ InsertionStep \/ InsertionEnd \/ PresortedStep \/ PresortedEnd \/ ChoosePivot
  \/ Left \/ LeftEnd \/ Right \/ Exchange \/ EndPartition \/ GoOn \/ EndSort

SortNext == StartSort \/ SortStep

SortSpec == SortInit /\ [][SortNext]_sortVars

\* A sort that has begun goes on.
SortFairness == WF_sortVars(SortStep)

-----------------------------------------------------------------------------
(* Properties. *)

\* Whatever the comparator says, the sort stays inside its segment and the segment
\* in the array.  The pointers of the partition may pass each other by two, when the
\* comparator says of one element that it is greater than the pivot, then less.
InBounds ==
  /\ seg.a >= 1 /\ Last <= Len(data)
  /\ at \in {"left", "right"} =>
       /\ seg.a < ptr4.pa /\ ptr4.pa <= ptr4.pb /\ ptr4.pb <= Last + 1
       /\ seg.a <= ptr4.pc /\ ptr4.pc <= ptr4.pd /\ ptr4.pd <= Last
       /\ ptr4.pb <= ptr4.pc + (IF sane THEN 1 ELSE 2)
  /\ at = "insertion" /\ scan.pm <= Last => scan.pl \in seg.a..scan.pm
  /\ at = "presorted" /\ scan.pm <= Last => scan.pm > seg.a

TwoTo(n) ==
  LET power[k \in 0..n] == IF k = 0 THEN 1 ELSE 2 * power[k - 1] IN power[n]

\* Calls are nested no deeper than the logarithm of the length, whatever the
\* comparator says: a call is for at most half of what its caller sorts.
ShallowRecursion == seg.n * TwoTo(Len(stack)) <= Len(data)

\* With a comparator that is an order, the end is a sorted array.
SortedAtEnd ==
  at = "done" /\ sane => \A i \in 1..Len(data) - 1 : data[i] <= data[i + 1]

\* A sort ends, also with a comparator that contradicts itself.
SortEnds == at # "idle" ~> at = "idle"

=============================================================================
