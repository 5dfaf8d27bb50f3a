----------------------------- MODULE ListLoops ------------------------------
(***************************************************************************)
(* foreach and its like on a List, an array that its body may change: with *)
(* foreach_delete_current, and by insertions behind the current element.   *)
(* A List that loses its last element is freed and becomes NIL, and what   *)
(* is appended to NIL is another List.                                     *)
(***************************************************************************)
EXTENDS Integers, Sequences

List == INSTANCE SequencesExt

CONSTANT MaxElements    \* a bound on the elements that are ever in the list

ASSUME ListLoopsAssumption == MaxElements \in Nat

VARIABLES elements,     \* the list, or << >> for NIL
          foreachState, \* ForEachState: whether l is NIL, and the index i
          start,        \* the index that the loop starts from
          at_,          \* "test", "body", "deleted" (body without a current element), "over"
          seen,         \* the elements the body has been executed for
          added         \* the elements there have been, which are numbered

listVars == <<elements, foreachState, start, at_, seen, added>>

ListInit ==
  /\ elements = << >> /\ seen = << >> /\ added = 0 /\ start = 0
  /\ foreachState = [nil |-> TRUE, i |-> 0]
  /\ at_ = "over"

\* foreach has N = 0; for_each_from and for_each_cell have another first index.
StartForeach(n, N) ==
  /\ at_ = "over"
  /\ elements' = [k \in 1..n |-> k]
  /\ added' = n /\ start' = N /\ seen' = << >>
  /\ foreachState' = [nil |-> n = 0, i |-> N]
  /\ at_' = "test"

\* The condition of the loop sets the cell.
Test ==
  /\ at_ = "test"
  /\ IF ~foreachState.nil /\ foreachState.i < Len(elements)
     THEN at_' = "body" /\ seen' = Append(seen, elements[foreachState.i + 1])
     ELSE at_' = "over" /\ UNCHANGED seen
  /\ UNCHANGED <<elements, foreachState, start, added>>

\* A variant that does not adjust the index.
DeleteCell ==
  /\ at_ = "body"
  /\ elements' = List!RemoveAt(elements, foreachState.i + 1)
  /\ foreachState' = [foreachState EXCEPT !.nil = elements' = << >>]
  /\ at_' = "deleted"
  /\ UNCHANGED <<start, seen, added>>

foreach_delete_current ==
  /\ at_ = "body"
  /\ elements' = List!RemoveAt(elements, foreachState.i + 1)
  /\ foreachState' = [nil |-> elements' = << >>, i |-> foreachState.i - 1]
  /\ at_' = "deleted"
  /\ UNCHANGED <<start, seen, added>>

\* lappend, list_insert_nth: at an index behind the current element.
InsertBehind(index) ==
  /\ at_ \in {"body", "deleted"}
  /\ added < MaxElements
  /\ index \in (foreachState.i + 1)..Len(elements)
  /\ elements' = List!InsertAt(elements, index + 1, added + 1)
  /\ added' = added + 1
  /\ UNCHANGED <<foreachState, start, at_, seen>>

\* The end of the body.
Increment ==
  /\ at_ \in {"body", "deleted"}
  /\ foreachState' = [foreachState EXCEPT !.i = @ + 1]
  /\ at_' = "test"
  /\ UNCHANGED <<elements, start, seen, added>>

ListNext ==
  \/ \E n, N \in 0..MaxElements : StartForeach(n, N)
  \/ Test
  \/ foreach_delete_current
  \/ \E index \in 0..MaxElements : InsertBehind(index)
  \/ Increment

ListSpec == ListInit /\ [][ListNext]_listVars

-----------------------------------------------------------------------------
\* A loop visits no element twice.  When it is over and has not deleted the last element
\* there was, it has visited all the list from its start, in order, the elements that were
\* inserted behind the current one too and whatever was deleted.  What is appended to a list
\* that the loop has emptied is left out: the code does not visit it.
VisitsEach ==
  /\ \A i, j \in DOMAIN seen : seen[i] = seen[j] => i = j
  /\ at_ = "over" /\ ~foreachState.nil =>
       \A k \in DOMAIN elements :
         /\ (\E i \in DOMAIN seen : seen[i] = elements[k]) <=> k > start
         /\ \A i, j \in DOMAIN seen : \A l \in DOMAIN elements :
              seen[i] = elements[k] /\ seen[j] = elements[l] => (i < j <=> k < l)

=============================================================================
