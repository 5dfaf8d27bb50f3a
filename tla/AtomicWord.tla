----------------------------- MODULE AtomicWord -----------------------------
(* What the operations of port/atomics.h promise: each takes effect at one   *)
(* instant between its call and its return, and returns the value that it    *)
(* found.                                                                    *)
EXTENDS Naturals

CONSTANTS Callers, Calls, NewValue(_, _)
VARIABLES word, pending, found

wordVars == <<word, pending, found>>

NoCall == [op |-> "none"]
Nothing == [value |-> 0, is |-> FALSE]
Found(v) == [value |-> v, is |-> TRUE]

WordInit ==
  /\ word = 0
  /\ pending = [p \in Callers |-> NoCall]
  /\ found = [p \in Callers |-> Nothing]

Call(p, c) ==
  /\ pending[p] = NoCall
  /\ pending' = [pending EXCEPT ![p] = c]
  /\ UNCHANGED <<word, found>>

Apply(p) ==
  /\ pending[p] # NoCall /\ found[p] = Nothing
  /\ word' = NewValue(pending[p], word)
  /\ found' = [found EXCEPT ![p] = Found(word)]
  /\ UNCHANGED pending

Return(p) ==
  /\ found[p] # Nothing
  /\ pending' = [pending EXCEPT ![p] = NoCall]
  /\ found' = [found EXCEPT ![p] = Nothing]
  /\ UNCHANGED word

WordNext == \E p \in Callers : (\E c \in Calls : Call(p, c)) \/ Apply(p) \/ Return(p)

WordSpec == WordInit /\ [][WordNext]_wordVars

=============================================================================
