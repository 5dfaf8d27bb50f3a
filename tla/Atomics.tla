------------------------------ MODULE Atomics -------------------------------
(***************************************************************************)
(* The 64 bit atomics that are made of a locked compare and exchange, for  *)
(* platforms that promise no more.  There a plain load of 64 bits may meet *)
(* the halves of different values, and the loops start with one.  (With    *)
(* gcc on x86_64 the exchange is such a loop and the rest are single       *)
(* instructions, or plain loads and stores.)                               *)
(*                                                                         *)
(* A flag is a word whose test-and-set is the exchange of 0 for 1.         *)
(***************************************************************************)
EXTENDS Integers

CONSTANTS Callers,
          Calls,    \* [op, arg, expected]
          Half,     \* how many values half a word has
          BitAnd(_, _), BitOr(_, _)

Size == Half * Half
Values == 0..Size - 1

VARIABLES ptr,      \* the word, in memory
          pc, call, old

atomicVars == <<ptr, pc, call, old>>

NoCall == [op |-> "none"]
Ops == {"exchange", "add", "sub", "and", "or", "read", "cas"}

ASSUME AtomicsAssumption ==
  /\ Half \in Nat \ {0, 1}
  /\ Calls \subseteq [op : Ops, arg : Values, expected : Values]

ASSUME BitAssumption ==
  \A v, w \in Values : BitAnd(v, w) \in Values /\ BitOr(v, w) \in Values

\* What the word becomes when the operation c finds v in it.
NewValue(c, v) ==
  CASE c.op = "exchange" -> c.arg
    [] c.op = "add" -> (v + c.arg) % Size
    [] c.op = "sub" -> (v - c.arg) % Size
    [] c.op = "and" -> BitAnd(v, c.arg)
    [] c.op = "or" -> BitOr(v, c.arg)
    [] c.op = "cas" -> IF v = c.expected THEN c.arg ELSE v
    [] OTHER -> v

AtomicInit ==
  /\ ptr = 0
  /\ pc = [p \in Callers |-> "idle"]
  /\ call = [p \in Callers |-> NoCall]
  /\ old = [p \in Callers |-> 0]

\* The loops begin with a load; reading and comparing do not.
Invoke(p, c) ==
  /\ pc[p] = "idle"
  /\ pc' = [pc EXCEPT ![p] = IF c.op \in {"read", "cas"} THEN "once" ELSE "load"]
  /\ call' = [call EXCEPT ![p] = c]
  /\ old' = [old EXCEPT ![p] = IF c.op = "cas" THEN c.expected ELSE 0]
  /\ UNCHANGED ptr

\* old = ptr->value, half by half, 'ok if read is not atomic'.
LoadLow(p) ==
  /\ pc[p] = "load"
  /\ old' = [old EXCEPT ![p] = ptr % Half]
  /\ pc' = [pc EXCEPT ![p] = "high"]
  /\ UNCHANGED <<ptr, call>>

LoadHigh(p) ==
  /\ pc[p] = "high"
  /\ old' = [old EXCEPT ![p] = @ + Half * (ptr \div Half)]
  /\ pc' = [pc EXCEPT ![p] = "loop"]
  /\ UNCHANGED <<ptr, call>>

\* A variant that leaves *expected alone.
CompareExchangeOnly(p, new) ==
  ptr' = (IF ptr = old[p] THEN new ELSE ptr) /\ UNCHANGED old

\* pg_atomic_compare_exchange_u64_impl(ptr, &old, new): a locked instruction.
CompareExchange(p, new) ==
  /\ ptr' = IF ptr = old[p] THEN new ELSE ptr
  /\ old' = [old EXCEPT ![p] = ptr]

\* A variant that goes on when the exchange failed.
TryOnce(p) ==
  /\ pc[p] = "loop"
  /\ CompareExchange(p, NewValue(call[p], old[p]))
  /\ pc' = [pc EXCEPT ![p] = "done"]
  /\ UNCHANGED call

\* while (!pg_atomic_compare_exchange_u64_impl(ptr, &old, ...))
TryExchange(p) ==
  /\ pc[p] = "loop"
  /\ CompareExchange(p, NewValue(call[p], old[p]))
  /\ pc' = [pc EXCEPT ![p] = IF ptr = old[p] THEN "done" ELSE "loop"]
  /\ UNCHANGED call

\* A read exchanges 0 for 0, so that it fails or stores what is there.
ExchangeOnce(p) ==
  /\ pc[p] = "once"
  /\ CompareExchange(p, IF call[p].op = "read" THEN 0 ELSE call[p].arg)
  /\ pc' = [pc EXCEPT ![p] = "done"]
  /\ UNCHANGED call

Return(p) ==
  /\ pc[p] = "done"
  /\ pc' = [pc EXCEPT ![p] = "idle"]
  /\ call' = [call EXCEPT ![p] = NoCall]
  /\ old' = [old EXCEPT ![p] = 0]
  /\ UNCHANGED ptr

AtomicStep(p) == LoadLow(p) \/ LoadHigh(p) \/ TryExchange(p) \/ ExchangeOnce(p) \/ Return(p)

AtomicNext == \E p \in Callers : AtomicStep(p) \/ \E c \in Calls : Invoke(p, c)

AtomicSpec == AtomicInit /\ [][AtomicNext]_atomicVars

\* A process that is in an operation goes on with it.
AtomicFairness == \A p \in Callers : WF_atomicVars(AtomicStep(p))

-----------------------------------------------------------------------------
(* Properties. *)

AtomicTypeOK ==
  /\ ptr \in Values
  /\ pc \in [Callers -> {"idle", "load", "high", "loop", "once", "done"}]
  /\ call \in [Callers -> Calls \cup {NoCall}]
  /\ old \in [Callers -> Values]
  /\ \A p \in Callers : /\ pc[p] = "high" => old[p] < Half
                        /\ pc[p] # "idle" => call[p] \in Calls

Word == INSTANCE AtomicWord WITH
          word <- ptr, pending <- call,
          found <- [p \in Callers |-> [value |-> IF pc[p] = "done" THEN old[p] ELSE 0,
                                       is |-> pc[p] = "done"]]

\* Every operation of the implementation has the effect of the atomic one, also
\* after a torn load and when others got in between: no addition is lost, and a
\* read never changes the word.
ImplementsWord == Word!WordSpec

\* Some operation always ends, whatever the others do: one that has to try again
\* does so because another one did not.
LockFree ==
  \/ []<><<\E p \in Callers : Return(p)>>_atomicVars
  \/ <>[](\A p \in Callers : pc[p] = "idle")

=============================================================================
