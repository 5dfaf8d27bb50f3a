------------------------------ MODULE HashSet ------------------------------
(***************************************************************************)
(* What simplehash.h promises its callers: a set of keys, and iterations   *)
(* over it that return every key exactly once, provided that nothing but   *)
(* the key returned last is deleted meanwhile.                             *)
(***************************************************************************)
CONSTANT Keys

VARIABLES set,    \* the keys in the table
          ret,    \* what the last call returned: a key, "yes", "no", "null", "error"
          phase,  \* iteration: "none", "strict", or "loose": no guarantee
          todo,   \* strict iteration: the keys not returned yet
          last    \* the key returned last by the iteration, deletable, or "null"

vars == <<set, ret, phase, todo, last>>

YesNo(b) == IF b THEN "yes" ELSE "no"

Init == set = {} /\ ret = "null" /\ phase = "none" /\ todo = {} /\ last = "null"

\* An iteration under way loses its guarantees.
Loosen == /\ phase' = (IF phase = "none" THEN "none" ELSE "loose")
          /\ todo' = {}
          /\ last' = "null"

Insert(k) ==
  \/ k \in set /\ ret' = "yes" /\ set' = set /\ UNCHANGED <<phase, todo, last>>
  \/ k \notin set /\ ret' = "no" /\ set' = set \cup {k} /\ Loosen
  \/ ret' = "error" /\ set' = set /\ Loosen   \* out of room

\* An insertion may reorganise the table even when the key is present.
InsertMoves(k) == k \in set /\ ret' = "yes" /\ set' = set /\ Loosen

Lookup(k) == ret' = YesNo(k \in set) /\ UNCHANGED <<set, phase, todo, last>>

Delete(k) ==
  /\ ret' = YesNo(k \in set)
  /\ set' = set \ {k}
  /\ IF k = last \/ k \notin set
       THEN UNCHANGED <<phase, todo>> /\ last' = (IF k = last THEN "null" ELSE last)
       ELSE Loosen

Reset == set' = {} /\ ret' = "null" /\ Loosen

Start == /\ phase' = "strict" /\ todo' = set /\ last' = "null" /\ ret' = "null"
         /\ UNCHANGED set

\* The caller chooses where the iteration starts.
StartAnywhere == /\ phase' = "loose" /\ todo' = {} /\ last' = "null" /\ ret' = "null"
                 /\ UNCHANGED set

IterateStrict ==
  /\ phase = "strict"
  /\ \/ \E k \in todo : ret' = k /\ todo' = todo \ {k} /\ last' = k /\ phase' = phase
     \/ todo = {} /\ ret' = "null" /\ phase' = "none" /\ last' = "null" /\ todo' = {}
  /\ UNCHANGED set

IterateLoose ==
  /\ phase = "loose"
  /\ \/ \E k \in set : ret' = k /\ UNCHANGED <<phase, last>>
     \/ ret' = "null" /\ phase' = "none" /\ last' = "null"
  /\ UNCHANGED <<set, todo>>

Next ==
  \/ \E k \in Keys : Insert(k) \/ InsertMoves(k) \/ Lookup(k) \/ Delete(k)
  \/ Reset \/ Start \/ StartAnywhere \/ IterateStrict \/ IterateLoose

Spec == Init /\ [][Next]_vars
=============================================================================
