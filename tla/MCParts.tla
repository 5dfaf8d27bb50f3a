------------------------------ MODULE MCParts -------------------------------
(***************************************************************************)
(* The parts that share no state with another one.  Each behaviour is one  *)
(* of a single part, while the others rest in their initial states.        *)
(***************************************************************************)
EXTENDS PgUpgrade, WaitList, Atomics, TransactionIds, SortTemplate,
        OldPartitions, ErrorHandling, ListLoops

VARIABLE part       \* the part whose behaviour it is

vars == <<part, upgradeVars, waitVars, atomicVars, xidVars, sortVars, oldVars,
          errorVars, listVars>>

MCProcesses == {0, 1, 2}
MCShared == {<<"head", 0>>, <<"tail", 0>>} \cup ({"next", "prev"} \X MCProcesses)

MCHalf == 2
Bit(v, i) == (v \div i) % 2
MCBitAnd(v, w) == Bit(v, 1) * Bit(w, 1) + 2 * Bit(v, 2) * Bit(w, 2)
MCBitOr(v, w) == v + w - MCBitAnd(v, w)
MCCalls ==
  {[op |-> o, arg |-> 1, expected |-> 0] : o \in {"add", "sub", "and"}}
    \cup {[op |-> o, arg |-> 2, expected |-> 0] : o \in {"exchange", "or", "read"}}
    \cup {[op |-> "cas", arg |-> 3, expected |-> 1]}

\* Every order of up to four keys and some of five, longer arrays that the median of
\* nine takes, and comparators that say anything.
MCInputs ==
  [keys : UNION {[1..n -> 1..3] : n \in 0..4} \cup [1..5 -> {1, 2}]
            \cup {d \in [1..9 -> {1, 2}] : d[1] = 2 /\ d[5] = 1 /\ d[9] = 1}, sane : {TRUE}]
    \cup [keys : {[i \in 1..n |-> 0] : n \in 0..6}, sane : {FALSE}]

MCInit ==
  /\ part \in {"upgrade", "wait list", "atomics", "transaction ids", "sort", "old partitions",
               "errors", "list loops"}
  /\ UpgradeInit /\ WaitInit /\ AtomicInit /\ XidInit /\ SortInit /\ OldInit
  /\ ErrorInit /\ ListInit
  /\ \A o \in Objects : oids[o] = 1

MCNext ==
  /\ UNCHANGED part
  /\ \/ /\ part = "upgrade" /\ UpgradeNext
        /\ UNCHANGED <<waitVars, atomicVars, xidVars, sortVars, oldVars, errorVars, listVars>>
     \/ /\ part = "wait list" /\ WaitNext
        /\ UNCHANGED <<upgradeVars, atomicVars, xidVars, sortVars, oldVars, errorVars, listVars>>
     \/ /\ part = "atomics" /\ AtomicNext
        /\ UNCHANGED <<upgradeVars, waitVars, xidVars, sortVars, oldVars, errorVars, listVars>>
     \/ /\ part = "transaction ids" /\ XidNext
        /\ UNCHANGED <<upgradeVars, waitVars, atomicVars, sortVars, oldVars, errorVars, listVars>>
     \/ /\ part = "sort" /\ SortNext
        /\ UNCHANGED <<upgradeVars, waitVars, atomicVars, xidVars, oldVars, errorVars, listVars>>
     \/ /\ part = "old partitions" /\ OldNext
        /\ UNCHANGED <<upgradeVars, waitVars, atomicVars, xidVars, sortVars, errorVars, listVars>>
     \/ /\ part = "errors" /\ ErrorNext
        /\ UNCHANGED <<upgradeVars, waitVars, atomicVars, xidVars, sortVars, oldVars, listVars>>
     \/ /\ part = "list loops" /\ ListNext
        /\ UNCHANGED <<upgradeVars, waitVars, atomicVars, xidVars, sortVars, oldVars, errorVars>>

MCSpec == MCInit /\ [][MCNext]_vars /\ AtomicFairness /\ SortFairness /\ OldFairness
=============================================================================
