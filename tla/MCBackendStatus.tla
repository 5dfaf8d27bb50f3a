-------------------------- MODULE MCBackendStatus --------------------------
(* BackendStatus on a small instance, and its fair specification. *)
EXTENDS BackendStatus

CONSTANT MaxSeq     \* even bound on st_changecount: the last update ends there

MCInitial == [f \in Fields |-> 0]

\* Next, with the bound and without stores that change nothing.
MCNext ==
  \/ seq < MaxSeq /\ BeginWrite
  \/ EndWrite
  \/ Error
  \/ \E f \in Fields, v \in Values : cur[f] # v /\ StoreField(f, v)
  \/ \E p \in pendField : DrainField(p)
  \/ \E c \in pendCount : DrainCount(c)
  \/ \E r \in Readers :
       \/ StartRead(r)
       \/ LoadBefore(r)
       \/ LoadField(r)
       \/ LoadAfter(r)
       \/ FinishRead(r)
       \/ Interrupted(r)

MCSpec == Init /\ [][MCNext]_vars

MCFairSpec == MCSpec /\ Fairness
=============================================================================
