----------------------------- MODULE WaitQueue ------------------------------
(* What a list of waiting processes promises: a queue in which every process *)
(* is at most once, changed by one operation at a time.                      *)
EXTENDS SequencesExt

CONSTANT Waiters
VARIABLE queue

QueueInit == queue = << >>

PushHead(p) == p \notin Range(queue) /\ queue' = <<p>> \o queue
PushTail(p) == p \notin Range(queue) /\ queue' = Append(queue, p)
Delete(p) == \E i \in DOMAIN queue : queue[i] = p /\ queue' = RemoveAt(queue, i)

QueueNext == \E p \in Waiters : PushHead(p) \/ PushTail(p) \/ Delete(p)

QueueSpec == QueueInit /\ [][QueueNext]_queue

=============================================================================
