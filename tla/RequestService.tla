--------------------------- MODULE RequestService ---------------------------
(***************************************************************************)
(* What a virtio-fs device promises its driver: requests of a queue are    *)
(* answered once each, in the order they were made, and all of them in the *)
(* end.  No ring, notification or worker is visible here.                  *)
(***************************************************************************)
EXTENDS Naturals

CONSTANTS Queues, QueueSize, MaxRequests

VARIABLES submitted, answered   \* queue |-> how many requests so far

svars == <<submitted, answered>>

Init == submitted = [q \in Queues |-> 0] /\ answered = [q \in Queues |-> 0]

Submit(q) ==
    /\ submitted[q] < MaxRequests
    /\ submitted[q] - answered[q] < QueueSize
    /\ submitted' = [submitted EXCEPT ![q] = @ + 1]
    /\ UNCHANGED answered

\* Some of the outstanding requests, the oldest first.
Answer(q) ==
    /\ \E n \in (answered[q] + 1) .. submitted[q] : answered' = [answered EXCEPT ![q] = n]
    /\ UNCHANGED submitted

Next == \E q \in Queues : Submit(q) \/ Answer(q)

Safety == Init /\ [][Next]_svars

Spec == Safety /\ \A q \in Queues : WF_svars(Answer(q))

=============================================================================
