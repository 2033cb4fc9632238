-------------------------- MODULE VhostQueueProofs --------------------------
(* Proofs about the worker and the driver of module VhostQueue, for any    *)
(* queues, ring sizes, index widths and numbers of requests: what is       *)
(* returned and in which order, that no wake-up is lost on either side,    *)
(* and that the two implement the safety part of RequestService.           *)
EXTENDS VhostQueue, TLAPS

QueueTypes ==
    /\ avail \in [Queues -> Nat]
    /\ next_avail \in [Queues -> Nat]
    /\ used \in [Queues -> Seq(Nat)]
    /\ worker \in [pc : PCs, queue : Queues, batch : Seq(Nat)]

\* In the order of their numbers, among the first n, and in the first case all of them.
Increasing(s) == \A i, j \in 1 .. Len(s) : i < j => s[i] < s[j]
UpTo(s, n) == \A i \in 1 .. Len(s) : s[i] \in 1 .. n
Numbered(s) == \A i \in 1 .. Len(s) : s[i] = i

\* On the queue the worker is at, the batch is the last of what was taken, and what
\* is returned was taken before it; unless add_used fails the two are together what
\* was taken, and on the other queues everything taken is returned.
BatchFollows ==
    LET q == worker.queue
    IN  /\ Len(worker.batch) <= next_avail[q]
        /\ \A i \in 1 .. Len(worker.batch) :
             worker.batch[i] = next_avail[q] - Len(worker.batch) + i
        /\ UpTo(used[q], next_avail[q] - Len(worker.batch))
        /\ worker.pc \in {"idle", "collect", "enable", "recheck"} => worker.batch = <<>>
        /\ MayDrop \/ /\ Len(used[q]) + Len(worker.batch) = next_avail[q]
                      /\ \A p \in Queues \ {q} : Len(used[p]) = next_avail[p]

OrderInv ==
    /\ QueueTypes
    /\ \A q \in Queues : next_avail[q] <= avail[q]
    /\ \A q \in Queues : UpTo(used[q], next_avail[q]) /\ Increasing(used[q])
    /\ MayDrop \/ \A q \in Queues : Numbered(used[q])
    /\ worker.pc # "dead" => BatchFollows

LEMMA SameOrder ==
    ASSUME OrderInv, UNCHANGED <<next_avail, used, worker>>, avail' \in [Queues -> Nat],
           \A q \in Queues : avail[q] <= avail'[q]
    PROVE  OrderInv'
  BY DEF OrderInv, QueueTypes, BatchFollows, Numbered, UpTo, Increasing

LEMMA DriverStep ==
    ASSUME OrderInv, NEW q \in Queues,
           \/ Publish(q) \/ Kick(q) \/ Interrupt(q) \/ Reap(q) \/ Rearm(q) \/ LookAgain(q)
    PROVE  OrderInv'
  <1>1. UNCHANGED <<next_avail, used, worker>>
    BY DEF Publish, Kick, Interrupt, Reap, Rearm, LookAgain, device
  <1>2. avail' \in [Queues -> Nat] /\ \A p \in Queues : avail[p] <= avail'[p]
    <2>1. avail' = avail \/ avail' = [avail EXCEPT ![q] = @ + 1]
      BY DEF Publish, Kick, Interrupt, Reap, Rearm, LookAgain
    <2>2. avail \in [Queues -> Nat]
      BY DEF OrderInv, QueueTypes
    <2>3. CASE avail' = avail
      BY <2>2, <2>3
    <2>4. CASE avail' = [avail EXCEPT ![q] = @ + 1]
      <3>1. ASSUME NEW p \in Queues PROVE avail[p] <= avail'[p]
        BY <2>2, <2>4
      <3> QED
        BY <2>2, <2>4, <3>1
    <2> QED
      BY <2>1, <2>3, <2>4
  <1> QED
    BY <1>1, <1>2, SameOrder

\* A step of the worker that leaves its queue, its batch and the rings alone.
LEMMA PcStep ==
    ASSUME OrderInv, worker.pc # "dead", UNCHANGED <<avail, next_avail, used>>,
           NEW pc \in PCs, worker' = [worker EXCEPT !.pc = pc],
           worker.batch = <<>> \/ pc \in {"handle", "notify", "warned", "dead"}
    PROVE  OrderInv'
  <1>1. /\ worker' \in [pc : PCs, queue : Queues, batch : Seq(Nat)]
        /\ worker'.pc = pc /\ worker'.queue = worker.queue /\ worker'.batch = worker.batch
    BY DEF OrderInv, QueueTypes
  <1>2. BatchFollows'
    BY <1>1 DEF OrderInv, BatchFollows, UpTo
  <1> QED
    BY <1>1, <1>2 DEF OrderInv, QueueTypes

LEMMA HandleEventStep ==
    ASSUME OrderInv, NEW q \in Queues, HandleEvent(q)
    PROVE  OrderInv'
  <1>1. /\ worker.pc = "idle" /\ UNCHANGED <<avail, next_avail, used>>
        /\ worker' = [pc |-> "collect", queue |-> q, batch |-> <<>>]
    BY DEF HandleEvent, driver
  <1>2. worker' \in [pc : PCs, queue : Queues, batch : Seq(Nat)]
    BY <1>1 DEF PCs
  <1>3. next_avail[q] \in Nat /\ UpTo(used[q], next_avail[q])
    BY DEF OrderInv, QueueTypes
  <1>4. MayDrop \/ \A p \in Queues : Len(used[p]) = next_avail[p]
    BY <1>1 DEF OrderInv, BatchFollows, QueueTypes
  <1>5. MayDrop \/ Len(used[q]) + 0 = next_avail[q]
    BY <1>3, <1>4
  <1>6. next_avail[q] - 0 = next_avail[q]
    BY <1>3
  <1>7. BatchFollows'
    BY <1>1, <1>3, <1>4, <1>5, <1>6 DEF BatchFollows
  <1> QED
    BY <1>1, <1>2, <1>7 DEF OrderInv, QueueTypes

LEMMA UpToMore ==
    ASSUME NEW s \in Seq(Nat), NEW m \in Nat, NEW n \in Nat, m <= n, UpTo(s, m)
    PROVE  UpTo(s, n)
  BY DEF UpTo

LEMMA CollectStep ==
    ASSUME OrderInv, CollectChains
    PROVE  OrderInv'
  <1> DEFINE q == worker.queue
             n == avail[q] - next_avail[q]
             batch == [i \in 1 .. n |-> next_avail[q] + i]
  <1>1. /\ worker.pc = "collect" /\ UNCHANGED <<avail, used>>
        /\ next_avail' = [next_avail EXCEPT ![q] = avail[q]]
        /\ worker' = [worker EXCEPT !.pc = "handle", !.batch = batch]
    BY DEF CollectChains, Taken, driver
  <1>2. /\ q \in Queues /\ n \in Nat /\ next_avail[q] \in Nat /\ avail[q] \in Nat
        /\ next_avail[q] <= avail[q] /\ used[q] \in Seq(Nat)
    BY DEF OrderInv, QueueTypes
  <1>3. batch \in Seq(Nat) /\ Len(batch) = n /\ \A i \in 1 .. n : batch[i] = next_avail[q] + i
    BY <1>2
  <1>4. MayDrop \/ (Len(used[q]) = next_avail[q] /\ \A p \in Queues \ {q} : Len(used[p]) = next_avail[p])
    BY <1>1, <1>2 DEF OrderInv, BatchFollows, QueueTypes
  <1> HIDE DEF batch
  <1>5. /\ worker' \in [pc : PCs, queue : Queues, batch : Seq(Nat)]
        /\ worker'.pc = "handle" /\ worker'.queue = q /\ worker'.batch = batch
    BY <1>1, <1>3 DEF OrderInv, QueueTypes, PCs
  <1>6. /\ next_avail' \in [Queues -> Nat] /\ next_avail'[q] = avail[q]
        /\ \A p \in Queues \ {q} : next_avail'[p] = next_avail[p]
    BY <1>1, <1>2 DEF OrderInv, QueueTypes
  <1>7. n = avail[q] - next_avail[q] /\ avail[q] - n = next_avail[q]
    BY <1>2
  <1>8. BatchFollows'
    <2> HIDE DEF n
    <2>1. Len(batch) <= next_avail'[q]
      BY <1>2, <1>3, <1>6, <1>7
    <2>2. \A i \in 1 .. Len(batch) : batch[i] = next_avail'[q] - Len(batch) + i
      BY <1>2, <1>3, <1>6, <1>7
    <2>3. UpTo(used[q], next_avail'[q] - Len(batch))
      BY <1>2, <1>3, <1>6, <1>7 DEF OrderInv
    <2>4. MayDrop \/ Len(used[q]) + Len(batch) = next_avail'[q]
      BY <1>2, <1>3, <1>4, <1>6, <1>7
    <2>5. MayDrop \/ \A p \in Queues \ {q} : Len(used[p]) = next_avail'[p]
      BY <1>4, <1>6
    <2> HIDE DEF q
    <2> QED
      BY <1>1, <1>5, <2>1, <2>2, <2>3, <2>4, <2>5 DEF BatchFollows
  <1>9. ASSUME NEW p \in Queues PROVE next_avail'[p] <= avail[p] /\ UpTo(used[p], next_avail'[p])
    <2>1. CASE p = q
      BY <1>2, <1>6, <2>1, UpToMore DEF OrderInv
    <2>2. CASE p # q
      BY <1>6, <2>2 DEF OrderInv
    <2> QED
      BY <2>1, <2>2
  <1> QED
    BY <1>1, <1>5, <1>6, <1>8, <1>9 DEF OrderInv, QueueTypes

\* A request appended behind smaller ones.
LEMMA AppendLarger ==
    ASSUME NEW s \in Seq(Nat), NEW m \in Nat, UpTo(s, m), Increasing(s)
    PROVE  /\ UpTo(Append(s, m + 1), m + 1)
           /\ Increasing(Append(s, m + 1))
           /\ Numbered(s) /\ Len(s) = m => Numbered(Append(s, m + 1))
  <1> DEFINE t == Append(s, m + 1)
  <1>1. /\ Len(s) \in Nat /\ Len(t) = Len(s) + 1
        /\ \A i \in 1 .. Len(s) : t[i] = s[i] /\ s[i] \in 1 .. m
        /\ t[Len(s) + 1] = m + 1
    BY DEF UpTo
  <1>2. \A i \in 1 .. (Len(s) + 1) : i \in 1 .. Len(s) \/ i = Len(s) + 1
    BY <1>1
  <1> HIDE DEF t
  <1>3. UpTo(t, m + 1)
    BY <1>1, <1>2 DEF UpTo
  <1>4. ASSUME NEW i \in 1 .. Len(t), NEW j \in 1 .. Len(t), i < j PROVE t[i] < t[j]
    <2>1. i \in 1 .. Len(s) /\ t[i] = s[i] /\ s[i] <= m
      BY <1>1, <1>2, <1>4
    <2>2. CASE j \in 1 .. Len(s)
      BY <1>1, <1>4, <2>1, <2>2 DEF Increasing
    <2>3. CASE j = Len(s) + 1
      BY <1>1, <2>1, <2>3
    <2> QED
      BY <1>1, <1>2, <2>2, <2>3
  <1>5. ASSUME Numbered(s), Len(s) = m PROVE Numbered(t)
    BY <1>1, <1>2, <1>5 DEF Numbered
  <1> QED
    BY <1>3, <1>4, <1>5 DEF Increasing, t

LEMMA MessageStep ==
    ASSUME OrderInv, HandleMessage
    PROVE  OrderInv'
  <1> DEFINE q == worker.queue
             batch == worker.batch
             m == next_avail[q] - Len(batch)
  <1>1. worker.pc = "handle" /\ batch # <<>> /\ UNCHANGED <<avail, next_avail>>
    BY DEF HandleMessage, driver
  <1>2. /\ q \in Queues /\ batch \in Seq(Nat) /\ used[q] \in Seq(Nat) /\ next_avail[q] \in Nat
        /\ UpTo(used[q], next_avail[q]) /\ Increasing(used[q])
    BY DEF OrderInv, QueueTypes
  <1>3. /\ Head(batch) = batch[1] /\ Head(batch) \in Nat /\ Tail(batch) \in Seq(Nat)
        /\ Len(batch) \in Nat /\ Len(batch) >= 1 /\ Len(Tail(batch)) = Len(batch) - 1
        /\ \A i \in 1 .. (Len(batch) - 1) : Tail(batch)[i] = batch[i + 1]
    BY <1>1, <1>2
  <1>4. /\ Len(batch) <= next_avail[q]
        /\ \A i \in 1 .. Len(batch) : batch[i] = m + i
        /\ UpTo(used[q], m)
        /\ MayDrop \/ (Len(used[q]) + Len(batch) = next_avail[q]
                       /\ \A p \in Queues \ {q} : Len(used[p]) = next_avail[p])
    BY <1>1 DEF OrderInv, BatchFollows
  <1>5. /\ m \in Nat /\ m + 1 <= next_avail[q] /\ m + 1 = next_avail[q] - Len(Tail(batch))
        /\ Len(Tail(batch)) <= next_avail[q] /\ Head(batch) = m + 1
        /\ \A i \in 1 .. Len(Tail(batch)) : Tail(batch)[i] = next_avail[q] - Len(Tail(batch)) + i
    <2>1. m \in Nat /\ m + 1 <= next_avail[q] /\ m = next_avail[q] - Len(batch)
      BY <1>2, <1>3, <1>4
    <2> HIDE DEF q, batch, m
    <2>2. /\ m + 1 = next_avail[q] - Len(Tail(batch)) /\ Len(Tail(batch)) <= next_avail[q]
          /\ Head(batch) = m + 1
      BY <1>2, <1>3, <1>4, <2>1
    <2>3. ASSUME NEW i \in 1 .. Len(Tail(batch)) PROVE Tail(batch)[i] = (m + 1) + i
      <3>1. i \in 1 .. (Len(batch) - 1) /\ i + 1 \in 1 .. Len(batch)
        BY <1>3, <2>3
      <3>2. Tail(batch)[i] = m + (i + 1)
        BY <1>3, <1>4, <3>1
      <3> QED
        BY <2>1, <3>1, <3>2
    <2> QED
      BY <2>1, <2>2, <2>3
  <1> HIDE DEF q, batch, m
  <1>6. CASE /\ used' = [used EXCEPT ![q] = Append(used[q], Head(batch))]
             /\ worker' = [worker EXCEPT !.pc = "notify", !.batch = Tail(batch)]
    <2>1. /\ used' \in [Queues -> Seq(Nat)]
          /\ used'[q] = Append(used[q], m + 1)
          /\ \A p \in Queues \ {q} : used'[p] = used[p]
      BY <1>2, <1>3, <1>5, <1>6 DEF OrderInv, QueueTypes
    <2>2. /\ worker' \in [pc : PCs, queue : Queues, batch : Seq(Nat)]
          /\ worker'.pc = "notify" /\ worker'.queue = q /\ worker'.batch = Tail(batch)
      BY <1>3, <1>6 DEF OrderInv, QueueTypes, PCs, q
    <2>3. UpTo(used'[q], m + 1) /\ Increasing(used'[q]) /\ Len(used'[q]) = Len(used[q]) + 1
      BY <1>2, <1>4, <1>5, <2>1, AppendLarger
    <2>4. MayDrop \/ Len(used[q]) = m
      BY <1>2, <1>3, <1>4 DEF m
    <2>5. MayDrop \/ Numbered(used'[q])
      BY <1>2, <1>4, <1>5, <2>1, <2>4, AppendLarger DEF OrderInv
    <2>6. MayDrop \/ (Len(used'[q]) + Len(Tail(batch)) = next_avail[q]
                      /\ \A p \in Queues \ {q} : Len(used'[p]) = next_avail[p])
      <3>1. Len(used[q]) \in Nat
        BY <1>2
      <3>2. MayDrop \/ Len(used'[q]) + Len(Tail(batch)) = next_avail[q]
        BY <1>2, <1>3, <1>4, <2>3, <3>1
      <3> QED
        BY <1>4, <2>1, <3>2
    <2>7. BatchFollows'
      BY <1>1, <1>5, <2>2, <2>3, <2>6 DEF BatchFollows
    <2>8. ASSUME NEW p \in Queues PROVE UpTo(used'[p], next_avail[p]) /\ Increasing(used'[p])
      <3>1. CASE p = q
        <4>1. used'[q] \in Seq(Nat) /\ m + 1 \in Nat
          BY <1>2, <1>5, <2>1
        <4>2. UpTo(used'[q], next_avail[q])
          BY <1>2, <1>5, <2>3, <4>1, UpToMore
        <4> QED
          BY <2>3, <3>1, <4>2
      <3>2. CASE p # q
        BY <2>1, <3>2 DEF OrderInv
      <3> QED
        BY <3>1, <3>2
    <2>9. MayDrop \/ \A p \in Queues : Numbered(used'[p])
      BY <2>1, <2>5 DEF OrderInv
    <2> QED
      BY <1>1, <2>1, <2>2, <2>7, <2>8, <2>9 DEF OrderInv, QueueTypes
  <1>7. CASE /\ MayDrop /\ used' = used
             /\ worker' = [worker EXCEPT !.pc = "warned", !.batch = Tail(batch)]
    <2>1. /\ worker' \in [pc : PCs, queue : Queues, batch : Seq(Nat)]
          /\ worker'.pc = "warned" /\ worker'.queue = q /\ worker'.batch = Tail(batch)
      BY <1>3, <1>7 DEF OrderInv, QueueTypes, PCs, q
    <2>2. UpTo(used[q], next_avail[q] - Len(Tail(batch)))
      BY <1>2, <1>4, <1>5, UpToMore
    <2>3. BatchFollows'
      BY <1>1, <1>5, <1>7, <2>1, <2>2 DEF BatchFollows
    <2> QED
      BY <1>1, <1>7, <2>1, <2>3 DEF OrderInv, QueueTypes
  <1> QED
    BY <1>6, <1>7 DEF HandleMessage, q, batch

LEMMA QueueStep ==
    ASSUME OrderInv, [QueueNext]_qvars
    PROVE  OrderInv'
  <1>1. CASE UNCHANGED qvars
    BY <1>1, SameOrder DEF qvars, OrderInv, QueueTypes
  <1>2. ASSUME NEW q \in Queues,
               \/ Publish(q) \/ Kick(q) \/ Interrupt(q) \/ Reap(q) \/ Rearm(q) \/ LookAgain(q)
        PROVE  OrderInv'
    BY <1>2, DriverStep
  <1>3. ASSUME NEW q \in Queues, HandleEvent(q) PROVE OrderInv'
    BY <1>3, HandleEventStep
  <1>4. CASE CollectChains
    BY <1>4, CollectStep
  <1>5. CASE HandleMessage
    BY <1>5, MessageStep
  <1>6. CASE SignalUsed
    BY <1>6, PcStep DEF SignalUsed, driver, PCs
  <1>7. CASE EndBatch
    BY <1>7, PcStep DEF EndBatch, driver, PCs
  <1>8. CASE EnableNotification
    BY <1>8, PcStep DEF EnableNotification, driver, PCs, OrderInv, BatchFollows
  <1>9. CASE Recheck
    BY <1>9, PcStep DEF Recheck, driver, PCs, OrderInv, BatchFollows
  <1>10. CASE WorkerDies
    BY <1>10, PcStep DEF WorkerDies, driver, PCs
  <1> QED
    BY <1>1, <1>2, <1>3, <1>4, <1>5, <1>6, <1>7, <1>8, <1>9, <1>10 DEF QueueNext, WorkerStep

LEMMA QueueStart == QueueInit => OrderInv
  <1> SUFFICES ASSUME QueueInit PROVE OrderInv
    OBVIOUS
  <1>1. worker \in [pc : PCs, queue : Queues, batch : Seq(Nat)] /\ worker.batch = <<>>
    <2>1. PICK r \in [pc : {"idle"}, queue : Queues, batch : {<<>>}] : worker = r
      BY DEF QueueInit
    <2>2. r = [pc |-> r.pc, queue |-> r.queue, batch |-> r.batch]
      OBVIOUS
    <2>3. r.pc \in PCs /\ r.queue \in Queues /\ r.batch = <<>>
      BY DEF PCs
    <2>4. <<>> \in Seq(Nat)
      OBVIOUS
    <2> QED
      BY <2>1, <2>2, <2>3, <2>4
  <1>2. \A q \in Queues : avail[q] = 0 /\ next_avail[q] = 0 /\ used[q] = <<>>
    BY DEF QueueInit
  <1>3. QueueTypes
    BY <1>1 DEF QueueInit, QueueTypes
  <1>4. BatchFollows
    BY <1>1, <1>2 DEF BatchFollows, UpTo
  <1> QED
    BY <1>2, <1>3, <1>4 DEF OrderInv, Numbered, UpTo, Increasing

(* Whatever the driver does and wherever the worker dies, each request is returned
   at most once, in order, and never before it was made available; only a failing
   add_used leaves one out. *)
THEOREM ReturnedOnce == QueueSpec => []ReturnedInOrder
  <1>1. OrderInv => ReturnedInOrder
    BY DEF OrderInv, Numbered, UpTo, Increasing, ReturnedInOrder
  <1> QED
    BY <1>1, QueueStart, QueueStep, PTL DEF QueueSpec

-----------------------------------------------------------------------------
(* Counters and wake-ups.                                                  *)

RingTypes ==
    /\ event_idx \in BOOLEAN
    /\ checked \in [Queues -> Nat] /\ reaped \in [Queues -> Nat]
    /\ kick \in [Queues -> BOOLEAN] /\ call \in [Queues -> BOOLEAN]
    /\ avail_event \in [Queues -> 0 .. (IndexMod - 1)]
    /\ used_event \in [Queues -> 0 .. (IndexMod - 1)]
    /\ irq \in [Queues -> {"idle", "reap", "rearm", "recheck"}]

\* The driver decides one kick per request, and sees no more than was returned, which
\* with the rest of the batch is no more than was taken.
CountsInv ==
    /\ \A q \in Queues :
         /\ checked[q] <= avail[q] /\ avail[q] <= checked[q] + 1 /\ avail[q] <= MaxRequests
         /\ reaped[q] <= Len(used[q]) /\ Len(used[q]) <= next_avail[q]
    /\ worker.pc # "dead" =>
         Len(used[worker.queue]) + Len(worker.batch) <= next_avail[worker.queue]
    /\ \A i \in 1 .. Len(worker.batch) : worker.batch[i] \in 1 .. MaxRequests

\* The worker will look at the ring of q again before it rests, or is dead on it.
Attended(q) ==
    worker.queue = q /\ IF event_idx THEN worker.pc # "idle" ELSE worker.pc \in {"collect", "dead"}

\* The worker asks to be kicked for the request after the last it took, and what it
\* did not take it is kicked for, or the driver is yet to decide that.
KickInv ==
    \A q \in Queues :
        /\ event_idx /\ (worker.queue # q \/ worker.pc \in {"idle", "recheck"}) =>
             avail_event[q] = RingIndex(next_avail[q])
        /\ Attended(q) \/ kick[q] \/ next_avail[q] \in {checked[q], avail[q]}

\* The driver that waits asks to be signalled for the entry after the last it saw,
\* and there is none, or it is signalled, or the worker is about to do it, or dead.
InterruptInv ==
    \A q \in Queues :
        /\ event_idx /\ irq[q] \in {"idle", "recheck"} => used_event[q] = RingIndex(reaped[q])
        /\ irq[q] = "idle" =>
             \/ call[q] \/ reaped[q] = Len(used[q])
             \/ worker.queue = q /\ worker.pc = "dead"
             \/ worker.queue = q /\ worker.pc = "notify" /\ Len(used[q]) = reaped[q] + 1

WakeInv == RingTypes /\ CountsInv /\ KickInv /\ InterruptInv


LEMMA Remainders ==
    /\ IndexMod \in Nat \ {0, 1} /\ QueueSize \in Nat \ {0} /\ MaxRequests \in Nat \ {0}
    /\ \A n \in Nat : RingIndex(n) \in 0 .. (IndexMod - 1)
    /\ \A n \in Nat : (n - RingIndex(n)) % IndexMod = 0
    /\ 1 % IndexMod = 1
  <1>1. /\ IndexMod \in Nat \ {0, 1} /\ QueueSize \in Nat \ {0} /\ MaxRequests \in Nat \ {0}
    BY QueueAssumption
  <1>2. ASSUME NEW n \in Nat
        PROVE  n % IndexMod \in 0 .. (IndexMod - 1) /\ (n - (n % IndexMod)) % IndexMod = 0
    <2>1. n % IndexMod \in 0 .. (IndexMod - 1) /\ n = IndexMod * (n \div IndexMod) + (n % IndexMod)
          /\ n \div IndexMod \in Int
      BY <1>1
    <2> DEFINE m == n - (n % IndexMod)
               r == m % IndexMod
               d == (n \div IndexMod) - (m \div IndexMod)
    <2>2. m \in Int
      BY <2>1
    <2> HIDE DEF m
    <2>3. r \in 0 .. (IndexMod - 1) /\ m = IndexMod * (m \div IndexMod) + r /\ m \div IndexMod \in Int
      BY <1>1, <2>2
    <2>4. d \in Int /\ IndexMod * d = r
      BY <1>1, <2>1, <2>3 DEF m
    <2> HIDE DEF r, d
    <2>5. \A k \in Int : k >= 1 => IndexMod * k >= IndexMod
      BY <1>1
    <2>6. \A k \in Int : k <= -1 => IndexMod * k <= -1
      BY <1>1
    <2>7. d = 0
      BY <1>1, <2>3, <2>4, <2>5, <2>6
    <2>8. r = 0
      BY <1>1, <2>4, <2>7
    <2> QED
      BY <2>1, <2>8 DEF m, r
  <1>3. 1 % IndexMod = 1
    BY <1>1
  <1> QED
    <2>1. \A n \in Nat : RingIndex(n) = n % IndexMod
      BY DEF RingIndex
    <2> QED
      BY <1>1, <1>2, <1>3, <2>1

\* A side that asked to be told of the entry after the first n is told of it.
LEMMA NextEntryTold ==
    ASSUME NEW n \in Nat
    PROVE  NeedEvent(RingIndex(n), n + 1, n)
  <1>1. RingIndex(n) \in Int /\ (n - RingIndex(n)) % IndexMod = 0 /\ 1 % IndexMod = 1
    BY Remainders
  <1>2. (n + 1) - RingIndex(n) - 1 = n - RingIndex(n) /\ (n + 1) - n = 1
    BY <1>1
  <1> QED
    BY <1>1, <1>2 DEF NeedEvent

\* What OrderInv says of the types of one queue.
LEMMA QueueNumbers ==
    ASSUME OrderInv
    PROVE  /\ \A q \in Queues : avail[q] \in Nat /\ next_avail[q] \in Nat /\ next_avail[q] <= avail[q]
           /\ \A q \in Queues : used[q] \in Seq(Nat) /\ Len(used[q]) \in Nat
           /\ worker \in [pc : PCs, queue : Queues, batch : Seq(Nat)] /\ worker.queue \in Queues
           /\ worker.batch \in Seq(Nat) /\ Len(worker.batch) \in Nat
  BY DEF OrderInv, QueueTypes

LEMMA QueueCounts ==
    ASSUME OrderInv, WakeInv, NEW q \in Queues
    PROVE  /\ avail[q] \in Nat /\ checked[q] \in Nat /\ reaped[q] \in Nat
           /\ checked[q] <= avail[q] /\ avail[q] <= checked[q] + 1 /\ avail[q] <= MaxRequests
           /\ reaped[q] <= Len(used[q]) /\ Len(used[q]) <= next_avail[q]
  BY DEF OrderInv, QueueTypes, WakeInv, RingTypes, CountsInv

LEMMA PublishWakes ==
    ASSUME OrderInv, WakeInv, NEW q \in Queues, Publish(q)
    PROVE  WakeInv'
  <1>1. /\ avail' = [avail EXCEPT ![q] = avail[q] + 1] /\ avail[q] < MaxRequests /\ checked[q] = avail[q]
        /\ UNCHANGED <<event_idx, checked, kick, avail_event, next_avail, used, call, used_event, reaped,
                       irq, worker>>
    BY DEF Publish, device
  <1>2. avail'[q] = avail[q] + 1 /\ \A p \in Queues \ {q} : avail'[p] = avail[p]
    BY <1>1 DEF OrderInv, QueueTypes
  <1>3. RingTypes'
    BY <1>1 DEF WakeInv, RingTypes
  <1>4. CountsInv'
    <2>1. ASSUME NEW p \in Queues
          PROVE  checked[p] <= avail'[p] /\ avail'[p] <= checked[p] + 1 /\ avail'[p] <= MaxRequests
      <3>1. /\ avail[p] \in Nat /\ checked[p] \in Nat /\ checked[p] <= avail[p]
            /\ avail[p] <= checked[p] + 1 /\ avail[p] <= MaxRequests
        BY QueueCounts
      <3>2. CASE p = q
        BY <1>1, <1>2, <3>1, <3>2, Remainders
      <3>3. CASE p # q
        BY <1>2, <3>1, <3>3
      <3> QED
        BY <3>2, <3>3
    <2> QED
      BY <1>1, <2>1 DEF WakeInv, CountsInv
  <1>5. KickInv'
    <2>1. ASSUME NEW p \in Queues, next_avail[p] \in {checked[p], avail[p]}
          PROVE  next_avail[p] \in {checked[p], avail'[p]}
      BY <1>1, <1>2, <2>1
    <2> QED
      BY <1>1, <2>1 DEF WakeInv, KickInv, Attended
  <1>6. InterruptInv'
    BY <1>1 DEF WakeInv, InterruptInv
  <1> QED
    BY <1>3, <1>4, <1>5, <1>6 DEF WakeInv

LEMMA KickWakes ==
    ASSUME OrderInv, WakeInv, NEW q \in Queues, Kick(q)
    PROVE  WakeInv'
  <1> DEFINE told == kick[q] \/ ~event_idx \/ NeedEvent(avail_event[q], avail[q], checked[q])
  <1>1. /\ checked[q] # avail[q] /\ checked' = [checked EXCEPT ![q] = avail[q]]
        /\ kick' = [kick EXCEPT ![q] = told]
        /\ UNCHANGED <<event_idx, avail, avail_event, next_avail, used, call, used_event, reaped, irq, worker>>
    BY DEF Kick, device
  <1>2. /\ checked' \in [Queues -> Nat] /\ checked'[q] = avail[q]
        /\ \A p \in Queues \ {q} : checked'[p] = checked[p]
    BY <1>1, QueueNumbers DEF WakeInv, RingTypes
  <1>3. told \in BOOLEAN
    BY DEF NeedEvent, WakeInv, RingTypes
  <1>4. kick' \in [Queues -> BOOLEAN] /\ kick'[q] = told /\ \A p \in Queues \ {q} : kick'[p] = kick[p]
    <2> HIDE DEF told
    <2> QED
      BY <1>1, <1>3 DEF WakeInv, RingTypes
  <1>5. RingTypes'
    BY <1>1, <1>2, <1>4 DEF WakeInv, RingTypes
  <1>6. CountsInv'
    <2>1. ASSUME NEW p \in Queues
          PROVE  checked'[p] <= avail[p] /\ avail[p] <= checked'[p] + 1
      BY <1>1, <1>2, QueueNumbers DEF WakeInv, CountsInv
    <2> QED
      BY <1>1, <2>1 DEF WakeInv, CountsInv
  <1>7. ASSUME NEW p \in Queues PROVE Attended(p) \/ kick'[p] \/ next_avail[p] \in {checked'[p], avail[p]}
    <2>1. CASE p # q
      BY <1>2, <1>4, <2>1 DEF WakeInv, KickInv
    <2>2. CASE p = q /\ ~Attended(q) /\ ~kick[q] /\ next_avail[q] # avail[q]
      <3>1. next_avail[q] = checked[q] /\ avail[q] = checked[q] + 1 /\ checked[q] \in Nat
        <4>1. next_avail[q] \in {checked[q], avail[q]}
          BY <2>2 DEF WakeInv, KickInv
        <4> QED
          BY <1>1, <2>2, <4>1, QueueCounts
      <3>2. CASE event_idx
        <4>1. avail_event[q] = RingIndex(checked[q])
          BY <2>2, <3>1, <3>2 DEF Attended, WakeInv, KickInv
        <4>2. told
          BY <3>1, <4>1, NextEntryTold
        <4> QED
          BY <1>4, <2>2, <4>2
      <3> QED
        BY <1>4, <2>2, <3>2
    <2>3. CASE p = q /\ (Attended(q) \/ kick[q] \/ next_avail[q] = avail[q])
      BY <1>4, <2>3
    <2> QED
      BY <2>1, <2>2, <2>3
  <1>8. KickInv'
    <2>1. ASSUME NEW p \in Queues PROVE Attended(p)' <=> Attended(p)
      BY <1>1 DEF Attended
    <2> QED
      BY <1>1, <1>7, <2>1 DEF WakeInv, KickInv
  <1>9. InterruptInv'
    BY <1>1 DEF WakeInv, InterruptInv
  <1> QED
    BY <1>5, <1>6, <1>8, <1>9 DEF WakeInv

\* Steps of the driver's interrupt handler do not touch what the kicks depend on.
LEMMA HandlerKeeps ==
    ASSUME OrderInv, WakeInv, RingTypes', InterruptInv',
           UNCHANGED <<event_idx, avail, checked, kick, avail_event, next_avail, used, worker>>,
           \A q \in Queues : reaped'[q] <= Len(used[q])
    PROVE  WakeInv'
  <1>1. CountsInv'
    BY DEF WakeInv, CountsInv
  <1>2. KickInv'
    BY DEF WakeInv, KickInv, Attended
  <1> QED
    BY <1>1, <1>2 DEF WakeInv

LEMMA HandlerWakes ==
    ASSUME OrderInv, WakeInv, NEW q \in Queues, Interrupt(q) \/ Reap(q) \/ Rearm(q) \/ LookAgain(q)
    PROVE  WakeInv'
  <1>1. UNCHANGED <<event_idx, avail, checked, kick, avail_event, next_avail, used, worker>>
    BY DEF Interrupt, Reap, Rearm, LookAgain, device
  <1>2. CASE Interrupt(q)
    <2>1. /\ call' = [call EXCEPT ![q] = FALSE] /\ irq' = [irq EXCEPT ![q] = "reap"]
          /\ UNCHANGED <<used_event, reaped>>
      BY <1>2 DEF Interrupt
    <2>2. /\ irq'[q] = "reap" /\ \A p \in Queues \ {q} : irq'[p] = irq[p] /\ call'[p] = call[p]
          /\ RingTypes'
      BY <1>1, <2>1 DEF WakeInv, RingTypes
    <2>3. InterruptInv'
      BY <1>1, <2>1, <2>2 DEF WakeInv, InterruptInv
    <2> QED
      BY <1>1, <2>1, <2>2, <2>3, HandlerKeeps DEF WakeInv, CountsInv
  <1>3. CASE Reap(q)
    <2>1. /\ reaped' = [reaped EXCEPT ![q] = Len(used[q])] /\ irq' = [irq EXCEPT ![q] = "rearm"]
          /\ UNCHANGED <<used_event, call>>
      BY <1>3 DEF Reap
    <2>2. /\ irq'[q] = "rearm" /\ \A p \in Queues \ {q} : irq'[p] = irq[p] /\ reaped'[p] = reaped[p]
          /\ reaped'[q] = Len(used[q]) /\ RingTypes'
      BY <1>1, <2>1, QueueNumbers DEF WakeInv, RingTypes
    <2>3. InterruptInv'
      BY <1>1, <2>1, <2>2 DEF WakeInv, InterruptInv
    <2>4. \A p \in Queues : reaped'[p] <= Len(used[p])
      BY <2>2, QueueNumbers, QueueCounts
    <2> QED
      BY <1>1, <2>1, <2>2, <2>3, <2>4, HandlerKeeps
  <1>4. CASE Rearm(q)
    <2>1. /\ used_event' = [used_event EXCEPT ![q] = RingIndex(reaped[q])]
          /\ irq' = [irq EXCEPT ![q] = "recheck"] /\ UNCHANGED <<reaped, call>>
      BY <1>4 DEF Rearm
    <2>2. RingIndex(reaped[q]) \in 0 .. (IndexMod - 1)
      BY Remainders DEF WakeInv, RingTypes
    <2>3. /\ irq'[q] = "recheck" /\ used_event'[q] = RingIndex(reaped[q])
          /\ \A p \in Queues \ {q} : irq'[p] = irq[p] /\ used_event'[p] = used_event[p]
          /\ RingTypes'
      BY <1>1, <2>1, <2>2 DEF WakeInv, RingTypes
    <2>4. InterruptInv'
      BY <1>1, <2>1, <2>3 DEF WakeInv, InterruptInv
    <2> QED
      BY <1>1, <2>1, <2>3, <2>4, HandlerKeeps DEF WakeInv, CountsInv
  <1>5. CASE LookAgain(q)
    <2> DEFINE next == IF Len(used[q]) # reaped[q] THEN "reap" ELSE "idle"
    <2>1. irq[q] = "recheck" /\ irq' = [irq EXCEPT ![q] = next] /\ UNCHANGED <<used_event, reaped, call>>
      BY <1>5 DEF LookAgain
    <2>2. /\ irq'[q] = next /\ \A p \in Queues \ {q} : irq'[p] = irq[p]
          /\ RingTypes'
      BY <1>1, <2>1 DEF WakeInv, RingTypes
    <2>3. InterruptInv'
      BY <1>1, <2>1, <2>2 DEF WakeInv, InterruptInv
    <2> QED
      BY <1>1, <2>1, <2>2, <2>3, HandlerKeeps DEF WakeInv, CountsInv
  <1> QED
    BY <1>2, <1>3, <1>4, <1>5


LEMMA HandleEventWakes ==
    ASSUME OrderInv, WakeInv, NEW q \in Queues, HandleEvent(q)
    PROVE  WakeInv'
  <1>1. /\ worker.pc = "idle" /\ kick' = [kick EXCEPT ![q] = FALSE]
        /\ worker' = [pc |-> "collect", queue |-> q, batch |-> <<>>]
        /\ UNCHANGED <<event_idx, avail, checked, avail_event, next_avail, used, call, used_event, reaped, irq>>
    BY DEF HandleEvent, driver
  <1>2. kick' \in [Queues -> BOOLEAN] /\ \A p \in Queues \ {q} : kick'[p] = kick[p]
    BY <1>1 DEF WakeInv, RingTypes
  <1>3. worker'.pc = "collect" /\ worker'.queue = q /\ worker'.batch = <<>>
    BY <1>1
  <1>4. RingTypes'
    BY <1>1, <1>2 DEF WakeInv, RingTypes
  <1>5. CountsInv'
    <2>1. Len(used[q]) + 0 <= next_avail[q]
      BY QueueNumbers, QueueCounts
    <2> QED
      BY <1>1, <1>3, <2>1 DEF WakeInv, CountsInv
  <1>6. KickInv'
    <2>1. Attended(q)'
      BY <1>3 DEF Attended, WakeInv, RingTypes
    <2>2. ASSUME NEW p \in Queues PROVE ~Attended(p)
      BY <1>1 DEF Attended
    <2> QED
      BY <1>1, <1>2, <1>3, <2>1, <2>2 DEF WakeInv, KickInv
  <1>7. InterruptInv'
    BY <1>1, <1>3 DEF WakeInv, InterruptInv
  <1> QED
    BY <1>4, <1>5, <1>6, <1>7 DEF WakeInv

LEMMA CollectWakes ==
    ASSUME OrderInv, WakeInv, CollectChains
    PROVE  WakeInv'
  <1> DEFINE q == worker.queue
             n == avail[q] - next_avail[q]
             batch == [i \in 1 .. n |-> next_avail[q] + i]
  <1>1. /\ worker.pc = "collect" /\ next_avail' = [next_avail EXCEPT ![q] = avail[q]]
        /\ worker' = [worker EXCEPT !.pc = "handle", !.batch = batch]
        /\ UNCHANGED <<event_idx, avail, checked, kick, avail_event, used, call, used_event, reaped, irq>>
    BY DEF CollectChains, Taken, driver
  <1>2. /\ q \in Queues /\ avail[q] \in Nat /\ next_avail[q] \in Nat /\ n \in Nat /\ Len(used[q]) \in Nat
        /\ avail[q] <= MaxRequests /\ Len(used[q]) <= next_avail[q] /\ next_avail[q] <= avail[q]
    BY QueueNumbers, QueueCounts
  <1>3. batch \in Seq(Nat) /\ Len(batch) = n /\ \A i \in 1 .. n : batch[i] \in 1 .. MaxRequests
    <2>1. MaxRequests \in Nat
      BY QueueAssumption
    <2>2. batch \in Seq(Nat) /\ Len(batch) = n /\ \A i \in 1 .. n : batch[i] = next_avail[q] + i
      BY <1>2
    <2>3. \A i \in 1 .. n : next_avail[q] + i \in 1 .. MaxRequests
      BY <1>2, <2>1
    <2> QED
      BY <2>2, <2>3
  <1>4. /\ next_avail'[q] = avail[q] /\ \A p \in Queues \ {q} : next_avail'[p] = next_avail[p]
    BY <1>1, <1>2 DEF OrderInv, QueueTypes
  <1> HIDE DEF batch
  <1>5. worker'.pc = "handle" /\ worker'.queue = q /\ worker'.batch = batch
    BY <1>1, QueueNumbers
  <1>6. RingTypes'
    BY <1>1 DEF WakeInv, RingTypes
  <1>7. CountsInv'
    <2>1. ASSUME NEW p \in Queues PROVE Len(used[p]) <= next_avail'[p]
      BY <1>2, <1>4, QueueCounts
    <2>2. Len(used[q]) + Len(batch) <= next_avail'[q]
      BY <1>2, <1>3, <1>4
    <2> HIDE DEF q, n
    <2>3. Len(used'[worker'.queue]) + Len(worker'.batch) <= next_avail'[worker'.queue]
      BY <1>1, <1>5, <2>2
    <2>4. \A i \in 1 .. Len(worker'.batch) : worker'.batch[i] \in 1 .. MaxRequests
      BY <1>3, <1>5
    <2> QED
      BY <1>1, <2>1, <2>3, <2>4 DEF WakeInv, CountsInv
  <1>8. KickInv'
    <2> HIDE DEF q
    <2>1. ASSUME NEW p \in Queues, p # q PROVE ~Attended(p)
      BY <2>1 DEF Attended, q
    <2> QED
      BY <1>1, <1>4, <1>5, <2>1 DEF WakeInv, KickInv, q
  <1>9. InterruptInv'
    BY <1>1, <1>5 DEF WakeInv, InterruptInv
  <1> QED
    BY <1>6, <1>7, <1>8, <1>9 DEF WakeInv

LEMMA MessageWakes ==
    ASSUME OrderInv, WakeInv, HandleMessage
    PROVE  WakeInv'
  <1> DEFINE q == worker.queue
             batch == worker.batch
  <1>1. /\ worker.pc = "handle" /\ batch # <<>>
        /\ UNCHANGED <<event_idx, avail, checked, kick, avail_event, next_avail, call, used_event, reaped, irq>>
    BY DEF HandleMessage, driver
  <1>2. /\ q \in Queues /\ next_avail[q] \in Nat /\ used[q] \in Seq(Nat) /\ batch \in Seq(Nat)
        /\ Len(used[q]) \in Nat /\ Len(used[q]) + Len(batch) <= next_avail[q] /\ reaped[q] \in Nat
        /\ reaped[q] <= Len(used[q])
    BY <1>1, QueueNumbers, QueueCounts DEF WakeInv, CountsInv
  <1>3. /\ Head(batch) \in Nat /\ Tail(batch) \in Seq(Nat)
        /\ Len(batch) \in Nat /\ Len(batch) >= 1 /\ Len(Tail(batch)) = Len(batch) - 1
        /\ \A i \in 1 .. (Len(batch) - 1) : Tail(batch)[i] = batch[i + 1]
    BY <1>1, <1>2
  <1>4. \A i \in 1 .. Len(Tail(batch)) : Tail(batch)[i] \in 1 .. MaxRequests
    BY <1>3 DEF WakeInv, CountsInv
  <1>5. RingTypes'
    BY <1>1 DEF WakeInv, RingTypes
  <1> HIDE DEF batch
  <1>6. CASE /\ used' = [used EXCEPT ![q] = Append(used[q], Head(batch))]
             /\ worker' = [worker EXCEPT !.pc = "notify", !.batch = Tail(batch)]
    <2>1. worker'.pc = "notify" /\ worker'.queue = q /\ worker'.batch = Tail(batch)
      BY <1>6, QueueNumbers
    <2>2. Len(used'[q]) = Len(used[q]) + 1 /\ \A p \in Queues \ {q} : used'[p] = used[p]
      BY <1>2, <1>3, <1>6 DEF OrderInv, QueueTypes
    <2>3. CountsInv'
      <3> HIDE DEF q
      <3>1. Len(used'[q]) + Len(Tail(batch)) <= next_avail[q] /\ Len(used'[q]) <= next_avail[q]
        BY <1>2, <1>3, <2>2
      <3>2. reaped[q] <= Len(used'[q])
        BY <1>2, <2>2
      <3>3. ASSUME NEW p \in Queues PROVE reaped[p] <= Len(used'[p]) /\ Len(used'[p]) <= next_avail[p]
        BY <2>2, <3>1, <3>2, QueueCounts
      <3> QED
        BY <1>1, <1>4, <2>1, <3>1, <3>3 DEF WakeInv, CountsInv
    <2>4. KickInv'
      BY <1>1, <2>1 DEF WakeInv, KickInv, Attended
    <2>5. InterruptInv'
      <3>1. ASSUME NEW p \in Queues, irq[p] = "idle"
            PROVE  \/ call[p] \/ reaped[p] = Len(used'[p])
                   \/ q = p /\ Len(used'[p]) = reaped[p] + 1
        BY <1>1, <2>2, <3>1 DEF WakeInv, InterruptInv
      <3> QED
        BY <1>1, <2>1, <3>1 DEF WakeInv, InterruptInv
    <2> QED
      BY <1>5, <2>3, <2>4, <2>5 DEF WakeInv
  <1>7. CASE used' = used /\ worker' = [worker EXCEPT !.pc = "warned", !.batch = Tail(batch)]
    <2>1. worker'.pc = "warned" /\ worker'.queue = q /\ worker'.batch = Tail(batch)
      BY <1>7, QueueNumbers
    <2>2. CountsInv'
      <3> HIDE DEF q
      <3>1. Len(used[q]) + Len(Tail(batch)) <= next_avail[q]
        BY <1>2, <1>3
      <3> QED
        BY <1>1, <1>4, <1>7, <2>1, <3>1 DEF WakeInv, CountsInv
    <2>3. KickInv'
      BY <1>1, <2>1 DEF WakeInv, KickInv, Attended
    <2>4. InterruptInv'
      BY <1>1, <1>7, <2>1 DEF WakeInv, InterruptInv
    <2> QED
      BY <1>5, <2>2, <2>3, <2>4 DEF WakeInv
  <1> QED
    BY <1>6, <1>7 DEF HandleMessage, batch

\* A step of the worker that only moves it on, or moves it on and asks for kicks or
\* signals: what remains to show is what it is moving on from.
LEMMA MovesOn ==
    ASSUME OrderInv, WakeInv, RingTypes', KickInv', InterruptInv', worker.pc # "dead",
           UNCHANGED <<avail, checked, next_avail, used, reaped>>,
           NEW pc \in PCs, worker' = [worker EXCEPT !.pc = pc]
    PROVE  WakeInv'
  <1>1. worker'.pc = pc /\ worker'.queue = worker.queue /\ worker'.batch = worker.batch
    BY QueueNumbers
  <1>2. CountsInv'
    BY <1>1 DEF WakeInv, CountsInv
  <1> QED
    BY <1>2 DEF WakeInv

LEMMA SignalWakes ==
    ASSUME OrderInv, WakeInv, SignalUsed
    PROVE  WakeInv'
  <1> DEFINE q == worker.queue
             told == call[q] \/ IF worker.pc = "notify" THEN NeedsNotification(q) ELSE ~event_idx
  <1>1. /\ worker.pc \in {"notify", "warned"}
        /\ call' = [call EXCEPT ![q] = told] \/ call' = [call EXCEPT ![q] = TRUE]
        /\ worker' = [worker EXCEPT !.pc = "handle"]
        /\ UNCHANGED <<event_idx, avail, checked, kick, avail_event, next_avail, used, used_event, reaped, irq>>
    BY DEF SignalUsed, driver
  <1>2. q \in Queues /\ worker'.pc = "handle" /\ worker'.queue = q
    BY <1>1, QueueNumbers
  <1>3. told \in BOOLEAN
    BY <1>2 DEF NeedsNotification, NeedEvent, WakeInv, RingTypes
  <1>4. call' \in [Queues -> BOOLEAN] /\ (told => call'[q]) /\ \A p \in Queues \ {q} : call'[p] = call[p]
    <2> HIDE DEF told
    <2> QED
      BY <1>1, <1>2, <1>3 DEF WakeInv, RingTypes
  <1>5. RingTypes'
    BY <1>1, <1>4 DEF WakeInv, RingTypes
  <1>6. KickInv'
    BY <1>1, <1>2 DEF WakeInv, KickInv, Attended
  <1>7. ASSUME irq[q] = "idle" PROVE told \/ reaped[q] = Len(used[q])
    <2>1. CASE worker.pc = "notify" /\ Len(used[q]) = reaped[q] + 1 /\ event_idx
      <3>1. used_event[q] = RingIndex(reaped[q]) /\ reaped[q] \in Nat
        BY <1>2, <1>7, <2>1, QueueCounts DEF WakeInv, InterruptInv
      <3>2. Len(used[q]) - 1 = reaped[q]
        BY <2>1, <3>1
      <3> QED
        BY <2>1, <3>1, <3>2, NextEntryTold DEF NeedsNotification
    <2>2. CASE worker.pc = "notify" /\ ~event_idx
      BY <2>2 DEF NeedsNotification
    <2>3. call[q] \/ reaped[q] = Len(used[q]) \/ (worker.pc = "notify" /\ Len(used[q]) = reaped[q] + 1)
      BY <1>1, <1>2, <1>7 DEF WakeInv, InterruptInv
    <2> QED
      BY <2>1, <2>2, <2>3
  <1>8. InterruptInv'
    <2> HIDE DEF told
    <2>1. ASSUME NEW p \in Queues, irq[p] = "idle" PROVE call'[p] \/ reaped[p] = Len(used[p])
      <3>1. CASE p = q
        BY <1>4, <1>7, <2>1, <3>1
      <3>2. CASE p # q
        BY <1>1, <1>4, <2>1, <3>2 DEF WakeInv, InterruptInv
      <3> QED
        BY <3>1, <3>2
    <2> QED
      BY <1>1, <2>1 DEF WakeInv, InterruptInv
  <1> QED
    BY <1>1, <1>5, <1>6, <1>8, MovesOn DEF PCs


LEMMA EndBatchWakes ==
    ASSUME OrderInv, WakeInv, EndBatch
    PROVE  WakeInv'
  <1> DEFINE pc == IF event_idx THEN "enable" ELSE "idle"
  <1>1. /\ worker.pc = "handle" /\ worker' = [worker EXCEPT !.pc = pc]
        /\ UNCHANGED <<event_idx, avail, checked, kick, avail_event, next_avail, used, call, used_event, reaped, irq>>
    BY DEF EndBatch, driver
  <1>2. pc \in PCs /\ worker'.pc = pc /\ worker'.queue = worker.queue
    BY <1>1, QueueNumbers DEF PCs
  <1>3. RingTypes'
    BY <1>1 DEF WakeInv, RingTypes
  <1>4. KickInv'
    BY <1>1, <1>2 DEF WakeInv, KickInv, Attended
  <1>5. InterruptInv'
    BY <1>1, <1>2 DEF WakeInv, InterruptInv
  <1> QED
    BY <1>1, <1>2, <1>3, <1>4, <1>5, MovesOn

LEMMA EnableWakes ==
    ASSUME OrderInv, WakeInv, EnableNotification
    PROVE  WakeInv'
  <1> DEFINE q == worker.queue
  <1>1. /\ worker.pc = "enable" /\ worker' = [worker EXCEPT !.pc = "recheck"]
        /\ avail_event' = [avail_event EXCEPT ![q] = RingIndex(next_avail[q])]
        /\ UNCHANGED <<event_idx, avail, checked, kick, next_avail, used, call, used_event, reaped, irq>>
    BY DEF EnableNotification, driver
  <1>2. q \in Queues /\ worker'.pc = "recheck" /\ worker'.queue = q
    BY <1>1, QueueNumbers
  <1>3. RingIndex(next_avail[q]) \in 0 .. (IndexMod - 1)
    BY <1>2, QueueNumbers, Remainders
  <1>4. /\ avail_event' \in [Queues -> 0 .. (IndexMod - 1)]
        /\ avail_event'[q] = RingIndex(next_avail[q])
        /\ \A p \in Queues \ {q} : avail_event'[p] = avail_event[p]
    BY <1>1, <1>2, <1>3 DEF WakeInv, RingTypes
  <1>5. RingTypes'
    BY <1>1, <1>4 DEF WakeInv, RingTypes
  <1>6. KickInv'
    BY <1>1, <1>2, <1>4 DEF WakeInv, KickInv, Attended
  <1>7. InterruptInv'
    BY <1>1, <1>2 DEF WakeInv, InterruptInv
  <1> QED
    BY <1>1, <1>5, <1>6, <1>7, MovesOn DEF PCs

LEMMA RecheckWakes ==
    ASSUME OrderInv, WakeInv, Recheck
    PROVE  WakeInv'
  <1> DEFINE q == worker.queue
             pc == IF avail[q] # next_avail[q] THEN "collect" ELSE "idle"
  <1>1. /\ worker.pc = "recheck" /\ worker' = [worker EXCEPT !.pc = pc]
        /\ UNCHANGED <<event_idx, avail, checked, kick, avail_event, next_avail, used, call, used_event, reaped, irq>>
    BY DEF Recheck, LoopGoesOn, driver
  <1>2. pc \in PCs /\ worker'.pc = pc /\ worker'.queue = q
    BY <1>1, QueueNumbers DEF PCs
  <1>3. RingTypes'
    BY <1>1 DEF WakeInv, RingTypes
  <1>4. KickInv'
    <2>1. ASSUME NEW p \in Queues, p # q
          PROVE  kick[p] \/ next_avail[p] \in {checked[p], avail[p]}
      BY <2>1 DEF WakeInv, KickInv, Attended
    <2>2. pc = "idle" => next_avail[q] = avail[q]
      OBVIOUS
    <2>3. pc # "idle" => Attended(q)'
      BY <1>1, <1>2 DEF Attended
    <2> QED
      BY <1>1, <1>2, <2>1, <2>2, <2>3 DEF WakeInv, KickInv
  <1>5. InterruptInv'
    BY <1>1, <1>2 DEF WakeInv, InterruptInv
  <1> QED
    BY <1>1, <1>2, <1>3, <1>4, <1>5, MovesOn

LEMMA DeathWakes ==
    ASSUME OrderInv, WakeInv, WorkerDies
    PROVE  WakeInv'
  <1>1. /\ worker.pc \notin {"dead", "idle"} /\ worker' = [worker EXCEPT !.pc = "dead"]
        /\ UNCHANGED <<event_idx, avail, checked, kick, avail_event, next_avail, used, call, used_event, reaped, irq>>
    BY DEF WorkerDies, driver
  <1>2. "dead" \in PCs /\ worker'.pc = "dead" /\ worker'.queue = worker.queue
    BY <1>1, QueueNumbers DEF PCs
  <1>3. RingTypes'
    BY <1>1 DEF WakeInv, RingTypes
  <1>4. KickInv'
    BY <1>1, <1>2 DEF WakeInv, KickInv, Attended
  <1>5. InterruptInv'
    BY <1>1, <1>2 DEF WakeInv, InterruptInv
  <1> QED
    BY <1>1, <1>2, <1>3, <1>4, <1>5, MovesOn

LEMMA WakeStep ==
    ASSUME OrderInv, WakeInv, [QueueNext]_qvars
    PROVE  WakeInv'
  <1>1. CASE UNCHANGED qvars
    BY <1>1 DEF qvars, WakeInv, RingTypes, CountsInv, KickInv, Attended, InterruptInv
  <1>2. ASSUME NEW q \in Queues, Publish(q) PROVE WakeInv'
    BY <1>2, PublishWakes
  <1>3. ASSUME NEW q \in Queues, Kick(q) PROVE WakeInv'
    BY <1>3, KickWakes
  <1>4. ASSUME NEW q \in Queues, Interrupt(q) \/ Reap(q) \/ Rearm(q) \/ LookAgain(q) PROVE WakeInv'
    BY <1>4, HandlerWakes
  <1>5. ASSUME NEW q \in Queues, HandleEvent(q) PROVE WakeInv'
    BY <1>5, HandleEventWakes
  <1>6. CASE WorkerStep
    BY <1>6, CollectWakes, MessageWakes, SignalWakes, EndBatchWakes, EnableWakes, RecheckWakes DEF WorkerStep
  <1>7. CASE WorkerDies
    BY <1>7, DeathWakes
  <1> QED
    BY <1>1, <1>2, <1>3, <1>4, <1>5, <1>6, <1>7 DEF QueueNext

LEMMA WakeStart == QueueInit => WakeInv
  <1> SUFFICES ASSUME QueueInit PROVE WakeInv
    OBVIOUS
  <1>1. OrderInv
    BY QueueStart
  <1>2. /\ \A q \in Queues : avail[q] = 0 /\ next_avail[q] = 0 /\ checked[q] = 0 /\ reaped[q] = 0
        /\ \A q \in Queues : avail_event[q] = 0 /\ used_event[q] = 0 /\ used[q] = <<>>
        /\ worker.queue \in Queues /\ worker.pc = "idle" /\ worker.batch = <<>>
    BY <1>1, QueueNumbers DEF QueueInit
  <1>3. 0 \in 0 .. (IndexMod - 1) /\ RingIndex(0) = 0 /\ MaxRequests \in Nat
    BY QueueAssumption DEF RingIndex
  <1>4. RingTypes
    BY <1>3 DEF QueueInit, RingTypes
  <1>5. CountsInv
    BY <1>2, <1>3 DEF CountsInv
  <1>6. KickInv
    BY <1>2, <1>3 DEF KickInv
  <1>7. InterruptInv
    BY <1>2, <1>3 DEF InterruptInv
  <1> QED
    BY <1>4, <1>5, <1>6, <1>7 DEF WakeInv

(* The invariants of the rings hold in every state, whatever the index width. *)
LEMMA QueueInvariants == QueueSpec => [](OrderInv /\ WakeInv)
  BY QueueStart, QueueStep, WakeStart, WakeStep, PTL DEF QueueSpec

(* The indices and flags of the rings stay what their types say, in particular no
   counter passes the requests that were made, and every request of a batch is one
   the driver made. *)
THEOREM QueueTypesHold == QueueSpec => []QueueTypeOK
  <1>1. OrderInv /\ WakeInv => QueueTypeOK
    <2> SUFFICES ASSUME OrderInv, WakeInv PROVE QueueTypeOK
      OBVIOUS
    <2>1. MaxRequests \in Nat
      BY QueueAssumption
    <2>2. ASSUME NEW q \in Queues
          PROVE  /\ avail[q] \in 0 .. MaxRequests /\ checked[q] \in 0 .. MaxRequests
                 /\ next_avail[q] \in 0 .. MaxRequests /\ reaped[q] \in 0 .. MaxRequests
      BY <2>1, QueueNumbers, QueueCounts
    <2>3. {avail, checked, next_avail, reaped} \subseteq [Queues -> 0 .. MaxRequests]
      BY <2>2 DEF OrderInv, QueueTypes, WakeInv, RingTypes
    <2> QED
      BY <2>3, QueueNumbers DEF WakeInv, RingTypes, CountsInv, QueueTypeOK
  <1> QED
    BY <1>1, QueueInvariants, PTL

(* The worker never rests while a request is left in a ring: it re-reads the ring
   after it asked for kicks, and the driver kicks when its index passes the one that
   was asked for, at every wrap of the indices. *)
THEOREM NoKickLost == QueueSpec => []NoLostKick
  <1>1. OrderInv /\ WakeInv => NoLostKick
    <2> SUFFICES ASSUME OrderInv, WakeInv, NEW q \in Queues, worker.pc = "idle", checked[q] = avail[q], ~kick[q]
                 PROVE  next_avail[q] = avail[q]
      BY DEF NoLostKick
    <2> QED
      BY DEF WakeInv, KickInv, Attended
  <1> QED
    BY <1>1, QueueInvariants, PTL

(* The driver never rests while an entry it has not seen is in a used ring, unless
   the worker died before it signalled it. *)
THEOREM NoInterruptLost == QueueSpec => []NoLostInterrupt
  <1>1. OrderInv /\ WakeInv => NoLostInterrupt
    BY DEF WakeInv, InterruptInv, NoLostInterrupt
  <1> QED
    BY <1>1, QueueInvariants, PTL


(* Whether the worker lives or dies, the rings implement the request service without
   its liveness: Publish is its Submit, Reap its Answer, and every other step of the
   driver and of the worker is invisible to it. *)
THEOREM QueueImplementsService == QueueSpec => AnswersOnly
  <1>1. QueueInit => Service!Init
    BY DEF QueueInit, Service!Init
  <1>2. ASSUME OrderInv, WakeInv, [QueueNext]_qvars
        PROVE  [Service!Next]_(Service!svars)
    <2>1. ASSUME NEW q \in Queues, Publish(q) PROVE Service!Submit(q)
      BY <2>1 DEF Publish, Service!Submit
    <2>2. ASSUME NEW q \in Queues, Reap(q) PROVE Service!Answer(q) \/ UNCHANGED <<avail, reaped>>
      <3>1. avail' = avail /\ reaped' = [reaped EXCEPT ![q] = Len(used[q])]
        BY <2>2 DEF Reap
      <3>2. /\ reaped[q] \in Nat /\ Len(used[q]) \in Nat /\ reaped[q] <= Len(used[q])
            /\ Len(used[q]) <= next_avail[q] /\ next_avail[q] <= avail[q]
            /\ next_avail[q] \in Nat /\ avail[q] \in Nat /\ reaped \in [Queues -> Nat]
        <4>1. reaped \in [Queues -> Nat]
          BY <1>2 DEF WakeInv, RingTypes
        <4> QED
          BY <1>2, <4>1, QueueNumbers, QueueCounts
      <3>3. CASE Len(used[q]) = reaped[q]
        <4>1. [reaped EXCEPT ![q] = reaped[q]] = reaped
          BY <3>2
        <4> QED
          BY <3>1, <3>3, <4>1
      <3>4. CASE Len(used[q]) # reaped[q]
        <4>1. Len(used[q]) \in (reaped[q] + 1) .. avail[q]
          BY <3>2, <3>4
        <4> QED
          BY <3>1, <4>1 DEF Service!Answer
      <3> QED
        BY <3>3, <3>4
    <2>3. ASSUME NEW q \in Queues,
                 Kick(q) \/ Interrupt(q) \/ Rearm(q) \/ LookAgain(q) \/ HandleEvent(q)
          PROVE  UNCHANGED <<avail, reaped>>
      BY <2>3 DEF Kick, Interrupt, Rearm, LookAgain, HandleEvent, driver
    <2>4. ASSUME WorkerStep \/ WorkerDies \/ UNCHANGED qvars
          PROVE  UNCHANGED <<avail, reaped>>
      BY <2>4 DEF WorkerStep, CollectChains, HandleMessage, SignalUsed, EndBatch, EnableNotification,
                  Recheck, WorkerDies, driver, qvars
    <2> QED
      BY <1>2, <2>1, <2>2, <2>3, <2>4 DEF QueueNext, Service!Next, Service!svars
  <1> QED
    BY <1>1, <1>2, QueueInvariants, PTL DEF QueueSpec, AnswersOnly, Service!Safety

=============================================================================
