----------------------------- MODULE VhostQueue -----------------------------
(***************************************************************************)
(* The vring worker of OVFS (src/src/main.rs): one thread that serves the  *)
(* high-priority and the request queue, and the guest's virtio driver at   *)
(* the other end of the rings.                                             *)
(*                                                                         *)
(* The driver and the worker run concurrently and share only the rings in  *)
(* guest memory and two eventfds per queue, so each access is a step of    *)
(* its own.  Requests of a queue are numbered in the order the driver made *)
(* them available.  Ring indices are 16 bits wide in the rings; they are   *)
(* compared modulo IndexMod here.                                          *)
(***************************************************************************)
EXTENDS Integers, Sequences

CONSTANTS
    Queues,       \* HIPRIO_QUEUE_EVENT, REQ_QUEUE_EVENT
    MayFail,      \* TRUE: errors that end the worker may happen
    MayDrop,      \* TRUE: add_used or needs_notification may fail, which the worker survives
    QueueSize,    \* descriptors of a ring
    IndexMod,     \* 2^16 in the rings
    MaxRequests   \* bound: requests made on a queue

ASSUME QueueAssumption ==
    /\ {MayFail, MayDrop} \subseteq BOOLEAN
    /\ {QueueSize, IndexMod, MaxRequests} \subseteq Nat \ {0}
    /\ 2 * QueueSize <= IndexMod

VARIABLES
    event_idx,    \* VIRTIO_RING_F_EVENT_IDX was negotiated (set_event_idx)
    avail,        \* queue |-> requests the driver has made available
    checked,      \* queue |-> avail when the driver last decided whether to kick
    kick,         \* queue |-> the kick eventfd is readable
    avail_event,  \* queue |-> the index that is to be kicked for
    next_avail,   \* queue |-> requests the worker has taken from the ring
    used,         \* queue |-> the requests returned, in that order
    call,         \* queue |-> the call eventfd is readable
    used_event,   \* queue |-> the index that is to be signalled for
    reaped,       \* queue |-> used entries the driver has seen
    irq,          \* queue |-> where the driver's interrupt handler is
    worker        \* where the worker is, on which queue, with which batch

driver == <<event_idx, avail, checked, used_event, reaped, irq>>
device == <<event_idx, avail_event, next_avail, used, worker>>
qvars == <<event_idx, avail, checked, kick, avail_event, next_avail, used, call,
           used_event, reaped, irq, worker>>

PCs == {"idle", "collect", "handle", "notify", "warned", "enable", "recheck", "dead"}

QueueTypeOK ==
    /\ event_idx \in BOOLEAN
    /\ {avail, checked, next_avail, reaped} \subseteq [Queues -> 0 .. MaxRequests]
    /\ {avail_event, used_event} \subseteq [Queues -> 0 .. (IndexMod - 1)]
    /\ {kick, call} \subseteq [Queues -> BOOLEAN]
    /\ irq \in [Queues -> {"idle", "reap", "rearm", "recheck"}]
    /\ worker.pc \in PCs /\ worker.queue \in Queues
    /\ \A i \in 1 .. Len(worker.batch) : worker.batch[i] \in 1 .. MaxRequests

\* The features are negotiated before the rings start.
QueueInit ==
    /\ event_idx \in BOOLEAN
    /\ avail = [q \in Queues |-> 0] /\ checked = [q \in Queues |-> 0]
    /\ kick = [q \in Queues |-> FALSE] /\ call = [q \in Queues |-> FALSE]
    /\ avail_event = [q \in Queues |-> 0] /\ used_event = [q \in Queues |-> 0]
    /\ next_avail = [q \in Queues |-> 0] /\ reaped = [q \in Queues |-> 0]
    /\ used = [q \in Queues |-> <<>>]
    /\ irq = [q \in Queues |-> "idle"]
    /\ worker \in [pc : {"idle"}, queue : Queues, batch : {<<>>}]

\* An index as the 16 bits of the ring hold it.
RingIndex_Unwrapped(n) == n
RingIndex(n) == n % IndexMod

\* The other side asked to be told when its index passes event, and it has gone
\* from old to new since it was last told (vring_need_event of the virtio ring).
NeedEvent(event, new, old) == (new - event - 1) % IndexMod < (new - old) % IndexMod

-----------------------------------------------------------------------------
(* The driver (external).                                                  *)

\* The driver holds the queue's lock from adding a request to deciding its kick.
Publish(q) ==
    /\ avail[q] < MaxRequests
    /\ checked[q] = avail[q]
    /\ avail[q] - reaped[q] < QueueSize
    /\ avail' = [avail EXCEPT ![q] = @ + 1]
    /\ UNCHANGED <<checked, kick, call, used_event, reaped, irq, device>>

Kick(q) ==
    /\ checked[q] # avail[q]
    /\ checked' = [checked EXCEPT ![q] = avail[q]]
    /\ kick' = [kick EXCEPT ![q] = @ \/ ~event_idx \/ NeedEvent(avail_event[q], avail[q], checked[q])]
    /\ UNCHANGED <<avail, call, used_event, reaped, irq, device>>

Interrupt(q) ==
    /\ call[q] /\ irq[q] = "idle"
    /\ call' = [call EXCEPT ![q] = FALSE]
    /\ irq' = [irq EXCEPT ![q] = "reap"]
    /\ UNCHANGED <<avail, checked, kick, used_event, reaped, device>>

Reap(q) ==
    /\ irq[q] = "reap"
    /\ reaped' = [reaped EXCEPT ![q] = Len(used[q])]
    /\ irq' = [irq EXCEPT ![q] = "rearm"]
    /\ UNCHANGED <<avail, checked, kick, call, used_event, device>>

Rearm(q) ==
    /\ irq[q] = "rearm"
    /\ used_event' = [used_event EXCEPT ![q] = RingIndex(reaped[q])]
    /\ irq' = [irq EXCEPT ![q] = "recheck"]
    /\ UNCHANGED <<avail, checked, kick, call, reaped, device>>

LookAgain(q) ==
    /\ irq[q] = "recheck"
    /\ irq' = [irq EXCEPT ![q] = IF Len(used[q]) # reaped[q] THEN "reap" ELSE "idle"]
    /\ UNCHANGED <<avail, checked, kick, call, used_event, reaped, device>>

-----------------------------------------------------------------------------
(* The worker.  worker.queue is the queue whose vring it has locked.       *)

\* The event loop takes the kick and calls handle_event.  With event-idx
\* disable_notification leaves the rings as they are.
HandleEvent(q) ==
    /\ worker.pc = "idle" /\ kick[q]
    /\ kick' = [kick EXCEPT ![q] = FALSE]
    /\ worker' = [pc |-> "collect", queue |-> q, batch |-> <<>>]
    /\ UNCHANGED <<driver, call, avail_event, next_avail, used>>

\* process_queue_serial takes every chain that is available now ...
Taken_Forgotten(q) == next_avail
Taken(q) == [next_avail EXCEPT ![q] = avail[q]]

CollectChains ==
    LET q == worker.queue
    IN  /\ worker.pc = "collect"
        /\ next_avail' = Taken(q)
        /\ worker' = [worker EXCEPT !.pc = "handle",
                        !.batch = [i \in 1 .. (avail[q] - next_avail[q]) |-> next_avail[q] + i]]
        /\ UNCHANGED <<driver, kick, call, avail_event, used>>

\* ... handles the next one and returns it to the used ring; if that fails it only
\* warns ...
HandleMessage ==
    LET q == worker.queue
    IN  /\ worker.pc = "handle" /\ worker.batch # <<>>
        /\ \/ /\ used' = [used EXCEPT ![q] = Append(@, Head(worker.batch))]
              /\ worker' = [worker EXCEPT !.pc = "notify", !.batch = Tail(@)]
           \/ /\ MayDrop
              /\ used' = used
              /\ worker' = [worker EXCEPT !.pc = "warned", !.batch = Tail(@)]
        /\ UNCHANGED <<driver, kick, call, avail_event, next_avail>>

\* ... and signals the driver if it asked for it (return_descriptor).  Nothing new
\* in the used ring needs no notification.  If it cannot find out it signals.
NeedsNotification_Late(q) == ~event_idx \/ NeedEvent(used_event[q] + 1, Len(used[q]), Len(used[q]) - 1)
NeedsNotification(q) == ~event_idx \/ NeedEvent(used_event[q], Len(used[q]), Len(used[q]) - 1)

SignalUsed ==
    LET q == worker.queue
    IN  /\ worker.pc \in {"notify", "warned"}
        /\ \/ call' = [call EXCEPT ![q] = @ \/ IF worker.pc = "notify" THEN NeedsNotification(q)
                                             ELSE ~event_idx]
           \/ MayDrop /\ event_idx /\ call' = [call EXCEPT ![q] = TRUE]
        /\ worker' = [worker EXCEPT !.pc = "handle"]
        /\ UNCHANGED <<driver, kick, avail_event, next_avail, used>>

\* The batch is done.  Without event-idx the event is handled.
EndBatch ==
    /\ worker.pc = "handle" /\ worker.batch = <<>>
    /\ worker' = [worker EXCEPT !.pc = IF event_idx THEN "enable" ELSE "idle"]
    /\ UNCHANGED <<driver, kick, call, avail_event, next_avail, used>>

\* enable_notification asks to be kicked for the next request ...
EnableNotification ==
    LET q == worker.queue
    IN  /\ worker.pc = "enable"
        /\ avail_event' = [avail_event EXCEPT ![q] = RingIndex(next_avail[q])]
        /\ worker' = [worker EXCEPT !.pc = "recheck"]
        /\ UNCHANGED <<driver, kick, call, next_avail, used>>

\* ... and looks whether one came before that: then the loop goes on.
LoopGoesOn_Never(q) == FALSE
LoopGoesOn(q) == avail[q] # next_avail[q]

Recheck ==
    /\ worker.pc = "recheck"
    /\ worker' = [worker EXCEPT !.pc = IF LoopGoesOn(worker.queue) THEN "collect" ELSE "idle"]
    /\ UNCHANGED <<driver, kick, call, avail_event, next_avail, used>>

\* process_queue_serial returns an error (no memory, a bad ring), which ends the
\* event loop, or an unwrap panics on an error of the handler, of the call eventfd
\* or of enable_notification: the rest of the batch is never returned.
WorkerDies ==
    /\ MayFail
    /\ \/ worker.pc \in {"collect", "notify", "warned", "enable", "recheck"}
       \/ worker.pc = "handle" /\ worker.batch # <<>>
    /\ worker' = [worker EXCEPT !.pc = "dead"]
    /\ UNCHANGED <<driver, kick, call, avail_event, next_avail, used>>

WorkerStep ==
    \/ CollectChains \/ HandleMessage \/ SignalUsed \/ EndBatch
    \/ EnableNotification \/ Recheck

QueueNext ==
    \/ \E q \in Queues : \/ Publish(q) \/ Kick(q) \/ Interrupt(q)
                         \/ Reap(q) \/ Rearm(q) \/ LookAgain(q)
                         \/ HandleEvent(q)
    \/ WorkerStep \/ WorkerDies

QueueSpec == QueueInit /\ [][QueueNext]_qvars

\* The worker thread runs whenever it can, and epoll reports every readable
\* eventfd; the guest runs its interrupt handler and finishes its kicks.  Nothing
\* obliges the guest to make requests.
Fairness ==
    /\ WF_qvars(WorkerStep)
    /\ \A q \in Queues :
         /\ WF_qvars(HandleEvent(q)) /\ WF_qvars(Kick(q)) /\ WF_qvars(Interrupt(q))
         /\ WF_qvars(Reap(q) \/ Rearm(q) \/ LookAgain(q))

FairQueueSpec == QueueSpec /\ Fairness

-----------------------------------------------------------------------------
(* What the driver can rely on.                                            *)

(* Every request is returned at most once, in the order the driver made them, and
   only after it was made: loops of handle_event_serial, second kicks, the death of
   the worker in a batch and requests add_used failed for neither repeat one nor
   put one before another, and only a failing add_used leaves one out. *)
ReturnedInOrder ==
    \A q \in Queues :
        /\ next_avail[q] <= avail[q]
        /\ \A i \in 1 .. Len(used[q]) : used[q][i] \in 1 .. next_avail[q]
        /\ \A i, j \in 1 .. Len(used[q]) : i < j => used[q][i] < used[q][j]
        /\ MayDrop \/ \A i \in 1 .. Len(used[q]) : used[q][i] = i

(* No wake-up is lost: when the worker waits and the driver has nothing left to
   decide, a request that was not taken has its kick pending, also when it was
   published between the last batch and enable_notification. *)
NoLostKick ==
    \A q \in Queues :
        worker.pc = "idle" /\ checked[q] = avail[q] /\ ~kick[q] => next_avail[q] = avail[q]

(* No completion goes unnoticed: when the driver waits for an interrupt and none
   is pending, it has seen every entry of the used ring, unless the worker is yet
   to decide the notification of the last one or died on the queue. *)
NoLostInterrupt ==
    \A q \in Queues :
        irq[q] = "idle" /\ ~call[q] /\ ~(worker.pc \in {"notify", "dead"} /\ worker.queue = q) =>
            reaped[q] = Len(used[q])

Service == INSTANCE RequestService WITH submitted <- avail, answered <- reaped

(* Step by step, and also when the worker fails or dies, the driver gets answers
   only to requests it has made, and each is counted once: whatever the rings, the
   batches and the notifications do is one step of the request service or none. *)
AnswersOnly == Service!Safety

(* The queue implements the request service: in particular, while the worker
   lives, every request the driver makes on either queue is answered in the end. *)
ServesRequests == Service!Spec

=============================================================================
