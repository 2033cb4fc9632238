------------------------------- MODULE Daemon -------------------------------
(***************************************************************************)
(* The process of OVFS (src/src/main.rs): the main thread, which starts    *)
(* and ends it, the thread that serves the vhost-user socket and calls the *)
(* backend's callbacks, and the worker thread that calls handle_event.     *)
(* They share the VhostUserFsThread behind an RwLock, the vrings behind a  *)
(* Mutex, and the guest memory behind an atomic pointer.                   *)
(*                                                                         *)
(* The two service threads belong to the vhost-user-backend crate and are  *)
(* external, as is the front-end (the VMM) at the other end of the socket. *)
(* The RwLock lets no new reader in while a writer waits.  One vring is    *)
(* modelled; how its requests travel is the subject of VhostQueue.         *)
(***************************************************************************)
EXTENDS Naturals

CONSTANTS
    MayFail,      \* TRUE: start-up errors, bad events and panics of the worker happen
    MaxRegions,   \* bound: regions of guest memory
    MaxRequests   \* bound: requests of the guest

ASSUME DaemonAssumption == MayFail \in BOOLEAN /\ {MaxRegions, MaxRequests} \subseteq Nat \ {0}

VARIABLES
    thread,     \* the VhostUserFsThread behind the RwLock
    memory,     \* regions the shared GuestMemoryAtomic holds
    poisoned,   \* the locks some thread panicked under
    main,       \* where the main thread is
    control,    \* where the socket's thread is and the message it serves
    worker,     \* where the worker is, the rule it goes by, the regions it sees, its batch
    frontend,   \* the connection and what was negotiated over it
    ring        \* ready, its own event_idx and kick eventfd, its requests (by their region)

dvars == <<thread, memory, poisoned, main, control, worker, frontend, ring>>

Regions == 1 .. MaxRegions

DaemonInit ==
    /\ thread = [mem |-> FALSE, event_idx |-> FALSE, vu_req |-> FALSE, kill_event_fd |-> FALSE]
    /\ memory = 0
    /\ poisoned = {}
    /\ main = "start"
    /\ control = [pc |-> "absent", message |-> "none"]
    /\ worker = [pc |-> "epoll", event_idx |-> FALSE, regions |-> 0, batch |-> {}]
    /\ frontend = [link |-> "none", regions |-> 0, started |-> FALSE]
    /\ ring = [ready |-> FALSE, event_idx |-> FALSE, kick |-> FALSE, requests |-> {}, made |-> 0]

-----------------------------------------------------------------------------
(* The main thread.  VhostUserDaemon::new has started the worker.          *)

\* daemon.start accepts the front-end and starts the thread of its socket ...
Start ==
    /\ main = "start"
    /\ main' = "wait"
    /\ control' = [control EXCEPT !.pc = "idle"]
    /\ frontend' = [frontend EXCEPT !.link = "up"]
    /\ UNCHANGED <<thread, memory, poisoned, worker, ring>>

\* ... or fails (exit(1)), as do a bad scheme and the unwraps of the set-up before it.
StartFails ==
    /\ MayFail /\ main = "start"
    /\ main' = "exited"
    /\ UNCHANGED <<thread, memory, poisoned, control, worker, frontend, ring>>

\* daemon.wait returns when that thread has ended, with whatever result.
Wait ==
    /\ main = "wait" /\ control.pc = "ended"
    /\ main' = "kill"
    /\ UNCHANGED <<thread, memory, poisoned, control, worker, frontend, ring>>

\* The guard handle_event holds on the RwLock while it works on the vring, and the
\* one the callbacks store under (write().unwrap()).
EventGuard_Exclusive == "write"
EventGuard == "read"
CallbackGuard_None == "none"
CallbackGuard == "write"

Serving == worker.pc \in {"load", "collect", "handle"}
ReadLock ==
    /\ ~(control.pc = "callback" /\ CallbackGuard = "write")
    /\ ~(Serving /\ EventGuard = "write")
WriteLock == ~Serving

\* The end of main: read().unwrap() and a write to kill_event_fd, whose failure is
\* only logged.
Kill ==
    /\ main = "kill" /\ ReadLock
    /\ IF "thread" \in poisoned
       THEN main' = "panicked" /\ UNCHANGED thread
       ELSE \/ main' = "done" /\ thread' = [thread EXCEPT !.kill_event_fd = TRUE]
            \/ MayFail /\ main' = "unheard" /\ UNCHANGED thread
    /\ UNCHANGED <<memory, poisoned, control, worker, frontend, ring>>

-----------------------------------------------------------------------------
(* The thread of the socket.                                               *)

\* A message arrives.  The front-end sets features and memory up before it starts
\* the ring, adds memory at any time and stops the ring before it sets features anew.
Receive(message) ==
    /\ control.pc = "idle" /\ frontend.link = "up"
    /\ \/ message \in {"event_idx_on", "event_idx_off"} /\ ~frontend.started
       \/ message = "memory" /\ memory < MaxRegions
       \/ message = "backend_req" /\ ~thread.vu_req
       \/ message = "start" /\ ~frontend.started /\ frontend.regions > 0
       \/ message = "stop" /\ frontend.started
    /\ control' = [message |-> message,
                   pc |-> CASE message = "memory" -> "memory"
                            [] message = "backend_req" -> "lock"
                            [] OTHER -> "vring"]
    /\ UNCHANGED <<thread, memory, poisoned, main, worker, frontend, ring>>

\* Event-idx (set_vring_base), start and stop first change the vring, under its
\* Mutex, which handle_event_serial holds while it works; a poisoned one panics the
\* thread.
EnablesEventIdx == control.message = "event_idx_on"

SetVring ==
    /\ control.pc = "vring" /\ ~Serving
    /\ IF "vring" \in poisoned
       THEN control' = [control EXCEPT !.pc = "ended"] /\ UNCHANGED <<ring, frontend>>
       ELSE CASE control.message = "start" ->
                   /\ ring' = [ring EXCEPT !.ready = TRUE]
                   /\ frontend' = [frontend EXCEPT !.started = TRUE]
                   /\ control' = [pc |-> "idle", message |-> "none"]
              [] control.message = "stop" ->
                   /\ ring' = [ring EXCEPT !.ready = FALSE, !.kick = FALSE, !.requests = {}]
                   /\ frontend' = [frontend EXCEPT !.started = FALSE]
                   /\ control' = [pc |-> "idle", message |-> "none"]
              [] OTHER ->
                   /\ ring' = [ring EXCEPT !.event_idx = EnablesEventIdx]
                   /\ control' = [control EXCEPT !.pc = "lock"]
                   /\ UNCHANGED frontend
    /\ UNCHANGED <<thread, memory, poisoned, main, worker>>

\* New memory is put behind the atomic pointer before the callback.
ReplaceMemory ==
    /\ control.pc = "memory"
    /\ memory' = memory + 1
    /\ control' = [control EXCEPT !.pc = "lock"]
    /\ UNCHANGED <<thread, poisoned, main, worker, frontend, ring>>

\* The callback asks for the RwLock; until then handle_event can still take it.
AskLock ==
    /\ control.pc = "lock"
    /\ control' = [control EXCEPT !.pc = "callback"]
    /\ UNCHANGED <<thread, memory, poisoned, main, worker, frontend, ring>>

\* set_event_idx, update_memory and set_backend_req_fd store into the thread ...
SetEventIdx_OnlyOn(enabled) == [thread EXCEPT !.event_idx = @ \/ enabled]
SetEventIdx(enabled) == [thread EXCEPT !.event_idx = enabled]
UpdateMemory == [thread EXCEPT !.mem = TRUE]
SetBackendReqFd == [thread EXCEPT !.vu_req = TRUE]

\* ... once a running handle_event has returned.  Then the front-end is answered.
Callback ==
    /\ control.pc = "callback"
    /\ CallbackGuard = "write" => WriteLock
    /\ IF "thread" \in poisoned
       THEN control' = [control EXCEPT !.pc = "ended"] /\ UNCHANGED <<thread, frontend>>
       ELSE /\ control' = [pc |-> "idle", message |-> "none"]
            /\ \/ /\ control.message = "memory"
                  /\ thread' = UpdateMemory
                  /\ frontend' = [frontend EXCEPT !.regions = memory]
               \/ /\ control.message = "backend_req"
                  /\ thread' = SetBackendReqFd
                  /\ UNCHANGED frontend
               \/ /\ control.message \in {"event_idx_on", "event_idx_off"}
                  /\ thread' = SetEventIdx(EnablesEventIdx)
                  /\ UNCHANGED frontend
    /\ UNCHANGED <<memory, poisoned, main, worker, ring>>

\* The front-end is gone: the next read of the socket ends the thread.
Disconnected ==
    /\ control.pc = "idle" /\ frontend.link = "down"
    /\ control' = [control EXCEPT !.pc = "ended"]
    /\ UNCHANGED <<thread, memory, poisoned, main, worker, frontend, ring>>

-----------------------------------------------------------------------------
(* The worker.                                                             *)

\* epoll reports the kick; the event may be on its way when the ring is stopped.
TakeEvent ==
    /\ worker.pc = "epoll" /\ ring.kick
    /\ ring' = [ring EXCEPT !.kick = FALSE]
    /\ worker' = [worker EXCEPT !.pc = "event"]
    /\ UNCHANGED <<thread, memory, poisoned, main, control, frontend>>

\* exit_event gave the event loop a clone of kill_event_fd, which ends it.
ExitEvent_None == FALSE
ExitEvent == thread.kill_event_fd

SeeKill ==
    /\ worker.pc = "epoll" /\ ExitEvent
    /\ worker' = [worker EXCEPT !.pc = "ended"]
    /\ UNCHANGED <<thread, memory, poisoned, main, control, frontend, ring>>

\* handle_event refuses events other than IN: its error ends the event loop.
UnexpectedEvent ==
    /\ MayFail /\ worker.pc = "event"
    /\ worker' = [worker EXCEPT !.pc = "ended"]
    /\ UNCHANGED <<thread, memory, poisoned, main, control, frontend, ring>>

\* handle_event: read().unwrap(), then the Mutex of the vring; whether it loops is
\* decided once.
HandleEvent ==
    /\ worker.pc = "event"
    /\ IF EventGuard = "read" THEN ReadLock ELSE WriteLock
    /\ worker' = [worker EXCEPT !.pc = "load", !.event_idx = thread.event_idx]
    /\ UNCHANGED <<thread, memory, poisoned, main, control, frontend, ring>>

\* process_queue_serial keeps a snapshot of the memory for the batch; without
\* memory it returns an error ...
LoadMemory ==
    /\ worker.pc = "load"
    /\ worker' = IF thread.mem THEN [worker EXCEPT !.pc = "collect", !.regions = memory]
                 ELSE [worker EXCEPT !.pc = "ended"]
    /\ UNCHANGED <<thread, memory, poisoned, main, control, frontend, ring>>

\* ... as with a ring that was stopped meanwhile.
Collect ==
    /\ worker.pc = "collect"
    /\ IF ring.ready
       THEN /\ worker' = [worker EXCEPT !.pc = "handle", !.batch = ring.requests]
            /\ ring' = [ring EXCEPT !.requests = {}]
       ELSE worker' = [worker EXCEPT !.pc = "ended"] /\ UNCHANGED ring
    /\ UNCHANGED <<thread, memory, poisoned, main, control, frontend>>

HandleMessage ==
    /\ worker.pc = "handle"
    /\ \E region \in worker.batch : worker' = [worker EXCEPT !.batch = @ \ {region}]
    /\ UNCHANGED <<thread, memory, poisoned, main, control, frontend, ring>>

\* With event-idx the loop goes on while there are requests.
LoopGoesOn_Inverted == ring.requests = {}
LoopGoesOn == ring.requests # {}

Finish ==
    /\ worker.pc = "handle" /\ worker.batch = {}
    /\ worker' = [worker EXCEPT !.pc = IF worker.event_idx /\ LoopGoesOn THEN "load" ELSE "epoll"]
    /\ UNCHANGED <<thread, memory, poisoned, main, control, frontend, ring>>

\* An unwrap panics: the Mutex is poisoned, the RwLock only by a write guard.
Panic ==
    /\ MayFail /\ worker.pc \in {"load", "handle"}
    /\ worker' = [worker EXCEPT !.pc = "ended"]
    /\ poisoned' = {"vring"} \cup IF EventGuard = "write" THEN {"thread"} ELSE {}
    /\ UNCHANGED <<thread, memory, main, control, frontend, ring>>

-----------------------------------------------------------------------------
(* The front-end and its guest.                                            *)

\* The guest uses memory its front-end had acknowledged.
Publish(region) ==
    /\ frontend.link = "up" /\ frontend.started /\ control.message # "stop"
    /\ region <= frontend.regions /\ ring.made < MaxRequests
    /\ ring' = [ring EXCEPT !.kick = TRUE, !.requests = @ \cup {region}, !.made = @ + 1]
    /\ UNCHANGED <<thread, memory, poisoned, main, control, worker, frontend>>

Disconnect ==
    /\ frontend.link = "up"
    /\ frontend' = [frontend EXCEPT !.link = "down"]
    /\ UNCHANGED <<thread, memory, poisoned, main, control, worker, ring>>

\* The process is over.
Over == main \in {"done", "unheard", "exited", "panicked"} /\ UNCHANGED dvars

-----------------------------------------------------------------------------
Messages == {"event_idx_on", "event_idx_off", "memory", "backend_req", "start", "stop"}

MainStep == Wait \/ Kill
ControlStep == SetVring \/ ReplaceMemory \/ AskLock \/ Callback \/ Disconnected
WorkerStep == TakeEvent \/ HandleEvent \/ LoadMemory \/ Collect \/ HandleMessage \/ Finish

DaemonNext ==
    \/ Start \/ StartFails \/ MainStep
    \/ \E message \in Messages : Receive(message)
    \/ ControlStep \/ WorkerStep
    \/ SeeKill \/ UnexpectedEvent \/ Panic
    \/ \E region \in Regions : Publish(region)
    \/ Disconnect \/ Over

\* Every thread runs whenever it can.  Nothing obliges a front-end to connect, to
\* send, or to go.
DaemonSpec ==
    /\ DaemonInit /\ [][DaemonNext]_dvars
    /\ WF_dvars(MainStep) /\ WF_dvars(ControlStep)
    /\ WF_dvars(WorkerStep) /\ WF_dvars(SeeKill)

-----------------------------------------------------------------------------
(* What the locks are for.                                                 *)

(* No request is handled with a snapshot of guest memory that lacks the region the
   request lies in, although memory is added while requests are served: the guest
   learns of a region only after update_memory has waited for handle_event. *)
MemoryCovers ==
    worker.pc = "handle" => \A region \in worker.batch : region <= worker.regions

(* A batch is served by one rule: handle_event loops, return_descriptor signals and
   the vring reads and writes the event fields with the same event-idx setting,
   although the vring is told of it under its Mutex and the thread later, under the
   RwLock, with an old event of a stopped ring possibly in between.  With two rules
   the worker would wait for kicks the guest thinks it need not send. *)
OneRule ==
    worker.pc = "handle" =>
        worker.event_idx = thread.event_idx /\ ring.event_idx = thread.event_idx

(* A panic of the worker in the middle of a batch keeps neither main from its own
   unwrap nor the callbacks from theirs: only the vring is poisoned. *)
MainSurvives == main # "panicked" /\ (control.pc = "callback" => "thread" \notin poisoned)

(* The front-end is answered, or its connection ends, once the guest has stopped
   adding requests: the worker does not keep the callbacks from their lock after its
   loop has run dry, no new event overtakes a callback that waits, and a dead worker
   keeps nothing locked.  (A guest that adds requests without end can keep an
   event-idx loop, and with it every callback, going for ever.) *)
ControlAnswers == control.pc \in {"vring", "memory", "lock", "callback"} ~> control.pc \in {"idle", "ended"}

(* When the front-end goes, main ends and so does the worker, wherever both were:
   the kill event reaches the event loop, unless main could not write it. *)
ShutsDown ==
    frontend.link = "down" ~> main = "unheard" \/ (main = "done" /\ worker.pc = "ended")

=============================================================================
