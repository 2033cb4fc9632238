---------------------------- MODULE DaemonProofs ----------------------------
(* Proofs about the threads of module Daemon: what the locks keep apart,   *)
(* for any number of memory regions and requests, panics included.         *)
EXTENDS Daemon, TLAPS

MainPCs == {"start", "wait", "kill", "done", "unheard", "exited", "panicked"}
ControlPCs == {"absent", "idle", "vring", "memory", "lock", "callback", "ended"}
WorkerPCs == {"epoll", "event", "load", "collect", "handle", "ended"}

DaemonTypes ==
    /\ thread \in [mem : BOOLEAN, event_idx : BOOLEAN, vu_req : BOOLEAN, kill_event_fd : BOOLEAN]
    /\ memory \in Nat
    /\ main \in MainPCs
    /\ control \in [pc : ControlPCs, message : Messages \cup {"none"}]
    /\ worker \in [pc : WorkerPCs, event_idx : BOOLEAN, regions : Nat, batch : SUBSET Nat]
    /\ frontend \in [link : {"none", "up", "down"}, regions : Nat, started : BOOLEAN]
    /\ ring \in [ready : BOOLEAN, event_idx : BOOLEAN, kick : BOOLEAN, requests : SUBSET Nat,
               made : Nat]

\* What the guest was told of is in memory, what it uses it was told of, and the
\* snapshot of a batch is no older than the lock that keeps the front-end waiting.
RegionsInv ==
    /\ frontend.regions <= memory
    /\ \A region \in ring.requests : region <= frontend.regions
    /\ worker.pc = "collect" => frontend.regions <= worker.regions
    /\ worker.pc = "handle" => \A region \in worker.batch : region <= worker.regions

\* Event-idx is set only while the ring is stopped, so that the vring and the thread
\* disagree only between the two halves of that message, and no batch is under way
\* then.
Setting == control.message \in {"event_idx_on", "event_idx_off"}
HalfSet == Setting /\ control.pc \in {"lock", "callback"}
RuleInv ==
    /\ main = "start" => control.pc = "absent"
    /\ control.pc = "memory" => ~Setting
    /\ control.pc = "vring" => Setting \/ control.message \in {"start", "stop"}
    /\ ring.ready = frontend.started
    /\ Setting /\ control.pc \in {"vring", "lock", "callback"} => ~frontend.started
    /\ HalfSet => (ring.event_idx <=> EnablesEventIdx)
    /\ ~HalfSet => ring.event_idx = thread.event_idx
    /\ worker.pc = "handle" => ring.ready
    /\ Serving => worker.event_idx = thread.event_idx

\* Only the vring's lock is ever poisoned.
PoisonInv == poisoned \subseteq {"vring"} /\ main # "panicked"

DaemonInv == DaemonTypes /\ RegionsInv /\ RuleInv /\ PoisonInv

LEMMA DaemonStart == DaemonInit => DaemonInv
  BY DEF DaemonInit, DaemonInv, DaemonTypes, RegionsInv, RuleInv, Setting, HalfSet, Serving,
         EnablesEventIdx, PoisonInv,
         MainPCs, ControlPCs, WorkerPCs

-----------------------------------------------------------------------------
(* One lemma per action that touches what the invariant speaks of.        *)

LEMMA StartKeeps ==
    ASSUME DaemonInv, Start
    PROVE  DaemonInv'
  <1>1. DaemonTypes'
    BY DEF DaemonInv, DaemonTypes, MainPCs, ControlPCs, Start
  <1>2. RegionsInv' /\ RuleInv' /\ PoisonInv'
    BY DEF DaemonInv, DaemonTypes, RegionsInv, RuleInv, Setting, HalfSet, Serving, EnablesEventIdx,
           PoisonInv, Start
  <1> QED
    BY <1>1, <1>2 DEF DaemonInv

LEMMA KillKeeps ==
    ASSUME DaemonInv, Kill
    PROVE  DaemonInv'
  <1>1. /\ main' \in {"done", "unheard"}
        /\ thread' = thread \/ thread' = [thread EXCEPT !.kill_event_fd = TRUE]
    BY DEF DaemonInv, PoisonInv, Kill
  <1>2. DaemonTypes'
    BY <1>1 DEF DaemonInv, DaemonTypes, MainPCs, Kill
  <1>3. RegionsInv' /\ RuleInv' /\ PoisonInv'
    BY <1>1 DEF DaemonInv, DaemonTypes, RegionsInv, RuleInv, Setting, HalfSet, Serving,
                EnablesEventIdx, PoisonInv, Kill
  <1> QED
    BY <1>2, <1>3 DEF DaemonInv

\* Steps that only move main along.
LEMMA MainKeeps ==
    ASSUME DaemonInv, StartFails \/ Wait
    PROVE  DaemonInv'
  BY DEF DaemonInv, DaemonTypes, RegionsInv, RuleInv, Setting, HalfSet, Serving, EnablesEventIdx,
         PoisonInv, MainPCs, StartFails, Wait

LEMMA ReceiveKeeps ==
    ASSUME DaemonInv, NEW message \in Messages, Receive(message)
    PROVE  DaemonInv'
  <1>1. DaemonTypes'
    BY DEF DaemonInv, DaemonTypes, ControlPCs, Receive
  <1>2. RegionsInv' /\ RuleInv' /\ PoisonInv'
    BY DEF DaemonInv, DaemonTypes, RegionsInv, RuleInv, Setting, HalfSet, Serving, EnablesEventIdx,
           PoisonInv, Receive
  <1> QED
    BY <1>1, <1>2 DEF DaemonInv

LEMMA SetVringKeeps ==
    ASSUME DaemonInv, SetVring
    PROVE  DaemonInv'
  <1>1. /\ control.pc = "vring" /\ ~Serving
        /\ UNCHANGED <<thread, memory, poisoned, main, worker>>
    BY DEF SetVring
  <1>2. CASE control' = [control EXCEPT !.pc = "ended"] /\ UNCHANGED <<ring, frontend>>
    <2>1. DaemonTypes'
      BY <1>1, <1>2 DEF DaemonInv, DaemonTypes, ControlPCs
    <2>2. RegionsInv' /\ RuleInv' /\ PoisonInv'
      BY <1>1, <1>2 DEF DaemonInv, DaemonTypes, RegionsInv, RuleInv, Setting, HalfSet, Serving,
                        EnablesEventIdx, PoisonInv
    <2> QED
      BY <2>1, <2>2 DEF DaemonInv
  <1>3. CASE /\ control.message = "start"
             /\ ring' = [ring EXCEPT !.ready = TRUE]
             /\ frontend' = [frontend EXCEPT !.started = TRUE]
             /\ control' = [pc |-> "idle", message |-> "none"]
    <2>1. DaemonTypes'
      BY <1>1, <1>3 DEF DaemonInv, DaemonTypes, ControlPCs
    <2>2. RegionsInv' /\ RuleInv' /\ PoisonInv'
      BY <1>1, <1>3 DEF DaemonInv, DaemonTypes, RegionsInv, RuleInv, Setting, HalfSet, Serving,
                        EnablesEventIdx, PoisonInv
    <2> QED
      BY <2>1, <2>2 DEF DaemonInv
  <1>4. CASE /\ ring' = [ring EXCEPT !.ready = FALSE, !.kick = FALSE, !.requests = {}]
             /\ frontend' = [frontend EXCEPT !.started = FALSE]
             /\ control' = [pc |-> "idle", message |-> "none"]
    <2>1. DaemonTypes'
      BY <1>1, <1>4 DEF DaemonInv, DaemonTypes, ControlPCs
    <2>2. RegionsInv' /\ RuleInv' /\ PoisonInv'
      BY <1>1, <1>4 DEF DaemonInv, DaemonTypes, RegionsInv, RuleInv, Setting, HalfSet, Serving,
                        EnablesEventIdx, PoisonInv
    <2> QED
      BY <2>1, <2>2 DEF DaemonInv
  <1>5. ASSUME NEW enabled \in BOOLEAN, enabled <=> EnablesEventIdx,
               control.message \in {"event_idx_on", "event_idx_off"},
               ring' = [ring EXCEPT !.event_idx = enabled],
               control' = [control EXCEPT !.pc = "lock"], UNCHANGED frontend
        PROVE  DaemonInv'
    <2>1. DaemonTypes'
      BY <1>1, <1>5 DEF DaemonInv, DaemonTypes, ControlPCs
    <2>2. /\ ring'.event_idx = enabled /\ ring'.ready = ring.ready /\ ring'.requests = ring.requests
          /\ control'.pc = "lock" /\ control'.message = control.message
      BY <1>5 DEF DaemonInv, DaemonTypes
    <2>3. RegionsInv' /\ PoisonInv'
      BY <1>1, <1>5, <2>2 DEF DaemonInv, RegionsInv, PoisonInv
    <2>4. RuleInv'
      BY <1>1, <1>5, <2>2 DEF DaemonInv, RuleInv, Setting, HalfSet, Serving, EnablesEventIdx
    <2> QED
      BY <2>1, <2>3, <2>4 DEF DaemonInv
  <1>6. EnablesEventIdx \in BOOLEAN
    BY Zenon DEF EnablesEventIdx
  <1>7. control.message \in {"start", "stop", "event_idx_on", "event_idx_off"}
    BY <1>1 DEF DaemonInv, RuleInv, Setting
  <1> QED
    BY <1>2, <1>3, <1>4, <1>5, <1>6, <1>7 DEF SetVring

LEMMA ReplaceMemoryKeeps ==
    ASSUME DaemonInv, ReplaceMemory
    PROVE  DaemonInv'
  <1>1. DaemonTypes'
    BY DEF DaemonInv, DaemonTypes, ControlPCs, ReplaceMemory
  <1>2. RegionsInv' /\ PoisonInv'
    BY DEF DaemonInv, DaemonTypes, RegionsInv, PoisonInv, ReplaceMemory
  <1>3. RuleInv'
    BY DEF DaemonInv, DaemonTypes, RuleInv, Setting, HalfSet, Serving, EnablesEventIdx,
           ReplaceMemory
  <1> QED
    BY <1>1, <1>2, <1>3 DEF DaemonInv

LEMMA AskLockKeeps ==
    ASSUME DaemonInv, AskLock
    PROVE  DaemonInv'
  <1>1. DaemonTypes'
    BY DEF DaemonInv, DaemonTypes, ControlPCs, AskLock
  <1>2. RegionsInv' /\ PoisonInv'
    BY DEF DaemonInv, DaemonTypes, RegionsInv, PoisonInv, AskLock
  <1>3. RuleInv'
    BY DEF DaemonInv, DaemonTypes, RuleInv, Setting, HalfSet, Serving, EnablesEventIdx, AskLock
  <1> QED
    BY <1>1, <1>2, <1>3 DEF DaemonInv

\* The callback waits for the worker, so no snapshot is in use when a region is
\* acknowledged, and no rule when it changes.
LEMMA CallbackKeeps ==
    ASSUME DaemonInv, Callback
    PROVE  DaemonInv'
  <1>1. ~Serving /\ control.pc = "callback"
    BY DEF Callback, CallbackGuard, WriteLock
  <1>2. /\ control' = [pc |-> "idle", message |-> "none"]
        /\ UNCHANGED <<memory, poisoned, main, worker, ring>>
    BY DEF DaemonInv, PoisonInv, Callback
  <1>3. CASE /\ ~Setting
             /\ \/ /\ thread' = [thread EXCEPT !.mem = TRUE]
                   /\ frontend' = [frontend EXCEPT !.regions = memory]
                \/ thread' = [thread EXCEPT !.vu_req = TRUE] /\ UNCHANGED frontend
    <2>1. DaemonTypes'
      BY <1>2, <1>3 DEF DaemonInv, DaemonTypes, ControlPCs
    <2>2. RegionsInv' /\ PoisonInv'
      BY <1>1, <1>2, <1>3 DEF DaemonInv, DaemonTypes, RegionsInv, PoisonInv, Serving
    <2>3. RuleInv'
      BY <1>1, <1>2, <1>3 DEF DaemonInv, DaemonTypes, RuleInv, Setting, HalfSet, Serving,
                              EnablesEventIdx
    <2> QED
      BY <2>1, <2>2, <2>3 DEF DaemonInv
  <1>4. ASSUME NEW enabled \in BOOLEAN, enabled <=> EnablesEventIdx, Setting,
               thread' = [thread EXCEPT !.event_idx = enabled], UNCHANGED frontend
        PROVE  DaemonInv'
    <2>1. DaemonTypes'
      BY <1>2, <1>4 DEF DaemonInv, DaemonTypes, ControlPCs
    <2>2. RegionsInv' /\ PoisonInv'
      BY <1>1, <1>2, <1>4 DEF DaemonInv, DaemonTypes, RegionsInv, PoisonInv, Serving
    <2>3. thread'.event_idx = enabled
      BY <1>4 DEF DaemonInv, DaemonTypes
    <2>4. ring.event_idx = enabled
      <3>1. ring.event_idx \in BOOLEAN /\ (ring.event_idx <=> EnablesEventIdx)
        BY <1>1, <1>4 DEF DaemonInv, DaemonTypes, RuleInv, HalfSet
      <3> QED
        BY <1>4, <3>1
    <2>5. RuleInv'
      BY <1>1, <1>2, <1>4, <2>3, <2>4 DEF DaemonInv, DaemonTypes, RuleInv, Setting, HalfSet,
                                          Serving, EnablesEventIdx
    <2> QED
      BY <2>1, <2>2, <2>5 DEF DaemonInv
  <1>5. EnablesEventIdx \in BOOLEAN
    BY Zenon DEF EnablesEventIdx
  <1> QED
    BY <1>3, <1>4, <1>5
       DEF DaemonInv, PoisonInv, Callback, UpdateMemory, SetBackendReqFd, SetEventIdx, Setting

LEMMA DisconnectKeeps ==
    ASSUME DaemonInv, Disconnected \/ Disconnect
    PROVE  DaemonInv'
  <1>1. CASE Disconnected
    BY <1>1 DEF DaemonInv, DaemonTypes, RegionsInv, RuleInv, Setting, HalfSet, Serving,
                EnablesEventIdx, PoisonInv, ControlPCs, Disconnected
  <1>2. CASE Disconnect
    BY <1>2 DEF DaemonInv, DaemonTypes, RegionsInv, RuleInv, Setting, HalfSet, Serving,
                EnablesEventIdx, PoisonInv, Disconnect
  <1> QED
    BY <1>1, <1>2

LEMMA PublishKeeps ==
    ASSUME DaemonInv, NEW region \in Regions, Publish(region)
    PROVE  DaemonInv'
  <1>1. region \in Nat
    BY DaemonAssumption DEF Regions
  <1>2. DaemonTypes'
    <2> DEFINE requests == ring.requests \cup {region}
    <2>1. /\ ring' = [ring EXCEPT !.kick = TRUE, !.requests = requests, !.made = @ + 1]
          /\ UNCHANGED <<thread, memory, main, control, worker, frontend>>
      BY DEF Publish
    <2>2. requests \in SUBSET Nat
      BY <1>1 DEF DaemonInv, DaemonTypes
    <2> HIDE DEF requests
    <2>3. ring.made + 1 \in Nat
      BY DEF DaemonInv, DaemonTypes
    <2>4. ring' \in [ready : BOOLEAN, event_idx : BOOLEAN, kick : BOOLEAN, requests : SUBSET Nat,
               made : Nat]
      BY <2>1, <2>2, <2>3, Zenon DEF DaemonInv, DaemonTypes
    <2> QED
      BY <2>1, <2>4 DEF DaemonInv, DaemonTypes
  <1>3. RegionsInv' /\ RuleInv' /\ PoisonInv'
    BY <1>1 DEF DaemonInv, DaemonTypes, RegionsInv, RuleInv, Setting, HalfSet, Serving,
                EnablesEventIdx, PoisonInv, Publish
  <1> QED
    BY <1>2, <1>3 DEF DaemonInv

-----------------------------------------------------------------------------
(* The worker.                                                             *)

\* Steps that only move the worker along.
LEMMA WorkerMoves ==
    ASSUME DaemonInv, NEW pc \in WorkerPCs \ {"collect", "handle"}, worker' = [worker EXCEPT !.pc = pc],
           pc = "load" => Serving,
           UNCHANGED <<thread, memory, main, control, frontend>>, poisoned' \subseteq {"vring"},
           ring' = ring \/ ring' = [ring EXCEPT !.kick = FALSE]
    PROVE  DaemonInv'
  <1>1. DaemonTypes'
    BY DEF DaemonInv, DaemonTypes
  <1>2. RegionsInv' /\ RuleInv' /\ PoisonInv'
    BY DEF DaemonInv, DaemonTypes, RegionsInv, RuleInv, Setting, HalfSet, Serving, EnablesEventIdx,
           PoisonInv
  <1> QED
    BY <1>1, <1>2 DEF DaemonInv

\* handle_event decides by the setting it finds.
LEMMA HandleEventKeeps ==
    ASSUME DaemonInv, HandleEvent
    PROVE  DaemonInv'
  <1>1. /\ worker' = [worker EXCEPT !.pc = "load", !.event_idx = thread.event_idx]
        /\ UNCHANGED <<thread, memory, poisoned, main, control, frontend, ring>>
    BY DEF HandleEvent
  <1>2. DaemonTypes'
    BY <1>1 DEF DaemonInv, DaemonTypes, WorkerPCs
  <1>3. RegionsInv' /\ RuleInv' /\ PoisonInv'
    BY <1>1 DEF DaemonInv, DaemonTypes, RegionsInv, RuleInv, Setting, HalfSet, Serving, PoisonInv,
                EnablesEventIdx
  <1> QED
    BY <1>2, <1>3 DEF DaemonInv

LEMMA LoadMemoryKeeps ==
    ASSUME DaemonInv, LoadMemory
    PROVE  DaemonInv'
  <1>1. CASE thread.mem
    <2>1. DaemonTypes'
      BY <1>1 DEF DaemonInv, DaemonTypes, WorkerPCs, LoadMemory
    <2>2. RegionsInv' /\ RuleInv' /\ PoisonInv'
      BY <1>1 DEF DaemonInv, DaemonTypes, RegionsInv, RuleInv, Setting, HalfSet, Serving,
                  EnablesEventIdx, PoisonInv, LoadMemory
    <2> QED
      BY <2>1, <2>2 DEF DaemonInv
  <1>2. CASE ~thread.mem
    BY <1>2, WorkerMoves DEF DaemonInv, PoisonInv, WorkerPCs, LoadMemory
  <1> QED
    BY <1>1, <1>2

LEMMA CollectKeeps ==
    ASSUME DaemonInv, Collect
    PROVE  DaemonInv'
  <1>1. CASE ring.ready
    <2>1. DaemonTypes'
      BY <1>1 DEF DaemonInv, DaemonTypes, WorkerPCs, Collect
    <2>2. /\ worker.pc = "collect" /\ worker' = [worker EXCEPT !.pc = "handle", !.batch = ring.requests]
          /\ ring' = [ring EXCEPT !.requests = {}]
          /\ UNCHANGED <<thread, memory, poisoned, main, control, frontend>>
      BY <1>1 DEF Collect
    <2>3. /\ worker'.pc = "handle" /\ worker'.batch = ring.requests
          /\ worker'.regions = worker.regions /\ ring'.requests = {}
      BY <2>2 DEF DaemonInv, DaemonTypes
    <2>4. RegionsInv'
      <3>1. ASSUME NEW region \in ring.requests PROVE region <= worker.regions
        BY <2>2 DEF DaemonInv, DaemonTypes, RegionsInv
      <3> QED
        BY <2>2, <2>3, <3>1 DEF DaemonInv, RegionsInv
    <2>5. RuleInv' /\ PoisonInv'
      BY <1>1, <2>2 DEF DaemonInv, DaemonTypes, RuleInv, Setting, HalfSet, Serving, EnablesEventIdx,
                        PoisonInv
    <2> QED
      BY <2>1, <2>4, <2>5 DEF DaemonInv
  <1>2. CASE ~ring.ready
    BY <1>2, WorkerMoves DEF DaemonInv, PoisonInv, WorkerPCs, Collect
  <1> QED
    BY <1>1, <1>2

LEMMA HandleMessageKeeps ==
    ASSUME DaemonInv, HandleMessage
    PROVE  DaemonInv'
  <1>1. PICK region \in worker.batch : worker' = [worker EXCEPT !.batch = @ \ {region}]
    BY DEF HandleMessage
  <1>2. UNCHANGED <<thread, memory, poisoned, main, control, frontend, ring>>
    BY DEF HandleMessage
  <1>3. DaemonTypes'
    BY <1>1, <1>2 DEF DaemonInv, DaemonTypes
  <1>4. RegionsInv' /\ RuleInv' /\ PoisonInv'
    BY <1>1, <1>2 DEF DaemonInv, DaemonTypes, RegionsInv, RuleInv, Setting, HalfSet, Serving,
                      EnablesEventIdx, PoisonInv
  <1> QED
    BY <1>3, <1>4 DEF DaemonInv

LEMMA WorkerKeeps ==
    ASSUME DaemonInv, WorkerStep \/ SeeKill \/ UnexpectedEvent \/ Panic
    PROVE  DaemonInv'
  <1>p. poisoned \subseteq {"vring"}
    BY DEF DaemonInv, PoisonInv
  <1>1. CASE TakeEvent
    BY <1>1, <1>p, WorkerMoves DEF WorkerPCs, TakeEvent
  <1>2. CASE Finish
    BY <1>2, <1>p, WorkerMoves DEF WorkerPCs, Serving, Finish
  <1>3. CASE SeeKill \/ UnexpectedEvent
    BY <1>3, <1>p, WorkerMoves DEF WorkerPCs, SeeKill, UnexpectedEvent
  <1>4. CASE Panic
    BY <1>4, WorkerMoves DEF WorkerPCs, Panic, EventGuard
  <1> QED
    BY <1>1, <1>2, <1>3, <1>4, HandleEventKeeps, LoadMemoryKeeps, CollectKeeps,
       HandleMessageKeeps DEF WorkerStep

LEMMA DaemonStep ==
    ASSUME DaemonInv, [DaemonNext]_dvars
    PROVE  DaemonInv'
  <1>1. CASE UNCHANGED dvars
    BY <1>1 DEF dvars, DaemonInv, DaemonTypes, RegionsInv, RuleInv, Setting, HalfSet, Serving,
                EnablesEventIdx, PoisonInv
  <1>2. CASE DaemonNext
    <2>1. CASE Start \/ StartFails \/ MainStep
      BY <2>1, StartKeeps, KillKeeps, MainKeeps DEF MainStep
    <2>2. CASE ControlStep
      BY <2>2, SetVringKeeps, ReplaceMemoryKeeps, AskLockKeeps, CallbackKeeps, DisconnectKeeps
         DEF ControlStep
    <2>3. CASE Over
      BY <2>3, <1>1 DEF Over
    <2> QED
      BY <1>2, <2>1, <2>2, <2>3, ReceiveKeeps, PublishKeeps, WorkerKeeps, DisconnectKeeps
         DEF DaemonNext
  <1> QED
    BY <1>1, <1>2

-----------------------------------------------------------------------------
(* No batch ever meets a request whose memory it does not see: update_memory waits
   for handle_event, and the guest is told of a region only after that. *)
THEOREM BatchSeesItsMemory == DaemonSpec => []MemoryCovers
  <1>1. DaemonInv => MemoryCovers
    BY DEF DaemonInv, RegionsInv, MemoryCovers
  <1> QED
    BY <1>1, DaemonStart, DaemonStep, PTL DEF DaemonSpec

(* A batch is looped over, signalled and read by one event-idx setting, however the
   messages that set it, the stops and starts of the ring and late events interleave. *)
THEOREM BatchHasOneRule == DaemonSpec => []OneRule
  <1>1. DaemonInv => OneRule
    BY DEF DaemonInv, RuleInv, Setting, HalfSet, Serving, EnablesEventIdx, OneRule
  <1> QED
    BY <1>1, DaemonStart, DaemonStep, PTL DEF DaemonSpec

(* Wherever the worker panics, main's unwrap of the lock and those of the callbacks
   succeed, since handle_event holds only a read guard. *)
THEOREM PanicIsContained == DaemonSpec => []MainSurvives
  <1>1. DaemonInv => MainSurvives
    BY DEF DaemonInv, PoisonInv, MainSurvives
  <1> QED
    BY <1>1, DaemonStart, DaemonStep, PTL DEF DaemonSpec

=============================================================================
