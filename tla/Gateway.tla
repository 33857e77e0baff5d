-------------------------------- MODULE Gateway --------------------------------
(***************************************************************************)
(* The gateway: orchestrator/registry.py (NodeRegistry), health_checker.py *)
(* (HealthChecker), scheduler.py (Scheduler) and the threads of gateway.py *)
(* that share the registry, with the heartbeat and ping threads of the     *)
(* workers (core/worker.py).                                               *)
(*                                                                         *)
(* The registry's lock is held by one method at a time and let go between  *)
(* two of them, so an action is one critical section of one thread, or     *)
(* one read that a thread makes of a WorkerInfo without the lock.          *)
(* A worker here is a worker_id: one run of a worker process, for it draws *)
(* a new id whenever it starts.                                            *)
(***************************************************************************)
EXTENDS Integers, FiniteSets

CONSTANTS
    Workers,    \* worker_ids
    ShardIdx,   \* ShardIdx[w]: the shard w runs
    Width,      \* Width[w]: the num_shards w was started with
    ModelName,  \* ModelName[w]: the model w was started with
    Deaf,       \* workers that answer no ping: they could not bind the port, or
                \* somebody sent it anything but "ping", which it owes a reply
    Requests,   \* get_chain requests: [model_name, num_shards]
    MaxWidth,   \* the largest num_shards of a request
    Latencies,  \* round-trip times a ping can measure
    MISS_LIMIT, \* 3 in health_checker.py
    MaxFaults,  \* bound: workers that stop, heartbeats that stay away for
                \* stale_timeout_s and pings of a running worker that time out
    MaxServing  \* bound: those of them up to the end of a request

UNMEASURED == 9999

(* ModelShard raises ValueError unless 0 <= shard_idx < num_shards          *)
(* (model_shard.py:101), before run_worker starts the heartbeat.           *)
ASSUME GatewayAssumption ==
    /\ ShardIdx \in [Workers -> Nat] /\ Width \in [Workers -> Nat]
    /\ \A w \in Workers : ShardIdx[w] < Width[w]
    /\ MaxWidth \in Nat \ {0}
    /\ \A r \in Requests : r.num_shards \in 1 .. MaxWidth
    /\ Latencies \subseteq 0 .. UNMEASURED - 1
    /\ MISS_LIMIT \in Nat \ {0} /\ MaxFaults \in Nat /\ MaxServing \in Nat

VARIABLES
    process,    \* process[w]: "up", "late" (ended, but a heartbeat of it is
                \* still unread) or "down"
    faults,     \* faults so far
    node,       \* node[w]: the entry self._workers[w], or Absent
    checking,   \* where _check_all is
    unchecked,  \* workers of its snapshot it has still to ping
    ping,       \* the ping it has just made, as a set of at most one
    misses,     \* self._misses, counted up to MISS_LIMIT
    answered,   \* history: workers whose last ping was answered
    phase,      \* where _client_loop is in build_pipeline, or "mute"
    request,    \* the request it serves, or NoRequest
    todo, kept, \* workers its present loop has still to look at, has kept
    slots,      \* slots of build_pipeline, each a set of at most one worker
    evicted     \* evicted[w]: an entry deleted while _client_loop held it,
                \* which it goes on reading, or Absent

(* What the promises about a reply are stated with.  Since its request was *)
(* received, the workers in seen were neither stale nor unhealthy at some  *)
(* time, those in steady were registered and healthy all the time, and     *)
(* moved says whether a latency was updated.                               *)
VARIABLES seen, steady, moved

checkVars == <<checking, unchecked, ping, misses, answered>>
clientVars == <<phase, request, todo, kept, slots>>
history == <<seen, steady, moved>>
vars == <<process, faults, node, checkVars, clientVars, evicted, history>>

WorkerInfo ==
    [fresh : BOOLEAN, healthy : BOOLEAN, latency : Latencies \cup {UNMEASURED}]
Absent == [fresh |-> FALSE, healthy |-> FALSE, latency |-> -1]
Timeout == -1
NoRequest == [model_name |-> "", num_shards |-> 0]

SlotIdx == 0 .. MaxWidth - 1
NoSlots == [i \in SlotIdx |-> {}]

TypeOK ==
    /\ process \in [Workers -> {"up", "late", "down"}]
    /\ faults \in 0 .. MaxFaults
    /\ node \in [Workers -> WorkerInfo \cup {Absent}]
    /\ checking \in {"wait", "list", "ping"}
    /\ unchecked \subseteq Workers
    /\ ping \subseteq [worker : Workers, result : Latencies \cup {Timeout}]
    /\ misses \in [Workers -> 0 .. MISS_LIMIT]
    /\ answered \subseteq Workers
    /\ phase \in {"idle", "list", "filter", "choose", "mute"}
    /\ request \in Requests \cup {NoRequest}
    /\ todo \subseteq Workers /\ kept \subseteq Workers
    /\ slots \in [SlotIdx -> SUBSET Workers]
    /\ evicted \in [Workers -> WorkerInfo \cup {Absent}]
    /\ seen \subseteq Workers
    /\ steady \subseteq Workers /\ moved \in BOOLEAN

Init ==
    /\ process = [w \in Workers |-> "up"] /\ faults = 0
    /\ node = [w \in Workers |-> Absent]
    /\ checking = "wait" /\ unchecked = {} /\ ping = {}
    /\ misses = [w \in Workers |-> 0] /\ answered = {}
    /\ phase = "idle" /\ request = NoRequest
    /\ todo = {} /\ kept = {} /\ slots = NoSlots
    /\ evicted = [w \in Workers |-> Absent]
    /\ seen = {} /\ steady = {} /\ moved = FALSE

-----------------------------------------------------------------------------
(* The workers                                                             *)

Running == {w \in Workers : process[w] = "up"}
ResponsiveOnOtherPort == {}   \* mutant: the checker pings another port
Responsive == Running \ Deaf

Serving == request # NoRequest

Fault ==
    /\ faults < MaxFaults /\ (Serving => faults < MaxServing)
    /\ faults' = faults + 1

(* The worker ends; a heartbeat the gateway received may still be unread.  *)
StopWorker(w) ==
    /\ w \in Running
    /\ Fault
    /\ \E p \in {"late", "down"} : process' = [process EXCEPT ![w] = p]
    /\ UNCHANGED <<node, checkVars, clientVars, evicted, history>>

-----------------------------------------------------------------------------
(* NodeRegistry                                                            *)

Registered == {w \in Workers : node[w] # Absent}
Stale == {w \in Registered : ~node[w].fresh}

(* register(): a known worker is refreshed and healthy again, whatever its *)
(* pings said; its latency stays.                                          *)
Register(w) ==
    node' = [node EXCEPT ![w] =
               [fresh |-> TRUE, healthy |-> TRUE,
                latency |-> IF w \in Registered THEN @.latency ELSE UNMEASURED]]

(* Mutant: only entries that are still healthy are evicted.                *)
EvictStaleHealthy ==
    LET gone == {w \in Stale : node[w].healthy} IN
    /\ node' = [w \in Workers |-> IF w \in gone THEN Absent ELSE node[w]]
    /\ evicted' = [w \in Workers |->
         IF w \in gone \cap (todo \cup kept) /\ evicted[w] = Absent
         THEN node[w] ELSE evicted[w]]

(* _evict_stale().  An entry that _client_loop holds lives on there.       *)
EvictStale ==
    /\ node' = [w \in Workers |-> IF w \in Stale THEN Absent ELSE node[w]]
    /\ evicted' = [w \in Workers |->
         IF w \in Stale \cap (todo \cup kept) /\ evicted[w] = Absent
         THEN node[w] ELSE evicted[w]]

(* More than stale_timeout_s pass without a heartbeat of w.                *)
Age(w) ==
    /\ w \in Registered /\ node[w].fresh
    /\ node' = [node EXCEPT ![w].fresh = FALSE]
    /\ IF w \in Running THEN Fault ELSE UNCHANGED faults
    /\ UNCHANGED <<process, checkVars, clientVars, evicted, history>>

(* _heartbeat_loop of the worker sends every 5 s, that of the gateway      *)
(* registers what it receives.                                             *)
Heartbeat(w) ==
    /\ \/ w \in Running /\ UNCHANGED process
       \/ process[w] = "late" /\ process' = [process EXCEPT ![w] = "down"]
    /\ Register(w)
    /\ seen' = IF Serving THEN seen \cup {w} ELSE seen
    /\ UNCHANGED <<faults, checkVars, clientVars, evicted, steady, moved>>

(* snapshot() for a status request or for the metrics thread.              *)
Snapshot ==
    /\ Stale # {}
    /\ EvictStale
    /\ steady' = steady \ Stale
    /\ UNCHANGED <<process, faults, checkVars, clientVars, seen, moved>>

-----------------------------------------------------------------------------
(* HealthChecker                                                           *)

(* _check_all: snapshot() evicts, then lists.                              *)
CheckEvicts ==
    /\ checking = "wait"
    /\ EvictStale
    /\ checking' = "list"
    /\ steady' = steady \ Stale
    /\ UNCHANGED <<process, faults, unchecked, ping, misses, answered, clientVars, seen,
                   moved>>

CheckLists ==
    /\ checking = "list"
    /\ unchecked' = Registered
    /\ checking' = IF Registered = {} THEN "wait" ELSE "ping"
    /\ UNCHANGED <<process, faults, node, ping, misses, answered, clientVars, evicted,
                   history>>

(* _ping waits up to PING_TIMEOUT_MS for the answer, without the lock.     *)
PingWorker(w) ==
    /\ checking = "ping" /\ ping = {}
    /\ w \in unchecked
    /\ unchecked' = unchecked \ {w}
    /\ \/ \E r \in Latencies : /\ w \in Responsive
                               /\ ping' = {[worker |-> w, result |-> r]}
                               /\ UNCHANGED faults
       \/ /\ ping' = {[worker |-> w, result |-> Timeout]}
          /\ IF w \in Responsive THEN Fault ELSE UNCHANGED faults
    /\ UNCHANGED <<process, node, checking, misses, answered, clientVars, evicted,
                   history>>

(* Mutant: the misses of a worker's whole life are added up.               *)
AnsweredNoReset(w, r) ==
    /\ node' = IF w \in Registered THEN [node EXCEPT ![w].latency = r] ELSE node
    /\ moved' = Serving
    /\ UNCHANGED <<misses, steady>>

(* update_latency() does nothing for a worker that was evicted meanwhile.  *)
Answered(w, r) ==
    /\ misses' = [misses EXCEPT ![w] = 0]
    /\ node' = IF w \in Registered THEN [node EXCEPT ![w].latency = r] ELSE node
    /\ moved' = Serving
    /\ UNCHANGED steady

(* Mutant: == for >=, so a worker is only marked once.                     *)
MissedOnce(w) ==
    LET marks == misses[w] + 1 = MISS_LIMIT IN
    /\ misses' = [misses EXCEPT ![w] = IF @ = MISS_LIMIT THEN @ ELSE @ + 1]
    /\ node' = IF marks /\ w \in Registered
               THEN [node EXCEPT ![w].healthy = FALSE] ELSE node
    /\ steady' = IF marks THEN steady \ {w} ELSE steady
    /\ UNCHANGED moved

(* mark_unhealthy() from the MISS_LIMIT-th miss in a row on.               *)
Missed(w) ==
    LET marks == misses[w] + 1 >= MISS_LIMIT IN
    /\ misses' = [misses EXCEPT ![w] = IF marks THEN MISS_LIMIT ELSE @ + 1]
    /\ node' = IF marks /\ w \in Registered
               THEN [node EXCEPT ![w].healthy = FALSE] ELSE node
    /\ steady' = IF marks THEN steady \ {w} ELSE steady
    /\ UNCHANGED moved

RecordPing ==
    /\ \E p \in ping : IF p.result = Timeout THEN Missed(p.worker)
                       ELSE Answered(p.worker, p.result)
    /\ answered' = {p.worker : p \in {q \in ping : q.result # Timeout}}
                     \cup (answered \ {p.worker : p \in ping})
    /\ ping' = {}
    /\ checking' = IF unchecked = {} THEN "wait" ELSE "ping"
    /\ UNCHANGED <<process, faults, unchecked, clientVars, evicted, seen>>

-----------------------------------------------------------------------------
(* _client_loop: a get_chain request, get_workers() and build_pipeline()   *)

(* get_workers() evicts first ...                                          *)
ReceiveRequest ==
    /\ phase = "idle" /\ faults <= MaxServing
    /\ request' \in Requests
    /\ EvictStale
    /\ phase' = "list"
    /\ seen' = {w \in Registered \ Stale : node[w].healthy}
    /\ steady' = seen'
    /\ moved' = FALSE
    /\ UNCHANGED <<process, faults, checkVars, todo, kept, slots>>

(* No model name, or "*", asks for any model.                              *)
AnyModel == {"", "*"}
Wanted(w) == request.model_name \in AnyModel \cup {ModelName[w]}

(* ... then lists the entries, under the lock taken anew; their model name *)
(* never changes.                                                          *)
ListWorkers ==
    /\ phase = "list"
    /\ todo' = {w \in Registered : Wanted(w)}
    /\ phase' = "filter"
    /\ UNCHANGED <<process, faults, node, checkVars, request, kept, slots, evicted,
                   history>>

(* The entry a listed worker was listed with.                              *)
Entry(w) == IF evicted[w] # Absent THEN evicted[w] ELSE node[w]

(* Mutant: healthy_only is ignored.                                        *)
FilterWorkerNot(w) ==
    /\ phase = "filter" /\ w \in todo
    /\ todo' = todo \ {w}
    /\ kept' = kept \cup {w}
    /\ UNCHANGED <<process, faults, node, checkVars, phase, request, slots, evicted,
                   history>>

(* healthy_only, one is_healthy after the other, without the lock.         *)
FilterWorker(w) ==
    /\ phase = "filter" /\ w \in todo
    /\ todo' = todo \ {w}
    /\ kept' = IF Entry(w).healthy THEN kept \cup {w} ELSE kept
    /\ UNCHANGED <<process, faults, node, checkVars, phase, request, slots, evicted,
                   history>>

(* build_pipeline() takes the workers of the requested width.              *)
SelectCompatible ==
    /\ phase = "filter" /\ todo = {}
    /\ todo' = {w \in kept : Width[w] = request.num_shards}
    /\ kept' = todo'
    /\ phase' = "choose"
    /\ UNCHANGED <<process, faults, node, checkVars, request, slots, evicted, history>>

(* Mutant: the best latency so far starts at 9999.0, which a worker nobody *)
(* has pinged yet cannot beat.                                             *)
ChooseWorkerMeasured(w) ==
    /\ phase = "choose" /\ w \in todo
    /\ \A v \in todo : ShardIdx[w] <= ShardIdx[v]
    /\ todo' = todo \ {w}
    /\ slots' = [slots EXCEPT ![ShardIdx[w]] =
         IF /\ Entry(w).latency < UNMEASURED
            /\ \A v \in @ : Entry(w).latency < Entry(v).latency
         THEN {w} ELSE @]
    /\ UNCHANGED <<process, faults, node, checkVars, phase, request, kept, evicted,
                   history>>

(* Mutant: the last worker listed wins the slot.                           *)
ChooseWorkerLast(w) ==
    /\ phase = "choose" /\ w \in todo
    /\ \A v \in todo : ShardIdx[w] <= ShardIdx[v]
    /\ todo' = todo \ {w}
    /\ slots' = [slots EXCEPT ![ShardIdx[w]] = {w}]
    /\ UNCHANGED <<process, faults, node, checkVars, phase, request, kept, evicted,
                   history>>

(* The lower latency wins the slot; workers come by shard.                 *)
ChooseWorker(w) ==
    /\ phase = "choose" /\ w \in todo
    /\ \A v \in todo : ShardIdx[w] <= ShardIdx[v]
    /\ todo' = todo \ {w}
    /\ slots' = [slots EXCEPT ![ShardIdx[w]] =
         IF \A v \in @ : Entry(w).latency < Entry(v).latency THEN {w} ELSE @]
    /\ UNCHANGED <<process, faults, node, checkVars, phase, request, kept, evicted,
                   history>>

(* A request that is not JSON: recv_json raises, and the REP socket owes a *)
(* reply from then on, so it receives no other request.                    *)
ReceiveGarbled ==
    /\ phase = "idle" /\ phase' = "mute"
    /\ UNCHANGED <<process, faults, node, checkVars, request, todo, kept, slots,
                   evicted, history>>

Chosen == phase = "choose" /\ todo = {}
Missing == \E i \in 0 .. request.num_shards - 1 : slots[i] = {}

(* The chain, or NotEnoughWorkersError when Missing, is sent.              *)
Reply ==
    /\ Chosen
    /\ phase' = "idle" /\ request' = NoRequest /\ kept' = {} /\ slots' = NoSlots
    /\ evicted' = [w \in Workers |-> Absent]
    /\ seen' = {} /\ steady' = {} /\ moved' = FALSE
    /\ UNCHANGED <<process, faults, node, checkVars, todo>>

-----------------------------------------------------------------------------
Next ==
    \/ \E w \in Workers :
         \/ StopWorker(w) \/ Heartbeat(w) \/ Age(w)
         \/ PingWorker(w) \/ FilterWorker(w) \/ ChooseWorker(w)
    \/ Snapshot \/ CheckEvicts \/ CheckLists \/ RecordPing
    \/ ReceiveRequest \/ ReceiveGarbled \/ ListWorkers \/ SelectCompatible \/ Reply

Spec == Init /\ [][Next]_vars

(* A worker that runs goes on sending heartbeats, the gateway's threads go *)
(* on, and an entry nobody refreshes grows old.  No worker need start or   *)
(* stop, and no client need ask.                                           *)
Fairness ==
    /\ \A w \in Workers :
        /\ WF_vars(Heartbeat(w))
        /\ WF_vars(process[w] = "down" /\ Age(w))
    /\ WF_vars(\E w \in Workers : PingWorker(w))
    /\ WF_vars(CheckEvicts) /\ WF_vars(CheckLists) /\ WF_vars(RecordPing)

FairSpec == Spec /\ Fairness

-----------------------------------------------------------------------------
(* Properties                                                              *)

(* A chain is made of workers that were neither stale nor unhealthy at     *)
(* some time while the request was served, although entries are evicted,   *)
(* refreshed and marked between the reads of get_workers().                *)
ChainWasAlive ==
    Chosen /\ ~Missing =>
        \A i \in 0 .. request.num_shards - 1 : slots[i] \subseteq seen

(* A request fails only for a real gap: not if for every shard some worker *)
(* was registered and healthy from the first to the last step of it.       *)
NoFalseShortage ==
    Chosen /\ Missing =>
        \E i \in 0 .. request.num_shards - 1 : \A w \in steady :
            Wanted(w) /\ Width[w] = request.num_shards => ShardIdx[w] # i

(* Unless a latency was updated meanwhile, the chosen worker is a fastest  *)
(* one of those that passed the filters.                                   *)
ChainIsFastest ==
    Chosen /\ ~moved =>
        \A w \in kept : \A v \in slots[ShardIdx[w]] :
            Entry(v).latency <= Entry(w).latency

(* Lost pings do not add up over the life of a worker (_check_all): where   *)
(* one miss is allowed, a worker that answered its last ping is not marked *)
(* for the next one, whatever it missed earlier.                           *)
OneMissForgiven ==
    [][ MISS_LIMIT > 1 =>
          \A w \in answered \cap Registered :
            node[w].healthy /\ node'[w] # Absent => node'[w].healthy ]_vars

(* A worker that stopped disappears from the registry for good, though the *)
(* registry only evicts when it is read, and clients may not be able to.   *)
StoppedForgotten ==
    \A w \in Workers : process[w] = "down" ~> [](w \notin Registered)

(* A worker without a ping responder is marked unhealthy: "pings will      *)
(* always time out and the worker will eventually be marked unhealthy".    *)
DeafIsMarked ==
    \A w \in Deaf :
        []<>(w \in Running => w \in Registered /\ ~node[w].healthy)

(* A running worker that was marked for lost pings, or forgotten for lost  *)
(* heartbeats, comes back: once the network is quiet and its pings are     *)
(* answered again, it ends up registered and healthy for good.             *)
RunningIsUsable ==
    \A w \in Workers \ Deaf :
        <>[](w \in Running => w \in Registered /\ node[w].healthy)

================================================================================
