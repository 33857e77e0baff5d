------------------------------- MODULE AutoJoin -------------------------------
(***************************************************************************)
(* core/auto_worker.py (auto_join) on several devices against one          *)
(* NetworkCoordinator, with the part of core/worker.py (run_worker) that   *)
(* a joining device goes through: load, bind, touch the ready file,        *)
(* install the signal handler, enter the inference loop.                   *)
(*                                                                         *)
(* A process is one `lankamind join` (or the LocalWorker thread of         *)
(* `lankamind start`); it may be run again after it ended.  HTTP calls are *)
(* a request and a reply that can outlive the caller's timeout; the        *)
(* ReadyNotifier thread runs beside run_worker and shares only the ready   *)
(* file with it.                                                           *)
(***************************************************************************)
EXTENDS Integers, Sequences, FiniteSets

CONSTANTS
    NumShards,      \* shards of the network
    Procs,          \* processes that may run auto_join
    HostOf,         \* HostOf[p]: my_ip of process p, the machine it runs on
    ResultHost,     \* the coordinator's machine
    Background,     \* processes whose auto_join runs off the main thread
    StaleFiles,     \* ready files a killed worker left, as <<host, shard>>
    MaxRuns,        \* bound: runs of auto_join, over all processes
    MaxRestarts,    \* bound: restarts of the coordinator
    Faults          \* the faults that may happen, a subset of FaultKinds

FaultKinds ==
    {"register_timeout", "topology_timeout", "slow_load", "lost_ready",
     "kill", "terminate"}

Hosts == {HostOf[p] : p \in Procs}
Shards == 0 .. NumShards - 1
NoShard == -1
NoConfig == [input_port |-> 0, output_address |-> <<"", 0>>, host |-> ""]

ASSUME AutoJoinAssumption ==
    /\ NumShards \in Nat \ {0}    \* NetworkCoordinator raises ValueError
    /\ IsFiniteSet(Procs) /\ HostOf \in [Procs -> Hosts]
    /\ Background \subseteq Procs
    /\ StaleFiles \subseteq Hosts \X Shards
    /\ MaxRuns \in Nat /\ MaxRestarts \in Nat
    /\ Faults \subseteq FaultKinds

VARIABLES
    slots, nextShard,   \* the coordinator
    restarts,           \* times the coordinator was restarted
    pc,         \* where auto_join or run_worker of p is
    run,        \* how many runs of auto_join p has started
    shard,      \* shard_idx of auto_join
    cfg,        \* cfg of auto_join
    notifier,   \* the ReadyNotifier thread of p
    requests,   \* POST /api/register on its way: [proc, run]
    replies,    \* its answer on its way back: [proc, run, shard]
    readyPosts, \* POST /api/ready/{i} on its way: the shards i
    readyFiles, \* lankamind_worker_{i}.ready in a host's temp directory
    grants,     \* history: grants[k] is the run that got the k-th slot
    loaded      \* history: [proc, run, shard] whose model was loaded

Coord == INSTANCE Coordinator

coordVars == <<slots, nextShard, grants, restarts>>
procVars == <<pc, run, shard, cfg, notifier>>
netVars == <<requests, replies, readyPosts>>
vars == <<coordVars, procVars, netVars, readyFiles, loaded>>

Ended == {"idle", "refused", "failed", "killed"}
Bound == {"starting", "serving"}        \* the worker's sockets are open
Alive == {"loading"} \cup Bound         \* run_worker was entered

Runs == [proc : Procs, run : 1 .. MaxRuns]

TypeOK ==
    /\ Coord!TypeOK
    /\ restarts \in 0 .. MaxRestarts
    /\ pc \in [Procs -> Ended \cup Alive \cup
                        {"registering", "polling", "aborted"}]
    /\ run \in [Procs -> 0 .. MaxRuns]
    /\ shard \in [Procs -> Shards \cup {NoShard}]
    /\ cfg \in [Procs ->
         [input_port : Nat, host : Hosts \cup {""},
          output_address : (Hosts \cup {"", ResultHost}) \X Nat]]
    /\ notifier \in [Procs -> {"off", "polling"}]
    /\ requests \subseteq Runs
    /\ replies \subseteq
         [proc : Procs, run : 1 .. MaxRuns, shard : Shards \cup {NoShard}]
    /\ readyPosts \subseteq Shards
    /\ readyFiles \subseteq Hosts \X Shards
    /\ grants \in Seq(Runs)
    /\ loaded \subseteq [proc : Procs, run : 1 .. MaxRuns, shard : Shards]

Init ==
    /\ Coord!Init
    /\ restarts = 0
    /\ pc = [p \in Procs |-> "idle"]
    /\ run = [p \in Procs |-> 0]
    /\ shard = [p \in Procs |-> NoShard]
    /\ cfg = [p \in Procs |-> NoConfig]
    /\ notifier = [p \in Procs |-> "off"]
    /\ requests = {} /\ replies = {} /\ readyPosts = {}
    /\ readyFiles = StaleFiles
    /\ grants = <<>>
    /\ loaded = {}

ThisRun(p) == [proc |-> p, run |-> run[p]]
RunsSoFar == Cardinality({r \in Runs : r.run <= run[r.proc]})

-----------------------------------------------------------------------------
(* auto_join, steps 1 and 2: find the coordinator and register             *)

StartJoin(p) ==
    /\ pc[p] \in Ended
    /\ p \in Background => pc[p] \notin {"refused", "failed"}  \* still running
    /\ RunsSoFar < MaxRuns
    /\ run' = [run EXCEPT ![p] = @ + 1]
    /\ pc' = [pc EXCEPT ![p] = "registering"]
    /\ shard' = [shard EXCEPT ![p] = NoShard]
    /\ cfg' = [cfg EXCEPT ![p] = NoConfig]
    /\ requests' = requests \cup {[proc |-> p, run |-> run[p] + 1]}
    /\ UNCHANGED <<coordVars, notifier, replies, readyPosts, readyFiles, loaded>>

(* The coordinator serves a registration whether or not its caller still   *)
(* waits; the answer reaches only a caller that does.                      *)
Deliver(r, s) ==
    replies' = IF run[r.proc] = r.run /\ pc[r.proc] = "registering"
               THEN replies \cup {[proc |-> r.proc, run |-> r.run, shard |-> s]}
               ELSE replies

(* (mutant: registering again from a known address returns its old slot)   *)
HandleRegisterByHost(r) ==
    /\ r \in requests
    /\ requests' = requests \ {r}
    /\ \/ /\ Coord!Register(HostOf[r.proc])
          /\ grants' = Append(grants, r)
          /\ Deliver(r, nextShard)
       \/ /\ \E k \in DOMAIN slots :
               slots[k].host = HostOf[r.proc] /\ Deliver(r, slots[k].shard_idx)
          /\ UNCHANGED <<slots, nextShard, grants>>
    /\ UNCHANGED <<restarts, procVars, readyPosts, readyFiles, loaded>>

HandleRegister(r) ==
    /\ r \in requests
    /\ requests' = requests \ {r}
    /\ \/ /\ Coord!Register(HostOf[r.proc])
          /\ grants' = Append(grants, r)
          /\ Deliver(r, nextShard)
       \/ /\ Coord!NetworkFull              \* HTTP 409
          /\ Deliver(r, NoShard)
          /\ UNCHANGED <<slots, nextShard, grants>>
    /\ UNCHANGED <<restarts, procVars, readyPosts, readyFiles, loaded>>

(* raise_for_status() turns the 409 into a RuntimeError.                   *)
Registered(p) ==
    /\ pc[p] = "registering"
    /\ \E a \in replies :
         /\ a.proc = p /\ a.run = run[p]
         /\ replies' = replies \ {a}
         /\ shard' = [shard EXCEPT ![p] = a.shard]
         /\ pc' = [pc EXCEPT ![p] = IF a.shard = NoShard THEN "refused"
                                    ELSE "polling"]
    /\ UNCHANGED <<coordVars, run, cfg, notifier, requests, readyPosts,
                   readyFiles, loaded>>

(* The caller gives up: every exception of the POST is a RuntimeError.     *)
(* Nothing tells the coordinator, and the request may still arrive.        *)
RegisterTimeout(p) ==
    /\ "register_timeout" \in Faults
    /\ pc[p] = "registering"
    /\ pc' = [pc EXCEPT ![p] = "failed"]
    /\ replies' = {a \in replies : a.proc # p}
    /\ UNCHANGED <<coordVars, run, shard, cfg, notifier, requests, readyPosts,
                   readyFiles, loaded>>

-----------------------------------------------------------------------------
(* auto_join, step 3: poll /api/config until every shard has registered.   *)
(* A failed GET is only retried, so a poll that answers is one step.       *)

(* (mutant: the configuration is taken before every shard has a device)    *)
PollConfigEarly(p) ==
    /\ pc[p] = "polling"
    /\ Coord!Registered(shard[p])
    /\ cfg' = [cfg EXCEPT ![p] = Coord!GetConfig(shard[p])]
    /\ pc' = [pc EXCEPT ![p] = "loading"]
    /\ notifier' = [notifier EXCEPT ![p] = "polling"]
    /\ UNCHANGED <<coordVars, run, shard, netVars, readyFiles, loaded>>

(* (mutant: the deadline is looked at only when an answer came)            *)
TopologyTimeoutOnAnswer(p) ==
    /\ "topology_timeout" \in Faults
    /\ pc[p] = "polling"
    /\ Coord!HasConfig(shard[p])
    /\ pc' = [pc EXCEPT ![p] = "failed"]
    /\ UNCHANGED <<coordVars, run, shard, cfg, notifier, netVars, readyFiles,
                   loaded>>

PollConfig(p) ==
    /\ pc[p] = "polling"
    /\ Coord!HasConfig(shard[p])
    /\ cfg' = [cfg EXCEPT ![p] = Coord!GetConfig(shard[p])]
    /\ pc' = [pc EXCEPT ![p] = "loading"]
    /\ notifier' = [notifier EXCEPT ![p] = "polling"]
    /\ UNCHANGED <<coordVars, run, shard, netVars, readyFiles, loaded>>

TopologyTimeout(p) ==
    /\ "topology_timeout" \in Faults
    /\ pc[p] = "polling"
    /\ pc' = [pc EXCEPT ![p] = "failed"]
    /\ UNCHANGED <<coordVars, run, shard, cfg, notifier, netVars, readyFiles,
                   loaded>>

-----------------------------------------------------------------------------
(* run_worker up to its loop                                               *)

ReadyFile(p) == <<HostOf[p], shard[p]>>

PortTaken(p) ==
    \E q \in Procs \ {p} :
        /\ pc[q] \in Bound
        /\ HostOf[q] = HostOf[p]
        /\ cfg[q].input_port = cfg[p].input_port

(* Load the shard, bind the PULL socket, touch the ready file.             *)
LoadShard(p) ==
    /\ pc[p] = "loading"
    /\ ~PortTaken(p)
    /\ readyFiles' = readyFiles \cup {ReadyFile(p)}
    /\ loaded' = loaded \cup {[proc |-> p, run |-> run[p], shard |-> shard[p]]}
    /\ pc' = [pc EXCEPT ![p] = "starting"]
    /\ UNCHANGED <<coordVars, run, shard, cfg, notifier, netVars>>

(* bind() raises when another worker of the machine has the port; off the  *)
(* main thread the process and its notifier live on.                       *)
BindFails(p) ==
    /\ pc[p] = "loading"
    /\ PortTaken(p)
    /\ pc' = [pc EXCEPT ![p] = "failed"]
    /\ notifier' = IF p \in Background THEN notifier
                   ELSE [notifier EXCEPT ![p] = "off"]
    /\ UNCHANGED <<coordVars, run, shard, cfg, netVars, readyFiles, loaded>>

(* (mutant: the handler cannot be installed anywhere)                      *)
EnterLoopNever(p) ==
    /\ pc[p] = "starting"
    /\ pc' = [pc EXCEPT ![p] = "aborted"]
    /\ UNCHANGED <<coordVars, run, shard, cfg, notifier, netVars, readyFiles,
                   loaded>>

(* signal.signal(SIGTERM, ...) raises ValueError off the main thread,      *)
(* before the try of the loop: the thread dies with the file in place and  *)
(* the process, with its notifier, lives on.                               *)
EnterLoop(p) ==
    /\ pc[p] = "starting"
    /\ pc' = [pc EXCEPT ![p] = IF p \in Background THEN "aborted"
                               ELSE "serving"]
    /\ UNCHANGED <<coordVars, run, shard, cfg, notifier, netVars, readyFiles,
                   loaded>>

-----------------------------------------------------------------------------
(* The ReadyNotifier thread                                                *)

(* (mutant: the coordinator is told before the model is loaded)            *)
NotifyReadyEarly(p) ==
    /\ notifier[p] = "polling"
    /\ notifier' = [notifier EXCEPT ![p] = "off"]
    /\ readyPosts' = readyPosts \cup {shard[p]}
    /\ UNCHANGED <<coordVars, pc, run, shard, cfg, requests, replies,
                   readyFiles, loaded>>

(* (mutant: the notifier watches the file of shard 0)                      *)
NotifyReadyWrongFile(p) ==
    /\ notifier[p] = "polling"
    /\ <<HostOf[p], 0>> \in readyFiles
    /\ notifier' = [notifier EXCEPT ![p] = "off"]
    /\ readyPosts' = readyPosts \cup {shard[p]}
    /\ UNCHANGED <<coordVars, pc, run, shard, cfg, requests, replies,
                   readyFiles, loaded>>

NotifyReady(p) ==
    /\ notifier[p] = "polling"
    /\ ReadyFile(p) \in readyFiles
    /\ notifier' = [notifier EXCEPT ![p] = "off"]
    /\ readyPosts' = readyPosts \cup {shard[p]}
    /\ UNCHANGED <<coordVars, pc, run, shard, cfg, requests, replies,
                   readyFiles, loaded>>

(* 300 s without a ready file: the thread returns.                         *)
NotifierGivesUp(p) ==
    /\ "slow_load" \in Faults
    /\ notifier[p] = "polling"
    /\ ReadyFile(p) \notin readyFiles
    /\ notifier' = [notifier EXCEPT ![p] = "off"]
    /\ UNCHANGED <<coordVars, pc, run, shard, cfg, netVars, readyFiles, loaded>>

(* mark_ready(), or HTTP 404 when the shard is not registered.             *)
HandleReady(i) ==
    /\ i \in readyPosts
    /\ readyPosts' = readyPosts \ {i}
    /\ IF Coord!Registered(i) THEN Coord!MarkReady(i)
       ELSE UNCHANGED <<slots, nextShard>>
    /\ UNCHANGED <<grants, restarts, procVars, requests, replies, readyFiles,
                   loaded>>

(* The exception of a failed POST is swallowed; it is never sent again.    *)
LoseReady(i) ==
    /\ "lost_ready" \in Faults
    /\ i \in readyPosts
    /\ readyPosts' = readyPosts \ {i}
    /\ UNCHANGED <<coordVars, procVars, requests, replies, readyFiles, loaded>>

-----------------------------------------------------------------------------
(* The end of a process, and of the coordinator                            *)

(* SIGKILL or power loss: nothing is cleaned up.  A background process     *)
(* shares its fate with the coordinator it runs in (RestartCoordinator).   *)
Kill(p) ==
    /\ "kill" \in Faults
    /\ p \notin Background
    /\ pc[p] \notin Ended
    /\ pc' = [pc EXCEPT ![p] = "killed"]
    /\ notifier' = [notifier EXCEPT ![p] = "off"]
    /\ replies' = {a \in replies : a.proc # p}
    /\ UNCHANGED <<coordVars, run, shard, cfg, requests, readyPosts, readyFiles,
                   loaded>>

(* SIGTERM, Ctrl-C or an exception in the loop: _cleanup removes the file. *)
Terminate(p) ==
    /\ "terminate" \in Faults
    /\ pc[p] = "serving"
    /\ pc' = [pc EXCEPT ![p] = "killed"]
    /\ notifier' = [notifier EXCEPT ![p] = "off"]
    /\ readyFiles' = readyFiles \ {ReadyFile(p)}
    /\ UNCHANGED <<coordVars, run, shard, cfg, netVars, loaded>>

(* The slots are in memory only: a new coordinator knows nobody, and the   *)
(* requests to the old one are gone.                                       *)
RestartCoordinator ==
    /\ restarts < MaxRestarts
    /\ restarts' = restarts + 1
    /\ slots' = <<>> /\ nextShard' = 0 /\ grants' = <<>>
    /\ requests' = {} /\ replies' = {} /\ readyPosts' = {}
    /\ pc' = [p \in Procs |-> CASE p \in Background -> "killed"
                              [] p \notin Background /\ pc[p] = "registering"
                                   -> "failed"
                              [] OTHER -> pc[p]]
    /\ notifier' = [p \in Procs |-> IF p \in Background THEN "off"
                                    ELSE notifier[p]]
    /\ UNCHANGED <<run, shard, cfg, readyFiles, loaded>>

-----------------------------------------------------------------------------
JoinSteps(p) ==
    \/ StartJoin(p) \/ Registered(p) \/ PollConfig(p)
    \/ LoadShard(p) \/ BindFails(p) \/ EnterLoop(p) \/ NotifyReady(p)

FaultSteps(p) ==
    \/ NotifierGivesUp(p) \/ Kill(p) \/ Terminate(p)

Timers(p) == RegisterTimeout(p) \/ TopologyTimeout(p)

Next ==
    \/ \E p \in Procs : JoinSteps(p) \/ Timers(p) \/ FaultSteps(p)
    \/ \E r \in requests : HandleRegister(r)
    \/ \E i \in readyPosts : HandleReady(i) \/ LoseReady(i)
    \/ RestartCoordinator

Spec == Init /\ [][Next]_vars

(* A running process takes its next step, the coordinator's thread pool    *)
(* serves every request that arrived, a timeout fires on a caller that     *)
(* keeps waiting, and a device that failed is started again while runs are *)
(* left.  Faults are never owed.                                           *)
Fairness ==
    /\ \A p \in Procs :
        /\ WF_vars(StartJoin(p)) /\ WF_vars(Registered(p))
        /\ WF_vars(PollConfig(p)) /\ WF_vars(LoadShard(p) \/ BindFails(p))
        /\ WF_vars(EnterLoop(p)) /\ WF_vars(NotifyReady(p))
        /\ WF_vars(RegisterTimeout(p)) /\ WF_vars(TopologyTimeout(p))
    /\ \A r \in Runs : WF_vars(HandleRegister(r))
    /\ \A i \in Shards : WF_vars(HandleReady(i))

FairSpec == Spec /\ Fairness

-----------------------------------------------------------------------------
(* Properties                                                              *)

(* A run that holds a shard, and could serve or already serves it.         *)
Holds(p) == shard[p] # NoShard /\ pc[p] \notin Ended

(* No two devices work on the same shard, however registrations, retries   *)
(* and late answers interleave: neither the reply to an abandoned run nor  *)
(* a second join on one machine is ever mistaken for another.  (A restart  *)
(* of the coordinator hands every shard out again.)                        *)
ShardExclusive ==
    restarts = 0 =>
        \A p, q \in Procs :
            p # q /\ Holds(p) /\ Holds(q) => shard[p] # shard[q]

(* Two devices that hold neighbouring shards agree on the wire between     *)
(* them, though each fetched its configuration at a time of its own.       *)
WiredToSuccessor ==
    restarts = 0 =>
        \A p, q \in Procs :
            /\ pc[p] \in Alive /\ pc[q] \in Alive
            /\ shard[q] = shard[p] + 1
            => cfg[p].output_address = <<HostOf[q], cfg[q].input_port>>

(* The run a slot was granted to has loaded the shard.                     *)
HasLoaded(k) ==
    [proc |-> grants[k].proc, run |-> grants[k].run,
     shard |-> slots[k].shard_idx] \in loaded

(* "Signal the coordinator we're ready AFTER the model loads": a slot is   *)
(* ready only if the run it was granted to has loaded its shard.  That is  *)
(* so with one exception: the notifier takes a ready file that an earlier  *)
(* network left on the machine for the new worker's.  Kills, retries and   *)
(* neighbours on one machine within a network bring about no other one.    *)
ReadyAfterLoad ==
    restarts = 0 =>
        \A k \in DOMAIN slots :
            slots[k].ready =>
                \/ HasLoaded(k)
                \/ <<slots[k].host, slots[k].shard_idx>> \in StaleFiles

Serving == {p \in Procs : pc[p] = "serving"}
Undisturbed == restarts = 0 /\ \A p \in Procs : pc[p] # "failed"

(* As long as no call is given up and the coordinator stays, the network   *)
(* forms: as many devices as there are shards end up serving, whoever is   *)
(* too many is turned away, and the coordinator says so.                   *)
NetworkForms ==
    []Undisturbed => <>[](Coord!Complete /\ Cardinality(Serving) = NumShards)

(* Every run that starts is decided: it serves or it ends, it does not     *)
(* wait for ever on a coordinator or on devices that never come, a         *)
(* coordinator that lost its slots included.                               *)
JoinDecides ==
    \A p \in Procs :
        pc[p] = "registering" ~> pc[p] \in Ended \cup {"serving", "aborted"}

(* A shard reported ready is going to be served by the device it belongs   *)
(* to: "Mark a shard as ready (model loaded, inference loop running)".     *)
ReadyLeadsToServing ==
    \A p \in Procs :
        (\E k \in DOMAIN slots : slots[k].ready /\ grants[k] = ThisRun(p))
        ~> (pc[p] = "serving" \/ restarts > 0)
=============================================================================
