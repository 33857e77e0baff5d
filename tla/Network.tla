------------------------------- MODULE Network -------------------------------
(***************************************************************************)
(* The network `lankamind start` announces, used for one token: the        *)
(* devices register and report ready with the coordinator, the loop of     *)
(* start prints "Network complete", and a request then goes from device to *)
(* device, each applying the blocks of its own shard (ModelShard.forward)  *)
(* and sending to the output_address it was configured with.               *)
(***************************************************************************)
EXTENDS Coordinator, ShardedForward

(* start gives its own address to the coordinator, for the results, and to *)
(* its worker.                                                             *)
ASSUME ResultHostAssumption == ResultHost \in Hosts

VARIABLES
    local,      \* the shard of start's own worker thread, or NoShard
    announced,  \* start has seen "complete" and said so
    dest        \* where the activation is sent, or NotSent

nvars == <<slots, nextShard, total, shards, at, applied, local, announced, dest>>

NoShard == -1
NotSent == <<"nowhere", 0>>

NetInit ==
    /\ Init
    /\ ForwardInit
    /\ shards = NumShards
    /\ local = NoShard
    /\ announced = FALSE
    /\ dest = NotSent

(* A request of a device to the coordinator.                               *)
Join ==
    /\ Next
    /\ UNCHANGED <<total, shards, at, applied, local, announced, dest>>

(* The worker start runs in its LocalWorker thread registers, once, under  *)
(* the address the client's result port is on too.                         *)
JoinLocal ==
    /\ local = NoShard
    /\ Register(ResultHost)
    /\ local' = nextShard
    /\ UNCHANGED <<total, shards, at, applied, announced, dest>>

(* The loop of start sees "complete" and says that the network is ready.   *)
Announce ==
    /\ ~announced
    /\ Complete
    /\ announced' = TRUE
    /\ UNCHANGED <<slots, nextShard, total, shards, at, applied, local, dest>>

(* run_client on the machine of start connects to port 5500 of localhost,  *)
(* whichever device shard 0 went to.                                       *)
Send ==
    /\ announced
    /\ dest = NotSent
    /\ dest' = Endpoint(ResultHost, BASE_WORKER_PORT)
    /\ UNCHANGED <<slots, nextShard, total, shards, at, applied, local, announced>>

Listens(i) ==
    Registered(i) /\ Endpoint(GetConfig(i).host, GetConfig(i).input_port) = dest

(* The device of shard i takes the activation, applies its blocks and      *)
(* sends the result on.  The thread of start never does: it ends in        *)
(* signal.signal, which only a main thread may call, in front of its loop. *)
(* By then its ready file is there and the notifier reports its shard.     *)
Hop(i) ==
    /\ i # local
    /\ Listens(i)
    /\ applied' = applied \o Forward(total, i, shards)
    /\ at' = at + 1
    /\ dest' = GetConfig(i).output_address
    /\ UNCHANGED <<slots, nextShard, total, shards, local, announced>>

Hops == \E i \in Shards : Hop(i)

NetNext == Join \/ JoinLocal \/ Announce \/ Send \/ Hops

(* A device that is in its loop takes what has arrived on its input socket. *)
NetSpec == NetInit /\ [][NetNext]_nvars /\ WF_nvars(Hops)

-----------------------------------------------------------------------------
(* Properties                                                              *)

(* Whatever the order of registrations, the devices in the order the       *)
(* activation meets them are the chain of shards of the model: the routing *)
(* answers and the layer ranges agree on who comes next.                   *)
ImplementsForward == ForwardSpec

(* The request never meets a device: shard 0 is not on the machine of the  *)
(* client, or the shard that is next is the one of start's own worker.     *)
Stranded ==
    /\ dest # NotSent
    /\ dest[2] = BASE_WORKER_PORT + at
    /\ \/ at = 0 /\ slots[1].host # ResultHost
       \/ at = local

(* A request of the client (run_client, run_worker) is answered by the     *)
(* last device at the result collector, or stops for good in one of two    *)
(* places: in front of the worker of start, which serves nothing, or at    *)
(* the client, when shard 0 went to another machine.  (start announces its *)
(* own worker as shard 0, but register numbers devices as they come.)      *)
RequestIsServed ==
    dest # NotSent
        ~> \/ at = NumShards /\ dest = Endpoint(ResultHost, RESULT_PORT)
           \/ Stranded
=============================================================================
