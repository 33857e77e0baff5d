----------------------------- MODULE Coordinator -----------------------------
(***************************************************************************)
(* network/coordinator.py: the NetworkCoordinator object.  Every public    *)
(* method holds self._lock for its whole body, so each is one action (the  *)
(* writers) or one operator of the current state (the readers).            *)
(***************************************************************************)
EXTENDS Integers, Sequences

CONSTANTS
    NumShards,      \* num_shards of __init__
    Hosts,          \* the LAN addresses devices register with
    ResultHost      \* result_host of __init__

(* __init__ raises ValueError below one shard (coordinator.py:80).         *)
ASSUME NumShardsAssumption == NumShards \in Nat \ {0}

BASE_WORKER_PORT == 5500
RESULT_PORT == 5599

Shards == 0 .. NumShards - 1

VARIABLES
    slots,      \* self._slots, in order of registration
    nextShard   \* self._next_shard

cvars == <<slots, nextShard>>

(* The fields of WorkerSlot that any decision reads.                       *)
WorkerSlot ==
    [shard_idx : Nat, host : Hosts, input_port : Nat, ready : BOOLEAN]

TypeOK ==
    /\ slots \in Seq(WorkerSlot)
    /\ nextShard \in Nat

Init ==
    /\ slots = <<>>
    /\ nextShard = 0

-----------------------------------------------------------------------------
(* Registration                                                            *)

NetworkFull == nextShard >= NumShards

NewSlot(h) ==
    [shard_idx |-> nextShard, host |-> h,
     input_port |-> BASE_WORKER_PORT + nextShard, ready |-> FALSE]

(* (mutant: a full network gives away a slot whose device is not ready)    *)
RegisterReclaims(h) ==
    \/ /\ ~NetworkFull
       /\ slots' = Append(slots, NewSlot(h))
       /\ nextShard' = nextShard + 1
    \/ /\ NetworkFull
       /\ \E k \in DOMAIN slots :
            ~slots[k].ready /\ slots' = [slots EXCEPT ![k].host = h]
       /\ UNCHANGED nextShard

(* register() when a shard is left; when none is, it answers network_full  *)
(* and changes nothing.                                                    *)
Register(h) ==
    /\ ~NetworkFull
    /\ slots' = Append(slots, NewSlot(h))
    /\ nextShard' = nextShard + 1

-----------------------------------------------------------------------------
(* Readiness                                                               *)

Registered(i) == \E k \in DOMAIN slots : slots[k].shard_idx = i

(* The first slot in list order whose shard_idx is i: what the loop of     *)
(* mark_ready() and the next(...) of get_config() stop at.                 *)
SlotPos(i) ==
    CHOOSE k \in DOMAIN slots :
        /\ slots[k].shard_idx = i
        /\ \A j \in DOMAIN slots : slots[j].shard_idx = i => k <= j

(* mark_ready() on a registered shard; it returns False on another one.    *)
MarkReady(i) ==
    /\ Registered(i)
    /\ slots' = [slots EXCEPT ![SlotPos(i)].ready = TRUE]
    /\ UNCHANGED nextShard

-----------------------------------------------------------------------------
(* Readers: the routing table and the status                               *)

AllRegistered == Len(slots) >= NumShards

(* (mutant: all() over the devices that came so far)                       *)
CompleteSoFar == \A k \in DOMAIN slots : slots[k].ready

(* "complete" of topology() and the property all_ready.                    *)
Complete == AllRegistered /\ \A k \in DOMAIN slots : slots[k].ready

Endpoint(h, port) == <<h, port>>

(* (mutant: a device is configured before its neighbours came)             *)
HasConfigEarly(i) == Registered(i)

(* get_config() returns None while a device is missing or for a shard      *)
(* nobody holds (HTTP 425).                                                *)
HasConfig(i) == AllRegistered /\ Registered(i)

(* (mutant: off by one at the last shard)                                  *)
OutputAddressPastLast(i) ==
    IF i <= NumShards - 1
    THEN IF Registered(i + 1)
         THEN Endpoint(slots[SlotPos(i + 1)].host,
                       slots[SlotPos(i + 1)].input_port)
         ELSE Endpoint("localhost", BASE_WORKER_PORT + i + 1)
    ELSE Endpoint(ResultHost, RESULT_PORT)

(* (mutant: the lookup finds the device's own slot)                        *)
OutputAddressOwn(i) ==
    IF i < NumShards - 1
    THEN Endpoint(slots[SlotPos(i)].host, slots[SlotPos(i)].input_port)
    ELSE Endpoint(ResultHost, RESULT_PORT)

(* output_address: the next shard's slot, the hard-coded localhost when    *)
(* that slot is missing, the result collector after the last shard.        *)
OutputAddress(i) ==
    IF i < NumShards - 1
    THEN IF Registered(i + 1)
         THEN Endpoint(slots[SlotPos(i + 1)].host,
                       slots[SlotPos(i + 1)].input_port)
         ELSE Endpoint("localhost", BASE_WORKER_PORT + i + 1)
    ELSE Endpoint(ResultHost, RESULT_PORT)

GetConfig(i) ==
    [input_port |-> slots[SlotPos(i)].input_port,
     output_address |-> OutputAddress(i),
     host |-> slots[SlotPos(i)].host]

-----------------------------------------------------------------------------
Next ==
    \/ \E h \in Hosts : Register(h)
    \/ \E i \in Shards : MarkReady(i)

Spec == Init /\ [][Next]_cvars

-----------------------------------------------------------------------------
(* Properties                                                              *)

(* Slots are numbered in order of registration, each with the port of its  *)
(* number, and the counter is the number of slots: no shard is handed out  *)
(* twice and none is skipped, whatever the order of the devices.           *)
SlotsInOrder ==
    /\ nextShard = Len(slots)
    /\ nextShard <= NumShards
    /\ \A k \in DOMAIN slots :
        /\ slots[k].shard_idx = k - 1
        /\ slots[k].input_port = BASE_WORKER_PORT + (k - 1)

(* Once every device is registered, each device sends to the address the   *)
(* next one listens on and the last one to the result collector: the       *)
(* configurations handed out one by one form a single chain, never through *)
(* the "shouldn't happen" fallback of get_config().                        *)
RoutesFormChain ==
    AllRegistered =>
        \A i \in Shards :
            /\ HasConfig(i)
            /\ i + 1 \in Shards =>
                 GetConfig(i).output_address =
                   Endpoint(GetConfig(i + 1).host, GetConfig(i + 1).input_port)
            /\ i + 1 \notin Shards =>
                 GetConfig(i).output_address = Endpoint(ResultHost, RESULT_PORT)

(* A configuration a worker may already have fetched is never contradicted *)
(* by a later answer: a device that polls early and one that polls late    *)
(* are wired into the same pipeline.                                       *)
ConfigStable ==
    [][\A i \in Shards :
         HasConfig(i) => HasConfig(i)' /\ GetConfig(i)' = GetConfig(i)]_cvars

(* The slots implement the abstract allocation.                            *)
Allocation == INSTANCE ShardAllocation WITH
    owner <- [i \in Shards |->
                IF Registered(i) THEN {slots[SlotPos(i)].host} ELSE {}],
    readySet <- {i \in Shards :
                   Registered(i) /\ slots[SlotPos(i)].ready}

(* Every behaviour of the coordinator is one the allocation allows: a      *)
(* shard never changes owner, is ready only once owned, and stays ready    *)
(* (lankamind start leaves its waiting loop on "complete" and never looks   *)
(* again).                                                                 *)
ImplementsAllocation == Allocation!ASpec

(* "complete" is reported exactly when all shards are owned and ready.     *)
CompleteIsComplete == Complete <=> Allocation!Complete
=============================================================================
