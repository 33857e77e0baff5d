--------------------------- MODULE ShardAllocation ---------------------------
(***************************************************************************)
(* What a LankaMind coordinator promises to the devices that join it,      *)
(* without slots, ports or counters: every shard is given to at most one   *)
(* joining host and for good, a shard can only be reported ready once it   *)
(* has an owner, and a report is never taken back.                         *)
(***************************************************************************)
EXTENDS Integers

CONSTANTS
    NumShards,  \* width of the pipeline
    Hosts       \* hosts that may join

Shards == 0 .. NumShards - 1
Nobody == {}

VARIABLES
    owner,      \* owner[i]: the singleton of the host that holds shard i, or Nobody
    readySet    \* the shards reported ready

avars == <<owner, readySet>>

AInit ==
    /\ owner = [i \in Shards |-> Nobody]
    /\ readySet = {}

(* A free shard goes to a host.                                            *)
Grant(i, h) ==
    /\ owner[i] = Nobody
    /\ owner' = [owner EXCEPT ![i] = {h}]
    /\ UNCHANGED readySet

(* An owned shard is reported ready.                                       *)
Report(i) ==
    /\ owner[i] # Nobody
    /\ readySet' = readySet \cup {i}
    /\ UNCHANGED owner

ANext == \E i \in Shards : Report(i) \/ \E h \in Hosts : Grant(i, h)

ASpec == AInit /\ [][ANext]_avars

(* Every shard owned and reported: the promise of a complete network.      *)
Complete == readySet = Shards
=============================================================================
