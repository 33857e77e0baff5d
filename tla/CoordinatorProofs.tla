-------------------------- MODULE CoordinatorProofs --------------------------
(***************************************************************************)
(* Proofs about the coordinator for any number of shards and any hosts.    *)
(* SlotsInOrder, with the type invariant, is inductive: it pins the        *)
(* position of every shard in the list (SlotPosition), and what the        *)
(* readers compute from the list follows from that position.               *)
(***************************************************************************)
EXTENDS Coordinator, TLAPS

Inv == TypeOK /\ SlotsInOrder

-----------------------------------------------------------------------------
(* The slot of a registered shard i is the (i+1)-th one.                   *)
LEMMA SlotPosition ==
    ASSUME TypeOK, SlotsInOrder, NEW i \in Nat
    PROVE  /\ Registered(i) <=> i < Len(slots)
           /\ Registered(i) => SlotPos(i) = i + 1
<1>1. DOMAIN slots = 1 .. Len(slots)
    BY DEF TypeOK
<1>2. Registered(i) <=> i < Len(slots)
    <2>1. ASSUME Registered(i) PROVE i < Len(slots)
        BY <2>1, <1>1 DEF Registered, SlotsInOrder, TypeOK
    <2>2. ASSUME i < Len(slots) PROVE Registered(i)
        <3>1. i + 1 \in DOMAIN slots
            BY <2>2, <1>1 DEF TypeOK
        <3>2. slots[i + 1].shard_idx = i
            BY <3>1 DEF SlotsInOrder
        <3> QED BY <3>1, <3>2 DEF Registered
    <2> QED BY <2>1, <2>2
<1>3. ASSUME Registered(i) PROVE SlotPos(i) = i + 1
    <2>1. i + 1 \in DOMAIN slots /\ slots[i + 1].shard_idx = i
        BY <1>1, <1>2, <1>3 DEF SlotsInOrder, TypeOK
    <2>2. \A k \in DOMAIN slots : slots[k].shard_idx = i => k = i + 1
        BY <1>1 DEF SlotsInOrder, TypeOK
    <2>3. \E k \in DOMAIN slots :
             /\ slots[k].shard_idx = i
             /\ \A j \in DOMAIN slots : slots[j].shard_idx = i => k <= j
        BY <2>1, <2>2
    <2>4. SlotPos(i) \in DOMAIN slots /\ slots[SlotPos(i)].shard_idx = i
        BY <2>3 DEF SlotPos
    <2> QED BY <2>2, <2>4
<1> QED BY <1>2, <1>3

-----------------------------------------------------------------------------
(* Nobody is registered at first.                                          *)
LEMMA InitInv == Init => Inv
    BY NumShardsAssumption DEF Init, Inv, TypeOK, SlotsInOrder

(* A registration takes the next number and the port that goes with it.    *)
LEMMA RegisterInv ==
    ASSUME Inv, NEW h \in Hosts, Register(h)
    PROVE  Inv'
<1> USE NumShardsAssumption DEF Inv
<1>1. NewSlot(h) \in WorkerSlot
    BY DEF NewSlot, WorkerSlot, TypeOK, BASE_WORKER_PORT
<1>2. TypeOK'
    BY <1>1 DEF TypeOK, Register
<1>3. nextShard' = Len(slots') /\ nextShard' <= NumShards
    BY <1>1 DEF TypeOK, Register, SlotsInOrder, NetworkFull
<1>4. ASSUME NEW k \in DOMAIN slots'
      PROVE  /\ slots'[k].shard_idx = k - 1
             /\ slots'[k].input_port = BASE_WORKER_PORT + (k - 1)
    <2>1. CASE k \in DOMAIN slots
        BY <2>1, <1>1 DEF TypeOK, Register, SlotsInOrder
    <2>2. CASE k = Len(slots) + 1
        BY <2>2, <1>1 DEF TypeOK, Register, SlotsInOrder, NewSlot
    <2> QED BY <2>1, <2>2, <1>1 DEF TypeOK, Register
<1> QED BY <1>2, <1>3, <1>4 DEF SlotsInOrder

(* MarkReady changes the ready flag of one slot and nothing else.          *)
LEMMA MarkReadyEffect ==
    ASSUME Inv, NEW i \in Shards, MarkReady(i)
    PROVE  /\ i + 1 \in DOMAIN slots
           /\ slots' = [slots EXCEPT ![i + 1].ready = TRUE]
           /\ slots' \in Seq(WorkerSlot)
           /\ Len(slots') = Len(slots)
           /\ DOMAIN slots' = DOMAIN slots
           /\ nextShard' = nextShard
           /\ slots'[i + 1].ready
           /\ \A k \in DOMAIN slots :
                /\ slots'[k].shard_idx = slots[k].shard_idx
                /\ slots'[k].host = slots[k].host
                /\ slots'[k].input_port = slots[k].input_port
                /\ k # i + 1 => slots'[k].ready = slots[k].ready
<1>1. i \in Nat
    BY NumShardsAssumption DEF Shards
<1>2. SlotPos(i) = i + 1 /\ i < Len(slots)
    BY <1>1, SlotPosition DEF MarkReady, Inv
<1>3. i + 1 \in DOMAIN slots
    BY <1>1, <1>2 DEF Inv, TypeOK
<1>4. slots' = [slots EXCEPT ![i + 1].ready = TRUE] /\ nextShard' = nextShard
    BY <1>2 DEF MarkReady
<1>5. slots[i + 1] \in WorkerSlot
    BY <1>3 DEF Inv, TypeOK
<1>6. [slots[i + 1] EXCEPT !.ready = TRUE] \in WorkerSlot
    BY <1>5 DEF WorkerSlot
<1>7. slots' \in Seq(WorkerSlot) /\ Len(slots') = Len(slots)
      /\ DOMAIN slots' = DOMAIN slots
    BY <1>3, <1>4, <1>6 DEF Inv, TypeOK
<1>8. \A k \in DOMAIN slots : slots[k] \in WorkerSlot
    BY DEF Inv, TypeOK
<1> QED BY <1>3, <1>4, <1>7, <1>5, <1>8 DEF WorkerSlot

(* A ready report leaves the numbering alone.                              *)
LEMMA MarkReadyInv ==
    ASSUME Inv, NEW i \in Shards, MarkReady(i)
    PROVE  Inv'
BY MarkReadyEffect DEF Inv, TypeOK, SlotsInOrder

(* Every method keeps the invariant.                                       *)
LEMMA NextInv == Inv /\ [Next]_cvars => Inv'
<1> SUFFICES ASSUME Inv, [Next]_cvars PROVE Inv'
    OBVIOUS
<1>1. CASE \E h \in Hosts : Register(h)
    BY <1>1, RegisterInv
<1>2. CASE \E i \in Shards : MarkReady(i)
    BY <1>2, MarkReadyInv
<1>3. CASE UNCHANGED cvars
    BY <1>3 DEF Inv, TypeOK, SlotsInOrder, cvars
<1> QED BY <1>1, <1>2, <1>3 DEF Next

(* The invariant on which every other theorem rests.                       *)
THEOREM Invariance == Spec => []Inv
    BY InitInv, NextInv, PTL DEF Spec

(* register() and mark_ready() keep the slots well formed.                 *)
THEOREM TypeCorrect == Spec => []TypeOK
<1>1. Inv => TypeOK
    BY DEF Inv
<1> QED BY <1>1, Invariance, PTL

(* No shard is handed out twice or skipped by register(), in any order of  *)
(* devices.                                                                *)
THEOREM SlotsInOrderHolds == Spec => []SlotsInOrder
<1>1. Inv => SlotsInOrder
    BY DEF Inv
<1> QED BY <1>1, Invariance, PTL

-----------------------------------------------------------------------------
(* What the readers answer, given the positions                            *)

(* get_config(i), read off the slots of shards i and i + 1.                *)
Answer(i) ==
    /\ HasConfig(i)
    /\ i + 1 \in DOMAIN slots
    /\ GetConfig(i).host = slots[i + 1].host
    /\ GetConfig(i).input_port = slots[i + 1].input_port
    /\ i + 1 \in Shards =>
         /\ i + 2 \in DOMAIN slots
         /\ GetConfig(i).output_address =
              Endpoint(slots[i + 2].host, slots[i + 2].input_port)
    /\ i + 1 \notin Shards =>
         GetConfig(i).output_address = Endpoint(ResultHost, RESULT_PORT)

(* What get_config() answers, by position instead of by search.            *)
LEMMA ConfigIs ==
    Inv /\ AllRegistered => \A i \in Shards : Answer(i)
<1> SUFFICES ASSUME Inv, AllRegistered, NEW i \in Shards PROVE Answer(i)
    OBVIOUS
<1>1. /\ Len(slots) = NumShards
      /\ DOMAIN slots = 1 .. NumShards
      /\ i \in Nat
      /\ i + 1 \in Nat
      /\ i < NumShards
      /\ i + 1 \in Shards <=> i < NumShards - 1
    BY NumShardsAssumption
    DEF Inv, TypeOK, SlotsInOrder, AllRegistered, Shards
<1>2. Registered(i) /\ SlotPos(i) = i + 1
    BY <1>1, SlotPosition DEF Inv
<1>3. i + 1 \in Shards =>
        Registered(i + 1) /\ SlotPos(i + 1) = i + 2 /\ i + 2 \in DOMAIN slots
    <2> SUFFICES ASSUME i + 1 \in Shards
                 PROVE Registered(i + 1) /\ SlotPos(i + 1) = i + 2
                       /\ i + 2 \in DOMAIN slots
        OBVIOUS
    <2>1. i + 1 < Len(slots) /\ (i + 1) + 1 = i + 2 /\ i + 2 \in DOMAIN slots
        BY <1>1, NumShardsAssumption DEF Shards
    <2> QED BY <2>1, <1>1, SlotPosition DEF Inv
<1> QED BY <1>1, <1>2, <1>3, NumShardsAssumption
        DEF Answer, HasConfig, GetConfig, OutputAddress

(* The same one step later.                                                *)
LEMMA ConfigIsNext ==
    (Inv /\ AllRegistered => \A i \in Shards : Answer(i))'
BY ConfigIs, PTL

(* get_config() wires every device to the next one and the last to the     *)
(* result collector; the localhost fallback is unreachable.                *)
THEOREM RoutesFormChainHolds == Spec => []RoutesFormChain
<1>1. Inv => RoutesFormChain
    <2> SUFFICES ASSUME Inv, AllRegistered, NEW i \in Shards
                 PROVE  /\ HasConfig(i)
                        /\ i + 1 \in Shards =>
                             GetConfig(i).output_address =
                               Endpoint(GetConfig(i + 1).host,
                                        GetConfig(i + 1).input_port)
                        /\ i + 1 \notin Shards =>
                             GetConfig(i).output_address =
                               Endpoint(ResultHost, RESULT_PORT)
        BY DEF RoutesFormChain
    <2>1. (i + 1) + 1 = i + 2
        BY NumShardsAssumption DEF Shards
    <2>2. CASE i + 1 \in Shards
        <3>1. Answer(i) /\ Answer(i + 1)
            BY <2>2, ConfigIs
        <3> QED BY <2>1, <2>2, <3>1 DEF Answer
    <2>3. CASE i + 1 \notin Shards
        BY <2>3, ConfigIs DEF Answer
    <2> QED BY <2>2, <2>3
<1> QED BY <1>1, Invariance, PTL

(* No later answer of get_config() contradicts an earlier one: the two     *)
(* writers leave host and port of an existing slot alone, and a full       *)
(* network accepts nobody.                                                 *)
THEOREM ConfigStableHolds == Spec => ConfigStable
<1>1. Inv /\ Inv' /\ [Next]_cvars =>
        [\A i \in Shards :
           HasConfig(i) => HasConfig(i)' /\ GetConfig(i)' = GetConfig(i)]_cvars
    <2> SUFFICES ASSUME Inv, Inv', Next, NEW i \in Shards, HasConfig(i)
                 PROVE  HasConfig(i)' /\ GetConfig(i)' = GetConfig(i)
        OBVIOUS
    <2>1. AllRegistered
        BY DEF HasConfig
    <2>2. PICK j \in Shards : MarkReady(j)
        <3>1. NetworkFull
            BY <2>1 DEF NetworkFull, AllRegistered, Inv, SlotsInOrder
        <3> QED BY <3>1 DEF Next, Register
    <2>3. /\ AllRegistered'
          /\ \A k \in DOMAIN slots :
               /\ slots'[k].host = slots[k].host
               /\ slots'[k].input_port = slots[k].input_port
        BY <2>1, <2>2, MarkReadyEffect DEF AllRegistered
    <2>4. Answer(i)
        BY <2>1, ConfigIs
    <2>5. Answer(i)'
        BY <2>3, ConfigIsNext
    <2>6. /\ GetConfig(i) = [input_port |-> GetConfig(i).input_port,
                             output_address |-> GetConfig(i).output_address,
                             host |-> GetConfig(i).host]
          /\ GetConfig(i)' = [input_port |-> GetConfig(i)'.input_port,
                              output_address |-> GetConfig(i)'.output_address,
                              host |-> GetConfig(i)'.host]
        BY DEF GetConfig
    <2>7. /\ GetConfig(i)'.host = GetConfig(i).host
          /\ GetConfig(i)'.input_port = GetConfig(i).input_port
          /\ GetConfig(i)'.output_address = GetConfig(i).output_address
        BY <2>3, <2>4, <2>5 DEF Answer
    <2>8. HasConfig(i)'
        BY <2>5 DEF Answer
    <2> QED BY <2>6, <2>7, <2>8
<1> QED BY <1>1, Invariance, PTL DEF Spec, ConfigStable

-----------------------------------------------------------------------------
(* Refinement                                                              *)

(* The abstract state under the mapping of Coordinator!Allocation, and the *)
(* same read off the positions of the slots.                               *)
AbsOwner == [i \in Shards |->
               IF Registered(i) THEN {slots[SlotPos(i)].host} ELSE {}]
AbsReady == {i \in Shards : Registered(i) /\ slots[SlotPos(i)].ready}

OwnerByPosition ==
    [i \in Shards |-> IF i < Len(slots) THEN {slots[i + 1].host} ELSE {}]
ReadyByPosition == {i \in Shards : i < Len(slots) /\ slots[i + 1].ready}

(* The mapped allocation, by position instead of by search.                *)
LEMMA MappedState ==
    Inv => AbsOwner = OwnerByPosition /\ AbsReady = ReadyByPosition
<1> SUFFICES ASSUME Inv
             PROVE  AbsOwner = OwnerByPosition /\ AbsReady = ReadyByPosition
    OBVIOUS
<1>1. \A i \in Shards : /\ Registered(i) <=> i < Len(slots)
                        /\ Registered(i) => SlotPos(i) = i + 1
    BY SlotPosition, NumShardsAssumption DEF Shards, Inv
<1> QED BY <1>1 DEF AbsOwner, AbsReady, OwnerByPosition, ReadyByPosition

(* The same one step later.                                                *)
LEMMA MappedStateNext ==
    (Inv => AbsOwner = OwnerByPosition /\ AbsReady = ReadyByPosition)'
BY MappedState, PTL

(* register() grants exactly one free shard.                               *)
LEMMA RegisterGrants ==
    ASSUME Inv, Inv', NEW h \in Hosts, Register(h)
    PROVE  /\ nextShard \in Shards
           /\ AbsOwner[nextShard] = {}
           /\ AbsOwner' = [AbsOwner EXCEPT ![nextShard] = {h}]
           /\ AbsReady' = AbsReady
<1>1. /\ nextShard = Len(slots)
      /\ nextShard \in Shards
      /\ Len(slots') = Len(slots) + 1
    BY NumShardsAssumption
    DEF Register, NetworkFull, Inv, TypeOK, SlotsInOrder, Shards
<1>2. slots' = Append(slots, NewSlot(h)) /\ slots \in Seq(WorkerSlot)
    BY DEF Register, Inv, TypeOK
<1>3. NewSlot(h).host = h /\ ~NewSlot(h).ready
    BY DEF NewSlot
<1>4. ASSUME NEW i \in Shards
      PROVE  /\ i < Len(slots') <=> i < Len(slots) \/ i = nextShard
             /\ i < Len(slots) => slots'[i + 1] = slots[i + 1] /\ i # nextShard
             /\ i = nextShard => slots'[i + 1] = NewSlot(h)
    <2>1. i \in Nat
        BY NumShardsAssumption DEF Shards
    <2> QED BY <2>1, <1>1, <1>2
<1>5. OwnerByPosition' = [OwnerByPosition EXCEPT ![nextShard] = {h}]
    <2>1. OwnerByPosition' = [i \in Shards |-> IF i < Len(slots')
                                               THEN {slots'[i + 1].host} ELSE {}]
        BY DEF OwnerByPosition
    <2>2. \A i \in Shards :
            (IF i < Len(slots') THEN {slots'[i + 1].host} ELSE {})
              = IF i = nextShard THEN {h} ELSE OwnerByPosition[i]
        BY <1>3, <1>4 DEF OwnerByPosition
    <2> QED BY <2>1, <2>2 DEF OwnerByPosition
<1>6. ReadyByPosition' = ReadyByPosition
    <2>1. ReadyByPosition' = {i \in Shards : i < Len(slots') /\ slots'[i + 1].ready}
        BY DEF ReadyByPosition
    <2>2. \A i \in Shards : (i < Len(slots') /\ slots'[i + 1].ready)
                              <=> (i < Len(slots) /\ slots[i + 1].ready)
        BY <1>1, <1>3, <1>4
    <2> QED BY <2>1, <2>2 DEF ReadyByPosition
<1>7. OwnerByPosition[nextShard] = {}
    BY <1>1, <1>4 DEF OwnerByPosition
<1> QED BY <1>1, <1>5, <1>6, <1>7, MappedState, MappedStateNext

(* mark_ready() reports one owned shard, or one already reported.          *)
LEMMA MarkReadyReports ==
    ASSUME Inv, Inv', NEW i \in Shards, MarkReady(i)
    PROVE  /\ AbsOwner[i] # {}
           /\ AbsOwner' = AbsOwner
           /\ AbsReady' = AbsReady \cup {i}
<1>1. ASSUME NEW j \in Shards
      PROVE  /\ i < Len(slots)
             /\ j < Len(slots') <=> j < Len(slots)
             /\ j < Len(slots) =>
                  /\ slots'[j + 1].host = slots[j + 1].host
                  /\ j # i => slots'[j + 1].ready = slots[j + 1].ready
             /\ slots'[i + 1].ready
    <2>1. i \in Nat /\ j \in Nat
        BY NumShardsAssumption DEF Shards
    <2>2. j < Len(slots) => j + 1 \in DOMAIN slots
        BY <2>1 DEF Inv, TypeOK
    <2>3. i + 1 \in DOMAIN slots => i < Len(slots)
        BY <2>1 DEF Inv, TypeOK
    <2>4. j # i => j + 1 # i + 1
        BY <2>1
    <2> QED BY <2>2, <2>3, <2>4, MarkReadyEffect
<1>2. OwnerByPosition' = OwnerByPosition
    <2>1. OwnerByPosition' = [j \in Shards |-> IF j < Len(slots')
                                               THEN {slots'[j + 1].host} ELSE {}]
        BY DEF OwnerByPosition
    <2> QED BY <2>1, <1>1 DEF OwnerByPosition
<1>3. ReadyByPosition' = ReadyByPosition \cup {i}
    <2>1. ReadyByPosition' = {j \in Shards : j < Len(slots') /\ slots'[j + 1].ready}
        BY DEF ReadyByPosition
    <2> QED BY <2>1, <1>1 DEF ReadyByPosition
<1>4. OwnerByPosition[i] # {}
    BY <1>1 DEF OwnerByPosition
<1> QED BY <1>2, <1>3, <1>4, MappedState, MappedStateNext

(* The coordinator implements ShardAllocation: register() grants a free    *)
(* shard or does nothing, mark_ready() reports an owned one.               *)
THEOREM Refinement == Spec => ImplementsAllocation
<1>1. Init => Allocation!AInit
    <2>1. Init => Inv /\ \A i \in Shards : ~Registered(i)
        BY InitInv DEF Init, Registered
    <2> QED BY <2>1 DEF Allocation!AInit, Allocation!Nobody, Allocation!Shards,
                        Shards
<1>2. Inv /\ Inv' /\ [Next]_cvars => [Allocation!ANext]_(Allocation!avars)
    <2> SUFFICES ASSUME Inv, Inv', [Next]_cvars
                 PROVE  [Allocation!ANext]_(Allocation!avars)
        OBVIOUS
    <2> USE DEF Allocation!ANext, Allocation!Grant, Allocation!Report,
                Allocation!Nobody, Allocation!Shards, Allocation!avars,
                Shards, AbsOwner, AbsReady
    <2>1. ASSUME NEW h \in Hosts, Register(h)
          PROVE  nextShard \in Shards /\ Allocation!Grant(nextShard, h)
        BY <2>1, RegisterGrants
    <2>2. ASSUME NEW i \in Shards, MarkReady(i) PROVE Allocation!Report(i)
        BY <2>2, MarkReadyReports
    <2>3. CASE UNCHANGED cvars
        BY <2>3 DEF cvars, Registered, SlotPos
    <2> QED BY <2>1, <2>2, <2>3 DEF Next
<1> QED BY <1>1, <1>2, Invariance, PTL
        DEF Spec, ImplementsAllocation, Allocation!ASpec

(* topology() says "complete" exactly when the abstract allocation is      *)
(* complete: no counter can make the two disagree.                         *)
THEOREM CompleteIsCompleteHolds == Spec => []CompleteIsComplete
<1>1. Inv => CompleteIsComplete
    <2> SUFFICES ASSUME Inv PROVE Complete <=> ReadyByPosition = Shards
        BY MappedState
        DEF CompleteIsComplete, Allocation!Complete, Allocation!Shards, Shards,
            AbsReady
    <2>1. DOMAIN slots = 1 .. Len(slots) /\ Len(slots) \in Nat
          /\ Len(slots) <= NumShards
        BY DEF Inv, TypeOK, SlotsInOrder
    <2>2. ASSUME Complete, NEW i \in Shards PROVE i \in ReadyByPosition
        <3>1. i < Len(slots) /\ i + 1 \in DOMAIN slots
            BY <2>1, <2>2, NumShardsAssumption
            DEF Complete, AllRegistered, Shards
        <3> QED BY <2>2, <3>1 DEF Complete, ReadyByPosition
    <2>3. ASSUME ReadyByPosition = Shards PROVE Complete
        <3>1. NumShards - 1 \in Shards
            BY NumShardsAssumption DEF Shards
        <3>2. AllRegistered
            BY <2>1, <2>3, <3>1, NumShardsAssumption
            DEF AllRegistered, ReadyByPosition
        <3>3. ASSUME NEW k \in DOMAIN slots PROVE slots[k].ready
            <4>1. k - 1 \in Shards /\ (k - 1) + 1 = k
                BY <2>1, NumShardsAssumption DEF Shards
            <4> QED BY <2>3, <4>1 DEF ReadyByPosition
        <3> QED BY <3>2, <3>3 DEF Complete
    <2> QED BY <2>2, <2>3 DEF ReadyByPosition
<1> QED BY <1>1, Invariance, PTL
=============================================================================
