---------------------------- MODULE NetworkProofs ----------------------------
(***************************************************************************)
(* The forward pass of a chain of shards, and of a network of devices.     *)
(*                                                                         *)
(* For every number of blocks and shards, the chained shards apply the     *)
(* operations of the whole model.  The invariant counts what has been      *)
(* applied before shard i: the embedding and the blocks below              *)
(* LayerStart(i).                                                          *)
(*                                                                         *)
(* The hops of a network are the steps of ShardedForward, for any number   *)
(* of blocks and hosts and for every number of shards whose ports stay     *)
(* below the result port.  The invariant says where the activation is      *)
(* sent: to the port of the shard that is next, and at the end to the      *)
(* result collector, which is then nobody's input port.                    *)
(***************************************************************************)
EXTENDS Network, CoordinatorProofs, SequenceTheorems

-----------------------------------------------------------------------------
(* The shards (ShardedForward)                                             *)

(* compute_layer_range partitions the blocks: the first shard starts at 0, *)
(* every shard ends where the next one starts, the last one at total.      *)
THEOREM RangesPartition ==
    ASSUME NEW t \in Nat, NEW n \in Nat \ {0}, NEW i \in 0 .. n - 1
    PROVE  /\ Base(t, n) \in Nat
           /\ LayerStart(t, 0, n) = 0
           /\ LayerStart(t, i, n) \in 0 .. t
           /\ LayerEnd(t, i, n) \in LayerStart(t, i, n) .. t
           /\ i < n - 1 => LayerEnd(t, i, n) = LayerStart(t, i + 1, n)
           /\ i = n - 1 => LayerEnd(t, i, n) = t
<1>1. Base(t, n) \in Nat /\ n * Base(t, n) <= t
    BY DEF Base
<1> DEFINE b == Base(t, n)
<1>2. i * b \in Nat /\ (i + 1) * b = i * b + b /\ 0 * b = 0
    <2> HIDE DEF b
    <2>1. b \in Nat
        BY <1>1 DEF b
    <2> QED BY <2>1
<1>3. (i + 1) * b <= n * b
    <2> HIDE DEF b
    <2>1. b \in Nat
        BY <1>1 DEF b
    <2>2. PICK d \in Nat : n = (i + 1) + d
        <3>1. n - (i + 1) \in Nat /\ n = (i + 1) + (n - (i + 1))
            OBVIOUS
        <3> QED BY <3>1
    <2>3. n * b = (i + 1) * b + d * b
        BY <2>1, <2>2
    <2>4. d * b \in Nat /\ (i + 1) * b \in Nat
        BY <2>1
    <2> QED BY <2>3, <2>4
<1> HIDE DEF b
<1>4. b = Base(t, n)
    BY DEF b
<1>5. LayerStart(t, i, n) = i * b /\ LayerStart(t, 0, n) = 0 * b
      /\ LayerStart(t, i + 1, n) = (i + 1) * b
    BY <1>4 DEF LayerStart
<1>6. n * b \in Int /\ b \in Nat /\ n * b <= t
    BY <1>1, <1>4
<1>7. LayerEnd(t, i, n) = IF i < n - 1 THEN i * b + b ELSE t
    BY <1>4, <1>5 DEF LayerEnd
<1> QED BY <1>2, <1>3, <1>4, <1>5, <1>6, <1>7

-----------------------------------------------------------------------------
(* How many operations precede shard i.                                    *)
Before(t, i, n) ==
    CASE i = 0 -> 0
      [] i # 0 /\ i < n -> 1 + LayerStart(t, i, n)
      [] OTHER -> t + 2

(* f holds the operations of the whole model that follow the first m.      *)
Continues(f, m) ==
    /\ f \in Seq(Int)
    /\ \A k \in 1 .. Len(f) : f[k] = m + k - 2

(* Two runs of operations, the second where the first one stops, are one.  *)
LEMMA ContinuesConcat ==
    ASSUME NEW f, NEW g, NEW m \in Nat,
           Continues(f, m), Continues(g, m + Len(f))
    PROVE  /\ Continues(f \o g, m)
           /\ Len(f \o g) = Len(f) + Len(g)
           /\ Len(f) \in Nat /\ Len(g) \in Nat
<1>1. /\ f \in Seq(Int) /\ g \in Seq(Int)
      /\ \A k \in 1 .. Len(f) : f[k] = m + k - 2
      /\ \A k \in 1 .. Len(g) : g[k] = m + Len(f) + k - 2
    BY DEF Continues
<1>2. /\ f \o g \in Seq(Int) /\ Len(f \o g) = Len(f) + Len(g)
      /\ \A k \in 1 .. Len(f) + Len(g) :
            (f \o g)[k] = IF k <= Len(f) THEN f[k] ELSE g[k - Len(f)]
    BY <1>1, ConcatProperties
<1>3. PICK h \in Seq(Int) : h = f \o g
    BY <1>2
<1>4. PICK a \in Nat, c \in Nat : a = Len(f) /\ c = Len(g)
    BY <1>1, LenProperties
<1>5. ASSUME NEW k \in 1 .. a + c PROVE h[k] = m + k - 2
    <2>1. CASE k <= a
        BY <2>1, <1>1, <1>2, <1>3, <1>4
    <2>2. CASE a < k
        <3>1. k - a \in 1 .. c
            BY <2>2
        <3>2. h[k] = g[k - a]
            BY <2>2, <1>2, <1>3, <1>4
        <3>3. g[k - a] = m + a + (k - a) - 2
            BY <3>1, <1>1, <1>4
        <3>4. m + a + (k - a) - 2 = m + k - 2
            OBVIOUS
        <3> QED BY <3>2, <3>3, <3>4
    <2> QED BY <2>1, <2>2
<1> QED BY <1>2, <1>3, <1>4, <1>5 DEF Continues

(* Shard i applies the operations between Before(i) and Before(i + 1).     *)
LEMMA ForwardIs ==
    ASSUME NEW t \in Nat, NEW n \in Nat \ {0}, NEW i \in 0 .. n - 1
    PROVE  /\ Before(t, i, n) \in Nat /\ Before(t, i + 1, n) \in Nat
           /\ Before(t, i + 1, n) <= t + 2
           /\ Continues(Forward(t, i, n), Before(t, i, n))
           /\ Before(t, i, n) + Len(Forward(t, i, n)) = Before(t, i + 1, n)
<1>1. PICK s \in Nat, e \in Nat :
        /\ s = LayerStart(t, i, n) /\ e = LayerEnd(t, i, n)
        /\ s <= e /\ e <= t
        /\ i < n - 1 => e = LayerStart(t, i + 1, n)
        /\ i = n - 1 => e = t
        /\ i = 0 => s = 0
    <2>1. /\ LayerStart(t, 0, n) = 0
          /\ LayerStart(t, i, n) \in 0 .. t
          /\ LayerEnd(t, i, n) \in LayerStart(t, i, n) .. t
          /\ i < n - 1 => LayerEnd(t, i, n) = LayerStart(t, i + 1, n)
          /\ i = n - 1 => LayerEnd(t, i, n) = t
        BY RangesPartition
    <2>2. LayerStart(t, i, n) \in Nat /\ LayerEnd(t, i, n) \in Nat
        BY <2>1
    <2> QED BY <2>1, <2>2
<1>2. PICK m \in Nat, m1 \in Nat :
        /\ m = Before(t, i, n) /\ m = IF i = 0 THEN 0 ELSE 1 + s
        /\ m1 = Before(t, i + 1, n) /\ m1 = IF i = n - 1 THEN t + 2 ELSE 1 + e
        /\ m1 <= t + 2
    BY <1>1 DEF Before
<1>3. PICK p \in Seq(Int) :
        /\ p = IF i = 0 THEN <<EMBED>> ELSE <<>>
        /\ Continues(p, m)
        /\ m + Len(p) = 1 + s
    <2>1. <<EMBED>> \in Seq(Int) /\ Len(<<EMBED>>) = 1 /\ <<EMBED>>[1] = -1
        BY DEF EMBED
    <2>2. Continues(<<EMBED>>, 0) /\ Continues(<<>>, m)
        BY <2>1 DEF Continues
    <2>3. CASE i = 0
        <3>1. m = 0 /\ 1 + s = 1
            BY <2>3, <1>1, <1>2
        <3>2. Continues(<<EMBED>>, m) /\ m + Len(<<EMBED>>) = 1 + s
            BY <2>1, <2>2, <3>1
        <3> QED BY <2>1, <2>3, <3>2
    <2>4. CASE i # 0
        <3>1. m = 1 + s /\ m + 0 = 1 + s /\ Len(<<>>) = 0 /\ <<>> \in Seq(Int)
            BY <2>4, <1>2
        <3> QED BY <2>2, <2>4, <3>1
    <2> QED BY <2>3, <2>4
<1>4. PICK w \in Nat : w = e - s
    BY <1>1
<1>5. PICK q \in Seq(Int) :
        /\ q = Blocks(s, e)
        /\ Len(q) = w
        /\ \A k \in 1 .. w : q[k] = s + k - 1
    <2>1. Blocks(s, e) = [k \in 1 .. w |-> s + k - 1]
        BY <1>4 DEF Blocks
    <2>2. /\ [k \in 1 .. w |-> s + k - 1] \in Seq(Int)
          /\ Len([k \in 1 .. w |-> s + k - 1]) = w
        OBVIOUS
    <2> QED BY <2>1, <2>2
<1>6. Continues(q, m + Len(p))
    <2>1. \A k \in 1 .. w : s + k - 1 = (1 + s) + k - 2
        OBVIOUS
    <2> QED BY <2>1, <1>3, <1>5 DEF Continues
<1>7. /\ Continues(p \o q, m)
      /\ Len(p \o q) = Len(p) + w /\ Len(p) \in Nat
    BY <1>3, <1>5, <1>6, ContinuesConcat
<1>8. m + Len(p \o q) = 1 + e
    BY <1>3, <1>4, <1>7
<1>9. PICK r \in Seq(Int) :
        /\ r = IF i = n - 1 THEN <<Unembed(t)>> ELSE <<>>
        /\ Continues(r, 1 + e)
        /\ 1 + e + Len(r) = m1
    <2>1. CASE i = n - 1
        <3>1. Len(<<t>>) = 1 /\ <<t>> \in Seq(Int) /\ <<t>>[1] = t
            OBVIOUS
        <3>2. t = (1 + e) + 1 - 2 /\ 1 + e + 1 = m1
            BY <2>1, <1>1, <1>2
        <3>3. Continues(<<t>>, 1 + e)
            BY <3>1, <3>2 DEF Continues
        <3> QED BY <2>1, <3>1, <3>2, <3>3 DEF Unembed
    <2>2. CASE i # n - 1
        <3>1. 1 + e + 0 = m1 /\ Len(<<>>) = 0 /\ <<>> \in Seq(Int)
            BY <2>2, <1>2
        <3>2. Continues(<<>>, 1 + e)
            BY DEF Continues
        <3> QED BY <2>2, <3>1, <3>2
    <2> QED BY <2>1, <2>2
<1>10. /\ Continues((p \o q) \o r, m)
       /\ Len((p \o q) \o r) = Len(p \o q) + Len(r) /\ Len(r) \in Nat
    BY <1>7, <1>8, <1>9, ContinuesConcat
<1>11. Forward(t, i, n) = (p \o q) \o r
    BY <1>1, <1>3, <1>5, <1>9 DEF Forward
<1>12. m + Len((p \o q) \o r) = m1
    <2>1. PICK x \in Nat, y \in Nat : x = Len(p \o q) /\ y = Len(r)
        BY <1>5, <1>7, <1>10
    <2>2. m + (x + y) = m1
        BY <2>1, <1>8, <1>9
    <2> QED BY <2>1, <2>2, <1>10
<1> QED BY <1>2, <1>10, <1>11, <1>12

-----------------------------------------------------------------------------
(* The inductive invariant.                                                *)
ForwardInv ==
    /\ ForwardTypeOK
    /\ Len(applied) = Before(total, at, shards)
    /\ Continues(applied, 0)

(* Before the first shard nothing is applied.                              *)
LEMMA ForwardInitInv == ForwardInit => ForwardInv
    BY ShardBounds DEF ForwardInit, ForwardInv, ForwardTypeOK, Before, Continues

(* Every shard continues where the one before it stopped.                  *)
LEMMA ForwardNextInv == ForwardInv /\ [ForwardNext]_fvars => ForwardInv'
<1> SUFFICES ASSUME ForwardInv, [ForwardNext]_fvars PROVE ForwardInv'
    OBVIOUS
<1>1. CASE RunShard
    <2>1. total \in Nat /\ shards \in Nat \ {0} /\ at \in 0 .. shards - 1
        BY <1>1, ShardBounds DEF ForwardInv, ForwardTypeOK, RunShard
    <2>2. PICK f \in Seq(Int), m \in Nat :
            /\ f = Forward(total, at, shards) /\ m = Before(total, at, shards)
            /\ Continues(f, m)
            /\ m + Len(f) = Before(total, at + 1, shards)
        BY <2>1, ForwardIs DEF Continues
    <2>3. Continues(applied, 0) /\ Len(applied) = m /\ 0 + m = m
        BY <2>2 DEF ForwardInv
    <2>4. applied' = applied \o f /\ at' = at + 1
          /\ total' = total /\ shards' = shards
        BY <1>1, <2>2 DEF RunShard
    <2>5. Continues(applied \o f, 0) /\ Len(applied \o f) = m + Len(f)
        BY <2>2, <2>3, ContinuesConcat
    <2> QED BY <2>1, <2>2, <2>4, <2>5 DEF ForwardInv, ForwardTypeOK, Continues
<1>2. CASE UNCHANGED fvars
    BY <1>2 DEF ForwardInv, ForwardTypeOK, Continues, fvars
<1> QED BY <1>1, <1>2 DEF ForwardNext

(* Chaining the forward of all shards is the forward of the whole model.   *)
THEOREM ChainIsWholeModel == ForwardSpec => []SameAsWholeModel
<1>1. ForwardInv => SameAsWholeModel
    <2> SUFFICES ASSUME ForwardInv PROVE SameAsWholeModel
        OBVIOUS
    <2>1. total \in Nat /\ shards \in Nat \ {0} /\ at \in 0 .. shards
          /\ applied \in Seq(Int)
        BY ShardBounds DEF ForwardInv, ForwardTypeOK
    <2>2. Len(applied) <= total + 2
        <3>1. CASE at = shards
            BY <3>1, <2>1 DEF ForwardInv, Before
        <3>2. CASE at < shards
            <4>1. LayerStart(total, at, shards) \in 0 .. total
                BY <3>2, <2>1, RangesPartition
            <4> QED BY <3>2, <4>1, <2>1 DEF ForwardInv, Before
        <3> QED BY <3>1, <3>2, <2>1
    <2>3. ASSUME at = shards PROVE applied = WholeModel
        <3>1. Len(applied) = total + 2
            BY <2>1, <2>3 DEF ForwardInv, Before
        <3>2. /\ applied \in [1 .. total + 2 -> Int]
              /\ \A k \in 1 .. total + 2 : applied[k] = k - 2
            BY <3>1, <2>1 DEF ForwardInv, Continues
        <3> QED BY <3>2, <2>1 DEF WholeModel
    <2>4. \A k \in 1 .. Len(applied) : applied[k] = k - 2
        BY DEF ForwardInv, Continues
    <2> QED BY <2>2, <2>3, <2>4 DEF SameAsWholeModel
<1>2. ForwardSpec => []ForwardInv
    BY ForwardInitInv, ForwardNextInv, PTL DEF ForwardSpec
<1> QED BY <1>1, <1>2, PTL

-----------------------------------------------------------------------------
(* The network                                                             *)

(* The input ports are BASE_WORKER_PORT + shard.  With a hundred shards    *)
(* the last of them would be the result port, and what follows is false.   *)
PortsFit == BASE_WORKER_PORT + NumShards <= RESULT_PORT

(* Where the activation is sent.                                           *)
DestIsNext ==
    /\ dest = NotSent => at = 0
    /\ dest # NotSent =>
         /\ announced
         /\ dest[2] = IF at < NumShards THEN BASE_WORKER_PORT + at ELSE RESULT_PORT

NetInv ==
    /\ Inv
    /\ at \in 0 .. NumShards /\ shards = NumShards
    /\ announced \in BOOLEAN
    /\ announced => AllRegistered
    /\ DestIsNext

-----------------------------------------------------------------------------
(* The device that listens where the activation is sent has the shard that *)
(* is next.                                                                *)
LEMMA ListenerIsNext ==
    ASSUME PortsFit, NetInv, NEW i \in Shards, Listens(i)
    PROVE  i = at /\ at < NumShards /\ dest # NotSent
<1>1. i \in Nat /\ i < NumShards /\ NumShards \in Nat /\ at \in Nat
    BY NumShardsAssumption DEF Shards, NetInv
<1>2. Registered(i) /\ SlotPos(i) = i + 1 /\ i + 1 \in DOMAIN slots
    BY <1>1, SlotPosition DEF Listens, NetInv, Inv, TypeOK
<1>3. slots[i + 1].input_port = BASE_WORKER_PORT + i
    BY <1>1, <1>2 DEF NetInv, Inv, SlotsInOrder
<1>4. dest = <<slots[i + 1].host, BASE_WORKER_PORT + i>>
    BY <1>2, <1>3 DEF Listens, GetConfig, Endpoint
<1>5. dest[2] = BASE_WORKER_PORT + i
    BY <1>4
<1>6. dest # NotSent
    BY <1>1, <1>5 DEF NotSent, BASE_WORKER_PORT
<1> QED BY <1>1, <1>5, <1>6
        DEF NetInv, DestIsNext, PortsFit, BASE_WORKER_PORT, RESULT_PORT

(* A hop sends to the next shard, or to the result collector.              *)
LEMMA HopSendsOn ==
    ASSUME PortsFit, NetInv, NEW i \in Shards, Hop(i)
    PROVE  dest'[2] = IF i + 1 < NumShards THEN BASE_WORKER_PORT + (i + 1)
                                           ELSE RESULT_PORT
<1>1. i = at /\ i \in Nat /\ i < NumShards /\ NumShards \in Nat
    BY ListenerIsNext, NumShardsAssumption DEF Hop, Shards
<1>2. announced /\ AllRegistered
    BY ListenerIsNext DEF Hop, NetInv, DestIsNext
<1>3. dest' = OutputAddress(i)
    BY DEF Hop, GetConfig
<1>4. CASE i < NumShards - 1
    <2>1. Registered(i + 1) /\ SlotPos(i + 1) = i + 2 /\ i + 2 \in DOMAIN slots
        BY <1>1, <1>2, <1>4, SlotPosition
        DEF NetInv, Inv, TypeOK, AllRegistered
    <2>2. slots[i + 2].input_port = BASE_WORKER_PORT + (i + 1)
        BY <1>1, <2>1 DEF NetInv, Inv, SlotsInOrder
    <2>3. dest' = <<slots[i + 2].host, slots[i + 2].input_port>>
        BY <1>3, <1>4, <2>1 DEF OutputAddress, Endpoint
    <2> QED BY <1>1, <1>4, <2>2, <2>3
<1>5. CASE i = NumShards - 1
    BY <1>1, <1>3, <1>5 DEF OutputAddress, Endpoint
<1> QED BY <1>1, <1>4, <1>5

(* At first nothing is sent.                                               *)
LEMMA NetInitInv == NetInit => NetInv
<1> SUFFICES ASSUME NetInit PROVE NetInv
    OBVIOUS
<1>1. Inv
    BY InitInv DEF NetInit
<1>2. at = 0 /\ shards = NumShards /\ ~announced /\ announced \in BOOLEAN
      /\ dest = NotSent
    BY DEF NetInit, ForwardInit
<1> QED BY <1>1, <1>2, NumShardsAssumption DEF NetInv, DestIsNext

(* The worker of start registers like every other one.                     *)
LEMMA RegisterIsNext == Register(ResultHost) => Next
BY ResultHostAssumption DEF Next

(* Every step of the network keeps the invariant.                          *)
LEMMA NetNextInv ==
    ASSUME PortsFit, NetInv, [NetNext]_nvars
    PROVE  NetInv'
<1>1. CASE Join \/ JoinLocal
    <2>0. Next
        BY <1>1, RegisterIsNext DEF Join, JoinLocal
    <2>1. Inv'
        BY <2>0, NextInv DEF NetInv
    <2>2. AllRegistered => AllRegistered'
        <3>1. CASE \E h \in Hosts : Register(h)
            BY <3>1 DEF Register, AllRegistered, NetInv, Inv, SlotsInOrder, NetworkFull
        <3>2. CASE \E i \in Shards : MarkReady(i)
            BY <3>2, MarkReadyEffect DEF AllRegistered, NetInv
        <3> QED BY <2>0, <3>1, <3>2 DEF Next
    <2> QED BY <1>1, <2>1, <2>2 DEF Join, JoinLocal, NetInv, DestIsNext
<1>2. CASE Announce
    BY <1>2 DEF Announce, Complete, NetInv, Inv, TypeOK, SlotsInOrder, AllRegistered,
       DestIsNext
<1>3. CASE Send
    <2>1. dest' = <<ResultHost, BASE_WORKER_PORT>> /\ at' = at /\ at = 0
        BY <1>3 DEF Send, Endpoint, NetInv, DestIsNext
    <2>2. dest'[2] = BASE_WORKER_PORT + 0 /\ dest' # NotSent
        BY <2>1 DEF NotSent, BASE_WORKER_PORT
    <2> QED BY <1>3, <2>1, <2>2, NumShardsAssumption
        DEF Send, NetInv, Inv, TypeOK, SlotsInOrder, AllRegistered, DestIsNext
<1>4. ASSUME NEW i \in Shards, Hop(i) PROVE NetInv'
    <2>1. i = at /\ at < NumShards /\ at' = at + 1 /\ announced
        BY <1>4, ListenerIsNext DEF Hop, NetInv, DestIsNext
    <2>2. dest'[2] = IF at' < NumShards THEN BASE_WORKER_PORT + at' ELSE RESULT_PORT
        BY <1>4, <2>1, HopSendsOn
    <2>3. dest' # NotSent
        <3>1. dest'[2] >= BASE_WORKER_PORT
            BY <2>1, <2>2 DEF BASE_WORKER_PORT, RESULT_PORT, NetInv
        <3> QED BY <3>1 DEF NotSent, BASE_WORKER_PORT
    <2>4. Inv' /\ AllRegistered'
        BY <1>4, <2>1
        DEF Hop, NetInv, Inv, TypeOK, SlotsInOrder, AllRegistered
    <2> QED BY <1>4, <2>1, <2>2, <2>3, <2>4, NumShardsAssumption
        DEF Hop, NetInv, DestIsNext
<1>5. CASE UNCHANGED nvars
    BY <1>5 DEF nvars, NetInv, Inv, TypeOK, SlotsInOrder, AllRegistered, DestIsNext
<1> QED BY <1>1, <1>2, <1>3, <1>4, <1>5 DEF NetNext, Hops

-----------------------------------------------------------------------------
(* ImplementsForward: the order in which the devices of any network pass   *)
(* the activation on (get_config) is the order of the shards               *)
(* (compute_layer_range).                                                  *)
THEOREM NetworkForwards ==
    ASSUME PortsFit
    PROVE  NetSpec => ImplementsForward
<1>1. NetInit => ForwardInit
    BY DEF NetInit
<1>2. ASSUME NetInv, [NetNext]_nvars PROVE [ForwardNext]_fvars
    <2>1. ASSUME NEW i \in Shards, Hop(i) PROVE ForwardNext
        BY <1>2, <2>1, ListenerIsNext DEF Hop, NetInv, ForwardNext, RunShard
    <2>2. ASSUME Join \/ JoinLocal \/ Announce \/ Send \/ UNCHANGED nvars
          PROVE  UNCHANGED fvars
        BY <2>2 DEF Join, JoinLocal, Announce, Send, nvars, fvars
    <2> QED BY <1>2, <2>1, <2>2 DEF NetNext, Hops
<1>3. NetInit /\ [][NetNext]_nvars => []NetInv
    BY NetInitInv, NetNextInv, PTL
<1> QED BY <1>1, <1>2, <1>3, PTL DEF NetSpec, ImplementsForward, ForwardSpec

(* SameAsWholeModel: a network of any size answers with what the unsharded *)
(* model computes.                                                         *)
THEOREM NetworkIsWholeModel ==
    ASSUME PortsFit
    PROVE  NetSpec => []SameAsWholeModel
BY NetworkForwards, ChainIsWholeModel, PTL DEF ImplementsForward
==============================================================================
