---------------------------- MODULE ShardedForward ----------------------------
(***************************************************************************)
(* core/model_shard.py: how compute_layer_range cuts a model into shards,  *)
(* and what an activation goes through when the shards run one after the   *)
(* other.  The operations of the whole model are numbered in the order it  *)
(* applies them: the embedding, block 0, ..., block total - 1, and the     *)
(* final norm with the projection.                                         *)
(***************************************************************************)
EXTENDS Integers, Sequences

CONSTANTS
    MaxLayers,  \* bound: blocks of a model
    MaxShards   \* bound: shards it is cut into

ASSUME ShardBounds == MaxLayers \in Nat /\ MaxShards \in Nat \ {0}

EMBED == -1
Unembed(t) == t                 \* ln_f and lm_head, after the last block

(* total_layers // num_shards                                              *)
Base(t, n) == t \div n

(* The shard i gets blocks[start : end].                                   *)
LayerStart(t, i, n) == i * Base(t, n)

(* (mutant: the remainder of the division is lost)                         *)
LayerEndNoRemainder(t, i, n) == LayerStart(t, i, n) + Base(t, n)

(* The remainder of the division goes to the last shard.                   *)
LayerEnd(t, i, n) ==
    IF i < n - 1 THEN LayerStart(t, i, n) + Base(t, n) ELSE t

Blocks(first, end) == [k \in 1 .. end - first |-> first + k - 1]

(* ModelShard.forward: embed on the first shard, the own blocks, norm and  *)
(* projection on the last.                                                 *)
Forward(t, i, n) ==
    (IF i = 0 THEN <<EMBED>> ELSE <<>>)
    \o Blocks(LayerStart(t, i, n), LayerEnd(t, i, n))
    \o (IF i = n - 1 THEN <<Unembed(t)>> ELSE <<>>)

VARIABLES
    total,      \* blocks of the model
    shards,     \* num_shards
    at,         \* the shard the activation reaches next
    applied     \* the operations applied to it so far

fvars == <<total, shards, at, applied>>

ForwardTypeOK ==
    /\ total \in 0 .. MaxLayers
    /\ shards \in 1 .. MaxShards
    /\ at \in 0 .. shards
    /\ applied \in Seq(Int)

(* __init__ refuses num_shards < 1 and an index out of range.              *)
ForwardInit ==
    /\ total \in 0 .. MaxLayers
    /\ shards \in 1 .. MaxShards
    /\ at = 0
    /\ applied = <<>>

RunShard ==
    /\ at < shards
    /\ applied' = applied \o Forward(total, at, shards)
    /\ at' = at + 1
    /\ UNCHANGED <<total, shards>>

ForwardNext == RunShard

ForwardSpec == ForwardInit /\ [][ForwardNext]_fvars

-----------------------------------------------------------------------------
(* Properties                                                              *)

(* What the unsharded model does.                                          *)
WholeModel == [k \in 1 .. total + 2 |-> k - 2]

(* On its way the activation has gone through the first operations of the  *)
(* whole model, none skipped, doubled or out of order at the seam of two   *)
(* shards; and behind the last shard through all of them.  For every       *)
(* number of shards, more than there are blocks included.                  *)
SameAsWholeModel ==
    /\ Len(applied) <= total + 2
    /\ \A k \in 1 .. Len(applied) : applied[k] = k - 2
    /\ at = shards => applied = WholeModel
===============================================================================
