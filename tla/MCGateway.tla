------------------------------- MODULE MCGateway -------------------------------
(* Two workers compete for the only shard of a one-wide pipeline, one of   *)
(* them without a ping responder; the requests ask for any model, and for  *)
(* a width nobody runs.                                                    *)
EXTENDS Gateway

const_Workers == {"w1", "w2"}
const_ShardIdx == [w \in const_Workers |-> 0]
const_Width == [w \in const_Workers |-> 1]
const_ModelName == [w \in const_Workers |-> "gpt2"]
const_Deaf == {"w2"}
const_Requests == {[model_name |-> "*", num_shards |-> 1],
                   [model_name |-> "gpt2", num_shards |-> 2]}
================================================================================
