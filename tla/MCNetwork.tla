------------------------------ MODULE MCNetwork ------------------------------
(* Four shards and three hosts, so that one host joins several times: a    *)
(* second worker on a machine is legal and must get its own port.  Models  *)
(* from no block at all (fewer blocks than shards) to gpt2 (12) and more.  *)
EXTENDS Network

const_NumShards == 4
const_Hosts == {"pc", "laptop", "rpi"}
const_ResultHost == "pc"
=============================================================================
