------------------------------ MODULE MCAutoJoin ------------------------------
(* Two shards.  p1 and p2 share the machine "pc" (lankamind start and a    *)
(* second join on it), p3 is a laptop; the third is one device too many.   *)
EXTENDS AutoJoin

const_NumShards == 2
const_Trio == {"p1", "p2", "p3"}
const_TrioHosts == [p \in const_Trio |-> IF p = "p3" THEN "laptop" ELSE "pc"]
const_Pair == {"p1", "p3"}
const_PairHosts == [p \in const_Pair |-> IF p = "p3" THEN "laptop" ELSE "pc"]
const_ResultHost == "pc"
const_None == {}
const_First == {"p1"}
const_Stale == {<<"pc", 0>>}
const_AllFaults == FaultKinds
const_Timeouts == {"register_timeout", "topology_timeout"}
=============================================================================
