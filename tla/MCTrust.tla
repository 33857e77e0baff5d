------------------------------- MODULE MCTrust -------------------------------
(* One worker that fails often enough to lose its trust, two threads that  *)
(* save over each other.                                                   *)
EXTENDS Trust

const_Nodes == {"w"}
const_Threads == {"t1", "t2"}
const_Tokens == {15}
=============================================================================
