------------------------------ MODULE MCServices ------------------------------
(* The launchers of one machine and the bootstrap node share nothing, so a *)
(* behaviour is one of either, during which the other does not move.       *)
(*                                                                         *)
(* Launch: two shards and two launches, which follow or overlap.  A demo   *)
(* comes second only: as the first one it differs from launch_workers in   *)
(* the PID file and in how it ends.                                        *)
(*                                                                         *)
(* Bootstrap: two clients, of which any may speak for any of two peers: a  *)
(* peer that moves, one that is registered by two, one that goes silent.   *)
EXTENDS Launch, Bootstrap

const_Launches == {1, 2}
const_KindsOf == <<{"workers", "all"}, Kinds>>
const_Peers == {"gateway", "worker"}
const_Addresses == {"here", "there"}
const_Clients == {"a", "b"}

VARIABLE program    \* which of the two the behaviour is of

Init == LaunchInit /\ NodeInit /\ program \in {"launch", "bootstrap"}

Next ==
    /\ \/ program = "launch" /\ LaunchNext /\ UNCHANGED nvars
       \/ program = "bootstrap" /\ NodeNext /\ UNCHANGED lvars
    /\ UNCHANGED program

(* LaunchFairness asks nothing of launchers that have not started; of the   *)
(* node, NodeFairness is asked in its own behaviours only.                 *)
FairSpec ==
    /\ Init /\ [][Next]_<<program, lvars, nvars>>
    /\ LaunchFairness
    /\ WF_nvars(program = "bootstrap" /\ Evict)
    /\ WF_nvars(program = "bootstrap" /\ Tick)
    /\ \A c \in Clients : WF_nvars(program = "bootstrap" /\ Serve(c))
================================================================================
