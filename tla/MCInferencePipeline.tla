------------------------- MODULE MCInferencePipeline -------------------------
(* Two workers; a high-water mark of 1 or 2 stands for the 500 of the      *)
(* sockets, so that queues fill up.                                        *)
EXTENDS InferencePipeline

const_All == FaultKinds
const_Timeout == {"timeout"}
=============================================================================
