------------------------------- MODULE MCServing -------------------------------
(* Two completions and a probe meet a user at the command line, with two   *)
(* replicas of worker 0.                                                   *)
EXTENDS Serving

const_Users == {"user"}
const_Completions == {"first", "second"}
const_Probes == {"probe"}
const_Heads == {"base", "replica"}
=============================================================================
