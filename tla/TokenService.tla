----------------------------- MODULE TokenService -----------------------------
(***************************************************************************)
(* What a generation session relies on, without workers, queues or ports:  *)
(* a client asks for one token at a time, each request under a number of   *)
(* its own, and waits for an answer until it gives up.                     *)
(*                                                                         *)
(* In the strict service the answer is the one to the request the client   *)
(* waits for.  In the late service it may be the answer to an earlier      *)
(* request the client gave up on, but every answer is used once.           *)
(***************************************************************************)
EXTENDS Integers, Sequences, Functions

VARIABLES
    issued,     \* requests asked so far; the last one has this number
    answers,    \* the requests whose answers were used, in that order
    waiting     \* the client waits for an answer

tvars == <<issued, answers, waiting>>

TInit == issued = 0 /\ answers = <<>> /\ waiting = FALSE

Ask ==
    /\ ~waiting
    /\ issued' = issued + 1
    /\ waiting' = TRUE
    /\ UNCHANGED answers

AnswerStrict ==
    /\ waiting
    /\ answers' = Append(answers, issued)
    /\ waiting' = FALSE
    /\ UNCHANGED issued

AnswerLate ==
    /\ waiting
    /\ \E m \in (1 .. issued) \ Range(answers) : answers' = Append(answers, m)
    /\ waiting' = FALSE
    /\ UNCHANGED issued

GiveUp ==
    /\ waiting
    /\ waiting' = FALSE
    /\ UNCHANGED <<issued, answers>>

StrictSpec == TInit /\ [][Ask \/ AnswerStrict \/ GiveUp]_tvars
LateSpec == TInit /\ [][Ask \/ AnswerLate \/ GiveUp]_tvars
=============================================================================
