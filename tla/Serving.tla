-------------------------------- MODULE Serving --------------------------------
(***************************************************************************)
(* Everybody who generates text on one machine: `lankamind complete` and   *)
(* `chat` (cli/main.py), and the REST API (api/server.py), whose handlers  *)
(* are coroutines that call run_client (cli/client.py) and the gateway     *)
(* without awaiting anything, so that its event loop stands still while    *)
(* one of them runs.  They share the result port and the workers of the    *)
(* chain, of which only the state of worker 0 counts here (see             *)
(* InferencePipeline for the order they have).                             *)
(***************************************************************************)
EXTENDS Integers

CONSTANTS
    Users,          \* command-line processes
    Completions,    \* POST /v1/complete
    Probes,         \* GET /health, /v1/status and /v1/nodes
    Heads,          \* the replicas of worker 0
    BaseHead,       \* the one at --base-port
    MaxTokens,      \* tokens of a session
    MaxTurns        \* bound: turns of a chat

Requests == Completions \cup Probes
Sessions == Users \cup Completions

Nobody == "nobody"

ASSUME ServingAssumption ==
    /\ BaseHead \in Heads
    /\ MaxTokens \in Nat \ {0} /\ MaxTurns \in Nat
    /\ Users \cap Requests = {} /\ Completions \cap Probes = {}
    /\ Nobody \notin Users \cup Requests

VARIABLES
    http,       \* http[r]: "none", "pending", "running", or the answer
    loop,       \* the request the event loop is in, or Nobody
    phase,      \* phase[s]: where run_client of session s is
    head,       \* head[s]: the replica s connected to
    tokens,     \* tokens[s]: tokens received
    turns,      \* turns[u]: sessions user u has begun
    unsent,     \* sessions whose request is still in their PUSH socket
    port,       \* who has bound the result port, or Nobody
    inside,     \* the chain holds requests or results
    replica     \* replica[h]: "up", "full" (blocked in send()), or "down"

vars == <<http, loop, phase, head, tokens, turns, unsent, port, inside, replica>>
otherVars == <<turns, replica>>

TypeOK ==
    /\ http \in [Requests -> {"none", "pending", "running", "ok", "failed"}]
    /\ loop \in Requests \cup {Nobody}
    /\ phase \in [Sessions -> {"idle", "discover", "connect", "send", "wait", "term"}]
    /\ head \in [Sessions -> Heads]
    /\ tokens \in [Sessions -> 0 .. MaxTokens]
    /\ turns \in [Users -> 0 .. MaxTurns]
    /\ unsent \subseteq Sessions
    /\ port \in Sessions \cup {Nobody}
    /\ inside \in BOOLEAN
    /\ replica \in [Heads -> {"up", "full", "down"}]

Init ==
    /\ http = [r \in Requests |-> "none"] /\ loop = Nobody
    /\ phase = [s \in Sessions |-> "idle"]
    /\ head = [s \in Sessions |-> BaseHead]
    /\ tokens = [s \in Sessions |-> 0] /\ turns = [u \in Users |-> 0]
    /\ unsent = {} /\ port = Nobody /\ inside = FALSE
    /\ replica = [h \in Heads |-> "up"]

-----------------------------------------------------------------------------
(* The event loop                                                          *)

Post(r) ==
    /\ http[r] = "none"
    /\ http' = [http EXCEPT ![r] = "pending"]
    /\ UNCHANGED <<loop, phase, head, tokens, unsent, port, inside, otherVars>>

(* /health, and without a gateway address the others, answer at once.      *)
AnswerAtOnce(r) ==
    /\ loop = Nobody /\ http[r] = "pending"
    /\ http' = [http EXCEPT ![r] = "ok"]
    /\ UNCHANGED <<loop, phase, head, tokens, unsent, port, inside, otherVars>>

AskGateway(r) ==
    /\ loop = Nobody /\ http[r] = "pending"
    /\ http' = [http EXCEPT ![r] = "running"] /\ loop' = r
    /\ UNCHANGED <<phase, head, tokens, unsent, port, inside, otherVars>>

(* The gateway's answer, or nothing within RCVTIMEO (2 s): that is a 503   *)
(* of /v1/nodes, and zeros in /v1/status.                                  *)
GatewayAnswers(r) ==
    /\ loop = r
    /\ \E answer \in {"ok", "failed"} : http' = [http EXCEPT ![r] = answer]
    /\ loop' = Nobody
    /\ UNCHANGED <<phase, head, tokens, unsent, port, inside, otherVars>>

(* (mutant: the handler leaves the loop while run_client runs)             *)
CompleteAwaits(r) ==
    /\ loop = Nobody /\ http[r] = "pending"
    /\ http' = [http EXCEPT ![r] = "running"]
    /\ phase' = [phase EXCEPT ![r] = "discover"]
    /\ UNCHANGED <<loop, head, tokens, unsent, port, inside, otherVars>>

(* complete(): the loop is in run_client until that returns.               *)
Complete(r) ==
    /\ loop = Nobody /\ http[r] = "pending"
    /\ http' = [http EXCEPT ![r] = "running"] /\ loop' = r
    /\ phase' = [phase EXCEPT ![r] = "discover"]
    /\ UNCHANGED <<head, tokens, unsent, port, inside, otherVars>>

(* `complete`, or the next turn of `chat`.                                 *)
Prompt(u) ==
    /\ phase[u] = "idle" /\ turns[u] < MaxTurns
    /\ turns' = [turns EXCEPT ![u] = @ + 1]
    /\ phase' = [phase EXCEPT ![u] = "discover"]
    /\ UNCHANGED <<http, loop, head, tokens, unsent, port, inside, replica>>

-----------------------------------------------------------------------------
(* run_client, of whoever called it                                        *)

At(s, from, to) ==
    phase[s] = from /\ phase' = [phase EXCEPT ![s] = to]

(* run_client is left, and its caller gets the result: a process its text, *)
(* a request its answer.                                                   *)
Leaves(s, from, answer) ==
    /\ At(s, from, "idle")
    /\ head' = [head EXCEPT ![s] = BaseHead]
    /\ tokens' = [tokens EXCEPT ![s] = 0]
    /\ IF s \in Completions
       THEN http' = [http EXCEPT ![s] = answer] /\ loop' = Nobody
       ELSE UNCHANGED <<http, loop>>

(* _discover_chain: the first worker of the gateway's chain, which may be  *)
(* down by now.  A refusal, or no reply in 5 s, leaves the base port.      *)
Discover(s) ==
    /\ At(s, "discover", "connect")
    /\ \E h \in Heads : head' = [head EXCEPT ![s] = h]
    /\ UNCHANGED <<http, loop, tokens, unsent, port, inside, otherVars>>

(* Only the timeout is caught: an address zmq cannot use, or a reply that  *)
(* is not what a gateway sends, raises before any socket of the session.   *)
DiscoverFails(s) ==
    /\ Leaves(s, "discover", "failed")
    /\ UNCHANGED <<unsent, port, inside, otherVars>>

(* Connect to the worker and bind the result port.                         *)
Bind(s) ==
    /\ port = Nobody
    /\ At(s, "connect", "send")
    /\ port' = s
    /\ UNCHANGED <<http, loop, head, tokens, unsent, inside, otherVars>>

(* The port is taken: bind raises, which ends the process, or is a 503.    *)
BindFails(s) ==
    /\ port # Nobody
    /\ Leaves(s, "connect", "failed")
    /\ UNCHANGED <<unsent, port, inside, otherVars>>

(* No tokeniser, with the port bound: an exception before the try, and the *)
(* sockets go with the frame.                                              *)
LoadFails(s) ==
    /\ tokens[s] = 0
    /\ Leaves(s, "send", "failed")
    /\ port' = Nobody
    /\ UNCHANGED <<unsent, inside, otherVars>>

SendStep(s) ==
    /\ At(s, "send", "wait")
    /\ unsent' = unsent \cup {s}
    /\ UNCHANGED <<http, loop, head, tokens, port, inside, otherVars>>

(* The end of the generation loop: both sockets are closed.                *)
Close(s) ==
    /\ At(s, "wait", "term")
    /\ port' = Nobody

(* There is something in the chain of a replica that is blocked.           *)
MayBeEmpty == \A h \in Heads : replica[h] # "full"

(* A result comes out of the chain, to whoever has the result port.  The   *)
(* last one, the end of the text, or one that cannot be decoded ends the   *)
(* loop.                                                                   *)
Token(s) ==
    /\ inside /\ inside' \in (IF MayBeEmpty THEN BOOLEAN ELSE {TRUE})
    /\ tokens' = [tokens EXCEPT ![s] = @ + 1]
    /\ \/ tokens[s] + 1 < MaxTokens /\ At(s, "wait", "send") /\ UNCHANGED port
       \/ Close(s)
    /\ UNCHANGED <<http, loop, head, unsent, otherVars>>

(* (mutant: no RCVTIMEO)                                                   *)
TimeoutNever(s) ==
    /\ inside
    /\ Close(s)
    /\ UNCHANGED <<http, loop, head, tokens, unsent, inside, otherVars>>

(* 60 s without a result.                                                  *)
Timeout(s) ==
    /\ Close(s)
    /\ UNCHANGED <<http, loop, head, tokens, unsent, inside, otherVars>>

(* ctx.term() waits until the request has left.  Then the text is returned *)
(* as it is, whether a timeout cut it short or not; or the exception that  *)
(* ended the loop goes on to the caller.                                   *)
Return(s) ==
    /\ s \notin unsent
    /\ \E answer \in {"ok", "failed"} : Leaves(s, "term", answer)
    /\ UNCHANGED <<unsent, port, inside, otherVars>>

-----------------------------------------------------------------------------
(* The chain                                                               *)

(* Worker 0 takes the request of a session, unless it is blocked itself.   *)
Take(s) ==
    /\ s \in unsent /\ replica[head[s]] = "up"
    /\ unsent' = unsent \ {s}
    /\ inside' = TRUE
    /\ UNCHANGED <<http, loop, phase, head, tokens, port, otherVars>>

(* A worker fails with the request it computes, or a result is dropped     *)
(* with a result socket that was closed.                                   *)
Lose ==
    /\ inside /\ MayBeEmpty /\ inside' = FALSE
    /\ UNCHANGED <<http, loop, phase, head, tokens, unsent, port, otherVars>>

TurnsTo(h, from, to) ==
    /\ replica[h] \in from
    /\ replica' = [replica EXCEPT ![h] = to]
    /\ UNCHANGED <<http, loop, phase, head, tokens, turns, unsent, port, inside>>

(* Requests have piled up behind a worker that is down, until the queues   *)
(* of the replica are at the high-water mark; and they move on again.      *)
Block(h) == inside /\ TurnsTo(h, {"up"}, "full")

Unblock(h) == TurnsTo(h, {"full"}, "up")

Fail(h) == TurnsTo(h, {"up", "full"}, "down")

(* Somebody may start the worker again; nothing in the code does.          *)
Restart(h) == TurnsTo(h, {"down"}, "up")

Turns(h) == Block(h) \/ Unblock(h) \/ Fail(h) \/ Restart(h)

-----------------------------------------------------------------------------
Handle(r) ==
    \/ r \in Completions /\ Complete(r)
    \/ r \in Probes /\ (AnswerAtOnce(r) \/ AskGateway(r) \/ GatewayAnswers(r))

Step(s) ==
    \/ Discover(s) \/ DiscoverFails(s) \/ Bind(s) \/ BindFails(s) \/ LoadFails(s)
    \/ SendStep(s) \/ Token(s) \/ Timeout(s) \/ Return(s)

Next ==
    \/ \E r \in Requests : Post(r) \/ Handle(r)
    \/ \E u \in Users : Prompt(u)
    \/ \E s \in Sessions : Step(s) \/ Take(s)
    \/ Lose
    \/ \E h \in Heads : Turns(h)

Spec == Init /\ [][Next]_vars

(* The event loop and every session run, and a worker 0 that stays up and  *)
(* is not blocked takes what is sent to it.  Nobody has to prompt, post,   *)
(* restart, or move on what blocks a worker.                               *)
Fairness ==
    /\ \A r \in Requests : WF_vars(Handle(r))
    /\ \A s \in Sessions : WF_vars(Step(s)) /\ WF_vars(Take(s))

FairSpec == Spec /\ Fairness

-----------------------------------------------------------------------------
(* Properties                                                              *)

(* The event loop is in a completion that waits, in ctx.term(), for a      *)
(* worker 0 that is down, or that runs but is blocked in send() because    *)
(* the queues behind it are at their limit.                                *)
Stuck ==
    loop \in unsent /\ phase[loop] = "term" /\ replica[head[loop]] # "up"

(* "Simple liveness probe": every request to the API, /health among them,  *)
(* is answered, however sessions, gateway and workers fail, unless a       *)
(* completion holds the event loop for a worker 0 that does not take its   *)
(* request, because it is down or because of back-pressure.  A session     *)
(* of the command line that is held in the same way does the API no harm.  *)
RequestsAnswered ==
    \A r \in Requests :
        (http[r] = "pending") ~> (http[r] \in {"ok", "failed"} \/ []<>Stuck)

(* The API never takes the result port from itself: the bind of a          *)
(* completion fails only because a user at the command line has the port,  *)
(* never because of another completion.                                    *)
RefusedByUsersOnly ==
    [][\A r \in Completions :
         phase[r] = "connect" /\ http'[r] = "failed" => port \in Users]_vars
=============================================================================
