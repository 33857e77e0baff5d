---------------------------- MODULE ServicesProofs ----------------------------
(***************************************************************************)
(* Three parts of the system that wait for others or serve them.           *)
(*                                                                         *)
(* Who holds the result port (Serving), for any users, completions, probes *)
(* and replicas.  The invariant: a session that is in run_client and       *)
(* belongs to the API has the event loop, and the owner of the port is a   *)
(* session between its bind and its close.                                 *)
(*                                                                         *)
(* The registry of the bootstrap node (Bootstrap), for any peers,          *)
(* addresses, clients and time to live.  The invariant: an entry is the    *)
(* last registration of its peer, and a registration that is not stale has *)
(* its entry.                                                              *)
(*                                                                         *)
(* The ready files of the launchers (Launch), for any launches, shards,    *)
(* stops and faults.  The invariant: what a launch that has begun sees in  *)
(* the files was loaded since it began, and a file that is not orphaned    *)
(* has its worker.                                                         *)
(***************************************************************************)
EXTENDS Serving, Bootstrap, Launch, FiniteSetTheorems, TLAPS

-----------------------------------------------------------------------------
(* Serving                                                                 *)

Phases == {"idle", "discover", "connect", "send", "wait", "term"}

PortInv ==
    /\ http \in [Requests -> {"none", "pending", "running", "ok", "failed"}]
    /\ phase \in [Sessions -> Phases]
    /\ port \in Sessions \cup {Nobody}
    /\ \A r \in Completions : phase[r] # "idle" => loop = r /\ http[r] = "running"
    /\ \A s \in Sessions : phase[s] \in {"send", "wait"} <=> port = s

(* Nobody is no session, and a user is not a request.                      *)
LEMMA SessionIsSomebody ==
    /\ Nobody \notin Sessions /\ Nobody \notin Requests
    /\ \A r \in Completions : r \in Sessions /\ r \in Requests
    /\ \A u \in Users : u \in Sessions /\ u \notin Completions
    /\ \A r \in Probes : r \in Requests /\ r \notin Completions
BY ServingAssumption DEF Sessions, Requests

(* The event loop takes a request: no completion is in run_client.         *)
LEMMA LoopIsFree ==
    ASSUME PortInv, loop \notin Completions, NEW r \in Completions
    PROVE  phase[r] = "idle"
BY DEF PortInv

(* A session begins run_client.                                            *)
LEMMA BeginKeeps ==
    ASSUME PortInv, NEW s \in Sessions, phase[s] = "idle",
           phase' = [phase EXCEPT ![s] = "discover"], port' = port,
           \/ s \in Users /\ loop' = loop /\ http' = http
           \/ /\ s \in Completions /\ loop = Nobody /\ loop' = s
              /\ http' = [http EXCEPT ![s] = "running"]
    PROVE  PortInv'
<1>1. /\ phase' \in [Sessions -> Phases]
      /\ phase'[s] = "discover" /\ \A t \in Sessions \ {s} : phase'[t] = phase[t]
      /\ http' \in [Requests -> {"none", "pending", "running", "ok", "failed"}]
    BY DEF PortInv, Phases
<1>2. ASSUME NEW r \in Completions, phase'[r] # "idle"
      PROVE  loop' = r /\ http'[r] = "running"
    <2>1. CASE s \in Users /\ loop' = loop /\ http' = http
        <3>1. r \in Sessions \ {s}
            BY <2>1, SessionIsSomebody
        <3> QED BY <1>1, <1>2, <2>1, <3>1 DEF PortInv
    <2>2. CASE /\ s \in Completions /\ loop = Nobody /\ loop' = s
               /\ http' = [http EXCEPT ![s] = "running"]
        <3>1. phase[r] = "idle" /\ r \in Sessions /\ s \in Requests
            BY <2>2, LoopIsFree, SessionIsSomebody
        <3>2. r = s
            BY <1>1, <1>2, <3>1
        <3> QED BY <2>2, <3>1, <3>2 DEF PortInv
    <2> QED BY <2>1, <2>2
<1>3. \A t \in Sessions : phase'[t] \in {"send", "wait"} <=> port' = t
    BY <1>1 DEF PortInv
<1> QED BY <1>1, <1>2, <1>3 DEF PortInv

(* run_client goes on; on both sides of the step the session has the port, *)
(* or on neither side, or the step is its bind or its close.               *)
LEMMA PhaseStep ==
    ASSUME PortInv, NEW s \in Sessions, NEW to \in Phases, to # "idle",
           phase[s] # "idle", phase' = [phase EXCEPT ![s] = to],
           loop' = loop, http' = http,
           \/ /\ to \in {"send", "wait"} <=> phase[s] \in {"send", "wait"}
              /\ port' = port
           \/ to \in {"send", "wait"} /\ port = Nobody /\ port' = s
           \/ to = "term" /\ phase[s] \in {"send", "wait"} /\ port' = Nobody
    PROVE  PortInv'
<1>1. /\ phase' \in [Sessions -> Phases]
      /\ phase'[s] = to /\ \A t \in Sessions \ {s} : phase'[t] = phase[t]
    BY DEF PortInv
<1>2. ASSUME NEW r \in Completions, phase'[r] # "idle"
      PROVE  loop' = r /\ http'[r] = "running"
    <2>1. r \in Sessions /\ phase[r] # "idle"
        BY <1>1, <1>2, SessionIsSomebody
    <2> QED BY <2>1 DEF PortInv
<1>3. port' \in Sessions \cup {Nobody}
    BY DEF PortInv
<1>4. ASSUME NEW t \in Sessions PROVE phase'[t] \in {"send", "wait"} <=> port' = t
    <2>1. t # Nobody
        BY SessionIsSomebody
    <2> QED BY <1>1, <2>1 DEF PortInv
<1> QED BY <1>1, <1>2, <1>3, <1>4 DEF PortInv

(* A session that leaves run_client gives the loop back, and it is the     *)
(* only one of the API that was in it.                                     *)
LEMMA LeavesKeeps ==
    ASSUME PortInv, NEW s \in Sessions, NEW from \in Phases, from # "idle",
           NEW answer \in {"ok", "failed"}, Leaves(s, from, answer),
           port' = IF from \in {"send", "wait"} THEN Nobody ELSE port
    PROVE  PortInv'
<1>1. phase[s] = from /\ phase' = [phase EXCEPT ![s] = "idle"]
    BY DEF Leaves, At
<1>2. /\ phase' \in [Sessions -> Phases]
      /\ phase'[s] = "idle" /\ \A t \in Sessions \ {s} : phase'[t] = phase[t]
      /\ port' \in Sessions \cup {Nobody}
    BY <1>1 DEF PortInv, Phases
<1>3. ASSUME NEW r \in Completions, phase'[r] # "idle"
      PROVE  loop' = r /\ http'[r] = "running"
    <2>1. /\ r \in Sessions /\ r # s /\ phase[r] # "idle"
          /\ loop = r /\ http[r] = "running"
        BY <1>2, <1>3, SessionIsSomebody DEF PortInv
    <2>2. s \notin Completions
        BY <1>1, <2>1 DEF PortInv
    <2> QED BY <2>1, <2>2 DEF Leaves
<1>4. ASSUME NEW t \in Sessions PROVE phase'[t] \in {"send", "wait"} <=> port' = t
    <2>1. t # Nobody
        BY SessionIsSomebody
    <2>2. CASE from \in {"send", "wait"}
        BY <1>1, <1>2, <2>1, <2>2 DEF PortInv
    <2>3. CASE from \notin {"send", "wait"}
        BY <1>1, <1>2, <2>3 DEF PortInv
    <2> QED BY <2>2, <2>3
<1>5. http' \in [Requests -> {"none", "pending", "running", "ok", "failed"}]
    BY DEF Leaves, PortInv
<1> QED BY <1>2, <1>3, <1>4, <1>5 DEF PortInv

(* Nobody is in run_client at first.                                       *)
LEMMA PortInitInv == Init => PortInv
    BY SessionIsSomebody DEF Init, PortInv, Phases

(* Each step of run_client keeps the invariant.                            *)
LEMMA StepKeeps == ASSUME PortInv, NEW s \in Sessions, Step(s) PROVE PortInv'
<1> USE DEF Phases
<1>1. CASE Discover(s) \/ SendStep(s)
    BY <1>1, PhaseStep DEF Discover, SendStep, At
<1>2. CASE Bind(s)
    BY <1>2, PhaseStep DEF Bind, At
<1>3. CASE DiscoverFails(s) \/ BindFails(s)
    BY <1>3, LeavesKeeps DEF DiscoverFails, BindFails
<1>4. CASE LoadFails(s)
    BY <1>4, LeavesKeeps DEF LoadFails
<1>5. CASE Token(s)
    <2>1. CASE At(s, "wait", "send") /\ UNCHANGED port
        BY <1>5, <2>1, PhaseStep DEF Token, At
    <2>2. CASE Close(s)
        BY <1>5, <2>2, PhaseStep DEF Token, Close, At
    <2> QED BY <1>5, <2>1, <2>2 DEF Token
<1>6. CASE Timeout(s)
    BY <1>6, PhaseStep DEF Timeout, Close, At
<1>7. CASE Return(s)
    BY <1>7, LeavesKeeps DEF Return
<1> QED BY <1>1, <1>2, <1>3, <1>4, <1>5, <1>6, <1>7 DEF Step

(* Each step of a handler keeps the invariant.                             *)
LEMMA HandleKeeps == ASSUME PortInv, NEW r \in Requests, Handle(r) PROVE PortInv'
<1>1. CASE r \in Completions /\ Complete(r)
    <2>1. phase[r] = "idle" /\ r \in Sessions
        BY <1>1, LoopIsFree, SessionIsSomebody DEF Complete
    <2> QED BY <1>1, <2>1, BeginKeeps DEF Complete
<1>2. CASE r \in Probes /\ (AnswerAtOnce(r) \/ AskGateway(r) \/ GatewayAnswers(r))
    <2>1. loop \notin Completions
        BY <1>2, SessionIsSomebody DEF AnswerAtOnce, AskGateway, GatewayAnswers
    <2>2. \A c \in Completions : phase[c] = "idle"
        BY <2>1, LoopIsFree
    <2> QED BY <1>2, <2>2 DEF AnswerAtOnce, AskGateway, GatewayAnswers, PortInv
<1> QED BY <1>1, <1>2 DEF Handle

(* A replica goes down, comes up, blocks or moves on: nothing else does.   *)
LEMMA TurnsKeeps ==
    ASSUME NEW h \in Heads, Turns(h)
    PROVE  /\ UNCHANGED <<http, loop, phase, head, tokens, turns, unsent, port, inside>>
           /\ replica \in [Heads -> {"up", "full", "down"}] =>
                replica' \in [Heads -> {"up", "full", "down"}]
BY DEF Turns, Block, Unblock, Fail, Restart, TurnsTo

(* Every step keeps the invariant.                                         *)
LEMMA PortNextInv == ASSUME PortInv, [Next]_vars PROVE PortInv'
<1>1. ASSUME NEW r \in Requests, Post(r) PROVE PortInv'
    <2>1. \A c \in Completions : phase[c] # "idle" => http'[c] = "running"
        BY <1>1, SessionIsSomebody DEF Post, PortInv
    <2> QED BY <1>1, <2>1 DEF Post, PortInv
<1>2. ASSUME NEW u \in Users, Prompt(u) PROVE PortInv'
    <2>1. u \in Sessions
        BY SessionIsSomebody
    <2> QED BY <1>2, <2>1, BeginKeeps DEF Prompt
<1>3. ASSUME NEW s \in Sessions, Take(s) PROVE PortInv'
    BY <1>3 DEF Take, PortInv
<1>4. CASE Lose \/ (\E h \in Heads : Turns(h)) \/ UNCHANGED vars
    BY <1>4, TurnsKeeps DEF Lose, vars, PortInv
<1> QED BY <1>1, <1>2, <1>3, <1>4, StepKeeps, HandleKeeps DEF Next

(* The invariant on which the result rests.                                *)
THEOREM PortInvariance == Spec => []PortInv
    BY PortInitInv, PortNextInv, PTL DEF Spec

(* RefusedByUsersOnly: the blocking call of run_client in complete() is    *)
(* also what keeps two completions from competing for the result port.     *)
THEOREM RefusedByUsersOnlyHolds == Spec => RefusedByUsersOnly
<1>1. ASSUME PortInv, Next, NEW r \in Completions,
             phase[r] = "connect", http'[r] = "failed"
      PROVE  port \in Users
    <2>1. r \in Sessions /\ r \in Requests /\ loop = r
        BY <1>1, SessionIsSomebody DEF PortInv
    <2>2. http[r] # "failed" => port # Nobody
        <3>1. ASSUME NEW s \in Sessions, Step(s), http[r] # "failed"
              PROVE  port # Nobody
            <4>1. s = r /\ BindFails(r)
                BY <1>1, <2>1, <3>1
                DEF Step, Discover, DiscoverFails, Bind, BindFails, LoadFails, SendStep,
                    Token, Timeout, Close, Return, Leaves, At, PortInv
            <4> QED BY <4>1 DEF BindFails
        <3>2. ASSUME NEW q \in Requests, Post(q) \/ Handle(q), http[r] # "failed"
              PROVE  port # Nobody
            BY <1>1, <2>1, <3>2, SessionIsSomebody
            DEF Post, Handle, Complete, AnswerAtOnce, AskGateway, GatewayAnswers, PortInv
        <3>3. ASSUME \/ \E u \in Users : Prompt(u)
                     \/ \E s \in Sessions : Take(s)
                     \/ Lose \/ \E h \in Heads : Turns(h),
                     http[r] # "failed"
              PROVE  port # Nobody
            BY <1>1, <3>3, TurnsKeeps DEF Prompt, Take, Lose
        <3> QED BY <1>1, <3>1, <3>2, <3>3 DEF Next
    <2>3. http[r] = "running"
        BY <1>1 DEF PortInv
    <2>4. port \in Users \cup Completions
        BY <1>1, <2>2, <2>3 DEF PortInv, Sessions
    <2>5. ASSUME port \in Completions PROVE FALSE
        <3>1. port \in Sessions /\ phase[port] # "idle" /\ phase[port] # "connect"
            BY <1>1, <2>5, SessionIsSomebody DEF PortInv
        <3> QED BY <1>1, <2>1, <2>5, <3>1 DEF PortInv
    <2> QED BY <2>4, <2>5
<1>2. ASSUME PortInv, [Next]_vars
      PROVE  [\A r \in Completions :
                phase[r] = "connect" /\ http'[r] = "failed" => port \in Users]_vars
    BY <1>1, <1>2
<1> QED BY <1>2, PortInvariance, PTL DEF Spec, RefusedByUsersOnly

(* A session has tokens once it has sent a request, and it asks for one    *)
(* more only while it has fewer than MaxTokens.                            *)
TokensInv ==
    \A s \in Sessions :
        /\ phase[s] \in {"idle", "discover", "connect"} => tokens[s] = 0
        /\ phase[s] \in {"send", "wait"} => tokens[s] < MaxTokens

SessionInv == TypeOK /\ TokensInv

(* At first there are no sessions.                                         *)
LEMMA SessionInitInv == Init => SessionInv
<1> SUFFICES ASSUME Init PROVE SessionInv
    OBVIOUS
<1>1. 0 \in 0 .. MaxTokens /\ 0 \in 0 .. MaxTurns /\ 0 < MaxTokens
    BY ServingAssumption
<1>2. /\ http \in [Requests -> {"none", "pending", "running", "ok", "failed"}]
      /\ loop \in Requests \cup {Nobody} /\ port \in Sessions \cup {Nobody}
      /\ phase \in [Sessions -> {"idle", "discover", "connect", "send", "wait", "term"}]
      /\ unsent \subseteq Sessions
      /\ replica \in [Heads -> {"up", "full", "down"}]
    BY DEF Init
<1>3. /\ head \in [Sessions -> Heads] /\ tokens \in [Sessions -> 0 .. MaxTokens]
      /\ turns \in [Users -> 0 .. MaxTurns]
    BY <1>1, ServingAssumption DEF Init
<1>4. inside \in BOOLEAN
    BY DEF Init
<1>5. \A s \in Sessions : phase[s] = "idle" /\ tokens[s] = 0
    BY DEF Init
<1>6. TypeOK
    BY <1>2, <1>3, <1>4 DEF TypeOK
<1> QED BY <1>5, <1>6 DEF SessionInv, TokensInv

(* One session moves, to a phase that allows its number of tokens; what is *)
(* shared keeps its type.                                                  *)
LEMMA SessionKeeps ==
    ASSUME SessionInv, NEW s \in Sessions, NEW to \in Phases, NEW n \in 0 .. MaxTokens,
           phase' = [phase EXCEPT ![s] = to],
           tokens' = [tokens EXCEPT ![s] = n],
           to \in {"idle", "discover", "connect"} => n = 0,
           to \in {"send", "wait"} => n < MaxTokens,
           http' \in [Requests -> {"none", "pending", "running", "ok", "failed"}],
           loop' \in Requests \cup {Nobody},
           head' \in [Sessions -> Heads], turns' \in [Users -> 0 .. MaxTurns],
           unsent' \subseteq Sessions, port' \in Sessions \cup {Nobody},
           inside' \in BOOLEAN,
           replica' \in [Heads -> {"up", "full", "down"}]
    PROVE  SessionInv'
<1>1. /\ phase' \in [Sessions -> Phases] /\ tokens' \in [Sessions -> 0 .. MaxTokens]
      /\ phase'[s] = to /\ tokens'[s] = n
      /\ \A t \in Sessions \ {s} : phase'[t] = phase[t] /\ tokens'[t] = tokens[t]
    BY DEF SessionInv, TypeOK, Phases
<1>2. TypeOK'
    BY <1>1 DEF TypeOK, Phases
<1>3. TokensInv'
    BY <1>1 DEF SessionInv, TokensInv
<1> QED BY <1>2, <1>3 DEF SessionInv

(* A session that leaves run_client forgets its tokens.                    *)
LEMMA LeavesKeepsTypes ==
    ASSUME SessionInv, NEW s \in Sessions, NEW from, NEW answer \in {"ok", "failed"},
           Leaves(s, from, answer), UNCHANGED <<unsent, inside, turns, replica>>,
           port' \in {port, Nobody}
    PROVE  SessionInv'
<1>1. /\ phase' = [phase EXCEPT ![s] = "idle"] /\ tokens' = [tokens EXCEPT ![s] = 0]
      /\ head' \in [Sessions -> Heads]
    BY ServingAssumption DEF Leaves, At, SessionInv, TypeOK
<1>2. /\ http' \in [Requests -> {"none", "pending", "running", "ok", "failed"}]
      /\ loop' \in Requests \cup {Nobody}
    BY DEF Leaves, SessionInv, TypeOK
<1>3. /\ turns' \in [Users -> 0 .. MaxTurns] /\ unsent' \subseteq Sessions
      /\ port' \in Sessions \cup {Nobody} /\ inside' \in BOOLEAN
      /\ replica' \in [Heads -> {"up", "full", "down"}]
    BY DEF SessionInv, TypeOK
<1>4. 0 \in 0 .. MaxTokens /\ "idle" \in Phases
    BY ServingAssumption DEF Phases
<1> QED BY <1>1, <1>2, <1>3, <1>4, SessionKeeps

(* Each step of run_client keeps types and tokens.                         *)
LEMMA StepKeepsTypes == ASSUME SessionInv, NEW s \in Sessions, Step(s) PROVE SessionInv'
<1>1. /\ http \in [Requests -> {"none", "pending", "running", "ok", "failed"}]
      /\ loop \in Requests \cup {Nobody}
      /\ head \in [Sessions -> Heads] /\ turns \in [Users -> 0 .. MaxTurns]
      /\ unsent \subseteq Sessions /\ port \in Sessions \cup {Nobody}
      /\ inside \in BOOLEAN
      /\ replica \in [Heads -> {"up", "full", "down"}]
      /\ tokens[s] \in 0 .. MaxTokens /\ tokens = [tokens EXCEPT ![s] = tokens[s]]
      /\ MaxTokens \in Nat \ {0}
    BY ServingAssumption DEF SessionInv, TypeOK
<1>2. /\ phase[s] \in {"discover", "connect"} => tokens[s] = 0
      /\ phase[s] \in {"send", "wait"} => tokens[s] < MaxTokens
    BY DEF SessionInv, TokensInv
<1>3. {"connect", "send", "wait", "term"} \subseteq Phases
    BY DEF Phases
<1>4. CASE Discover(s)
    <2>1. /\ phase[s] = "discover" /\ phase' = [phase EXCEPT ![s] = "connect"]
          /\ head' \in [Sessions -> Heads]
          /\ tokens' = [tokens EXCEPT ![s] = tokens[s]]
          /\ UNCHANGED <<http, loop, turns, unsent, port, inside, replica>>
        BY <1>1, <1>4 DEF Discover, At, otherVars
    <2> QED BY <1>1, <1>2, <1>3, <2>1, SessionKeeps
<1>5. CASE Bind(s)
    <2>1. /\ phase[s] = "connect" /\ phase' = [phase EXCEPT ![s] = "send"]
          /\ port' = s /\ tokens' = [tokens EXCEPT ![s] = tokens[s]]
          /\ UNCHANGED <<http, loop, head, turns, unsent, inside, replica>>
        BY <1>1, <1>5 DEF Bind, At, otherVars
    <2>2. tokens[s] < MaxTokens
        BY <1>1, <1>2, <2>1
    <2> QED BY <1>1, <1>3, <2>1, <2>2, SessionKeeps
<1>6. CASE DiscoverFails(s) \/ BindFails(s) \/ LoadFails(s) \/ Return(s)
    BY <1>6, LeavesKeepsTypes DEF DiscoverFails, BindFails, LoadFails, Return, otherVars
<1>7. CASE SendStep(s)
    BY <1>1, <1>2, <1>3, <1>7, SessionKeeps DEF SendStep, At, otherVars
<1>8. CASE Token(s)
    <2>1. /\ tokens[s] + 1 \in 0 .. MaxTokens
          /\ tokens' = [tokens EXCEPT ![s] = tokens[s] + 1]
        BY <1>1, <1>2, <1>8 DEF Token, At, Close
    <2>2. CASE tokens[s] + 1 < MaxTokens /\ At(s, "wait", "send") /\ UNCHANGED port
        BY <1>1, <1>3, <1>8, <2>1, <2>2, SessionKeeps DEF Token, At, otherVars
    <2>3. CASE Close(s)
        BY <1>1, <1>3, <1>8, <2>1, <2>3, SessionKeeps DEF Token, Close, At, otherVars
    <2> QED BY <1>8, <2>2, <2>3 DEF Token
<1>9. CASE Timeout(s)
    BY <1>1, <1>3, <1>9, SessionKeeps DEF Timeout, Close, At, otherVars
<1> QED BY <1>4, <1>5, <1>6, <1>7, <1>8, <1>9 DEF Step

(* Every step does. A completion that begins had no session: PortInv.      *)
LEMMA SessionNextInv == ASSUME SessionInv, PortInv, [Next]_vars PROVE SessionInv'
<1>1. ASSUME NEW r \in Requests, Post(r) \/ Handle(r) PROVE SessionInv'
    <2>1. CASE r \in Completions /\ Complete(r)
        <3>1. r \in Sessions /\ phase[r] = "idle" /\ tokens[r] = 0
            BY <2>1, LoopIsFree, SessionIsSomebody DEF Complete, SessionInv, TokensInv
        <3>2. tokens' = [tokens EXCEPT ![r] = 0]
            BY <2>1, <3>1 DEF Complete, SessionInv, TypeOK
        <3>3. 0 \in 0 .. MaxTokens /\ "discover" \in Phases
            BY ServingAssumption DEF Phases
        <3>4. http' \in [Requests -> {"none", "pending", "running", "ok", "failed"}]
              /\ loop' \in Requests \cup {Nobody}
            BY <2>1 DEF Complete, SessionInv, TypeOK
        <3>5. /\ head' \in [Sessions -> Heads] /\ turns' \in [Users -> 0 .. MaxTurns]
              /\ unsent' \subseteq Sessions /\ port' \in Sessions \cup {Nobody}
              /\ inside' \in BOOLEAN
              /\ replica' \in [Heads -> {"up", "full", "down"}]
              /\ phase' = [phase EXCEPT ![r] = "discover"]
            BY <2>1 DEF Complete, SessionInv, TypeOK, otherVars
        <3> QED BY <3>1, <3>2, <3>3, <3>4, <3>5, SessionKeeps
    <2>2. CASE Post(r) \/ AnswerAtOnce(r) \/ AskGateway(r) \/ GatewayAnswers(r)
        <3>1. http' \in [Requests -> {"none", "pending", "running", "ok", "failed"}]
              /\ loop' \in Requests \cup {Nobody}
            BY <2>2 DEF Post, AnswerAtOnce, AskGateway, GatewayAnswers, SessionInv, TypeOK
        <3>2. UNCHANGED <<phase, head, tokens, unsent, port, inside, otherVars>>
            BY <2>2 DEF Post, AnswerAtOnce, AskGateway, GatewayAnswers
        <3> QED BY <3>1, <3>2 DEF SessionInv, TypeOK, TokensInv, otherVars
    <2> QED BY <1>1, <2>1, <2>2 DEF Handle
<1>2. ASSUME NEW u \in Users, Prompt(u) PROVE SessionInv'
    <2>1. u \in Sessions /\ phase[u] = "idle" /\ tokens[u] = 0
        BY <1>2, SessionIsSomebody DEF Prompt, SessionInv, TokensInv
    <2>2. tokens' = [tokens EXCEPT ![u] = 0]
        BY <1>2, <2>1 DEF Prompt, SessionInv, TypeOK
    <2>3. 0 \in 0 .. MaxTokens /\ "discover" \in Phases
        BY ServingAssumption DEF Phases
    <2>4. turns' \in [Users -> 0 .. MaxTurns]
        BY <1>2, ServingAssumption DEF Prompt, SessionInv, TypeOK
    <2> QED BY <1>2, <2>1, <2>2, <2>3, <2>4, SessionKeeps DEF Prompt, SessionInv, TypeOK
<1>3. ASSUME NEW s \in Sessions, Take(s) PROVE SessionInv'
    BY <1>3 DEF Take, SessionInv, TypeOK, TokensInv, otherVars
<1>4. ASSUME NEW h \in Heads, Turns(h) PROVE SessionInv'
    BY <1>4, TurnsKeeps DEF SessionInv, TypeOK, TokensInv
<1>5. CASE Lose \/ UNCHANGED vars
    BY <1>5 DEF Lose, vars, SessionInv, TypeOK, TokensInv, otherVars
<1> QED BY <1>1, <1>2, <1>3, <1>4, <1>5, StepKeepsTypes DEF Next

(* The state of the sessions and requests has its type: no session ever has *)
(* more tokens than it was asked for.                                      *)
THEOREM ServingTypeCorrect == Spec => []TypeOK
<1>1. SessionInv => TypeOK
    BY DEF SessionInv
<1> QED BY <1>1, SessionInitInv, SessionNextInv, PortInvariance, PTL DEF Spec

-----------------------------------------------------------------------------
(* The bootstrap node                                                      *)

ListInv ==
    /\ NodeTypeOK
    /\ \A p \in DOMAIN peers : peers[p] = heard[p]
    /\ \A p \in Peers : ~Stale(heard[p]) => p \in DOMAIN peers
    /\ ForgottenInTime

(* What _evict() leaves: the same entries, less the stale ones.            *)
LEMMA FreshIs ==
    ASSUME NEW reg
    PROVE  /\ DOMAIN Fresh(reg) = {p \in DOMAIN reg : ~Stale(reg[p])}
           /\ \A p \in DOMAIN Fresh(reg) : Fresh(reg)[p] = reg[p]
           /\ Fresh(reg) = [p \in DOMAIN Fresh(reg) |-> reg[p]]
BY DEF Fresh, Restrict

(* An eviction, by the thread or by list_peers(), removes no peer that is  *)
(* still due, and all that are not.                                        *)
LEMMA FreshKeeps ==
    ASSUME ListInv, peers' = Fresh(peers), heard' = heard,
           server' \in {"recv", "owes", "stopped"}, evictDue' \in BOOLEAN,
           request' \in [Clients -> NodeRequests \cup {Nothing}]
    PROVE  ListInv'
<1>1. /\ DOMAIN peers' = {p \in DOMAIN peers : ~Stale(peers[p])}
      /\ \A p \in DOMAIN peers' : peers'[p] = peers[p]
      /\ peers' = [p \in DOMAIN peers' |-> peers[p]]
    BY FreshIs
<1>2. /\ DOMAIN peers' \subseteq Peers
      /\ \A p \in DOMAIN peers' : p \in DOMAIN peers /\ peers[p] \in Entry
    BY <1>1 DEF ListInv, NodeTypeOK
<1>3. peers' \in [DOMAIN peers' -> Entry]
    BY <1>1, <1>2
<1>4. NodeTypeOK'
    BY <1>2, <1>3 DEF ListInv, NodeTypeOK
<1>5. \A p \in DOMAIN peers' : peers'[p] = heard'[p]
    BY <1>1, <1>2 DEF ListInv
<1>6. \A p \in Peers : ~Stale(heard'[p]) => p \in DOMAIN peers'
    BY <1>1 DEF ListInv
<1>7. ForgottenInTime'
    BY <1>1, <1>5 DEF ForgottenInTime, Stale
<1>8. \A p \in Peers : ~Stale(heard[p])' => (p \in DOMAIN peers)'
    BY <1>6 DEF Stale
<1> QED BY <1>4, <1>5, <1>7, <1>8 DEF ListInv

(* At first nobody is registered, and nobody was heard of.                 *)
LEMMA ListInitInv == ASSUME NodeInit PROVE ListInv
<1>1. DOMAIN peers = {} /\ peers \in [{} -> Entry]
    BY DEF NodeInit
<1>2. (CHOOSE a \in Addresses : TRUE) \in Addresses
    BY BootstrapAssumption
<1>3. heard \in [Peers -> Entry] /\ \A p \in Peers : heard[p].age = TTL + 1
    BY <1>2, BootstrapAssumption DEF NodeInit, Entry, Never
<1>4. peers \in [DOMAIN peers -> Entry] /\ DOMAIN peers \subseteq Peers
    BY <1>1
<1>5. NodeTypeOK
    BY <1>3, <1>4 DEF NodeInit, NodeTypeOK
<1>6. \A p \in Peers : Stale(heard[p])
    BY <1>3, BootstrapAssumption DEF Stale
<1> QED BY <1>1, <1>5, <1>6 DEF ListInv, ForgottenInTime

(* A registration puts the new entry in place and touches no other.        *)
LEMMA RegisterKeeps ==
    ASSUME ListInv, NEW c \in Clients, Register(c), UNCHANGED evictDue
    PROVE  ListInv'
<1>1. request[c] \in NodeRequests /\ request[c].type = "register"
    <2>1. Nothing.type = "nothing"
        BY DEF Nothing
    <2>2. request[c].type = "register" /\ request[c] \in NodeRequests \cup {Nothing}
        BY DEF Register, ListInv, NodeTypeOK
    <2>3. request[c] # Nothing
        BY <2>1, <2>2
    <2> QED BY <2>2, <2>3
<1>2. PICK p \in Peers, a \in Addresses :
        p = request[c].peer /\ a = request[c].address
    BY <1>1 DEF NodeRequests
<1> DEFINE e == [address |-> a, age |-> 0]
<1>3. e \in Entry /\ ~Stale(e)
    BY BootstrapAssumption DEF Entry, Never, Stale
<1>4. /\ peers' = [q \in DOMAIN peers \cup {p} |-> IF q = p THEN e ELSE peers[q]]
      /\ heard' = [heard EXCEPT ![p] = e]
      /\ request' = [request EXCEPT ![c] = Nothing] /\ server' = server
    BY <1>2 DEF Register, WithPeer, Answer
<1> HIDE DEF e
<1>5. /\ DOMAIN peers' = DOMAIN peers \cup {p}
      /\ peers'[p] = e /\ heard'[p] = e
      /\ \A q \in DOMAIN peers' : q # p => q \in DOMAIN peers /\ peers'[q] = peers[q]
      /\ \A q \in Peers : q # p => heard'[q] = heard[q]
    BY <1>4 DEF ListInv, NodeTypeOK
<1>6. /\ DOMAIN peers' \subseteq Peers
      /\ peers' \in [DOMAIN peers' -> Entry]
      /\ heard' \in [Peers -> Entry]
    BY <1>3, <1>4, <1>5 DEF ListInv, NodeTypeOK
<1>7. NodeTypeOK'
    BY <1>4, <1>6 DEF ListInv, NodeTypeOK
<1>8. \A q \in DOMAIN peers' : peers'[q] = heard'[q]
    BY <1>5, <1>6 DEF ListInv
<1>9. \A q \in Peers : ~Stale(heard'[q]) => q \in DOMAIN peers'
    BY <1>5 DEF ListInv
<1>10. \A q \in DOMAIN peers' : heard'[q].age > TTL => evictDue'
    BY <1>3, <1>5, <1>6 DEF ListInv, ForgottenInTime, Stale
<1>11. (\A q \in Peers : ~Stale(heard[q]) => q \in DOMAIN peers)'
    BY <1>9 DEF Stale
<1>12. ForgottenInTime'
    BY <1>10 DEF ForgottenInTime
<1> QED BY <1>7, <1>8, <1>11, <1>12 DEF ListInv

(* Time makes entries and registrations older together.                    *)
LEMMA TickKeeps ==
    ASSUME ListInv, Tick
    PROVE  ListInv'
<1>1. \A e \in Entry :
        Older(e) \in Entry /\ (Stale(e) => Stale(Older(e)))
    BY BootstrapAssumption DEF Older, Entry, Never, Stale
<1>2. /\ DOMAIN peers' = DOMAIN peers /\ DOMAIN peers \subseteq Peers
      /\ \A p \in DOMAIN peers : peers'[p] = Older(peers[p]) /\ peers[p] \in Entry
      /\ \A p \in Peers : heard'[p] = Older(heard[p]) /\ heard[p] \in Entry
    BY DEF Tick, ListInv, NodeTypeOK
<1>3. NodeTypeOK'
    BY <1>1, <1>2 DEF Tick, ListInv, NodeTypeOK
<1>4. \A p \in DOMAIN peers' : peers'[p] = heard'[p]
    BY <1>2 DEF ListInv
<1>5. (\A p \in Peers : ~Stale(heard[p]) => p \in DOMAIN peers)'
    BY <1>1, <1>2 DEF ListInv, Stale
<1> QED BY <1>3, <1>4, <1>5 DEF ListInv, ForgottenInTime, Tick

(* Every step keeps the invariant.                                         *)
LEMMA ListNextInv ==
    ASSUME ListInv, [NodeNext]_nvars
    PROVE  ListInv'
<1>1. CASE Evict
    BY <1>1, FreshKeeps DEF Evict, ListInv, NodeTypeOK
<1>2. CASE Tick
    BY <1>2, TickKeeps
<1>3. ASSUME NEW c \in Clients, Serve(c) PROVE ListInv'
    <2>1. CASE Register(c)
        BY <1>3, <2>1, RegisterKeeps DEF Serve
    <2>2. CASE List(c)
        BY <1>3, <2>2, FreshKeeps
        DEF Serve, List, Answer, ListInv, NodeTypeOK
    <2>3. CASE PlainAnswer(c) \/ Garbled(c)
        BY <1>3, <2>3
        DEF Serve, PlainAnswer, Garbled, Answer, ListInv,
            NodeTypeOK, ForgottenInTime, Stale
    <2> QED BY <1>3, <2>1, <2>2, <2>3 DEF Serve
<1>4. CASE \/ Shutdown \/ UNCHANGED nvars
           \/ \E c \in Clients, r \in NodeRequests : Send(c, r)
    BY <1>4 DEF Shutdown, Send, nvars, ListInv, NodeTypeOK,
                ForgottenInTime, Stale
<1> QED BY <1>1, <1>2, <1>3, <1>4 DEF NodeNext

(* The invariant on which the two results rest.                            *)
THEOREM BootstrapInvariance == NodeSpec => []ListInv
<1>1. NodeInit => ListInv
    BY ListInitInv
<1>2. ListInv /\ [NodeNext]_nvars => ListInv'
    BY ListNextInv
<1> QED BY <1>1, <1>2, PTL DEF NodeSpec

(* ListIsExact: list_peers() answers with the peers of the last            *)
(* PEER_TTL_SECONDS and their last addresses, for any order of             *)
(* registrations, lists and evictions.                                     *)
THEOREM ListIsExactHolds == NodeSpec => []ListIsExact
<1>1. ASSUME ListInv PROVE ListIsExact
    <2>1. /\ DOMAIN Fresh(peers) = {p \in DOMAIN peers : ~Stale(peers[p])}
          /\ \A p \in DOMAIN Fresh(peers) : Fresh(peers)[p] = peers[p]
        BY FreshIs
    <2>2. \A p \in Peers : Stale(heard[p]) <=> ~(heard[p].age <= TTL)
        BY <1>1, BootstrapAssumption DEF ListInv, NodeTypeOK, Entry, Never, Stale
    <2>3. DOMAIN Fresh(peers) = {q \in Peers : heard[q].age <= TTL}
        BY <1>1, <2>1, <2>2 DEF ListInv, NodeTypeOK
    <2>4. \A p \in DOMAIN Fresh(peers) : Fresh(peers)[p].address = heard[p].address
        BY <1>1, <2>1 DEF ListInv
    <2> QED BY <2>3, <2>4 DEF ListIsExact, ListReply, Listed
<1> QED BY <1>1, BootstrapInvariance, PTL

(* The registry and the registrations have their types; ages are told apart *)
(* only up to Never.                                                       *)
THEOREM NodeTypeCorrect == NodeSpec => []NodeTypeOK
<1>1. ListInv => NodeTypeOK
    BY DEF ListInv
<1> QED BY <1>1, BootstrapInvariance, PTL

(* ForgottenInTime: the eviction thread needs no request to forget a peer. *)
THEOREM ForgottenInTimeHolds == NodeSpec => []ForgottenInTime
<1>1. ListInv => ForgottenInTime
    BY DEF ListInv
<1> QED BY <1>1, BootstrapInvariance, PTL

-----------------------------------------------------------------------------
(* The launchers                                                           *)

FilesInv ==
    /\ worker \in [Launches -> [Shards -> WorkerStates]]
    /\ launcher \in [Launches -> LauncherStates]
    /\ readyFiles \subseteq Shards
    /\ loaded \in [Launches -> SUBSET Shards]
    /\ \A l \in Launches : launcher[l] # "new" => readyFiles \subseteq loaded[l]
    /\ ReadyIsCurrent /\ FileMeansWorker

(* At first there are no files, no workers and no launches.                *)
LEMMA FilesInitInv == LaunchInit => FilesInv
BY DEF LaunchInit, FilesInv, ReadyIsCurrent, FileMeansWorker, WorkerStates,
       LauncherStates

(* One worker goes on; all others stay where they are.                     *)
LEMMA WorkerMoves ==
    ASSUME FilesInv, NEW l \in Launches, NEW i \in Shards, NEW to \in WorkerStates,
           worker' = [worker EXCEPT ![l][i] = to]
    PROVE  /\ worker' \in [Launches -> [Shards -> WorkerStates]]
           /\ worker'[l][i] = to
           /\ \A m \in Launches : \A j \in Shards :
                (m # l \/ j # i) => worker'[m][j] = worker[m][j]
BY DEF FilesInv

(* A worker that goes on keeps the invariant when its file was not behind  *)
(* it, or still is, or it dies without cleaning up.  Files may vanish.     *)
LEMMA WorkerKeeps ==
    ASSUME FilesInv, NEW l \in Launches, NEW i \in Shards, NEW to \in WorkerStates,
           worker' = [worker EXCEPT ![l][i] = to],
           UNCHANGED <<launcher, loaded>>,
           readyFiles' \subseteq readyFiles, orphaned \subseteq orphaned',
           \/ worker[l][i] \notin {"touched", "serving"}
           \/ to = "serving"
           \/ i \in orphaned'
    PROVE  FilesInv'
<1>1. /\ worker' \in [Launches -> [Shards -> WorkerStates]]
      /\ worker'[l][i] = to
      /\ \A m \in Launches : \A j \in Shards :
           (m # l \/ j # i) => worker'[m][j] = worker[m][j]
    BY WorkerMoves
<1>2. ASSUME NEW j \in readyFiles' \ orphaned'
      PROVE  \E m \in Launches : worker'[m][j] \in {"touched", "serving"}
    <2>1. j \in readyFiles \ orphaned /\ j \in Shards
        BY DEF FilesInv
    <2>2. PICK m \in Launches : worker[m][j] \in {"touched", "serving"}
        BY <2>1 DEF FilesInv, FileMeansWorker
    <2>3. CASE m = l /\ j = i
        BY <1>1, <1>2, <2>2, <2>3
    <2>4. CASE m # l \/ j # i
        BY <1>1, <2>1, <2>2, <2>4
    <2> QED BY <2>3, <2>4
<1> QED BY <1>1, <1>2 DEF FilesInv, ReadyIsCurrent, FileMeansWorker

(* A worker loads: from now on its file stands for it, and every launch    *)
(* that has begun has seen its shard loaded.                               *)
LEMMA LoadKeeps ==
    ASSUME FilesInv, NEW l \in Launches, NEW i \in Shards, Load(l, i)
    PROVE  FilesInv'
<1>1. /\ worker' = [worker EXCEPT ![l][i] = "touched"]
      /\ readyFiles' = readyFiles \cup {i} /\ orphaned' = orphaned \ {i}
      /\ loaded' = [m \in Launches |->
           IF launcher[m] = "new" THEN {} ELSE loaded[m] \cup {i}]
      /\ launcher' = launcher
    BY DEF Load
<1>2. /\ worker' \in [Launches -> [Shards -> WorkerStates]]
      /\ worker'[l][i] = "touched"
      /\ \A m \in Launches : \A j \in Shards :
           (m # l \/ j # i) => worker'[m][j] = worker[m][j]
    <2>1. "touched" \in WorkerStates
        BY DEF WorkerStates
    <2> QED BY <1>1, <2>1, WorkerMoves
<1>3. ASSUME NEW j \in readyFiles' \ orphaned'
      PROVE  \E m \in Launches : worker'[m][j] \in {"touched", "serving"}
    <2>1. CASE j = i
        BY <1>2, <2>1
    <2>2. CASE j # i
        <3>1. j \in readyFiles \ orphaned /\ j \in Shards
            BY <1>1, <2>2, <1>3 DEF FilesInv
        <3>2. PICK m \in Launches : worker[m][j] \in {"touched", "serving"}
            BY <3>1 DEF FilesInv, FileMeansWorker
        <3> QED BY <1>2, <2>2, <3>1, <3>2
    <2> QED BY <2>1, <2>2
<1>4. /\ loaded' \in [Launches -> SUBSET Shards]
      /\ \A m \in Launches : launcher[m] # "new" => loaded'[m] = loaded[m] \cup {i}
    BY <1>1 DEF FilesInv
<1>5. \A m \in Launches : launcher'[m] = "up" => loaded'[m] = Shards
    BY <1>1, <1>4 DEF FilesInv, ReadyIsCurrent
<1> QED BY <1>1, <1>2, <1>3, <1>4, <1>5 DEF FilesInv, ReadyIsCurrent, FileMeansWorker

(* A signal to the workers of a launch: those that serve remove their      *)
(* files, those about to serve die and leave theirs orphaned.              *)
LEMMA SignalledKeeps ==
    ASSUME FilesInv, NEW l \in Launches, NEW into \in {"stopping", "leaving"},
           NEW files, files \subseteq readyFiles, Signalled(l, into, files),
           NEW to \in LauncherStates \ {"new", "up"}, launcher[l] # "new",
           launcher' = [launcher EXCEPT ![l] = to], loaded' = loaded
    PROVE  FilesInv'
<1>1. /\ worker' = [worker EXCEPT ![l] = [i \in Shards |->
           CASE worker[l][i] \in {"loading", "touched"} -> "dead"
             [] worker[l][i] \in {"serving", "leaving"} -> into
             [] OTHER -> worker[l][i]]]
      /\ readyFiles' = files \
           {i \in Shards : worker[l][i] \in {"serving", "stopping", "leaving"}}
      /\ orphaned' = orphaned \cup {i \in Shards : worker[l][i] = "touched"}
    BY DEF Signalled
<1>2. /\ worker' \in [Launches -> [Shards -> WorkerStates]]
      /\ \A m \in Launches \ {l} : worker'[m] = worker[m]
    BY <1>1 DEF FilesInv, WorkerStates
<1>3. ASSUME NEW j \in readyFiles' \ orphaned'
      PROVE  \E m \in Launches : worker'[m][j] \in {"touched", "serving"}
    <2>1. j \in readyFiles \ orphaned /\ j \in Shards
        BY <1>1, <1>3 DEF FilesInv
    <2>2. PICK m \in Launches : worker[m][j] \in {"touched", "serving"}
        BY <2>1 DEF FilesInv, FileMeansWorker
    <2>3. m # l
        BY <1>1, <1>3, <2>1, <2>2
    <2> QED BY <1>2, <2>2, <2>3
<1>4. /\ launcher' \in [Launches -> LauncherStates]
      /\ launcher'[l] = to /\ \A m \in Launches \ {l} : launcher'[m] = launcher[m]
    BY DEF FilesInv
<1>5. readyFiles' \subseteq readyFiles
    BY <1>1
<1> QED BY <1>2, <1>3, <1>4, <1>5 DEF FilesInv, ReadyIsCurrent, FileMeansWorker

(* A launcher goes on, reports ready only when it sees all files, and may  *)
(* remove them.                                                            *)
LEMMA LauncherKeeps ==
    ASSUME FilesInv, NEW l \in Launches, NEW to \in LauncherStates \ {"new"},
           launcher[l] # "new", launcher' = [launcher EXCEPT ![l] = to],
           to = "up" => readyFiles = Shards,
           readyFiles' \in {readyFiles, {}}, UNCHANGED <<worker, loaded, orphaned>>
    PROVE  FilesInv'
<1>1. /\ launcher' \in [Launches -> LauncherStates]
      /\ launcher'[l] = to /\ \A m \in Launches \ {l} : launcher'[m] = launcher[m]
    BY DEF FilesInv
<1>2. to = "up" => loaded[l] = Shards
    BY DEF FilesInv
<1>3. \A m \in Launches : launcher'[m] = "up" => loaded'[m] = Shards
    BY <1>1, <1>2 DEF FilesInv, ReadyIsCurrent
<1>4. FileMeansWorker'
    BY DEF FilesInv, FileMeansWorker
<1> QED BY <1>1, <1>3, <1>4 DEF FilesInv, ReadyIsCurrent

(* A launch begins with no files.                                          *)
LEMMA StartKeeps ==
    ASSUME FilesInv, NEW l \in Launches, StartLaunch(l)
    PROVE  FilesInv'
<1>1. /\ launcher' = [launcher EXCEPT ![l] = "waiting"]
      /\ worker' = [worker EXCEPT ![l] = [i \in Shards |-> "loading"]]
      /\ readyFiles' = {} /\ loaded' = loaded
    BY DEF StartLaunch, Spawned
<1>2. launcher' \in [Launches -> LauncherStates]
      /\ worker' \in [Launches -> [Shards -> WorkerStates]]
    BY <1>1 DEF FilesInv, LauncherStates, WorkerStates
<1>3. \A m \in Launches : launcher'[m] = "up" => launcher[m] = "up"
    BY <1>1 DEF FilesInv
<1> QED BY <1>1, <1>2, <1>3 DEF FilesInv, ReadyIsCurrent, FileMeansWorker

(* stop_workers.py leaves no files.                                        *)
LEMMA StopKeeps == ASSUME FilesInv, StopWorkers PROVE FilesInv'
<1>1. worker' \in [Launches -> [Shards -> WorkerStates]]
    BY DEF FilesInv, StopWorkers, WorkerStates
<1> QED BY <1>1 DEF StopWorkers, FilesInv, ReadyIsCurrent, FileMeansWorker

(* Every step keeps the invariant.                                         *)
LEMMA FilesNextInv == ASSUME FilesInv, [LaunchNext]_lvars PROVE FilesInv'
<1>1. /\ {"failing", "interrupted", "closing", "ending"}
            \subseteq LauncherStates \ {"new", "up"}
      /\ {"waiting", "up", "ended", "closing", "failed", "interrupted"}
            \subseteq LauncherStates \ {"new"}
      /\ {"serving", "dead"} \subseteq WorkerStates
    BY DEF LauncherStates, WorkerStates
<1>2. ASSUME NEW l \in Launches,
             NoticeCrash(l) \/ TimeOut(l) \/ Interrupt(l) \/ TerminateAll(l)
      PROVE  FilesInv'
    <2>1. CASE NoticeCrash(l)
        BY <1>1, <2>1, SignalledKeeps DEF NoticeCrash
    <2>2. CASE TimeOut(l)
        BY <1>1, <2>2, SignalledKeeps DEF TimeOut
    <2>3. CASE Interrupt(l)
        BY <1>1, <2>3, SignalledKeeps DEF Interrupt
    <2>4. CASE TerminateAll(l)
        <3> DEFINE files == IF kind[l] = "all" THEN {} ELSE readyFiles
        <3>1. files \subseteq readyFiles /\ Signalled(l, "stopping", files)
            BY <2>4 DEF TerminateAll
        <3>2. /\ launcher[l] # "new" /\ launcher' = [launcher EXCEPT ![l] = "ending"]
              /\ loaded' = loaded
            BY <2>4 DEF TerminateAll
        <3> HIDE DEF files
        <3> QED BY <1>1, <3>1, <3>2, SignalledKeeps
    <2> QED BY <1>2, <2>1, <2>2, <2>3, <2>4
<1>3. ASSUME NEW l \in Launches, ReportReady(l) \/ Ended(l) \/ Finish(l)
      PROVE  FilesInv'
    <2>1. CASE ReportReady(l)
        BY <1>1, <2>1, LauncherKeeps DEF ReportReady, AllReady
    <2>2. CASE Ended(l)
        BY <1>1, <2>2, LauncherKeeps DEF Ended
    <2>3. CASE Finish(l)
        BY <1>1, <2>3, LauncherKeeps DEF Finish
    <2> QED BY <1>3, <2>1, <2>2, <2>3
<1>4. ASSUME NEW l \in Launches, NEW i \in Shards,
             \/ EnterLoop(l, i) \/ LoadingFails(l, i) \/ KillWorker(l, i)
             \/ Exit(l, i) \/ KillLeftover(l, i)
      PROVE  FilesInv'
    <2>1. CASE EnterLoop(l, i)
        BY <1>1, <2>1, WorkerKeeps DEF EnterLoop
    <2>2. CASE LoadingFails(l, i)
        BY <1>1, <2>2, WorkerKeeps DEF LoadingFails
    <2>3. CASE KillWorker(l, i)
        BY <1>1, <2>3, WorkerKeeps DEF KillWorker
    <2>4. CASE Exit(l, i)
        BY <1>1, <2>4, WorkerKeeps DEF Exit
    <2>5. CASE KillLeftover(l, i)
        BY <1>1, <2>5, WorkerKeeps DEF KillLeftover
    <2> QED BY <1>4, <2>1, <2>2, <2>3, <2>4, <2>5
<1>5. CASE UNCHANGED lvars
    BY <1>5 DEF lvars, FilesInv, ReadyIsCurrent, FileMeansWorker
<1> QED BY <1>2, <1>3, <1>4, <1>5, StartKeeps, LoadKeeps, StopKeeps DEF LaunchNext

(* The invariant on which the two results rest.                            *)
THEOREM FilesInvariance == LaunchSpec => []FilesInv
BY FilesInitInv, FilesNextInv, PTL DEF LaunchSpec

(* ReadyIsCurrent: "All workers ready" is about workers that loaded since  *)
(* the launch began, for any number of launches, shards, stops and faults. *)
THEOREM ReadyIsCurrentHolds == LaunchSpec => []ReadyIsCurrent
<1>1. FilesInv => ReadyIsCurrent
    BY DEF FilesInv
<1> QED BY <1>1, FilesInvariance, PTL

(* FileMeansWorker: only a worker that died without cleaning up leaves a   *)
(* ready file behind, however launches, interrupts and stops overlap.      *)
THEOREM FileMeansWorkerHolds == LaunchSpec => []FileMeansWorker
<1>1. FilesInv => FileMeansWorker
    BY DEF FilesInv
<1> QED BY <1>1, FilesInvariance, PTL

(* The PID file holds the PIDs of one launch or none.                      *)
LEMMA PidsFit ==
    ASSUME NEW l \in Launches
    PROVE  /\ {l} \subseteq Launches /\ Cardinality({l}) <= 1
           /\ {} \subseteq Launches /\ Cardinality({}) <= 1
BY FS_Singleton, FS_EmptySet

(* A signal keeps the types of what it changes.                            *)
LEMMA SignalledTypes ==
    ASSUME LaunchTypeOK, NEW l \in Launches, NEW into \in {"stopping", "leaving"},
           NEW files, files \subseteq readyFiles, Signalled(l, into, files)
    PROVE  /\ worker' \in [Launches -> [Shards -> WorkerStates]]
           /\ readyFiles' \subseteq Shards /\ orphaned' \subseteq Shards
<1>1. worker' \in [Launches -> [Shards -> WorkerStates]]
    BY DEF Signalled, LaunchTypeOK, WorkerStates
<1> QED BY <1>1 DEF Signalled, LaunchTypeOK

(* Every step keeps all types.                                             *)
LEMMA LaunchTypesNext == ASSUME LaunchTypeOK, [LaunchNext]_lvars PROVE LaunchTypeOK'
<1>1. /\ {"waiting", "up", "failing", "closing", "ending", "failed", "interrupted", "ended"}
            \subseteq LauncherStates
      /\ {"loading", "touched", "serving", "dead"} \subseteq WorkerStates
    BY DEF LauncherStates, WorkerStates
<1>2. Fault => faults' \in 0 .. MaxFaults
    BY LaunchAssumption DEF Fault, LaunchTypeOK
<1>3. ASSUME NEW l \in Launches, StartLaunch(l) PROVE LaunchTypeOK'
    <2>1. PICK k \in KindsOf[l] : Spawned(l, k)
        BY <1>3 DEF StartLaunch
    <2>2. k \in Kinds
        BY LaunchAssumption
    <2>3. /\ kind' \in [Launches -> Kinds] /\ launcher' \in [Launches -> LauncherStates]
          /\ worker' \in [Launches -> [Shards -> WorkerStates]]
          /\ alone' \subseteq Launches
        BY <1>1, <2>1, <2>2 DEF Spawned, LaunchTypeOK
    <2>4. pidFile' \subseteq Launches /\ Cardinality(pidFile') <= 1
        BY <2>1, PidsFit DEF Spawned, LaunchTypeOK
    <2> QED BY <1>3, <2>3, <2>4 DEF StartLaunch, LaunchTypeOK
<1>4. ASSUME NEW l \in Launches,
             NoticeCrash(l) \/ TimeOut(l) \/ Interrupt(l) \/ TerminateAll(l)
      PROVE  LaunchTypeOK'
    <2>1. /\ worker' \in [Launches -> [Shards -> WorkerStates]]
          /\ readyFiles' \subseteq Shards /\ orphaned' \subseteq Shards
        <3>1. CASE NoticeCrash(l) \/ TimeOut(l) \/ Interrupt(l)
            BY <3>1, SignalledTypes DEF NoticeCrash, TimeOut, Interrupt
        <3>2. CASE TerminateAll(l)
            <4> DEFINE files == IF kind[l] = "all" THEN {} ELSE readyFiles
            <4>1. files \subseteq readyFiles /\ Signalled(l, "stopping", files)
                BY <3>2 DEF TerminateAll
            <4> HIDE DEF files
            <4> QED BY <4>1, SignalledTypes
        <3> QED BY <1>4, <3>1, <3>2
    <2>2. /\ launcher' \in [Launches -> LauncherStates]
          /\ faults' \in 0 .. MaxFaults /\ alone' \subseteq Launches
          /\ UNCHANGED <<kind, pidFile, stops, loaded>>
        BY <1>1, <1>2, <1>4
        DEF NoticeCrash, TimeOut, Interrupt, TerminateAll, LaunchTypeOK
    <2> QED BY <2>1, <2>2 DEF LaunchTypeOK
<1>5. ASSUME NEW l \in Launches, ReportReady(l) \/ Ended(l) \/ Finish(l)
      PROVE  LaunchTypeOK'
    <2>1. /\ launcher' \in [Launches -> LauncherStates]
          /\ readyFiles' \in {readyFiles, {}} /\ pidFile' \in {pidFile, {}}
          /\ alone' \in {alone, {}}
          /\ UNCHANGED <<kind, worker, stops, faults, loaded, orphaned>>
        BY <1>1, <1>5 DEF ReportReady, Ended, Finish, LaunchTypeOK
    <2> QED BY <2>1, PidsFit DEF LaunchTypeOK
<1>6. ASSUME NEW l \in Launches, NEW i \in Shards, Load(l, i) PROVE LaunchTypeOK'
    <2>1. loaded' \in [Launches -> SUBSET Shards]
        BY <1>6 DEF Load, LaunchTypeOK
    <2> QED BY <1>1, <1>6, <2>1 DEF Load, LaunchTypeOK
<1>7. ASSUME NEW l \in Launches, NEW i \in Shards,
             \/ EnterLoop(l, i) \/ LoadingFails(l, i) \/ KillWorker(l, i)
             \/ Exit(l, i) \/ KillLeftover(l, i)
      PROVE  LaunchTypeOK'
    <2>1. worker' \in [Launches -> [Shards -> WorkerStates]]
        <3>1. PICK to \in WorkerStates : worker' = [worker EXCEPT ![l][i] = to]
            BY <1>1, <1>7 DEF EnterLoop, LoadingFails, KillWorker, Exit, KillLeftover
        <3> QED BY <3>1 DEF LaunchTypeOK
    <2>2. faults' \in 0 .. MaxFaults
        BY <1>2, <1>7
        DEF EnterLoop, LoadingFails, KillWorker, Exit, KillLeftover, LaunchTypeOK
    <2>3. /\ readyFiles' \subseteq Shards /\ orphaned' \subseteq Shards
          /\ UNCHANGED <<kind, alone, launcher, pidFile, stops, loaded>>
        BY <1>7
        DEF EnterLoop, LoadingFails, KillWorker, Exit, KillLeftover, LaunchTypeOK
    <2> QED BY <2>1, <2>2, <2>3 DEF LaunchTypeOK
<1>8. CASE StopWorkers
    <2>1. worker' \in [Launches -> [Shards -> WorkerStates]]
        BY <1>8 DEF StopWorkers, LaunchTypeOK, WorkerStates
    <2>2. stops' \in 0 .. MaxStops
        BY <1>8, LaunchAssumption DEF StopWorkers, LaunchTypeOK
    <2> QED BY <1>8, <2>1, <2>2, FS_EmptySet DEF StopWorkers, LaunchTypeOK
<1>9. CASE UNCHANGED lvars
    BY <1>9 DEF lvars, LaunchTypeOK
<1> QED BY <1>3, <1>4, <1>5, <1>6, <1>7, <1>8, <1>9 DEF LaunchNext

(* Launchers, workers and files have their types, and the PID file names   *)
(* the workers of at most one launch, however many overlap.                *)
THEOREM LaunchTypeCorrect == LaunchSpec => []LaunchTypeOK
<1>1. LaunchInit => LaunchTypeOK
    BY FS_EmptySet, LaunchAssumption
    DEF LaunchInit, LaunchTypeOK, Kinds, LauncherStates, WorkerStates
<1> QED BY <1>1, LaunchTypesNext, PTL DEF LaunchSpec
==============================================================================
