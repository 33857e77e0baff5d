------------------------------ MODULE Bootstrap ------------------------------
(***************************************************************************)
(* network/bootstrap.py: the peer registry, its eviction thread and the    *)
(* loop that answers one request after the other on a REP socket.  Its     *)
(* clients are REQ sockets, which wait for each answer; no code of the     *)
(* repository calls the node.  Time is counted in eviction intervals.      *)
(***************************************************************************)
EXTENDS Integers, Functions

CONSTANTS
    Peers, Addresses,   \* peer_id; host with port
    Clients,            \* REQ sockets
    TTL                 \* PEER_TTL_SECONDS / EVICT_INTERVAL_SECONDS

ASSUME BootstrapAssumption == TTL \in Nat /\ Addresses # {}

Nothing == [type |-> "nothing"]

(* "incomplete": a field is missing or the type is unknown.  "garbled":    *)
(* the bytes are not JSON.                                                 *)
NodeRequests ==
    [type : {"register"}, peer : Peers, address : Addresses]
        \cup [type : {"list", "ping", "incomplete", "garbled"}]

VARIABLES
    peers,      \* _peers: peer |-> address and age of last_seen
    server,     \* "recv", "owes" (a reply) or "stopped"
    evictDue,   \* the eviction thread has not yet run in this interval
    request,    \* request[c]: what client c waits for the answer to
    heard       \* history: the last registration of every peer

nvars == <<peers, server, evictDue, request, heard>>

Never == TTL + 1            \* ages are told apart up to here

Entry == [address : Addresses, age : 0 .. Never]

NodeTypeOK ==
    /\ DOMAIN peers \subseteq Peers /\ peers \in [DOMAIN peers -> Entry]
    /\ server \in {"recv", "owes", "stopped"}
    /\ evictDue \in BOOLEAN
    /\ request \in [Clients -> NodeRequests \cup {Nothing}]
    /\ heard \in [Peers -> Entry]

NodeInit ==
    /\ peers = [p \in {} |-> Nothing]
    /\ server = "recv" /\ evictDue = FALSE
    /\ request = [c \in Clients |-> Nothing]
    /\ heard = [p \in Peers |-> [address |-> CHOOSE a \in Addresses : TRUE,
                                 age |-> Never]]

-----------------------------------------------------------------------------
(* PeerRegistry                                                            *)

Stale(e) == e.age > TTL

(* _evict()                                                                *)
Fresh(reg) == Restrict(reg, {p \in DOMAIN reg : ~Stale(reg[p])})

(* (mutant: an entry that exists keeps its last_seen)                      *)
WithPeerOnce(reg, p, a) ==
    [q \in DOMAIN reg \cup {p} |->
       IF q # p THEN reg[q]
       ELSE [address |-> a, age |-> IF p \in DOMAIN reg THEN reg[p].age ELSE 0]]

(* register()                                                              *)
WithPeer(reg, p, a) ==
    [q \in DOMAIN reg \cup {p} |->
       IF q = p THEN [address |-> a, age |-> 0] ELSE reg[q]]

Listed(reg) == {<<p, reg[p].address>> : p \in DOMAIN reg}

(* (mutant: only list() evicts)                                            *)
EvictNothing ==
    /\ evictDue /\ server # "stopped"
    /\ evictDue' = FALSE
    /\ UNCHANGED <<peers, server, request, heard>>

(* The eviction thread, once in every interval.                            *)
Evict ==
    /\ evictDue /\ server # "stopped"
    /\ evictDue' = FALSE
    /\ peers' = Fresh(peers)
    /\ UNCHANGED <<server, request, heard>>

Older(e) == [e EXCEPT !.age = IF @ = Never THEN @ ELSE @ + 1]

Tick ==
    /\ ~evictDue /\ server # "stopped"
    /\ evictDue' = TRUE
    /\ peers' = [p \in DOMAIN peers |-> Older(peers[p])]
    /\ heard' = [p \in Peers |-> Older(heard[p])]
    /\ UNCHANGED <<server, request>>

-----------------------------------------------------------------------------
(* The REP loop                                                            *)

Send(c, r) ==
    /\ request[c] = Nothing
    /\ request' = [request EXCEPT ![c] = r]
    /\ UNCHANGED <<peers, server, evictDue, heard>>

(* The reply goes out: what it says is in the comments below.              *)
Answer(c) == request' = [request EXCEPT ![c] = Nothing]

Register(c) ==
    /\ request[c].type = "register"
    /\ LET p == request[c].peer
           a == request[c].address
       IN  /\ peers' = WithPeer(peers, p, a)
           /\ heard' = [heard EXCEPT ![p] = [address |-> a, age |-> 0]]
    /\ Answer(c)
    /\ UNCHANGED server

(* list_peers() evicts under its lock and then lists.                      *)
ListReply == Listed(Fresh(peers))

(* The reply is ListReply.                                                 *)
List(c) ==
    /\ request[c].type = "list"
    /\ peers' = Fresh(peers)
    /\ Answer(c)
    /\ UNCHANGED <<server, heard>>

(* (mutant: an exception of _handle ends the turn without a reply)         *)
PlainAnswerMute(c) ==
    /\ \/ request[c].type = "ping" /\ Answer(c) /\ UNCHANGED server
       \/ request[c].type = "incomplete" /\ server' = "owes" /\ UNCHANGED request
    /\ UNCHANGED <<peers, heard>>

(* A ping, an unknown type, and a missing field: that raises in _handle,   *)
(* and the exception becomes the reply.                                    *)
PlainAnswer(c) ==
    /\ request[c].type \in {"ping", "incomplete"}
    /\ Answer(c)
    /\ UNCHANGED <<server, peers, heard>>

(* recv_json takes the message and raises: the loop goes on without having *)
(* replied, and from then on every recv raises at once, because a REP      *)
(* socket that owes a reply does not receive.                              *)
Garbled(c) ==
    /\ request[c].type = "garbled"
    /\ server' = "owes"
    /\ UNCHANGED <<peers, request, heard>>

Serve(c) ==
    /\ server = "recv"
    /\ Register(c) \/ List(c) \/ PlainAnswer(c) \/ Garbled(c)
    /\ UNCHANGED evictDue

(* SIGTERM or Ctrl-C.                                                      *)
Shutdown ==
    /\ server # "stopped"
    /\ server' = "stopped"
    /\ UNCHANGED <<peers, evictDue, request, heard>>

-----------------------------------------------------------------------------
NodeNext ==
    \/ Evict \/ Tick \/ Shutdown
    \/ \E c \in Clients : Serve(c) \/ \E r \in NodeRequests : Send(c, r)

NodeSpec == NodeInit /\ [][NodeNext]_nvars

(* The two threads run and time passes; nobody has to send anything.       *)
NodeFairness ==
    WF_nvars(Evict) /\ WF_nvars(Tick) /\ \A c \in Clients : WF_nvars(Serve(c))

NodeFairSpec == NodeSpec /\ NodeFairness

-----------------------------------------------------------------------------
(* Properties                                                              *)

(* A list has at any time exactly the peers that registered within         *)
(* PEER_TTL_SECONDS, each under its last address, whatever the eviction    *)
(* thread and earlier lists removed.                                       *)
ListIsExact ==
    ListReply = {<<p, heard[p].address>> : p \in {q \in Peers : heard[q].age <= TTL}}

(* No peer stays in the registry for more than one interval past its time, *)
(* not even when the REP loop does nothing any more.                       *)
ForgottenInTime ==
    \A p \in DOMAIN peers : heard[p].age > TTL => evictDue

(* Every request is answered, incomplete and unknown ones too, unless a    *)
(* request that is not JSON is among them or the node is shut down: one    *)
(* such request of one client silences the node for all.                   *)
AnsweredUnlessGarbled ==
    \A c \in Clients :
        (request[c] # Nothing) ~>
            \/ request[c] = Nothing
            \/ server = "stopped"
            \/ \E d \in Clients : request[d].type = "garbled"
=============================================================================
