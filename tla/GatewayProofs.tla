----------------------------- MODULE GatewayProofs -----------------------------
(***************************************************************************)
(* What a reply of the gateway can be relied on for, whatever heartbeats,  *)
(* pings and evictions come between the reads of _client_loop, for any     *)
(* workers, requests and latencies.  The inductive invariant follows an    *)
(* entry from the registry into the loops of _client_loop: what it may     *)
(* turn into while it is held (ClientShape), who saw it healthy (HeldSeen),*)
(* where a worker that stays healthy has to be (SteadyHeld), and that      *)
(* nothing but update_latency can change what is compared (HeldFastest).   *)
(***************************************************************************)
EXTENDS Gateway, TLAPS

Asked(w) == Wanted(w) /\ Width[w] = request.num_shards

(* Where the client loop is decides which of its variables hold something; *)
(* an entry it holds is in the registry or was kept when it was evicted;   *)
(* a slot has at most one worker, one of its shard already looked at.      *)
ClientShape ==
    /\ phase \in {"idle", "mute"} <=> request = NoRequest
    /\ phase \in {"idle", "mute", "list"} =>
         /\ todo = {} /\ kept = {}
         /\ \A w \in Workers : evicted[w] = Absent
    /\ phase # "choose" => \A i \in SlotIdx : slots[i] = {}
    /\ phase = "choose" =>
         /\ todo \subseteq kept
         /\ \A w \in kept : Width[w] = request.num_shards
    /\ \A i \in SlotIdx : \A w \in slots[i] :
         w \in kept \ todo /\ ShardIdx[w] = i /\ slots[i] = {w}
    /\ \A w \in todo \cup kept : Entry(w) # Absent

(* Every entry that is healthy while a request is served was seen healthy. *)
HeldSeen ==
    phase \in {"list", "filter", "choose"} =>
        /\ \A w \in Workers : node[w].healthy => w \in seen
        /\ \A w \in Workers : evicted[w].healthy => w \in seen
        /\ kept \subseteq seen

(* A worker that stays healthy is not evicted, and the loops keep it if    *)
(* the request asks for it; a kept worker fills its slot.                  *)
SteadyHeld ==
    /\ \A w \in steady : node[w].healthy /\ evicted[w] = Absent
    /\ phase \in {"filter", "choose"} =>
         \A w \in steady : Asked(w) => w \in todo \cup kept
    /\ phase = "choose" => \A w \in kept \ todo : slots[ShardIdx[w]] # {}

(* What the comparisons saw is still so, unless a latency was updated.     *)
HeldFastest ==
    phase = "choose" /\ ~moved =>
        \A w \in kept \ todo : \A v \in slots[ShardIdx[w]] :
            Entry(v).latency <= Entry(w).latency

GatewayInv == TypeOK /\ ClientShape /\ HeldSeen /\ SteadyHeld /\ HeldFastest

-----------------------------------------------------------------------------
(* What the entries are.                                                   *)
LEMMA Values ==
    ASSUME TypeOK
    PROVE  /\ Absent \notin WorkerInfo /\ ~Absent.healthy
           /\ NoRequest \notin Requests
           /\ \A w \in Workers :
                /\ node[w] \in WorkerInfo \cup {Absent}
                /\ evicted[w] \in WorkerInfo \cup {Absent}
                /\ Entry(w) \in WorkerInfo \cup {Absent}
           /\ \A e \in WorkerInfo \cup {Absent} : e.latency \in Int
<1>1. -1 \notin Latencies \cup {UNMEASURED} /\ Latencies \cup {UNMEASURED} \subseteq Int
    BY GatewayAssumption DEF UNMEASURED
<1>2. Absent.latency = -1 /\ Absent.healthy = FALSE
    BY DEF Absent
<1>3. \A e \in WorkerInfo : e.latency \in Latencies \cup {UNMEASURED}
    BY DEF WorkerInfo
<1>4. \A w \in Workers : node[w] \in WorkerInfo \cup {Absent}
                         /\ evicted[w] \in WorkerInfo \cup {Absent}
    BY DEF TypeOK
<1>5. NoRequest \notin Requests
    <2>1. NoRequest.num_shards = 0
        BY DEF NoRequest
    <2> QED BY <2>1, GatewayAssumption
<1>6. Absent \notin WorkerInfo
    BY <1>1, <1>2, <1>3
<1>7. \A w \in Workers : Entry(w) \in WorkerInfo \cup {Absent}
    BY <1>4 DEF Entry
<1>8. \A e \in WorkerInfo \cup {Absent} : e.latency \in Int
    BY <1>1, <1>2, <1>3
<1> QED BY <1>2, <1>4, <1>5, <1>6, <1>7, <1>8

(* The slot a worker that passed the filters is looked up in.              *)
LEMMA SlotOf ==
    ASSUME TypeOK, ClientShape, phase = "choose", NEW w \in kept
    PROVE  w \in Workers /\ ShardIdx[w] \in SlotIdx
<1>1. w \in Workers /\ ShardIdx[w] \in Nat /\ ShardIdx[w] < Width[w]
      /\ Width[w] \in Nat /\ MaxWidth \in Nat
    BY GatewayAssumption DEF TypeOK
<1>2. request \in Requests /\ Width[w] = request.num_shards
    BY DEF TypeOK, ClientShape
<1>3. Width[w] <= MaxWidth
    BY <1>1, <1>2, GatewayAssumption
<1> QED BY <1>1, <1>3 DEF SlotIdx

(* A step of another thread keeps the invariant if an entry turns healthy  *)
(* only for a worker that is seen, is kept when it is evicted while held,  *)
(* and changes its latency only if that is noted.                          *)
LEMMA RegistryKeeps ==
    ASSUME GatewayInv, TypeOK', UNCHANGED clientVars,
           seen \subseteq seen', steady' \subseteq steady,
           phase = "choose" /\ ~moved' => ~moved,
           \A w \in Workers :
             /\ phase \in {"list", "filter", "choose"} /\ node'[w].healthy =>
                  node[w].healthy \/ w \in seen'
             /\ \/ evicted'[w] = evicted[w]
                \/ evicted'[w] = node[w] /\ w \in todo \cup kept
             /\ w \in steady' => node'[w].healthy /\ evicted'[w] = Absent
             /\ w \in todo \cup kept =>
                  /\ Entry(w)' # Absent
                  /\ ~moved' => Entry(w)'.latency = Entry(w).latency
    PROVE  GatewayInv'
<1> USE DEF GatewayInv, clientVars
<1>1. ClientShape'
    <2>1. todo \cup kept \subseteq Workers
        BY DEF TypeOK
    <2> QED BY <2>1 DEF ClientShape
<1>2. HeldSeen'
    BY DEF HeldSeen
<1>3. SteadyHeld'
    BY DEF SteadyHeld, Asked, Wanted, TypeOK
<1>4. HeldFastest'
    <2> SUFFICES ASSUME phase = "choose", ~moved', NEW w \in kept \ todo,
                        NEW v \in slots[ShardIdx[w]]
                 PROVE  Entry(v)'.latency <= Entry(w)'.latency
        BY DEF HeldFastest
    <2>1. w \in Workers /\ ShardIdx[w] \in SlotIdx
        BY SlotOf
    <2>2. v \in kept \ todo
        BY <2>1 DEF ClientShape
    <2>3. v \in Workers
        BY <2>2 DEF TypeOK
    <2>4. Entry(v).latency <= Entry(w).latency
        BY DEF HeldFastest
    <2>5. Entry(v)'.latency = Entry(v).latency
        BY <2>2, <2>3
    <2>6. Entry(w)'.latency = Entry(w).latency
        BY <2>1
    <2> QED BY <2>4, <2>5, <2>6
<1> QED BY <1>1, <1>2, <1>3, <1>4

(* Eviction: what is gone from the registry is still what a holder reads.  *)
LEMMA EvictEffect ==
    ASSUME GatewayInv, EvictStale
    PROVE  /\ node' \in [Workers -> WorkerInfo \cup {Absent}]
           /\ evicted' \in [Workers -> WorkerInfo \cup {Absent}]
           /\ \A w \in Workers :
                /\ node'[w] = IF w \in Stale THEN Absent ELSE node[w]
                /\ \/ evicted'[w] = evicted[w]
                   \/ evicted'[w] = node[w] /\ w \in todo \cup kept /\ w \in Stale
                /\ w \in todo \cup kept => Entry(w)' = Entry(w)
<1>1. /\ node' \in [Workers -> WorkerInfo \cup {Absent}]
      /\ \A w \in Workers : node'[w] = IF w \in Stale THEN Absent ELSE node[w]
    BY DEF EvictStale, GatewayInv, TypeOK
<1>2. /\ evicted' \in [Workers -> WorkerInfo \cup {Absent}]
      /\ \A w \in Workers : evicted'[w] =
           IF w \in Stale \cap (todo \cup kept) /\ evicted[w] = Absent
           THEN node[w] ELSE evicted[w]
    BY DEF EvictStale, GatewayInv, TypeOK
<1>3. \A w \in Stale : node[w] # Absent
    BY DEF Stale, Registered
<1>4. ASSUME NEW w \in Workers, w \in todo \cup kept PROVE Entry(w)' = Entry(w)
    BY <1>1, <1>2, <1>3, <1>4 DEF Entry
<1> QED BY <1>1, <1>2, <1>4

(* Snapshot and CheckEvicts: eviction by a thread that is not _client_loop.*)
LEMMA EvictKeeps ==
    ASSUME GatewayInv, EvictStale, steady' = steady \ Stale,
           UNCHANGED <<process, faults, unchecked, ping, misses, answered, clientVars, seen,
                       moved>>,
           checking' \in {"wait", "list", "ping"}
    PROVE  GatewayInv'
<1>1. TypeOK'
    BY EvictEffect DEF GatewayInv, TypeOK, clientVars
<1>2. \A w \in Workers :
        /\ node'[w].healthy => node[w].healthy
        /\ \/ evicted'[w] = evicted[w]
           \/ evicted'[w] = node[w] /\ w \in todo \cup kept
        /\ w \in steady' => node'[w].healthy /\ evicted'[w] = Absent
        /\ w \in todo \cup kept =>
             Entry(w)' # Absent /\ Entry(w)'.latency = Entry(w).latency
    <2> SUFFICES ASSUME NEW w \in Workers
                 PROVE  /\ node'[w].healthy => node[w].healthy
                        /\ \/ evicted'[w] = evicted[w]
                           \/ evicted'[w] = node[w] /\ w \in todo \cup kept
                        /\ w \in steady' => node'[w].healthy /\ evicted'[w] = Absent
                        /\ w \in todo \cup kept =>
                             Entry(w)' # Absent /\ Entry(w)'.latency = Entry(w).latency
        OBVIOUS
    <2>1. node'[w] = IF w \in Stale THEN Absent ELSE node[w]
        BY EvictEffect
    <2>2. node'[w].healthy => node[w].healthy
        BY <2>1, Values DEF GatewayInv
    <2>3. w \in steady' => node'[w].healthy /\ evicted'[w] = Absent
        BY <2>1, EvictEffect DEF GatewayInv, SteadyHeld
    <2> QED BY <2>2, <2>3, EvictEffect DEF GatewayInv, ClientShape
<1> QED BY <1>1, <1>2, RegistryKeeps DEF clientVars

(* The other threads that touch neither client loop nor entries.           *)
LEMMA QuietKeeps ==
    ASSUME GatewayInv, TypeOK', UNCHANGED <<clientVars, evicted, history, node>>
    PROVE  GatewayInv'
<1>1. \A w \in Workers : Entry(w)' = Entry(w)
    BY DEF Entry
<1> QED BY <1>1, RegistryKeeps DEF GatewayInv, ClientShape, SteadyHeld, history, clientVars

(* A heartbeat: a new entry for a worker whose entry is held elsewhere, or *)
(* the same one, with its latency.                                         *)
LEMMA HeartbeatKeeps ==
    ASSUME GatewayInv, NEW w \in Workers, Heartbeat(w)
    PROVE  GatewayInv'
<1> DEFINE e == [fresh |-> TRUE, healthy |-> TRUE,
                 latency |-> IF w \in Registered THEN node[w].latency ELSE UNMEASURED]
<1>1. node' = [node EXCEPT ![w] = e]
    BY DEF Heartbeat, Register
<1>2. e \in WorkerInfo
    <2>1. w \in Registered => node[w] \in WorkerInfo
        BY Values DEF GatewayInv, Registered
    <2> QED BY <2>1 DEF WorkerInfo
<1>3. e # Absent /\ e.healthy
    BY <1>2, Values DEF GatewayInv
<1> HIDE DEF e
<1>4. /\ node' \in [Workers -> WorkerInfo \cup {Absent}]
      /\ node'[w] = e
      /\ \A v \in Workers \ {w} : node'[v] = node[v]
    BY <1>1, <1>2 DEF GatewayInv, TypeOK
<1>5. process' \in [Workers -> {"up", "late", "down"}]
    BY DEF Heartbeat, GatewayInv, TypeOK
<1>6. TypeOK'
    BY <1>4, <1>5 DEF Heartbeat, GatewayInv, TypeOK, checkVars, clientVars
<1>7. UNCHANGED <<clientVars, evicted, steady, moved>> /\ seen \subseteq seen'
      /\ (phase \in {"list", "filter", "choose"} => w \in seen')
    BY DEF Heartbeat, Serving, GatewayInv, ClientShape, clientVars
<1>8. ASSUME NEW v \in Workers, v \in todo \cup kept
      PROVE  Entry(v)' # Absent /\ Entry(v)'.latency = Entry(v).latency
    <2>1. CASE evicted[v] # Absent
        BY <2>1, <1>7 DEF Entry
    <2>2. CASE evicted[v] = Absent /\ v # w
        BY <2>2, <1>4, <1>7, <1>8 DEF Entry, GatewayInv, ClientShape
    <2>3. CASE evicted[v] = Absent /\ v = w
        <3>1. Entry(v)' = e /\ Entry(v) = node[v]
            BY <2>3, <1>4, <1>7 DEF Entry
        <3>2. v \in Registered
            BY <2>3, <3>1, <1>8 DEF GatewayInv, ClientShape, Registered
        <3> QED BY <2>3, <3>1, <3>2, <1>3 DEF e
    <2> QED BY <2>1, <2>2, <2>3
<1>9. \A v \in Workers :
        /\ phase \in {"list", "filter", "choose"} /\ node'[v].healthy =>
             node[v].healthy \/ v \in seen'
        /\ v \in steady' => node'[v].healthy /\ evicted'[v] = Absent
    BY <1>3, <1>4, <1>7 DEF GatewayInv, SteadyHeld
<1> QED BY <1>6, <1>7, <1>8, <1>9, RegistryKeeps

(* Age changes only what nobody compares.                                  *)
LEMMA AgeKeeps ==
    ASSUME GatewayInv, NEW w \in Workers, Age(w)
    PROVE  GatewayInv'
<1>1. node[w] \in WorkerInfo
    BY Values DEF GatewayInv, Age, Registered
<1> DEFINE e == [node[w] EXCEPT !.fresh = FALSE]
<1>2. e \in WorkerInfo /\ e.healthy = node[w].healthy /\ e.latency = node[w].latency
    BY <1>1 DEF WorkerInfo
<1>3. e # Absent
    BY <1>2, Values DEF GatewayInv
<1>4. node' = [node EXCEPT ![w] = e]
    BY DEF Age
<1> HIDE DEF e
<1>5. /\ node' \in [Workers -> WorkerInfo \cup {Absent}]
      /\ node'[w] = e
      /\ \A v \in Workers \ {w} : node'[v] = node[v]
    BY <1>2, <1>4 DEF GatewayInv, TypeOK
<1>6. UNCHANGED <<process, checkVars, clientVars, evicted, history>>
      /\ faults' \in 0 .. MaxFaults
    BY GatewayAssumption DEF Age, Fault, GatewayInv, TypeOK
<1>7. TypeOK'
    BY <1>5, <1>6 DEF GatewayInv, TypeOK, checkVars, clientVars, history
<1>8. \A v \in Workers : v \in todo \cup kept =>
        Entry(v)' # Absent /\ Entry(v)'.latency = Entry(v).latency
    BY <1>2, <1>3, <1>5, <1>6 DEF Entry, GatewayInv, ClientShape
<1>9. \A v \in Workers :
        /\ node'[v].healthy = node[v].healthy
        /\ v \in steady' => node'[v].healthy /\ evicted'[v] = Absent
    BY <1>2, <1>5, <1>6 DEF GatewayInv, SteadyHeld, history
<1> QED BY <1>6, <1>7, <1>8, <1>9, RegistryKeeps DEF history

(* A ping result that comes in: it may mark the entry, or move its latency *)
(* and say so.  A worker evicted meanwhile is no longer there to mark.     *)
LEMMA RecordKeeps == ASSUME GatewayInv, RecordPing PROVE GatewayInv'
<1>1. PICK p \in ping : IF p.result = Timeout THEN Missed(p.worker)
                        ELSE Answered(p.worker, p.result)
    BY DEF RecordPing
<1>2. p.worker \in Workers /\ p.result \in Latencies \cup {Timeout}
    BY DEF GatewayInv, TypeOK
<1> DEFINE w == p.worker
<1>3. UNCHANGED <<process, faults, unchecked, clientVars, evicted, seen>>
      /\ ping' = {} /\ checking' \in {"wait", "ping"} /\ answered' \subseteq Workers
    BY DEF RecordPing, GatewayInv, TypeOK
<1>4. misses[w] \in 0 .. MISS_LIMIT /\ MISS_LIMIT \in Nat \ {0}
    BY <1>2, GatewayAssumption DEF GatewayInv, TypeOK
<1>5. ASSUME NEW e \in WorkerInfo \cup {Absent},
             node' = [node EXCEPT ![w] = e] \/ node' = node,
             w \in Registered \/ node' = node,
             misses' \in [Workers -> 0 .. MISS_LIMIT],
             moved' \in BOOLEAN, ~moved' => ~moved \/ phase # "choose",
             steady' \subseteq steady, e # Absent,
             e.healthy => node[w].healthy,
             e.healthy \/ w \notin steady' \/ ~node[w].healthy,
             phase \in {"list", "filter", "choose"} /\ ~moved' =>
               e.latency = node[w].latency
      PROVE  GatewayInv'
    <2>1. /\ node' \in [Workers -> WorkerInfo \cup {Absent}]
          /\ node'[w] = e \/ node'[w] = node[w]
          /\ \A v \in Workers \ {w} : node'[v] = node[v]
          /\ w \in Registered \/ node' = node
        BY <1>2, <1>5 DEF GatewayInv, TypeOK
    <2>2. TypeOK'
        BY <1>3, <1>5, <2>1 DEF GatewayInv, TypeOK, clientVars
    <2>3. \A v \in Workers : v \in todo \cup kept =>
            Entry(v)' # Absent /\ (~moved' => Entry(v)'.latency = Entry(v).latency)
        <3> SUFFICES ASSUME NEW v \in Workers, v \in todo \cup kept
                     PROVE  /\ Entry(v)' # Absent
                            /\ ~moved' => Entry(v)'.latency = Entry(v).latency
            OBVIOUS
        <3>1. phase \in {"list", "filter", "choose"}
            BY DEF GatewayInv, ClientShape, TypeOK
        <3>2. CASE evicted[v] # Absent
            BY <3>2, <1>3 DEF Entry, GatewayInv, ClientShape
        <3>3. CASE evicted[v] = Absent
            <4>1. Entry(v)' = node'[v] /\ Entry(v) = node[v] /\ node[v] # Absent
                BY <3>3, <1>3 DEF Entry, GatewayInv, ClientShape
            <4> QED BY <3>1, <4>1, <1>5, <2>1
        <3> QED BY <3>2, <3>3
    <2>4. \A v \in Workers :
            /\ node'[v].healthy => node[v].healthy
            /\ v \in steady' => node'[v].healthy /\ evicted'[v] = Absent
        BY <1>3, <1>5, <2>1 DEF GatewayInv, SteadyHeld
    <2> QED BY <1>3, <1>5, <2>2, <2>3, <2>4, RegistryKeeps DEF clientVars
<1>6. w \in Registered => node[w] \in WorkerInfo /\ node[w] # Absent
    BY <1>2, Values DEF GatewayInv, Registered
<1>7. CASE p.result = Timeout
    <2>1. Missed(w)
        BY <1>1, <1>7
    <2> DEFINE marks == misses[w] + 1 >= MISS_LIMIT
    <2>2. /\ misses' \in [Workers -> 0 .. MISS_LIMIT]
          /\ steady' = IF marks THEN steady \ {w} ELSE steady
          /\ node' = IF marks /\ w \in Registered
                     THEN [node EXCEPT ![w].healthy = FALSE] ELSE node
          /\ moved' = moved /\ moved \in BOOLEAN
        BY <1>2, <1>4, <2>1 DEF Missed, GatewayInv, TypeOK
    <2>3. CASE marks /\ w \in Registered
        <3> DEFINE e == [node[w] EXCEPT !.healthy = FALSE]
        <3>1. e \in WorkerInfo /\ ~e.healthy /\ e.latency = node[w].latency
            BY <1>6, <2>3 DEF WorkerInfo
        <3>2. e # Absent
            BY <3>1, Values DEF GatewayInv
        <3>3. node' = [node EXCEPT ![w] = e] /\ w \notin steady' /\ steady' \subseteq steady
            BY <2>2, <2>3
        <3> HIDE DEF e
        <3> QED BY <2>2, <2>3, <3>1, <3>2, <3>3, <1>5
    <2>4. CASE ~(marks /\ w \in Registered)
        <3>1. node' = node /\ steady' \subseteq steady
            BY <2>2, <2>4
        <3>2. TypeOK'
            BY <1>3, <2>2, <3>1 DEF GatewayInv, TypeOK, clientVars
        <3>3. \A v \in Workers : Entry(v)' = Entry(v)
            BY <1>3, <3>1 DEF Entry
        <3> QED BY <1>3, <2>2, <3>1, <3>2, <3>3, RegistryKeeps
                DEF GatewayInv, ClientShape, SteadyHeld, clientVars
    <2> QED BY <2>3, <2>4
<1>8. CASE p.result # Timeout
    <2>1. Answered(w, p.result) /\ p.result \in Latencies
        BY <1>1, <1>2, <1>8
    <2>2. /\ misses' \in [Workers -> 0 .. MISS_LIMIT]
          /\ node' = IF w \in Registered
                     THEN [node EXCEPT ![w].latency = p.result] ELSE node
          /\ moved' = Serving /\ steady' = steady
        BY <1>2, <1>4, <2>1 DEF Answered, GatewayInv, TypeOK
    <2>3. moved' \in BOOLEAN /\ (moved' <=> phase \in {"list", "filter", "choose"})
        BY <2>2 DEF Serving, GatewayInv, ClientShape, TypeOK
    <2>4. CASE w \in Registered
        <3> DEFINE e == [node[w] EXCEPT !.latency = p.result]
        <3>1. e \in WorkerInfo /\ e.healthy = node[w].healthy
            BY <1>6, <2>1, <2>4 DEF WorkerInfo
        <3>2. e # Absent
            BY <3>1, Values DEF GatewayInv
        <3>3. node' = [node EXCEPT ![w] = e]
            BY <2>2, <2>4
        <3> HIDE DEF e
        <3> QED BY <2>2, <2>3, <2>4, <3>1, <3>2, <3>3, <1>5
    <2>5. CASE w \notin Registered
        <3>1. node' = node
            BY <2>2, <2>5
        <3>2. TypeOK'
            BY <1>3, <2>2, <2>3, <3>1 DEF GatewayInv, TypeOK, clientVars
        <3>3. \A v \in Workers : Entry(v)' = Entry(v)
            BY <1>3, <3>1 DEF Entry
        <3> QED BY <1>3, <2>2, <2>3, <3>1, <3>2, <3>3, RegistryKeeps
                DEF GatewayInv, ClientShape, SteadyHeld, clientVars
    <2> QED BY <2>4, <2>5
<1> QED BY <1>7, <1>8

-----------------------------------------------------------------------------
(* The client loop                                                         *)

(* A request starts with the workers that are fresh and healthy.           *)
LEMMA ReceiveKeeps == ASSUME GatewayInv, ReceiveRequest PROVE GatewayInv'
<1>1. /\ phase = "idle" /\ phase' = "list" /\ request' \in Requests
      /\ EvictStale
      /\ seen' = {w \in Registered \ Stale : node[w].healthy}
      /\ steady' = seen' /\ moved' = FALSE
      /\ UNCHANGED <<process, faults, checkVars, todo, kept, slots>>
    BY DEF ReceiveRequest
<1>2. /\ todo = {} /\ kept = {} /\ \A i \in SlotIdx : slots[i] = {}
      /\ \A w \in Workers : evicted[w] = Absent /\ evicted'[w] = Absent
      /\ \A w \in Workers : node'[w] = IF w \in Stale THEN Absent ELSE node[w]
    BY <1>1, EvictEffect DEF GatewayInv, ClientShape
<1>3. TypeOK'
    BY <1>1, EvictEffect DEF GatewayInv, TypeOK, checkVars, Registered
<1>4. request' # NoRequest
    BY <1>1, Values DEF GatewayInv
<1>5. ClientShape'
    BY <1>1, <1>2, <1>4 DEF ClientShape
<1>6. ASSUME NEW w \in Workers, node'[w].healthy PROVE w \in seen'
    <2>1. node'[w] # Absent
        BY <1>6, Values DEF GatewayInv
    <2> QED BY <1>1, <1>2, <1>6, <2>1 DEF Registered
<1>7. HeldSeen'
    BY <1>1, <1>2, <1>6, Values DEF HeldSeen, GatewayInv
<1>8. SteadyHeld'
    BY <1>1, <1>2 DEF SteadyHeld, Registered
<1>9. HeldFastest'
    BY <1>1 DEF HeldFastest
<1> QED BY <1>3, <1>5, <1>7, <1>8, <1>9 DEF GatewayInv

(* The list has every steady worker of the model, each with its entry.     *)
LEMMA ListKeeps == ASSUME GatewayInv, ListWorkers PROVE GatewayInv'
<1>1. /\ phase = "list" /\ phase' = "filter"
      /\ todo' = {w \in Registered : Wanted(w)}
      /\ UNCHANGED <<process, faults, node, checkVars, request, kept, slots, evicted,
                     seen, steady, moved>>
    BY DEF ListWorkers, history
<1>2. kept = {} /\ \A w \in Workers : evicted[w] = Absent
    BY <1>1 DEF GatewayInv, ClientShape
<1>3. TypeOK'
    BY <1>1 DEF GatewayInv, TypeOK, Registered, checkVars
<1>4. \A w \in todo' \cup kept' : Entry(w)' # Absent
    BY <1>1, <1>2 DEF Entry, Registered
<1>5. ClientShape'
    BY <1>1, <1>2, <1>4 DEF GatewayInv, ClientShape
<1>6. HeldSeen'
    BY <1>1 DEF GatewayInv, HeldSeen
<1>7. ASSUME NEW w \in steady, Asked(w) PROVE w \in todo'
    <2>1. w \in Workers /\ node[w] # Absent
        BY Values DEF GatewayInv, TypeOK, SteadyHeld
    <2>2. Wanted(w)
        BY <1>7 DEF Asked
    <2> QED BY <1>1, <2>1, <2>2 DEF Registered
<1>8. SteadyHeld'
    BY <1>1, <1>7 DEF GatewayInv, SteadyHeld, Asked, Wanted
<1>9. HeldFastest'
    BY <1>1 DEF HeldFastest
<1> QED BY <1>3, <1>5, <1>6, <1>8, <1>9 DEF GatewayInv

(* A worker whose entry is healthy is kept, so a steady one is.            *)
LEMMA FilterKeeps ==
    ASSUME GatewayInv, NEW w \in Workers, FilterWorker(w)
    PROVE  GatewayInv'
<1>1. /\ phase = "filter" /\ w \in todo /\ todo' = todo \ {w}
      /\ kept' = IF Entry(w).healthy THEN kept \cup {w} ELSE kept
      /\ UNCHANGED <<process, faults, node, checkVars, phase, request, slots, evicted,
                     seen, steady, moved>>
    BY DEF FilterWorker, history
<1>2. TypeOK'
    BY <1>1 DEF GatewayInv, TypeOK, checkVars
<1>3. \A v \in Workers : Entry(v)' = Entry(v)
    BY <1>1 DEF Entry
<1>4. ClientShape'
    BY <1>1, <1>3 DEF GatewayInv, ClientShape, TypeOK
<1>5. Entry(w).healthy => w \in seen
    BY <1>1 DEF GatewayInv, HeldSeen, Entry
<1>6. HeldSeen'
    BY <1>1, <1>5 DEF GatewayInv, HeldSeen
<1>7. w \in steady => Entry(w).healthy
    BY DEF GatewayInv, SteadyHeld, Entry
<1>8. SteadyHeld'
    BY <1>1, <1>7 DEF GatewayInv, SteadyHeld, Asked, Wanted
<1>9. HeldFastest'
    BY <1>1 DEF HeldFastest
<1> QED BY <1>2, <1>4, <1>6, <1>8, <1>9 DEF GatewayInv

(* The workers of another width go.                                        *)
LEMMA SelectKeeps == ASSUME GatewayInv, SelectCompatible PROVE GatewayInv'
<1>1. /\ phase = "filter" /\ phase' = "choose" /\ todo = {}
      /\ todo' = {w \in kept : Width[w] = request.num_shards} /\ kept' = todo'
      /\ UNCHANGED <<process, faults, node, checkVars, request, slots, evicted,
                     seen, steady, moved>>
    BY DEF SelectCompatible, history
<1>2. TypeOK'
    BY <1>1 DEF GatewayInv, TypeOK, checkVars
<1>3. \A v \in Workers : Entry(v)' = Entry(v)
    BY <1>1 DEF Entry
<1>4. ClientShape'
    BY <1>1, <1>3 DEF GatewayInv, ClientShape, TypeOK
<1>5. HeldSeen'
    BY <1>1 DEF GatewayInv, HeldSeen
<1>6. \A w \in steady : Asked(w) => Width[w] = request.num_shards
    BY DEF Asked
<1>7. SteadyHeld'
    BY <1>1, <1>6 DEF GatewayInv, SteadyHeld, Asked, Wanted
<1>8. HeldFastest'
    BY <1>1 DEF HeldFastest
<1> QED BY <1>2, <1>4, <1>5, <1>7, <1>8 DEF GatewayInv

(* The comparison leaves a fastest one of the workers looked at.           *)
LEMMA ChooseKeeps ==
    ASSUME GatewayInv, NEW w \in Workers, ChooseWorker(w)
    PROVE  GatewayInv'
<1> DEFINE s == ShardIdx[w]
           wins == \A v \in slots[s] : Entry(w).latency < Entry(v).latency
<1>1. /\ phase = "choose" /\ w \in todo /\ todo' = todo \ {w}
      /\ slots' = [slots EXCEPT ![s] = IF wins THEN {w} ELSE @]
      /\ UNCHANGED <<process, faults, node, checkVars, phase, request, kept, evicted,
                     seen, steady, moved>>
    BY DEF ChooseWorker, history
<1>2. w \in kept /\ s \in SlotIdx
    BY <1>1, SlotOf DEF GatewayInv, ClientShape
<1>3. /\ slots' \in [SlotIdx -> SUBSET Workers]
      /\ slots'[s] = IF wins THEN {w} ELSE slots[s]
      /\ \A i \in SlotIdx \ {s} : slots'[i] = slots[i]
    BY <1>1, <1>2 DEF GatewayInv, TypeOK
<1> HIDE DEF wins
<1>4. TypeOK'
    BY <1>1, <1>3 DEF GatewayInv, TypeOK, checkVars
<1>5. \A v \in Workers : Entry(v)' = Entry(v)
    BY <1>1 DEF Entry
<1>6. \A v \in kept : v \in Workers /\ ShardIdx[v] \in SlotIdx
    BY <1>1, SlotOf DEF GatewayInv
<1>7. slots'[s] # {}
    BY <1>3 DEF wins
<1>8. ClientShape'
    BY <1>1, <1>2, <1>3, <1>5, <1>6 DEF GatewayInv, ClientShape
<1>9. HeldSeen'
    BY <1>1 DEF GatewayInv, HeldSeen
<1>10. SteadyHeld'
    <2>1. ASSUME NEW u \in kept \ todo' PROVE slots'[ShardIdx[u]] # {}
        <3>1. CASE u = w \/ ShardIdx[u] = s
            BY <3>1, <1>7
        <3>2. CASE u # w /\ ShardIdx[u] # s
            BY <3>2, <2>1, <1>1, <1>3, <1>6 DEF GatewayInv, SteadyHeld
        <3> QED BY <3>1, <3>2
    <2>2. \A v \in steady : Asked(v) => v \in todo' \cup kept
        BY <1>1, <1>2 DEF GatewayInv, SteadyHeld
    <2> QED BY <1>1, <2>1, <2>2 DEF GatewayInv, SteadyHeld, Asked, Wanted
<1>11. HeldFastest'
    <2> SUFFICES ASSUME ~moved, NEW u \in kept \ todo', NEW v \in slots'[ShardIdx[u]]
                 PROVE  Entry(v)'.latency <= Entry(u)'.latency
        BY <1>1 DEF HeldFastest
    <2>1. u \in Workers /\ ShardIdx[u] \in SlotIdx
        BY <1>6
    <2>2. v \in Workers
        BY <2>1, <1>3
    <2>3. Entry(u).latency \in Int /\ Entry(v).latency \in Int /\ Entry(w).latency \in Int
        BY <2>1, <2>2, Values DEF GatewayInv
    <2>4. Entry(v).latency <= Entry(u).latency
        <3>1. CASE ShardIdx[u] # s
            BY <3>1, <2>1, <1>1, <1>3 DEF GatewayInv, HeldFastest
        <3>2. CASE u # w /\ ShardIdx[u] = s
            <4>1. u \in kept \ todo
                BY <3>2, <1>1
            <4>2. PICK x \in slots[s] : TRUE
                BY <4>1, <3>2, <1>1 DEF GatewayInv, SteadyHeld
            <4>3. Entry(x).latency <= Entry(u).latency
                BY <4>1, <4>2, <3>2, <1>1 DEF GatewayInv, HeldFastest
            <4>4. slots[s] = {x} /\ x \in Workers
                BY <4>2, <1>2 DEF GatewayInv, ClientShape, TypeOK
            <4>5. Entry(x).latency \in Int
                BY <4>4, Values DEF GatewayInv
            <4> QED BY <4>3, <4>4, <4>5, <2>3, <3>2, <1>3 DEF wins
        <3>3. CASE u = w
            <4>1. CASE wins
                BY <4>1, <3>3, <1>3, <2>3
            <4>2. CASE ~wins
                <5>1. v \in slots[s] /\ slots[s] = {v}
                    BY <4>2, <3>3, <1>2, <1>3 DEF GatewayInv, ClientShape
                <5> QED BY <5>1, <4>2, <3>3, <2>3 DEF wins
            <4> QED BY <4>1, <4>2
        <3> QED BY <3>1, <3>2, <3>3
    <2> QED BY <2>1, <2>2, <2>4, <1>5
<1> QED BY <1>4, <1>8, <1>9, <1>10, <1>11 DEF GatewayInv

(* A reply, or a request that cannot be read, leaves nothing held.         *)
LEMMA ReplyKeeps == ASSUME GatewayInv, Reply \/ ReceiveGarbled PROVE GatewayInv'
<1>1. CASE Reply
    <2>1. /\ phase' = "idle" /\ request' = NoRequest /\ todo' = {} /\ kept' = {}
          /\ slots' = NoSlots /\ evicted' = [w \in Workers |-> Absent]
          /\ seen' = {} /\ steady' = {} /\ moved' = FALSE
          /\ UNCHANGED <<process, faults, node, checkVars>>
        BY <1>1 DEF Reply, Chosen
    <2>2. TypeOK'
        BY <2>1 DEF GatewayInv, TypeOK, checkVars, NoSlots
    <2>3. ClientShape'
        BY <2>1 DEF ClientShape, NoSlots
    <2> QED BY <2>1, <2>2, <2>3 DEF GatewayInv, HeldSeen, SteadyHeld, HeldFastest
<1>2. CASE ReceiveGarbled
    <2>1. /\ phase = "idle" /\ phase' = "mute"
          /\ UNCHANGED <<process, faults, node, checkVars, request, todo, kept, slots,
                         evicted, seen, steady, moved>>
        BY <1>2 DEF ReceiveGarbled, history
    <2>2. TypeOK'
        BY <2>1 DEF GatewayInv, TypeOK, checkVars
    <2>3. ClientShape'
        BY <2>1 DEF GatewayInv, ClientShape, Entry
    <2> QED BY <2>1, <2>2, <2>3 DEF GatewayInv, HeldSeen, SteadyHeld, HeldFastest
<1> QED BY <1>1, <1>2

-----------------------------------------------------------------------------
(* Nothing is held at first.                                               *)
LEMMA GatewayInitInv == Init => GatewayInv
<1> SUFFICES ASSUME Init PROVE GatewayInv
    OBVIOUS
<1>1. TypeOK
    <2>1. faults \in 0 .. MaxFaults /\ misses \in [Workers -> 0 .. MISS_LIMIT]
        BY GatewayAssumption DEF Init
    <2>2. slots \in [SlotIdx -> SUBSET Workers]
        BY DEF Init, NoSlots
    <2> QED BY <2>1, <2>2 DEF Init, TypeOK
<1>2. ClientShape
    BY DEF Init, ClientShape, NoSlots
<1> QED BY <1>1, <1>2 DEF Init, GatewayInv, HeldSeen, SteadyHeld, HeldFastest

(* Every step of every thread keeps the invariant.                         *)
LEMMA GatewayNextInv == ASSUME GatewayInv, [Next]_vars PROVE GatewayInv'
<1>1. ASSUME NEW w \in Workers, StopWorker(w) PROVE GatewayInv'
    <2>1. process' \in [Workers -> {"up", "late", "down"}] /\ faults' \in 0 .. MaxFaults
        BY <1>1, GatewayAssumption DEF StopWorker, Fault, GatewayInv, TypeOK
    <2>2. TypeOK'
        BY <1>1, <2>1 DEF StopWorker, GatewayInv, TypeOK, checkVars, clientVars, history
    <2> QED BY <1>1, <2>2, QuietKeeps DEF StopWorker
<1>2. ASSUME NEW w \in Workers, PingWorker(w) PROVE GatewayInv'
    <2>1. /\ faults' \in 0 .. MaxFaults /\ unchecked' \subseteq Workers
          /\ ping' \subseteq [worker : Workers, result : Latencies \cup {Timeout}]
        BY <1>2, GatewayAssumption DEF PingWorker, Fault, GatewayInv, TypeOK
    <2>2. TypeOK'
        BY <1>2, <2>1 DEF PingWorker, GatewayInv, TypeOK, clientVars, history
    <2> QED BY <1>2, <2>2, QuietKeeps DEF PingWorker
<1>3. CASE CheckLists
    <2>1. TypeOK'
        BY <1>3 DEF CheckLists, GatewayInv, TypeOK, Registered, clientVars, history
    <2> QED BY <1>3, <2>1, QuietKeeps DEF CheckLists
<1>4. CASE Snapshot \/ CheckEvicts
    BY <1>4, EvictKeeps DEF Snapshot, CheckEvicts, checkVars, GatewayInv, TypeOK
<1>5. ASSUME NEW w \in Workers,
             Heartbeat(w) \/ Age(w) \/ FilterWorker(w) \/ ChooseWorker(w)
      PROVE  GatewayInv'
    BY <1>5, HeartbeatKeeps, AgeKeeps, FilterKeeps, ChooseKeeps
<1>6. CASE UNCHANGED vars
    BY <1>6, QuietKeeps
    DEF vars, GatewayInv, TypeOK, checkVars, clientVars, history
<1> QED BY <1>1, <1>2, <1>3, <1>4, <1>5, <1>6, RecordKeeps, ReceiveKeeps,
           ListKeeps, SelectKeeps, ReplyKeeps DEF Next

(* The invariant on which the promises about a reply rest.                 *)
THEOREM GatewayInvariance == Spec => []GatewayInv
    BY GatewayInitInv, GatewayNextInv, PTL DEF Spec

(* The registry, its entries and the locals of the gateway's threads have  *)
(* their types, whatever the order of their reads and writes.              *)
THEOREM GatewayTypeCorrect == Spec => []TypeOK
<1>1. GatewayInv => TypeOK
    BY DEF GatewayInv
<1> QED BY <1>1, GatewayInvariance, PTL

(* ChainWasAlive: get_workers() reads is_healthy entry by entry without    *)
(* the lock, and still names no worker in a chain that was not both fresh  *)
(* and healthy at some time while the request was served.                  *)
THEOREM ChainWasAliveHolds == Spec => []ChainWasAlive
<1>1. GatewayInv => ChainWasAlive
    <2> SUFFICES ASSUME GatewayInv, Chosen, NEW i \in 0 .. request.num_shards - 1
                 PROVE  slots[i] \subseteq seen
        BY DEF ChainWasAlive
    <2>1. phase = "choose" /\ request \in Requests
        BY DEF Chosen, GatewayInv, ClientShape, TypeOK
    <2>2. i \in SlotIdx
        BY <2>1, GatewayAssumption DEF SlotIdx
    <2> QED BY <2>1, <2>2 DEF GatewayInv, ClientShape, HeldSeen
<1> QED BY <1>1, GatewayInvariance, PTL

(* NoFalseShortage: NotEnoughWorkersError is sent only if some shard had   *)
(* no worker that stayed registered and healthy all the time; evictions    *)
(* and pings between the reads lose no other.                              *)
THEOREM NoFalseShortageHolds == Spec => []NoFalseShortage
<1>1. GatewayInv => NoFalseShortage
    <2> SUFFICES ASSUME GatewayInv, Chosen, Missing PROVE
            \E i \in 0 .. request.num_shards - 1 : \A w \in steady :
                Asked(w) => ShardIdx[w] # i
        BY DEF NoFalseShortage, Asked
    <2>1. PICK i \in 0 .. request.num_shards - 1 : slots[i] = {}
        BY DEF Missing
    <2>2. ASSUME NEW w \in steady, Asked(w), ShardIdx[w] = i PROVE FALSE
        BY <2>1, <2>2 DEF Chosen, GatewayInv, SteadyHeld, ClientShape
    <2> QED BY <2>2
<1> QED BY <1>1, GatewayInvariance, PTL

(* ChainIsFastest: build_pipeline() compares latencies that another thread *)
(* may change; unless one was, no worker that passed the filters is faster *)
(* than the one chosen for its shard.                                      *)
THEOREM ChainIsFastestHolds == Spec => []ChainIsFastest
<1>1. GatewayInv => ChainIsFastest
    BY DEF GatewayInv, HeldFastest, ChainIsFastest, Chosen
<1> QED BY <1>1, GatewayInvariance, PTL

-----------------------------------------------------------------------------
(* What the miss counter stands for: there is one ping at a time, and a    *)
(* worker that answered its last one has nothing counted against it.       *)
MissInv ==
    /\ \A p, q \in ping : p = q
    /\ \A w \in answered : misses[w] = 0

(* Only a result changes the counter, and it says so.                      *)
LEMMA MissNextInv == ASSUME GatewayInv, MissInv, [Next]_vars PROVE MissInv'
<1>1. ASSUME RecordPing PROVE MissInv'
    <2>1. PICK p \in ping : IF p.result = Timeout THEN Missed(p.worker)
                            ELSE Answered(p.worker, p.result)
        BY <1>1 DEF RecordPing
    <2>2. ping = {p}
        BY <2>1 DEF MissInv
    <2>3. misses \in [Workers -> 0 .. MISS_LIMIT] /\ answered \subseteq Workers
          /\ p.worker \in Workers
        BY <2>1 DEF GatewayInv, TypeOK
    <2>4. answered' = IF p.result = Timeout THEN answered \ {p.worker}
                      ELSE {p.worker} \cup (answered \ {p.worker})
        BY <1>1, <2>2 DEF RecordPing
    <2>5. \A w \in Workers \ {p.worker} : misses'[w] = misses[w]
        BY <2>1, <2>3 DEF Missed, Answered
    <2>6. p.result # Timeout => misses'[p.worker] = 0
        BY <2>1, <2>3 DEF Answered
    <2>7. ping' = {}
        BY <1>1 DEF RecordPing
    <2> QED BY <2>3, <2>4, <2>5, <2>6, <2>7 DEF MissInv
<1>2. ASSUME NEW w \in Workers, PingWorker(w) PROVE MissInv'
    BY <1>2 DEF PingWorker, MissInv
<1>3. ASSUME NEW w \in Workers,
             StopWorker(w) \/ Heartbeat(w) \/ Age(w) \/ FilterWorker(w) \/ ChooseWorker(w)
      PROVE  MissInv'
    BY <1>3 DEF StopWorker, Heartbeat, Age, FilterWorker, ChooseWorker, MissInv, checkVars
<1>4. CASE Snapshot \/ CheckEvicts \/ CheckLists \/ ReceiveRequest \/ ReceiveGarbled
           \/ ListWorkers \/ SelectCompatible \/ Reply \/ UNCHANGED vars
    BY <1>4 DEF Snapshot, CheckEvicts, CheckLists, ReceiveRequest, ReceiveGarbled,
       ListWorkers, SelectCompatible, Reply, vars, MissInv, checkVars
<1> QED BY <1>1, <1>2, <1>3, <1>4 DEF Next

(* The mark is made by the ping that misses, and needs MISS_LIMIT of them. *)
LEMMA MarkedByMisses ==
    ASSUME GatewayInv, MissInv, [Next]_vars, MISS_LIMIT > 1,
           NEW w \in answered \cap Registered, node[w].healthy, node'[w] # Absent
    PROVE  node'[w].healthy
<1>1. w \in Workers /\ misses[w] = 0 /\ MISS_LIMIT \in Nat
      /\ node \in [Workers -> WorkerInfo \cup {Absent}] /\ node[w] \in WorkerInfo
    BY GatewayAssumption DEF MissInv, GatewayInv, TypeOK, Registered
<1>2. CASE RecordPing
    <2>1. PICK p \in ping : IF p.result = Timeout THEN Missed(p.worker)
                            ELSE Answered(p.worker, p.result)
        BY <1>2 DEF RecordPing
    <2>2. p.worker \in Workers
        BY <2>1 DEF GatewayInv, TypeOK
    <2>3. CASE p.worker = w /\ p.result = Timeout
        BY <1>1, <2>1, <2>3 DEF Missed
    <2>4. CASE p.worker # w \/ p.result # Timeout
        BY <1>1, <2>1, <2>2, <2>4 DEF Missed, Answered, WorkerInfo
    <2> QED BY <2>3, <2>4
<1>3. ASSUME EvictStale PROVE node'[w].healthy
    BY <1>1, <1>3, EvictEffect
<1>4. ASSUME NEW v \in Workers, Heartbeat(v) \/ Age(v) PROVE node'[w].healthy
    BY <1>1, <1>4 DEF Heartbeat, Age, Register, WorkerInfo
<1>5. ASSUME UNCHANGED node PROVE node'[w].healthy
    BY <1>5
<1> QED BY <1>2, <1>3, <1>4, <1>5
        DEF Next, vars, checkVars, StopWorker, PingWorker, FilterWorker, ChooseWorker,
            Snapshot, CheckEvicts, CheckLists, ReceiveRequest, ReceiveGarbled,
            ListWorkers, SelectCompatible, Reply

(* OneMissForgiven: a worker that answered its last ping is not marked for *)
(* the next one it misses, whatever it missed before (_check_all resets    *)
(* the counter), while heartbeats, evictions and requests go on.           *)
THEOREM OneMissForgivenHolds == Spec => OneMissForgiven
<1>1. Init => MissInv
    BY DEF Init, MissInv
<1>2. Spec => []MissInv
    BY <1>1, MissNextInv, GatewayInvariance, PTL DEF Spec
<1>3. ASSUME GatewayInv, MissInv, [Next]_vars
      PROVE  [MISS_LIMIT > 1 =>
                \A w \in answered \cap Registered :
                  node[w].healthy /\ node'[w] # Absent => node'[w].healthy]_vars
    BY <1>3, MarkedByMisses
<1> QED BY <1>2, <1>3, GatewayInvariance, PTL DEF Spec, OneMissForgiven
================================================================================
