---------------------------- MODULE AutoJoinProofs ----------------------------
(***************************************************************************)
(* What auto_join and the coordinator keep between them, for any number of *)
(* shards, devices, runs and restarts, whatever calls are lost or late.    *)
(* The inductive invariant says which run every slot was granted to        *)
(* (GrantsMatch), that an answer still under way and a run that acts on    *)
(* one both name that slot (AnswersMatch, RunMatches), that a worker has   *)
(* the configuration the coordinator would give it now (ConfigMatches),    *)
(* and what stands behind every ready file, report and flag (ReadyBacked). *)
(* The facts about the coordinator itself are those of CoordinatorProofs.  *)
(***************************************************************************)
EXTENDS AutoJoin, FiniteSetTheorems, TLAPS

CP == INSTANCE CoordinatorProofs

(* The k-th slot is that of the k-th granted run; a run is granted once,   *)
(* and no longer asks then.                                                *)
GrantsMatch ==
    /\ CP!SlotsInOrder
    /\ Len(grants) = Len(slots)
    /\ \A k \in DOMAIN grants :
         /\ slots[k].host = HostOf[grants[k].proc]
         /\ grants[k].run <= run[grants[k].proc]
         /\ grants[k] \notin requests
    /\ \A j, k \in DOMAIN grants : grants[j] = grants[k] => j = k
    /\ \A r \in requests : r.run <= run[r.proc]

(* Run r has the slot of shard i.                                          *)
GrantedTo(i, r) == i + 1 \in DOMAIN grants /\ grants[i + 1] = r

(* An answer is under way only to a run that waits for it, one at most,    *)
(* and names the slot that run was granted.                                *)
AnswersMatch ==
    /\ \A a \in replies :
         /\ pc[a.proc] = "registering" /\ a.run = run[a.proc]
         /\ [proc |-> a.proc, run |-> a.run] \notin requests
         /\ a.shard # NoShard => GrantedTo(a.shard, ThisRun(a.proc))
    /\ \A a, b \in replies : a.proc = b.proc => a = b

(* A run past its registration, or whose notifier outlived it, has a shard *)
(* and was granted it, unless the coordinator has forgotten everything.    *)
Past == {"polling", "aborted"} \cup Alive

RunMatches(p) ==
    /\ pc[p] = "registering" => shard[p] = NoShard
    /\ pc[p] \in Past \cup {"registering"} => run[p] >= 1
    /\ notifier[p] = "polling" =>
         pc[p] \in Alive \cup {"aborted"} \/ (p \in Background /\ pc[p] = "failed")
    /\ pc[p] \in Past \/ notifier[p] = "polling" =>
         shard[p] \in Shards /\ (restarts = 0 => GrantedTo(shard[p], ThisRun(p)))

(* GetConfig by position, and when it answers.                             *)
Full == Len(slots) >= NumShards

ConfigAt(i) ==
    [input_port |-> slots[i + 1].input_port,
     output_address |-> IF i < NumShards - 1
                        THEN <<slots[i + 2].host, slots[i + 2].input_port>>
                        ELSE <<ResultHost, Coord!RESULT_PORT>>,
     host |-> slots[i + 1].host]

(* A worker has the configuration the coordinator would give it now.       *)
ConfigMatches(p) ==
    restarts = 0 /\ pc[p] \in Alive => Full /\ cfg[p] = ConfigAt(shard[p])

(* The run that has shard i has loaded it.                                 *)
LoadedFor(i) ==
    /\ i + 1 \in DOMAIN grants
    /\ [proc |-> grants[i + 1].proc, run |-> grants[i + 1].run, shard |-> i] \in loaded

(* Shard i may be taken for ready.                                         *)
Backed(i) ==
    /\ i + 1 \in DOMAIN grants
    /\ LoadedFor(i) \/ <<HostOf[grants[i + 1].proc], i>> \in StaleFiles

ReadyBacked ==
    restarts = 0 =>
        /\ \A h \in Hosts, i \in Shards : <<h, i>> \in readyFiles =>
             <<h, i>> \in StaleFiles \/ LoadedFor(i)
        /\ \A i \in readyPosts : Backed(i)
        /\ \A k \in DOMAIN slots : slots[k].ready => Backed(k - 1)

JoinInv ==
    /\ TypeOK /\ GrantsMatch /\ AnswersMatch
    /\ \A p \in Procs : RunMatches(p)
    /\ \A p \in Procs : ConfigMatches(p)
    /\ ReadyBacked

-----------------------------------------------------------------------------
(* The coordinator of AutoJoin is the one CoordinatorProofs is about.      *)
LEMMA SameCoordinator ==
    /\ Coord!Init <=> CP!Init
    /\ Coord!TypeOK <=> CP!TypeOK
    /\ Coord!Shards = Shards /\ CP!Shards = Shards
    /\ Coord!AllRegistered <=> Full
    /\ CP!AllRegistered <=> Full
    /\ \A h \in Hosts : Coord!Register(h) <=> CP!Register(h)
    /\ \A i \in Nat : /\ Coord!MarkReady(i) <=> CP!MarkReady(i)
                      /\ Coord!Registered(i) <=> CP!Registered(i)
                      /\ Coord!GetConfig(i) = CP!GetConfig(i)
                      /\ Coord!HasConfig(i) <=> CP!HasConfig(i)
<1> USE DEF Coord!AllRegistered, CP!AllRegistered, Full, Coord!Registered, CP!Registered,
            Coord!SlotPos, CP!SlotPos
<1>1. Coord!TypeOK <=> CP!TypeOK
    BY DEF Coord!TypeOK, CP!TypeOK, Coord!WorkerSlot, CP!WorkerSlot
<1>2. \A h \in Hosts : Coord!Register(h) <=> CP!Register(h)
    BY DEF Coord!Register, CP!Register, Coord!NetworkFull, CP!NetworkFull,
           Coord!NewSlot, CP!NewSlot, Coord!BASE_WORKER_PORT, CP!BASE_WORKER_PORT
<1>3. \A i \in Nat : Coord!MarkReady(i) <=> CP!MarkReady(i)
    BY DEF Coord!MarkReady, CP!MarkReady
<1>4. \A i \in Nat : Coord!GetConfig(i) = CP!GetConfig(i)
    BY DEF Coord!GetConfig, CP!GetConfig, Coord!OutputAddress, CP!OutputAddress,
           Coord!Endpoint, CP!Endpoint, Coord!BASE_WORKER_PORT, CP!BASE_WORKER_PORT,
           Coord!RESULT_PORT, CP!RESULT_PORT
<1>5. \A i \in Nat : Coord!HasConfig(i) <=> CP!HasConfig(i)
    BY DEF Coord!HasConfig, CP!HasConfig
<1> QED BY <1>1, <1>2, <1>3, <1>4, <1>5
        DEF Coord!Init, CP!Init, Shards, Coord!Shards, CP!Shards

(* The assumptions in the form the proofs need them.                       *)
LEMMA Constants ==
    /\ NumShards \in Nat \ {0} /\ NumShards \in Nat
    /\ \A p \in Procs : HostOf[p] \in Hosts
    /\ \A i \in Shards : i \in Nat /\ i < NumShards /\ i # NoShard
    /\ NoShard \notin Shards
BY AutoJoinAssumption DEF Hosts, Shards, NoShard

(* The lists of slots and grants go together.                              *)
LEMMA Lists ==
    ASSUME JoinInv
    PROVE  /\ CP!Inv
           /\ slots \in Seq(CP!WorkerSlot) /\ grants \in Seq(Runs)
           /\ DOMAIN slots = 1 .. Len(slots) /\ DOMAIN grants = DOMAIN slots
           /\ Len(slots) \in Nat /\ Len(slots) <= NumShards
           /\ nextShard = Len(slots)
           /\ \A k \in DOMAIN slots : slots[k].shard_idx = k - 1 /\ grants[k] \in Runs
<1>1. CP!Inv
    BY SameCoordinator DEF JoinInv, TypeOK, GrantsMatch, CP!Inv
<1>2. slots \in Seq(CP!WorkerSlot) /\ nextShard = Len(slots) /\ nextShard <= NumShards
      /\ \A k \in DOMAIN slots : slots[k].shard_idx = k - 1
    BY <1>1 DEF CP!Inv, CP!TypeOK, CP!SlotsInOrder
<1>3. grants \in Seq(Runs) /\ Len(grants) = Len(slots)
    BY DEF JoinInv, TypeOK, GrantsMatch
<1>4. /\ DOMAIN slots = 1 .. Len(slots) /\ DOMAIN grants = DOMAIN slots
      /\ Len(slots) \in Nat
      /\ \A k \in DOMAIN grants : grants[k] \in Runs
    BY <1>2, <1>3
<1> QED BY <1>1, <1>2, <1>3, <1>4

(* What a device is told, read off the positions of the slots.             *)
LEMMA ConfigIsAt ==
    ASSUME JoinInv, NEW i \in Shards, Coord!HasConfig(i)
    PROVE  Full /\ Coord!GetConfig(i) = ConfigAt(i)
<1>1. i \in Nat /\ CP!AllRegistered
    BY Constants, SameCoordinator DEF Coord!HasConfig
<1>2. CP!Answer(i)
    BY <1>1, Lists, SameCoordinator, CP!ConfigIs, AutoJoinAssumption
<1> QED BY <1>1, <1>2, Constants, SameCoordinator
        DEF CP!Answer, CP!GetConfig, ConfigAt, CP!Endpoint, Coord!RESULT_PORT,
            CP!RESULT_PORT, Shards, CP!Shards

-----------------------------------------------------------------------------
(* Steps of one process                                                    *)

(* A step of p leaves the grants, the answers to others and the claims of  *)
(* other processes alone.                                                  *)
LEMMA LocalKeeps ==
    ASSUME JoinInv, TypeOK', NEW p \in Procs,
           UNCHANGED <<coordVars, run, requests>>,
           \A q \in Procs \ {p} : /\ pc'[q] = pc[q] /\ shard'[q] = shard[q]
                                  /\ cfg'[q] = cfg[q] /\ notifier'[q] = notifier[q],
           replies' \subseteq replies,
           pc'[p] # pc[p] => \A a \in replies' : a.proc # p,
           RunMatches(p)', ConfigMatches(p)', ReadyBacked'
    PROVE  JoinInv'
<1>1. GrantsMatch'
    BY DEF JoinInv, GrantsMatch, CP!SlotsInOrder, CP!BASE_WORKER_PORT, coordVars
<1>2. AnswersMatch'
    BY DEF JoinInv, AnswersMatch, GrantedTo, ThisRun, coordVars, TypeOK
<1>3. ASSUME NEW q \in Procs PROVE RunMatches(q)' /\ ConfigMatches(q)'
    <2>1. CASE q = p
        BY <2>1
    <2>2. CASE q # p
        BY <2>2 DEF JoinInv, RunMatches, ConfigMatches, ConfigAt, Full, GrantedTo,
                    ThisRun, coordVars
    <2> QED BY <2>1, <2>2
<1> QED BY <1>1, <1>2, <1>3 DEF JoinInv

(* What stands behind files and reports stays when nothing is added.       *)
LEMMA ReadyRests ==
    ASSUME JoinInv, UNCHANGED coordVars, loaded \subseteq loaded',
           readyFiles' \subseteq readyFiles, readyPosts' \subseteq readyPosts
    PROVE  ReadyBacked'
BY DEF JoinInv, ReadyBacked, Backed, LoadedFor, coordVars

(* Nobody waits for an answer but a registering process.                   *)
LEMMA NoAnswer ==
    ASSUME JoinInv, NEW p \in Procs, pc[p] # "registering"
    PROVE  \A a \in replies : a.proc # p
BY DEF JoinInv, AnswersMatch

(* Registered: the answer names the slot of this very run.                 *)
LEMMA RegisteredKeeps ==
    ASSUME JoinInv, NEW p \in Procs, Registered(p)
    PROVE  JoinInv'
<1>1. PICK a \in replies :
        /\ a.proc = p /\ a.run = run[p]
        /\ replies' = replies \ {a}
        /\ shard' = [shard EXCEPT ![p] = a.shard]
        /\ pc' = [pc EXCEPT ![p] = IF a.shard = NoShard THEN "refused" ELSE "polling"]
    BY DEF Registered
<1>2. /\ pc[p] = "registering"
      /\ UNCHANGED <<coordVars, run, cfg, notifier, requests, readyPosts,
                     readyFiles, loaded>>
    BY DEF Registered
<1>3. a.shard \in Shards \cup {NoShard}
    BY DEF JoinInv, TypeOK
<1>4. /\ pc'[p] = IF a.shard = NoShard THEN "refused" ELSE "polling"
      /\ shard'[p] = a.shard
      /\ \A q \in Procs \ {p} : pc'[q] = pc[q] /\ shard'[q] = shard[q]
    BY <1>1 DEF JoinInv, TypeOK
<1>5. TypeOK'
    BY <1>1, <1>2, <1>3, SameCoordinator
    DEF JoinInv, TypeOK, coordVars, Coord!TypeOK, Coord!WorkerSlot, Ended, Alive, Bound
<1>6. \A b \in replies' : b.proc # p
    BY <1>1 DEF JoinInv, AnswersMatch
<1>7. notifier[p] # "polling"
    BY <1>2 DEF JoinInv, RunMatches, Alive, Bound
<1>8. RunMatches(p)'
    BY <1>1, <1>2, <1>3, <1>4, <1>7
    DEF JoinInv, AnswersMatch, RunMatches, Past, Alive, Bound, GrantedTo, ThisRun, coordVars
<1>9. ConfigMatches(p)'
    BY <1>4 DEF ConfigMatches, Alive, Bound
<1>10. ReadyBacked'
    BY <1>2, ReadyRests
<1> QED BY <1>1, <1>2, <1>4, <1>5, <1>6, <1>8, <1>9, <1>10, LocalKeeps

(* RegisterTimeout and TopologyTimeout, Kill and Terminate: whoever ends   *)
(* claims nothing any more.                                                *)
LEMMA EndKeeps ==
    ASSUME JoinInv, NEW p \in Procs,
           RegisterTimeout(p) \/ TopologyTimeout(p) \/ Kill(p) \/ Terminate(p)
    PROVE  JoinInv'
<1>1. /\ UNCHANGED <<coordVars, run, shard, cfg, requests, readyPosts, loaded>>
      /\ readyFiles' \subseteq readyFiles
      /\ replies' \subseteq replies
      /\ \E e \in {"failed", "killed"} : pc' = [pc EXCEPT ![p] = e]
      /\ notifier' = notifier \/ notifier' = [notifier EXCEPT ![p] = "off"]
    BY DEF RegisterTimeout, TopologyTimeout, Kill, Terminate, netVars
<1>2. /\ pc'[p] \in {"failed", "killed"}
      /\ \A q \in Procs \ {p} : pc'[q] = pc[q] /\ notifier'[q] = notifier[q]
      /\ pc' \in [Procs -> Ended \cup Alive \cup {"registering", "polling", "aborted"}]
      /\ notifier' \in [Procs -> {"off", "polling"}]
    <2>1. PICK e \in {"failed", "killed"} : pc' = [pc EXCEPT ![p] = e]
        BY <1>1
    <2>2. /\ pc'[p] = e /\ \A q \in Procs \ {p} : pc'[q] = pc[q]
          /\ pc' \in [Procs -> Ended \cup Alive \cup {"registering", "polling", "aborted"}]
        BY <2>1 DEF JoinInv, TypeOK, Ended
    <2>3. /\ \A q \in Procs \ {p} : notifier'[q] = notifier[q]
          /\ notifier' \in [Procs -> {"off", "polling"}]
        BY <1>1 DEF JoinInv, TypeOK
    <2> QED BY <2>2, <2>3
<1>3. TypeOK'
    BY <1>1, <1>2 DEF JoinInv, TypeOK, coordVars, Coord!TypeOK, Coord!WorkerSlot
<1>4. notifier'[p] = "off"
    BY DEF RegisterTimeout, TopologyTimeout, Kill, Terminate, JoinInv, TypeOK,
           RunMatches, Alive, Bound
<1>5. \A a \in replies' : a.proc # p
    BY NoAnswer DEF RegisterTimeout, TopologyTimeout, Kill, Terminate, netVars
<1>6. RunMatches(p)' /\ ConfigMatches(p)'
    BY <1>2, <1>4 DEF RunMatches, ConfigMatches, Past, Alive, Bound
<1>7. ReadyBacked'
    BY <1>1, ReadyRests
<1> QED BY <1>1, <1>2, <1>3, <1>5, <1>6, <1>7, LocalKeeps

(* PollConfig: what the coordinator answers now is what it will go on      *)
(* answering.                                                              *)
LEMMA PollKeeps == ASSUME JoinInv, NEW p \in Procs, PollConfig(p) PROVE JoinInv'
<1>1. /\ pc[p] = "polling" /\ Coord!HasConfig(shard[p])
      /\ cfg' = [cfg EXCEPT ![p] = Coord!GetConfig(shard[p])]
      /\ pc' = [pc EXCEPT ![p] = "loading"]
      /\ notifier' = [notifier EXCEPT ![p] = "polling"]
      /\ UNCHANGED <<coordVars, run, shard, requests, replies, readyPosts, readyFiles,
                     loaded>>
    BY DEF PollConfig, netVars
<1>2. shard[p] \in Shards /\ (restarts = 0 => GrantedTo(shard[p], ThisRun(p)))
    BY <1>1 DEF JoinInv, RunMatches, Past
<1>3. Full /\ Coord!GetConfig(shard[p]) = ConfigAt(shard[p])
    BY <1>1, <1>2, ConfigIsAt
<1>4. ConfigAt(shard[p]) \in
        [input_port : Nat, host : Hosts \cup {""},
         output_address : (Hosts \cup {"", ResultHost}) \X Nat]
    <2> DEFINE i == shard[p]
    <2>1. i + 1 \in DOMAIN slots /\ (i < NumShards - 1 => i + 2 \in DOMAIN slots)
        BY <1>2, <1>3, Lists, Constants DEF Full
    <2>2. \A k \in DOMAIN slots : slots[k].host \in Hosts /\ slots[k].input_port \in Nat
        <3>1. \A k \in DOMAIN slots : slots[k] \in CP!WorkerSlot
            BY Lists
        <3> QED BY <3>1 DEF CP!WorkerSlot
    <2> HIDE DEF i
    <2>3. i < NumShards - 1 =>
            <<slots[i + 2].host, slots[i + 2].input_port>>
              \in (Hosts \cup {"", ResultHost}) \X Nat
        BY <2>1, <2>2
    <2> DEFINE D == Hosts \cup {"", ResultHost}
               out == IF i < NumShards - 1 THEN <<slots[i + 2].host, slots[i + 2].input_port>>
                      ELSE <<ResultHost, Coord!RESULT_PORT>>
    <2>4. ResultHost \in D /\ Coord!RESULT_PORT \in Nat
        BY DEF Coord!RESULT_PORT
    <2>5. <<ResultHost, Coord!RESULT_PORT>> \in D \X Nat
        BY <2>4
    <2>6. out \in D \X Nat
        BY <2>3, <2>5
    <2>7. slots[i + 1].host \in Hosts \cup {""} /\ slots[i + 1].input_port \in Nat
        BY <2>1, <2>2
    <2>8. ConfigAt(i) = [input_port |-> slots[i + 1].input_port, output_address |-> out,
                         host |-> slots[i + 1].host]
        BY DEF ConfigAt
    <2> DEFINE A == D \X Nat
               H == Hosts \cup {""}
    <2>9. out \in A /\ slots[i + 1].host \in H
        BY <2>6, <2>7
    <2> HIDE DEF out, D, A, H
    <2>10. ConfigAt(i) \in [input_port : Nat, host : H, output_address : A]
        <3> DEFINE port == slots[i + 1].input_port
                   host == slots[i + 1].host
        <3>1. port \in Nat /\ host \in H /\ out \in A
            BY <2>7, <2>9
        <3>2. ConfigAt(i) = [input_port |-> port, output_address |-> out, host |-> host]
            BY <2>8
        <3> HIDE DEF port, host
        <3> QED BY <3>1, <3>2
    <2> QED BY <2>10 DEF i, D, A, H
<1>5. /\ pc'[p] = "loading" /\ cfg'[p] = ConfigAt(shard[p]) /\ notifier'[p] = "polling"
      /\ \A q \in Procs \ {p} : /\ pc'[q] = pc[q] /\ cfg'[q] = cfg[q]
                                /\ notifier'[q] = notifier[q]
    BY <1>1, <1>3 DEF JoinInv, TypeOK
<1>6. /\ pc' \in [Procs -> Ended \cup Alive \cup {"registering", "polling", "aborted"}]
      /\ notifier' \in [Procs -> {"off", "polling"}]
      /\ cfg' \in [Procs -> [input_port : Nat, host : Hosts \cup {""},
                             output_address : (Hosts \cup {"", ResultHost}) \X Nat]]
    BY <1>1, <1>3, <1>4 DEF JoinInv, TypeOK, Alive
<1>7. TypeOK'
    BY <1>1, <1>6 DEF JoinInv, TypeOK, coordVars, Coord!TypeOK, Coord!WorkerSlot
<1>8. RunMatches(p)'
    BY <1>1, <1>2, <1>5 DEF JoinInv, RunMatches, Alive, Past, GrantedTo, ThisRun, coordVars
<1>9. ConfigMatches(p)'
    BY <1>1, <1>3, <1>5 DEF ConfigMatches, ConfigAt, Full, coordVars
<1>10. ReadyBacked'
    BY <1>1, ReadyRests
<1>11. \A a \in replies : a.proc # p
    BY <1>1, NoAnswer
<1> QED BY <1>1, <1>5, <1>7, <1>8, <1>9, <1>10, <1>11, LocalKeeps

(* LoadShard: the file is touched after the model is loaded.               *)
LEMMA LoadKeeps == ASSUME JoinInv, NEW p \in Procs, LoadShard(p) PROVE JoinInv'
<1>1. /\ pc[p] = "loading" /\ pc' = [pc EXCEPT ![p] = "starting"]
      /\ readyFiles' = readyFiles \cup {<<HostOf[p], shard[p]>>}
      /\ loaded' = loaded \cup {[proc |-> p, run |-> run[p], shard |-> shard[p]]}
      /\ UNCHANGED <<coordVars, run, shard, cfg, notifier, requests, replies, readyPosts>>
    BY DEF LoadShard, ReadyFile, netVars
<1>2. shard[p] \in Shards /\ (restarts = 0 => GrantedTo(shard[p], ThisRun(p)))
    BY <1>1 DEF JoinInv, RunMatches, Past, Alive
<1>3. /\ pc'[p] = "starting" /\ \A q \in Procs \ {p} : pc'[q] = pc[q]
      /\ pc' \in [Procs -> Ended \cup Alive \cup {"registering", "polling", "aborted"}]
    BY <1>1 DEF JoinInv, TypeOK, Alive, Bound
<1>4. /\ run[p] \in 1 .. MaxRuns
      /\ [proc |-> p, run |-> run[p], shard |-> shard[p]]
           \in [proc : Procs, run : 1 .. MaxRuns, shard : Shards]
      /\ <<HostOf[p], shard[p]>> \in Hosts \X Shards
    <2>1. run[p] \in 0 .. MaxRuns /\ run[p] >= 1
        BY <1>1 DEF JoinInv, TypeOK, RunMatches, Past, Alive
    <2> QED BY <1>2, <2>1, AutoJoinAssumption, Constants
<1>5. TypeOK'
    BY <1>1, <1>3, <1>4 DEF JoinInv, TypeOK, coordVars, Coord!TypeOK, Coord!WorkerSlot
<1>6. RunMatches(p)'
    BY <1>1, <1>3 DEF JoinInv, RunMatches, Alive, Bound, Past, GrantedTo, ThisRun, coordVars
<1>7. ConfigMatches(p)'
    BY <1>1, <1>3 DEF JoinInv, ConfigMatches, ConfigAt, Full, Alive, Bound, coordVars
<1>8. restarts = 0 => LoadedFor(shard[p])'
    BY <1>1, <1>2 DEF LoadedFor, GrantedTo, ThisRun, coordVars
<1>9. ReadyBacked'
    <2> SUFFICES ASSUME restarts = 0 PROVE ReadyBacked'
        BY <1>1 DEF ReadyBacked, coordVars
    <2>1. \A i : LoadedFor(i) => LoadedFor(i)'
        BY <1>1 DEF LoadedFor, coordVars
    <2>2. \A i : Backed(i) => Backed(i)'
        BY <1>1, <2>1 DEF Backed, coordVars
    <2>3. ASSUME NEW h \in Hosts, NEW i \in Shards, <<h, i>> \in readyFiles'
          PROVE  <<h, i>> \in StaleFiles \/ LoadedFor(i)'
        BY <1>1, <1>8, <2>1, <2>3 DEF JoinInv, ReadyBacked
    <2>4. /\ \A i \in readyPosts' : Backed(i)'
          /\ \A k \in DOMAIN slots' : slots'[k].ready => Backed(k - 1)'
        BY <1>1, <2>2 DEF JoinInv, ReadyBacked, coordVars
    <2> QED BY <2>3, <2>4 DEF ReadyBacked
<1>10. \A a \in replies : a.proc # p
    BY <1>1, NoAnswer
<1> QED BY <1>1, <1>3, <1>5, <1>6, <1>7, <1>9, <1>10, LocalKeeps

(* BindFails and EnterLoop claim no more than before; the notifier         *)
(* outlives only a run off the main thread.                                *)
LEMMA WorkerKeeps ==
    ASSUME JoinInv, NEW p \in Procs, BindFails(p) \/ EnterLoop(p)
    PROVE  JoinInv'
<1>1. /\ UNCHANGED <<coordVars, run, shard, cfg, requests, replies, readyPosts,
                     readyFiles, loaded>>
      /\ pc[p] \in {"loading", "starting"}
      /\ \E e \in {"failed", "aborted", "serving"} : pc' = [pc EXCEPT ![p] = e]
      /\ notifier' = notifier \/ notifier' = [notifier EXCEPT ![p] = "off"]
    BY DEF BindFails, EnterLoop, netVars
<1>2. /\ pc'[p] \in {"failed", "aborted", "serving"}
      /\ \A q \in Procs \ {p} : pc'[q] = pc[q] /\ notifier'[q] = notifier[q]
      /\ pc' \in [Procs -> Ended \cup Alive \cup {"registering", "polling", "aborted"}]
      /\ notifier' \in [Procs -> {"off", "polling"}]
    <2>1. PICK e \in {"failed", "aborted", "serving"} : pc' = [pc EXCEPT ![p] = e]
        BY <1>1
    <2>2. /\ pc'[p] = e /\ \A q \in Procs \ {p} : pc'[q] = pc[q]
          /\ pc' \in [Procs -> Ended \cup Alive \cup {"registering", "polling", "aborted"}]
        BY <2>1 DEF JoinInv, TypeOK, Ended, Alive, Bound
    <2>3. /\ \A q \in Procs \ {p} : notifier'[q] = notifier[q]
          /\ notifier' \in [Procs -> {"off", "polling"}]
        BY <1>1 DEF JoinInv, TypeOK
    <2> QED BY <2>2, <2>3
<1>3. TypeOK'
    BY <1>1, <1>2 DEF JoinInv, TypeOK, coordVars, Coord!TypeOK, Coord!WorkerSlot
<1>4. pc'[p] = "failed" => p \in Background \/ notifier'[p] = "off"
    BY DEF BindFails, EnterLoop, JoinInv, TypeOK
<1>5. RunMatches(p)'
    BY <1>1, <1>2, <1>4
    DEF JoinInv, RunMatches, Alive, Bound, Past, GrantedTo, ThisRun, coordVars
<1>6. ConfigMatches(p)'
    BY <1>1, <1>2 DEF JoinInv, ConfigMatches, ConfigAt, Full, Alive, Bound, coordVars
<1>7. ReadyBacked'
    BY <1>1, ReadyRests
<1>8. \A a \in replies : a.proc # p
    BY <1>1, NoAnswer
<1> QED BY <1>1, <1>2, <1>3, <1>5, <1>6, <1>7, <1>8, LocalKeeps

(* NotifyReady reports the shard of its own run, for a file that is there; *)
(* NotifierGivesUp reports nothing.                                        *)
LEMMA NotifierKeeps ==
    ASSUME JoinInv, NEW p \in Procs, NotifyReady(p) \/ NotifierGivesUp(p)
    PROVE  JoinInv'
<1>1. /\ UNCHANGED <<coordVars, pc, run, shard, cfg, requests, replies, readyFiles, loaded>>
      /\ notifier[p] = "polling" /\ notifier' = [notifier EXCEPT ![p] = "off"]
      /\ \/ readyPosts' = readyPosts
         \/ /\ readyPosts' = readyPosts \cup {shard[p]}
            /\ <<HostOf[p], shard[p]>> \in readyFiles
    BY DEF NotifyReady, NotifierGivesUp, ReadyFile, netVars
<1>2. shard[p] \in Shards /\ (restarts = 0 => GrantedTo(shard[p], ThisRun(p)))
    BY <1>1 DEF JoinInv, RunMatches
<1>3. /\ notifier' \in [Procs -> {"off", "polling"}] /\ notifier'[p] = "off"
      /\ \A q \in Procs \ {p} : notifier'[q] = notifier[q]
    BY <1>1 DEF JoinInv, TypeOK
<1>4. TypeOK'
    BY <1>1, <1>2, <1>3 DEF JoinInv, TypeOK, coordVars, Coord!TypeOK, Coord!WorkerSlot
<1>5. RunMatches(p)' /\ ConfigMatches(p)'
    BY <1>1, <1>3 DEF JoinInv, RunMatches, ConfigMatches, ConfigAt, Full, GrantedTo,
                      ThisRun, coordVars
<1>6. ReadyBacked'
    <2> SUFFICES ASSUME restarts = 0 PROVE ReadyBacked'
        BY <1>1 DEF ReadyBacked, coordVars
    <2>1. \A i : (LoadedFor(i)' <=> LoadedFor(i)) /\ (Backed(i)' <=> Backed(i))
        BY <1>1 DEF LoadedFor, Backed, coordVars
    <2>2. <<HostOf[p], shard[p]>> \in readyFiles => Backed(shard[p])
        BY <1>2, Constants DEF JoinInv, ReadyBacked, Backed, GrantedTo, ThisRun
    <2>3. \A i \in readyPosts' : Backed(i)'
        BY <1>1, <2>1, <2>2 DEF JoinInv, ReadyBacked
    <2> QED BY <1>1, <2>1, <2>3 DEF JoinInv, ReadyBacked, coordVars
<1> QED BY <1>1, <1>3, <1>4, <1>5, <1>6, LocalKeeps

-----------------------------------------------------------------------------
(* The coordinator's steps                                                 *)

(* The answer to a request names the slot it was granted, and goes to the  *)
(* run that sent it or to nobody.                                          *)
LEMMA DeliverKeeps ==
    ASSUME JoinInv, NEW r \in requests, NEW s \in Shards \cup {NoShard},
           requests' = requests \ {r}, UNCHANGED <<pc, run>>, Deliver(r, s),
           \A i \in Shards, x \in Runs : GrantedTo(i, x) => GrantedTo(i, x)',
           s # NoShard => GrantedTo(s, r)'
    PROVE  /\ AnswersMatch'
           /\ replies' \subseteq
                [proc : Procs, run : 1 .. MaxRuns, shard : Shards \cup {NoShard}]
<1> DEFINE new == [proc |-> r.proc, run |-> r.run, shard |-> s]
<1>1. r \in Runs /\ r.proc \in Procs /\ r.run \in 1 .. MaxRuns
      /\ r = [proc |-> r.proc, run |-> r.run]
    BY DEF JoinInv, TypeOK, Runs
<1>2. new \in [proc : Procs, run : 1 .. MaxRuns, shard : Shards \cup {NoShard}]
    BY <1>1
<1>3. \/ replies' = replies
      \/ /\ replies' = replies \cup {new}
         /\ run[r.proc] = r.run /\ pc[r.proc] = "registering"
    BY DEF Deliver
<1>4. \A a \in replies : a.proc = r.proc => a.run # r.run
    BY <1>1 DEF JoinInv, AnswersMatch
<1>5. \A a \in replies : ThisRun(a.proc) \in Runs /\ a.shard \in Shards \cup {NoShard}
    BY DEF JoinInv, AnswersMatch, ThisRun, Runs, TypeOK
<1>6. ASSUME NEW a \in replies'
      PROVE  /\ pc'[a.proc] = "registering" /\ a.run = run'[a.proc]
             /\ [proc |-> a.proc, run |-> a.run] \notin requests'
             /\ a.shard # NoShard => GrantedTo(a.shard, ThisRun(a.proc))'
    <2>1. CASE a \in replies
        <3>1. a.shard # NoShard => GrantedTo(a.shard, ThisRun(a.proc))
            BY <2>1 DEF JoinInv, AnswersMatch
        <3>2. a.shard # NoShard => GrantedTo(a.shard, ThisRun(a.proc))'
            BY <2>1, <3>1, <1>5 DEF GrantedTo, ThisRun
        <3> QED BY <2>1, <3>2 DEF JoinInv, AnswersMatch
    <2>2. CASE a = new /\ run[r.proc] = r.run /\ pc[r.proc] = "registering"
        <3>1. a.shard # NoShard => GrantedTo(a.shard, ThisRun(a.proc))'
            BY <2>2, <1>1 DEF GrantedTo, ThisRun
        <3> QED BY <2>2, <3>1, <1>1
    <2> QED BY <1>3, <2>1, <2>2
<1>7. \A a, b \in replies' : a.proc = b.proc => a = b
    <2>1. run[r.proc] = r.run => \A a \in replies : a.proc # r.proc
        BY <1>4 DEF JoinInv, AnswersMatch
    <2> QED BY <1>3, <2>1 DEF JoinInv, AnswersMatch
<1>8. AnswersMatch'
    BY <1>6, <1>7 DEF AnswersMatch
<1> QED BY <1>2, <1>3, <1>8 DEF JoinInv, TypeOK

(* A granted registration is the next slot and the next grant.             *)
LEMMA GrantKeeps ==
    ASSUME JoinInv, NEW r \in requests, requests' = requests \ {r},
           Coord!Register(HostOf[r.proc]), grants' = Append(grants, r),
           Deliver(r, nextShard),
           UNCHANGED <<restarts, procVars, readyPosts, readyFiles, loaded>>
    PROVE  JoinInv'
<1> DEFINE L == Len(slots)
<1>1. r \in Runs /\ r.proc \in Procs /\ HostOf[r.proc] \in Hosts
    BY Constants DEF JoinInv, TypeOK, Runs
<1>2. CP!Register(HostOf[r.proc])
    BY <1>1, SameCoordinator
<1>3. CP!Inv'
    BY <1>1, <1>2, Lists, CP!RegisterInv, AutoJoinAssumption
<1>4. /\ L \in Nat /\ L < NumShards /\ nextShard = L
      /\ slots' = Append(slots, CP!NewSlot(HostOf[r.proc]))
    BY <1>2, Lists, Constants DEF CP!Register, CP!NetworkFull
<1>5. CP!NewSlot(HostOf[r.proc]) \in CP!WorkerSlot
    BY <1>1, <1>4 DEF CP!NewSlot, CP!WorkerSlot, CP!BASE_WORKER_PORT
<1>6. /\ Len(slots') = L + 1 /\ DOMAIN slots' = 1 .. (L + 1)
      /\ \A k \in 1 .. L : slots'[k] = slots[k]
      /\ slots'[L + 1] = CP!NewSlot(HostOf[r.proc])
    BY <1>4, <1>5, Lists
<1>7. /\ grants' \in Seq(Runs) /\ Len(grants') = L + 1 /\ DOMAIN grants' = 1 .. (L + 1)
      /\ \A k \in 1 .. L : grants'[k] = grants[k]
      /\ grants'[L + 1] = r
    BY <1>1, Lists DEF JoinInv, GrantsMatch
<1>8. L \in Shards /\ L \in Shards \cup {NoShard}
    BY <1>4, Constants DEF Shards
<1>9. \A i \in Shards : i + 1 \in DOMAIN grants =>
        i + 1 \in DOMAIN grants' /\ grants'[i + 1] = grants[i + 1]
    BY <1>7, Lists, Constants
<1>10. AnswersMatch' /\ replies' \subseteq
         [proc : Procs, run : 1 .. MaxRuns, shard : Shards \cup {NoShard}]
    <2>1. \A i \in Shards, x \in Runs : GrantedTo(i, x) => GrantedTo(i, x)'
        BY <1>9 DEF GrantedTo
    <2>2. PICK n \in Shards : n = nextShard
        BY <1>4, <1>8
    <2>3. GrantedTo(n, r)'
        BY <1>4, <1>7, <2>2 DEF GrantedTo
    <2>4. Deliver(r, n)
        BY <2>2
    <2> QED BY <2>1, <2>3, <2>4, DeliverKeeps DEF procVars
<1>11. TypeOK'
    <2>1. Coord!TypeOK'
        BY <1>3 DEF CP!Inv, CP!TypeOK, Coord!TypeOK, CP!WorkerSlot, Coord!WorkerSlot
    <2> QED BY <1>7, <1>10, <2>1 DEF JoinInv, TypeOK, procVars
<1>12. GrantsMatch'
    <2>1. CP!SlotsInOrder'
        BY <1>3 DEF CP!Inv
    <2>2. ASSUME NEW k \in DOMAIN grants'
          PROVE  /\ slots'[k].host = HostOf[grants'[k].proc]
                 /\ grants'[k].run <= run'[grants'[k].proc]
                 /\ grants'[k] \notin requests'
        <3>1. CASE k \in 1 .. L
            BY <3>1, <1>6, <1>7, Lists DEF JoinInv, GrantsMatch, procVars
        <3>2. CASE k = L + 1
            BY <3>2, <1>6, <1>7 DEF JoinInv, GrantsMatch, procVars, CP!NewSlot
        <3> QED BY <3>1, <3>2, <1>4, <1>7
    <2>3. ASSUME NEW j \in DOMAIN grants', NEW k \in DOMAIN grants', grants'[j] = grants'[k]
          PROVE  j = k
        <3>1. \A m \in 1 .. L : grants[m] # r
            BY Lists DEF JoinInv, GrantsMatch
        <3> QED BY <2>3, <3>1, <1>4, <1>7, Lists DEF JoinInv, GrantsMatch
    <2>4. Len(grants') = Len(slots')
        BY <1>6, <1>7
    <2>5. \A x \in requests' : x.run <= run'[x.proc]
        BY DEF JoinInv, GrantsMatch, procVars
    <2> QED BY <2>1, <2>2, <2>3, <2>4, <2>5 DEF GrantsMatch
<1>13. ASSUME NEW p \in Procs PROVE RunMatches(p)' /\ ConfigMatches(p)'
    <2>1. RunMatches(p)'
        BY <1>9 DEF JoinInv, RunMatches, GrantedTo, ThisRun, procVars
    <2>2. ~Full
        BY <1>4, Constants DEF Full
    <2> QED BY <2>1, <2>2 DEF JoinInv, ConfigMatches, procVars
<1>14. ReadyBacked'
    <2> SUFFICES ASSUME restarts = 0 PROVE ReadyBacked'
        BY DEF ReadyBacked
    <2>1. \A i \in Shards : (LoadedFor(i) => LoadedFor(i)') /\ (Backed(i) => Backed(i)')
        BY <1>9 DEF LoadedFor, Backed
    <2>2. ASSUME NEW k \in DOMAIN slots', slots'[k].ready PROVE Backed(k - 1)'
        <3>1. k \in 1 .. L
            BY <2>2, <1>4, <1>6 DEF CP!NewSlot
        <3>2. k - 1 \in Shards /\ Backed(k - 1)
            BY <3>1, <2>2, <1>4, <1>6, Lists, Constants DEF JoinInv, ReadyBacked, Shards
        <3> QED BY <3>2, <2>1
    <2>3. \A i \in readyPosts : i \in Shards
        BY DEF JoinInv, TypeOK
    <2> QED BY <2>1, <2>2, <2>3 DEF JoinInv, ReadyBacked
<1> QED BY <1>10, <1>11, <1>12, <1>13, <1>14 DEF JoinInv

(* HandleRegister: a granted registration, or HTTP 409.                    *)
LEMMA HandleRegisterKeeps ==
    ASSUME JoinInv, NEW r \in requests, HandleRegister(r)
    PROVE  JoinInv'
<1>1. requests' = requests \ {r}
      /\ UNCHANGED <<restarts, procVars, readyPosts, readyFiles, loaded>>
    BY DEF HandleRegister
<1>2. CASE Coord!Register(HostOf[r.proc]) /\ grants' = Append(grants, r)
           /\ Deliver(r, nextShard)
    BY <1>1, <1>2, GrantKeeps
<1>3. CASE Deliver(r, NoShard) /\ UNCHANGED <<slots, nextShard, grants>>
    <2>1. AnswersMatch' /\ replies' \subseteq
            [proc : Procs, run : 1 .. MaxRuns, shard : Shards \cup {NoShard}]
        BY <1>1, <1>3, DeliverKeeps DEF procVars, GrantedTo
    <2>2. TypeOK'
        BY <1>1, <1>3, <2>1 DEF JoinInv, TypeOK, procVars, Coord!TypeOK, Coord!WorkerSlot
    <2>3. GrantsMatch'
        BY <1>1, <1>3 DEF JoinInv, GrantsMatch, CP!SlotsInOrder, CP!BASE_WORKER_PORT, procVars
    <2>4. \A p \in Procs : RunMatches(p)' /\ ConfigMatches(p)'
        BY <1>1, <1>3 DEF JoinInv, RunMatches, ConfigMatches, ConfigAt, Full, GrantedTo,
                          ThisRun, procVars
    <2>5. ReadyBacked'
        BY <1>1, <1>3 DEF JoinInv, ReadyBacked, Backed, LoadedFor
    <2> QED BY <2>1, <2>2, <2>3, <2>4, <2>5 DEF JoinInv
<1> QED BY <1>2, <1>3 DEF HandleRegister

(* A ready report sets one flag, which what is behind the report backs.    *)
LEMMA MarkKeeps ==
    ASSUME JoinInv, NEW i \in readyPosts, Coord!MarkReady(i),
           readyPosts' = readyPosts \ {i},
           UNCHANGED <<grants, restarts, procVars, requests, replies, readyFiles, loaded>>
    PROVE  JoinInv'
<1>1. i \in Shards /\ i \in Nat /\ i \in CP!Shards
    BY Constants, SameCoordinator DEF JoinInv, TypeOK
<1>2. CP!MarkReady(i) /\ CP!Inv
    BY <1>1, SameCoordinator, Lists
<1>3. CP!Inv'
    BY <1>1, <1>2, CP!MarkReadyInv, AutoJoinAssumption
<1>4. /\ DOMAIN slots' = DOMAIN slots /\ Len(slots') = Len(slots)
      /\ nextShard' = nextShard
      /\ \A k \in DOMAIN slots :
           /\ slots'[k].host = slots[k].host
           /\ slots'[k].input_port = slots[k].input_port
           /\ k # i + 1 => slots'[k].ready = slots[k].ready
    BY <1>1, <1>2, CP!MarkReadyEffect, AutoJoinAssumption
<1>5. TypeOK'
    <2>1. Coord!TypeOK'
        BY <1>3 DEF CP!Inv, CP!TypeOK, Coord!TypeOK, CP!WorkerSlot, Coord!WorkerSlot
    <2> QED BY <2>1 DEF JoinInv, TypeOK, procVars
<1>6. GrantsMatch'
    <2>1. CP!SlotsInOrder'
        BY <1>3 DEF CP!Inv
    <2> QED BY <2>1, <1>4, Lists DEF JoinInv, GrantsMatch, procVars
<1>7. AnswersMatch'
    BY DEF JoinInv, AnswersMatch, GrantedTo, ThisRun, procVars
<1>8. ASSUME NEW p \in Procs PROVE RunMatches(p)' /\ ConfigMatches(p)'
    <2>1. RunMatches(p)'
        BY DEF JoinInv, RunMatches, GrantedTo, ThisRun, procVars
    <2>2. ASSUME restarts = 0, pc[p] \in Alive
          PROVE  Full' /\ cfg[p] = ConfigAt(shard[p])'
        <3> DEFINE n == shard[p]
        <3>1. Full /\ cfg[p] = ConfigAt(n)
            BY <2>2 DEF JoinInv, ConfigMatches
        <3>2. n \in Shards
            BY <2>2 DEF JoinInv, RunMatches, Past
        <3>3. n + 1 \in DOMAIN slots /\ (n < NumShards - 1 => n + 2 \in DOMAIN slots)
            BY <3>1, <3>2, Lists, Constants DEF Full
        <3>4. ConfigAt(shard[p])' = ConfigAt(n)
            BY <3>3, <1>4 DEF ConfigAt, procVars, Coord!RESULT_PORT
        <3> QED BY <3>1, <3>4, <1>4 DEF Full
    <2> QED BY <2>1, <2>2 DEF ConfigMatches, procVars
<1>9. ReadyBacked'
    <2> SUFFICES ASSUME restarts = 0 PROVE ReadyBacked'
        BY DEF ReadyBacked
    <2>1. \A j : (LoadedFor(j)' <=> LoadedFor(j)) /\ (Backed(j)' <=> Backed(j))
        BY DEF LoadedFor, Backed
    <2>2. Backed(i)
        BY DEF JoinInv, ReadyBacked
    <2>3. ASSUME NEW k \in DOMAIN slots', slots'[k].ready PROVE Backed(k - 1)
        <3>1. CASE k = i + 1
            BY <3>1, <2>2, <1>1
        <3>2. CASE k # i + 1
            BY <3>2, <2>3, <1>4 DEF JoinInv, ReadyBacked
        <3> QED BY <3>1, <3>2
    <2> QED BY <2>1, <2>3 DEF JoinInv, ReadyBacked
<1> QED BY <1>5, <1>6, <1>7, <1>8, <1>9 DEF JoinInv

(* HandleReady, with HTTP 404 for a shard nobody has, and LoseReady.       *)
LEMMA HandleReadyKeeps ==
    ASSUME JoinInv, NEW i \in readyPosts, HandleReady(i) \/ LoseReady(i)
    PROVE  JoinInv'
<1>1. CASE HandleReady(i) /\ Coord!Registered(i)
    BY <1>1, MarkKeeps DEF HandleReady
<1>2. CASE UNCHANGED <<coordVars, procVars, requests, replies, readyFiles, loaded>>
           /\ readyPosts' = readyPosts \ {i}
    <2>1. TypeOK'
        BY <1>2 DEF JoinInv, TypeOK, coordVars, procVars, Coord!TypeOK, Coord!WorkerSlot
    <2>2. GrantsMatch' /\ AnswersMatch'
        BY <1>2 DEF JoinInv, GrantsMatch, CP!SlotsInOrder, CP!BASE_WORKER_PORT, procVars,
                    coordVars, AnswersMatch, GrantedTo, ThisRun
    <2>3. \A p \in Procs : RunMatches(p)' /\ ConfigMatches(p)'
        BY <1>2 DEF JoinInv, RunMatches, ConfigMatches, ConfigAt, Full, GrantedTo,
                    ThisRun, procVars, coordVars
    <2>4. ReadyBacked'
        BY <1>2, ReadyRests
    <2> QED BY <2>1, <2>2, <2>3, <2>4 DEF JoinInv
<1> QED BY <1>1, <1>2 DEF HandleReady, LoseReady, coordVars

(* RestartCoordinator: nothing is granted any more, and nothing claimed.   *)
LEMMA RestartKeeps == ASSUME JoinInv, RestartCoordinator PROVE JoinInv'
<1>1. /\ restarts' = restarts + 1 /\ restarts' \in 0 .. MaxRestarts /\ restarts' # 0
      /\ slots' = <<>> /\ nextShard' = 0 /\ grants' = <<>>
      /\ requests' = {} /\ replies' = {} /\ readyPosts' = {}
      /\ UNCHANGED <<run, shard, cfg, readyFiles, loaded>>
    <2>1. restarts \in 0 .. MaxRestarts /\ MaxRestarts \in Nat
        BY AutoJoinAssumption DEF JoinInv, TypeOK
    <2>2. restarts < MaxRestarts /\ restarts' = restarts + 1
        BY DEF RestartCoordinator
    <2>3. restarts' \in 0 .. MaxRestarts /\ restarts' # 0
        BY <2>1, <2>2
    <2> QED BY <2>2, <2>3 DEF RestartCoordinator
<1>2. \A p \in Procs :
        /\ pc'[p] = IF p \in Background THEN "killed"
                    ELSE IF pc[p] = "registering" THEN "failed" ELSE pc[p]
        /\ notifier'[p] = IF p \in Background THEN "off" ELSE notifier[p]
    BY DEF RestartCoordinator
<1>3. /\ pc' \in [Procs -> Ended \cup Alive \cup {"registering", "polling", "aborted"}]
      /\ notifier' \in [Procs -> {"off", "polling"}]
    <2>1. \A p \in Procs : pc'[p] \in Ended \cup Alive \cup {"registering", "polling", "aborted"}
                           /\ notifier'[p] \in {"off", "polling"}
        BY <1>2 DEF JoinInv, TypeOK, Ended
    <2>2. pc' = [p \in Procs |-> pc'[p]] /\ notifier' = [p \in Procs |-> notifier'[p]]
        BY DEF RestartCoordinator
    <2> QED BY <2>1, <2>2
<1>4. TypeOK'
    <2>1. Coord!TypeOK' /\ grants' \in Seq(Runs)
        BY <1>1 DEF Coord!TypeOK
    <2> QED BY <1>1, <1>3, <2>1 DEF JoinInv, TypeOK
<1>5. GrantsMatch' /\ AnswersMatch'
    BY <1>1, Constants DEF GrantsMatch, AnswersMatch, CP!SlotsInOrder
<1>6. \A p \in Procs : RunMatches(p)' /\ ConfigMatches(p)'
    BY <1>1, <1>2 DEF JoinInv, RunMatches, ConfigMatches, Past, Alive, Bound
<1>7. ReadyBacked'
    BY <1>1 DEF ReadyBacked
<1> QED BY <1>4, <1>5, <1>6, <1>7 DEF JoinInv

-----------------------------------------------------------------------------
(* A run more                                                              *)

(* The runs of one process are among all runs.                             *)
LEMMA RunsBounded ==
    ASSUME TypeOK, NEW p \in Procs, RunsSoFar < MaxRuns
    PROVE  run[p] + 1 \in 1 .. MaxRuns
<1> DEFINE all == {r \in Runs : r.run <= run[r.proc]}
           f == [i \in 1 .. MaxRuns |-> [proc |-> p, run |-> i]]
<1>1. run[p] \in 0 .. MaxRuns /\ MaxRuns \in Nat
    BY AutoJoinAssumption DEF TypeOK
<1>2. CASE run[p] < MaxRuns
    BY <1>1, <1>2
<1>3. CASE run[p] = MaxRuns
    <2>1. IsFiniteSet(Runs)
        <3> DEFINE pairs == Procs \X (1 .. MaxRuns)
                   g == [x \in pairs |-> [proc |-> x[1], run |-> x[2]]]
        <3>1. IsFiniteSet(pairs)
            <4>1. IsFiniteSet(1 .. MaxRuns)
                BY <1>1, FS_Interval
            <4>2. IsFiniteSet(Procs)
                BY AutoJoinAssumption
            <4> QED BY <4>1, <4>2, FS_Product
        <3>2. g \in Surjection(pairs, Runs)
            <4>1. \A r \in Runs : <<r.proc, r.run>> \in pairs /\ g[<<r.proc, r.run>>] = r
                BY DEF Runs
            <4>2. g \in [pairs -> Runs]
                BY DEF Runs
            <4> QED BY <4>1, <4>2 DEF Surjection
        <3> QED BY <3>1, <3>2, FS_Surjection
    <2>2. IsFiniteSet(all)
        BY <2>1, FS_Subset
    <2>3. f \in Injection(1 .. MaxRuns, all)
        BY <1>1, <1>3 DEF Runs, Injection, IsInjective
    <2>4. Cardinality(1 .. MaxRuns) = MaxRuns
        BY <1>1, FS_Interval
    <2>5. Cardinality(1 .. MaxRuns) <= Cardinality(all)
        BY <2>2, <2>3, FS_Injection
    <2>6. Cardinality(all) \in Nat
        BY <2>2, FS_CardinalityType
    <2> QED BY <1>1, <2>4, <2>5, <2>6 DEF RunsSoFar
<1> QED BY <1>1, <1>2, <1>3

(* StartJoin: the new run claims nothing, and no earlier one is mistaken   *)
(* for it.                                                                 *)
LEMMA StartKeeps == ASSUME JoinInv, NEW p \in Procs, StartJoin(p) PROVE JoinInv'
<1> DEFINE new == [proc |-> p, run |-> run[p] + 1]
<1>1. /\ pc[p] \in Ended /\ (p \in Background => pc[p] \notin {"refused", "failed"})
      /\ run' = [run EXCEPT ![p] = run[p] + 1]
      /\ pc' = [pc EXCEPT ![p] = "registering"]
      /\ shard' = [shard EXCEPT ![p] = NoShard]
      /\ cfg' = [cfg EXCEPT ![p] = NoConfig]
      /\ requests' = requests \cup {new}
      /\ UNCHANGED <<coordVars, notifier, replies, readyPosts, readyFiles, loaded>>
    BY DEF StartJoin
<1>2. run[p] + 1 \in 1 .. MaxRuns /\ run[p] \in 0 .. MaxRuns
    BY RunsBounded DEF JoinInv, TypeOK, StartJoin
<1>3. new \in Runs
    BY <1>2 DEF Runs
<1>4. /\ run'[p] = run[p] + 1 /\ pc'[p] = "registering" /\ shard'[p] = NoShard
      /\ \A q \in Procs \ {p} : /\ run'[q] = run[q] /\ pc'[q] = pc[q]
                                /\ shard'[q] = shard[q] /\ cfg'[q] = cfg[q]
      /\ pc' \in [Procs -> Ended \cup Alive \cup {"registering", "polling", "aborted"}]
      /\ shard' \in [Procs -> Shards \cup {NoShard}]
    BY <1>1 DEF JoinInv, TypeOK
<1>5. run' \in [Procs -> 0 .. MaxRuns]
    <2>1. run \in [Procs -> 0 .. MaxRuns]
        BY DEF JoinInv, TypeOK
    <2>2. run[p] + 1 \in 0 .. MaxRuns
        BY <1>2, AutoJoinAssumption
    <2> QED BY <1>1, <2>1, <2>2
<1>6. cfg' \in [Procs -> [input_port : Nat, host : Hosts \cup {""},
                          output_address : (Hosts \cup {"", ResultHost}) \X Nat]]
    <2> DEFINE H == Hosts \cup {""}
               A == (Hosts \cup {"", ResultHost}) \X Nat
    <2>1. <<"", 0>> \in A /\ "" \in H
        OBVIOUS
    <2> HIDE DEF A, H
    <2>2. NoConfig \in [input_port : Nat, host : H, output_address : A]
        BY <2>1 DEF NoConfig
    <2> QED BY <1>1, <2>2 DEF JoinInv, TypeOK, A, H
<1>7. TypeOK'
    BY <1>1, <1>3, <1>4, <1>5, <1>6
    DEF JoinInv, TypeOK, coordVars, Coord!TypeOK, Coord!WorkerSlot
<1>9. GrantsMatch'
    <2>1. ASSUME NEW k \in DOMAIN grants
          PROVE  grants[k].run <= run'[grants[k].proc] /\ grants[k] \notin requests'
        <3>1. grants[k] \in Runs /\ grants[k].run <= run[grants[k].proc]
              /\ grants[k] \notin requests
            BY Lists DEF JoinInv, GrantsMatch
        <3>2. grants[k].proc \in Procs /\ grants[k].run \in Nat
            BY <3>1 DEF Runs
        <3>3. grants[k] # new
            BY <3>1, <3>2, <1>2
        <3>4. grants[k].run <= run'[grants[k].proc]
            BY <3>1, <3>2, <1>2, <1>4, <1>5
        <3> QED BY <3>1, <3>3, <3>4, <1>1
    <2>2. ASSUME NEW r \in requests' PROVE r.run <= run'[r.proc]
        <3>1. CASE r \in requests
            <4>0. r \in Runs /\ r.run <= run[r.proc]
                BY <3>1 DEF JoinInv, GrantsMatch, TypeOK
            <4>1. r.proc \in Procs /\ r.run \in Nat /\ r.run <= run[r.proc]
                BY <4>0 DEF Runs
            <4> QED BY <4>1, <1>2, <1>4, <1>5
        <3>2. CASE r = new
            BY <3>2, <1>2, <1>4
        <3> QED BY <1>1, <3>1, <3>2
    <2>3. CP!SlotsInOrder'
        BY <1>1 DEF JoinInv, GrantsMatch, CP!SlotsInOrder, CP!BASE_WORKER_PORT, coordVars
    <2> QED BY <1>1, <2>1, <2>2, <2>3 DEF JoinInv, GrantsMatch, coordVars
<1>10. \A a \in replies : a.proc # p /\ a.proc \in Procs
    BY <1>1, NoAnswer DEF JoinInv, TypeOK, Ended
<1>11. AnswersMatch'
    BY <1>1, <1>4, <1>10 DEF JoinInv, AnswersMatch, GrantedTo, ThisRun, coordVars
<1>12. notifier[p] # "polling"
    BY <1>1 DEF JoinInv, RunMatches, Ended, Alive, Bound
<1>13. ASSUME NEW q \in Procs PROVE RunMatches(q)' /\ ConfigMatches(q)'
    <2>1. CASE q = p
        BY <2>1, <1>1, <1>2, <1>4, <1>12 DEF RunMatches, ConfigMatches, Past, Alive, Bound
    <2>2. CASE q # p
        BY <2>2, <1>1, <1>4 DEF JoinInv, RunMatches, ConfigMatches, ConfigAt, Full,
                                GrantedTo, ThisRun, coordVars
    <2> QED BY <2>1, <2>2
<1>14. ReadyBacked'
    BY <1>1, ReadyRests
<1> QED BY <1>7, <1>9, <1>11, <1>13, <1>14 DEF JoinInv

-----------------------------------------------------------------------------
(* Nobody has joined at first; the stale files are all there is.           *)
LEMMA JoinInitInv == Init => JoinInv
<1> SUFFICES ASSUME Init PROVE JoinInv
    OBVIOUS
<1>1. slots = <<>> /\ nextShard = 0 /\ grants = <<>>
    BY DEF Init, Coord!Init
<1>2. Coord!TypeOK /\ grants \in Seq(Runs)
    BY <1>1 DEF Coord!TypeOK
<1>3. cfg \in [Procs -> [input_port : Nat, host : Hosts \cup {""},
                         output_address : (Hosts \cup {"", ResultHost}) \X Nat]]
    <2> DEFINE H == Hosts \cup {""}
               A == (Hosts \cup {"", ResultHost}) \X Nat
    <2>1. <<"", 0>> \in A /\ "" \in H
        OBVIOUS
    <2> HIDE DEF A, H
    <2>2. NoConfig \in [input_port : Nat, host : H, output_address : A]
        BY <2>1 DEF NoConfig
    <2> QED BY <2>2 DEF Init, A, H
<1>4. restarts \in 0 .. MaxRestarts /\ run \in [Procs -> 0 .. MaxRuns]
    BY AutoJoinAssumption DEF Init
<1>5. TypeOK
    BY <1>2, <1>3, <1>4, AutoJoinAssumption DEF Init, TypeOK, Ended
<1>6. GrantsMatch
    BY <1>1, Constants DEF Init, GrantsMatch, CP!SlotsInOrder
<1>7. \A p \in Procs : RunMatches(p) /\ ConfigMatches(p)
    BY DEF Init, RunMatches, ConfigMatches, Past, Alive, Bound
<1>8. ReadyBacked
    BY <1>1 DEF Init, ReadyBacked
<1> QED BY <1>5, <1>6, <1>7, <1>8 DEF Init, JoinInv, AnswersMatch

(* Every step keeps the invariant.                                         *)
LEMMA JoinNextInv == ASSUME JoinInv, [Next]_vars PROVE JoinInv'
<1>1. ASSUME NEW p \in Procs, JoinSteps(p) PROVE JoinInv'
    BY <1>1, StartKeeps, RegisteredKeeps, PollKeeps, LoadKeeps, WorkerKeeps, NotifierKeeps
    DEF JoinSteps
<1>2. ASSUME NEW p \in Procs, Timers(p) \/ FaultSteps(p) PROVE JoinInv'
    BY <1>2, EndKeeps, NotifierKeeps DEF Timers, FaultSteps
<1>3. CASE UNCHANGED vars
    <2>1. TypeOK'
        BY <1>3 DEF JoinInv, TypeOK, vars, coordVars, procVars, netVars, Coord!TypeOK,
                    Coord!WorkerSlot
    <2>2. GrantsMatch' /\ AnswersMatch'
        BY <1>3 DEF JoinInv, GrantsMatch, CP!SlotsInOrder, CP!BASE_WORKER_PORT, vars,
                    procVars, coordVars, netVars, AnswersMatch, GrantedTo, ThisRun
    <2>3. \A p \in Procs : RunMatches(p)' /\ ConfigMatches(p)'
        BY <1>3 DEF JoinInv, RunMatches, ConfigMatches, ConfigAt, Full, GrantedTo,
                    ThisRun, vars, procVars, coordVars, netVars
    <2>4. ReadyBacked'
        BY <1>3, ReadyRests DEF vars, netVars
    <2> QED BY <2>1, <2>2, <2>3, <2>4 DEF JoinInv
<1> QED BY <1>1, <1>2, <1>3, HandleRegisterKeeps, HandleReadyKeeps, RestartKeeps DEF Next

(* The invariant on which the promises of joining rest.                    *)
THEOREM JoinInvariance == Spec => []JoinInv
    BY JoinInitInv, JoinNextInv, PTL DEF Spec

(* The state of auto_join, of the coordinator and of the calls between     *)
(* them has its type, for every number of shards, devices and runs.        *)
THEOREM JoinTypeCorrect == Spec => []TypeOK
<1>1. JoinInv => TypeOK
    BY DEF JoinInv
<1> QED BY <1>1, JoinInvariance, PTL

(* ShardExclusive: register() never gives one shard to two runs that both  *)
(* go on, though requests outlive their callers and devices join again.    *)
THEOREM ShardExclusiveHolds == Spec => []ShardExclusive
<1>1. JoinInv => ShardExclusive
    <2> SUFFICES ASSUME JoinInv, restarts = 0, NEW p \in Procs, NEW q \in Procs,
                        p # q, Holds(p), Holds(q), shard[p] = shard[q]
                 PROVE  FALSE
        BY DEF ShardExclusive
    <2>1. \A r \in Procs : Holds(r) => GrantedTo(shard[r], ThisRun(r))
        BY DEF JoinInv, TypeOK, RunMatches, Holds, Past
    <2>2. ThisRun(p) = ThisRun(q)
        BY <2>1 DEF GrantedTo
    <2> QED BY <2>2 DEF ThisRun
<1> QED BY <1>1, JoinInvariance, PTL

(* WiredToSuccessor: two workers with neighbouring shards agree on the     *)
(* wire between them, though each called get_config() when it got there.   *)
THEOREM WiredToSuccessorHolds == Spec => []WiredToSuccessor
<1>1. JoinInv => WiredToSuccessor
    <2> SUFFICES ASSUME JoinInv, restarts = 0, NEW p \in Procs, NEW q \in Procs,
                        pc[p] \in Alive, pc[q] \in Alive, shard[q] = shard[p] + 1
                 PROVE  cfg[p].output_address = <<HostOf[q], cfg[q].input_port>>
        BY DEF WiredToSuccessor
    <2>1. cfg[p] = ConfigAt(shard[p]) /\ cfg[q] = ConfigAt(shard[q])
        BY DEF JoinInv, ConfigMatches
    <2>2. /\ shard[p] \in Shards /\ shard[q] \in Shards
          /\ GrantedTo(shard[q], ThisRun(q))
        BY DEF JoinInv, RunMatches, Past
    <2>3. shard[p] \in Nat /\ shard[p] < NumShards - 1 /\ shard[q] + 1 = shard[p] + 2
        BY <2>2, Constants
    <2>4. slots[shard[q] + 1].host = HostOf[q]
        BY <2>2, Lists DEF JoinInv, GrantsMatch, GrantedTo, ThisRun
    <2> QED BY <2>1, <2>3, <2>4 DEF ConfigAt
<1> QED BY <1>1, JoinInvariance, PTL

(* ReadyAfterLoad: the coordinator takes a shard for ready only after its  *)
(* device has loaded it, or for a ready file an earlier network left.      *)
THEOREM ReadyAfterLoadHolds == Spec => []ReadyAfterLoad
<1>1. JoinInv => ReadyAfterLoad
    <2> SUFFICES ASSUME JoinInv, restarts = 0, NEW k \in DOMAIN slots, slots[k].ready
                 PROVE  \/ [proc |-> grants[k].proc, run |-> grants[k].run,
                            shard |-> slots[k].shard_idx] \in loaded
                        \/ <<slots[k].host, slots[k].shard_idx>> \in StaleFiles
        BY DEF ReadyAfterLoad, HasLoaded
    <2>1. Backed(k - 1) /\ (k - 1) + 1 = k /\ slots[k].shard_idx = k - 1
        BY Lists DEF JoinInv, ReadyBacked
    <2>2. slots[k].host = HostOf[grants[k].proc]
        BY Lists DEF JoinInv, GrantsMatch
    <2> QED BY <2>1, <2>2 DEF Backed, LoadedFor
<1> QED BY <1>1, JoinInvariance, PTL
===============================================================================
