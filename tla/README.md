# A TLA+ model of LankaMind

LankaMind runs one GPT-2 style model on several devices: each device holds a
shard of the model's blocks, and a token is computed by sending an activation
through the shards in order. This directory specifies the parts of the program
whose correctness depends on order, timing and failure, checks them with TLC on
small instances, and proves the results that hold for every instance with TLAPS.

    tlc -workers 2 -config JoinSafety.cfg MCAutoJoin      # one run
    tlapm CoordinatorProofs.tla                           # one proof module

`PROJECT.json` lists the runs, the lines of code each definition stands for, the
hazards and the findings. Operators marked *mutant* in a module are broken
variants of the definition that follows them. They are part of no specification;
each shows that one property notices one plausible bug.

## 1. Inventory

| Part | Code | State | Operations | Hard behaviour |
|---|---|---|---|---|
| Network coordinator | `network/coordinator.py` | list of slots, next shard number, ready flags; in memory only | register, get_config, mark_ready, topology | handler threads of a pool; answers fetched at different times; restart forgets everything |
| Joining device | `core/auto_worker.py`, start and end of `core/worker.py` | shard, configuration, ready file, notifier thread | register, poll, load, bind, touch file, report ready | lost and late HTTP calls, retries, stale files, a worker off the main thread |
| Token pipeline | `cli/client.py`, loop of `core/worker.py`, `transport/zmq_transport.py` | queue at each end of each hop, request being computed, step of the session | send step, forward, receive token, time out, close, terminate | late answers, killed workers, full queues, infinite linger |
| Model shards | `core/model_shard.py` | layer range | compute_layer_range, forward | remainders, more shards than blocks |
| Gateway | `orchestrator/{gateway,registry,health_checker,scheduler}.py`, heartbeat and ping threads of `core/worker.py` | registry of workers, miss counters | heartbeat, evict, ping, mark, build_pipeline | four threads on one registry, lock released between the steps of one request |
| Ledger, reputation, verifier | `trust/*.py` | balances, scores, files | reward, debit, record, verify, save, load | saves out of order, half a penalty, corrupt file. Nothing calls them yet |
| Bootstrap node | `network/bootstrap.py` | peers with time to live | register, list, evict | a REP loop that can end up owing a reply; two ways of eviction |
| Keys and encryption | `network/keypair.py`, `transport/secure_transport.py` | key file, CURVE sockets | generate, save, load, get_or_create, bind, connect | several processes on one key file; which hops of a chain can be encrypted at all |
| Launch scripts | `scripts/*.py`, `core/pipeline.py` | PID and ready files, ports | launch, wait, run, stop | launches that overlap, a stop that waits for nobody, stale files, port collisions |
| REST API and command line | `api/server.py`, `cli/main.py` | event loop, result port | complete, chat, status, nodes, health; start, serve, keys | the event loop blocks in run_client; sessions compete for one port |
| mDNS discovery | `network/discovery.py` | announced services | announce, browse | time-limited browsing |
| Stubs | `load_balancer.py`, `quantization.py`, `node.py`, `libp2p_transport.py` | none | none | none |

How the parts interact:

- A device calls the coordinator over HTTP. The coordinator never calls back.
- A worker and its notifier thread share only a file in the temp directory,
  named after the shard.
- Client and workers form a ring of PUSH/PULL sockets. Nothing acknowledges a
  message; a worker does not know whether anyone still wants its result.
- Workers started with a gateway address PUSH heartbeats to it, and it pings them
  on a port of their own. A client asks it for a chain and then uses only the
  port of the first worker.

What makes each part correct:

- *Coordinator*: no shard twice, none skipped; configurations form one chain and
  never contradict each other; `complete` is neither early nor withdrawn.
- *Joining*: no two devices on one shard; a reported shard is loaded and gets
  served; every join is decided; an undisturbed network forms.
- *Pipeline*: requests stay in order and single; a token answers its request;
  a session returns, unless its request waits for a worker that is down or jammed.
- *Shards*: together they are the whole model.
- *Launch*: a launch reports ready only what it loaded, is decided in the end, and
  succeeds when nobody disturbs it; a ready file stands for a live worker.
- *Gateway*: a chain is made of workers that were usable, the fastest of them, and
  is refused only for a real gap; the registry converges to what is true.
- *Keys and encryption*: a worker runs with the pair on file; a chain of encrypted
  workers answers. (It does not, see section 3.)
- *Bootstrap*: a list has the peers of the last minute, no others; every request is
  answered.
- *Trust*: a crash loses no token that was saved, and pays none twice; what was saved
  is found; trust is lost only after many failures.
- *API and command line*: every HTTP request is answered; sessions do not take each
  other's results.

## 2. Modules

| Module | Stands for | State |
|---|---|---|
| `ShardAllocation` | abstract: what allocation promises | owner and readiness of each shard |
| `Coordinator` | `NetworkCoordinator` | `slots`, `nextShard` = `_slots`, `_next_shard` |
| `ShardedForward` | `compute_layer_range`, `forward` over a chain | operations applied so far |
| `Network` | both of them: the network `lankamind start` forms, and one token through it | `local` (the shard of `start`'s thread), `announced`, `dest` (where the activation is sent) |
| `AutoJoin` | `auto_join`, notifier, start and end of `run_worker`; contains `Coordinator` as an instance | program counter, shard, cfg and notifier per process; HTTP requests and replies on their way; ready files |
| `TokenService` | abstract: tokens asked for and answered one at a time | |
| `InferencePipeline` | `run_client`, the worker loop, the sockets | client phase, request per worker, queue of both ends of each hop, what replaced processes have yet to send |
| `Serving` | the REST API and the command line, as callers of `run_client` | event loop, HTTP requests, phase of each session, owner of the result port, state of each worker 0 |
| `SecureLinks` | key file and encrypted sockets | key files, phase and pair per process, hops a request crossed encrypted |
| `Gateway` | registry, health checker, scheduler, gateway threads | entry per worker, the checker's and the client loop's position and locals |
| `Bootstrap` | peer registry, eviction thread, REP loop | `peers`, whether the socket owes a reply, requests that wait |
| `Trust` | ledger, reputation, verifier and their files | balances, scores, what each thread is in the middle of, files, tokens rewarded and saved |
| `Launch` | `launch_workers.py`, `launch_all.py`, `run_demo.py`, `stop_workers.py`, start and end of a worker process | kind and state of each launcher, workers, `readyFiles`, `pidFile` |
| `...Proofs` | theorems about the module of that name; those about `ShardedForward` are in `NetworkProofs` | |
| `ServicesProofs` | theorems about `Serving`, `Bootstrap` and `Launch`, whose definitions have different names | |
| `MCServices` | constants for `Launch` and for `Bootstrap`, and a specification of behaviours of which each is of one of the two | `program` |
| other `MC...` | constants for TLC | |

**Coordinator.** Each method holds the lock throughout, so each is one action.
`get_config` and `topology` change nothing and are operators; the properties are
about their answers. `registered_at` and `model` decide nothing and are left out.

**Network.** The coordinator, the loop of `lankamind start` that waits for
"complete", and one activation that follows the `output_address` each device was
configured with while each applies the blocks `compute_layer_range` gives it. The two
halves meet in `ImplementsForward`: the hops of the network are the steps of
`ShardedForward`, in its order. The worker of `start` itself registers like the others
(`JoinLocal`, once) but takes no part in the hops, since it never enters its loop. With
`--no-first-worker` there is no such worker; the loop then never ends and is not
modelled.

**AutoJoin.** A process is a `lankamind join`, or the LocalWorker thread of
`lankamind start` when it is in `Background`. A POST is put in `requests` and
served by `HandleRegister`, whether or not its caller still waits; an answer is
delivered only to the run that asked. Polling is one action because a poll that
fails changes nothing. `LoadShard` stands for loading, binding and touching the
ready file: nobody sees anything in between but the bind, which `PortTaken`
checks. `signal.signal` has a step of its own (`EnterLoop`), because off the main
thread it raises there. Faults are chosen by `Faults`, files of earlier networks by
`StaleFiles`. `RestartCoordinator` also ends the background workers, which live in
its process.

**InferencePipeline.** A message is the number of its request. The PUSH end of a
hop keeps its queue while the receiver is away (`sendq`), the PULL end loses its
queue with its socket (`recvq`). A worker that terminates in order drains what it
has sent (`ctx.term` with infinite linger); a killed one loses all. The client
closes its sockets and then waits in `ctx.term` as well. By then the port is free: a
replacement may serve beside a worker that drains, and the next session begin beside
one that is in `ctx.term`. What the earlier process has yet to send is then in
`lingering`, both feed the hop, and `overlapped` remembers it. The end-of-text token is
a choice at every step. Only one `run_client` has the result port at a time.

**Serving.** What InferencePipeline leaves out: several callers of `run_client`. A
session is a user's process or a completion of the API; it discovers a worker 0,
binds the result port or fails, sends, waits and leaves as in the code. Of the chain
only worker 0 is there, in replicas that are up, down or blocked in `send()` by what has
piled up behind them, and whether anything is inside; any session that waits may get a
result then. `_discover_chain` may raise something other than the timeout it catches. The loading of the tokeniser and the closing of the
sockets belong to the steps next to them, because only the owner of the port sees
them. A handler that calls the gateway holds the loop until the answer or the timeout.

**SecureLinks.** A process goes through `get_or_create` on its key file: the default
one, which it has in common with the other workers of its user, or that of `--key-file`.
Files can be shared or copied (`Copy`), so one pair may be in use on several machines. A
save truncates the file in one step and fills it in another. A hop works if both
ends use CURVE and the sender has the receiver's key, or if neither uses it. A worker
has no key but its own pair, so that is what it connects with. `lankamind keys` is a
process without sockets that reads, creates or renews the pair.

**Bootstrap.** Time is counted in intervals of the eviction thread. The REP socket
receives, or owes a reply; a request that is not JSON makes it owe one for good. A
request whose handling raises is answered with the error. Clients and what they send
are external.

**Trust.** Every method is one step because it holds its lock, but `verify` is two
(reputation, then ledger), and a save is three: copy under the lock, truncate,
write. Two saves may write into one file, and the longer text may then remain behind
the shorter. `tally` is a history: the tokens rewarded, those that were never lost to a
crash as far as the code promises (`kept`), and how many of them the last save has. Money is counted in rewards of one token, scores in millionths, rounded
down (the constants are written as products, 800 * 1000, for the provers). `Init` includes a reputation file of a worker that failed before.

**Launch.** The files are shared by all launches of a machine because their names
hold nothing but the shard. The launchers differ in what ends them and in when they
remove which files; `kind` selects. The gateway that `launch_all` starts first has no
variable: it binds its ports in daemon threads and its main thread loops
(gateway.py:195-224), so it lives until it is signalled even if the ports are taken.
The poll of the ready files, of the processes and of the clock is one action each. A
worker touches its file (`Load`) and installs its handler (`EnterLoop`) in two steps; a
signal in between kills it and leaves the file. `_cleanup` runs in the handler
(`Signalled`) and again when `ctx.term` returned (`Exit`), which may be after the next
launch began. Only the POSIX branch of `stop_workers.py` is modelled.

**Gateway.** An action is one critical section of the registry's lock, or one
read of a live entry without it: `get_workers` is `ReceiveRequest` (evict),
`ListWorkers`, then a `FilterWorker` per entry, and `build_pipeline` goes on with
`SelectCompatible` and `ChooseWorker`. An entry is fresh or not instead of having a
time. An entry that is evicted while the client loop holds it lives on in
`evicted`. A worker is a worker_id, which a process draws anew at each start, so
it does not come back; its last heartbeat may still be unread when it stops. After a
request that is not JSON the client loop is mute; the other threads go on. A `Deaf`
worker could not bind its ping port, or was sent something other than "ping" there, which
its REP socket owes a reply ever after (core/worker.py:167-169). `answered` is a history:
the workers whose last ping was answered.

## 3. Runs

| Run | Instance | Shows |
|---|---|---|
| `network` | 4 shards, 3 hosts; 0..13 blocks | one chain of routes, stable configurations, `complete`, refinement of `ShardAllocation` and of `ShardedForward`, the chain is the whole model, where a request is served and where it stops |
| `join_safety` | 2 shards, 3 processes on 2 machines, one in the background, a stale ready file, 4 runs, 1 coordinator restart, all faults | exclusive shards, agreed wires, ready after load |
| `join_liveness` | the same devices on their main threads, 3 runs, timeouts, 1 restart | the network forms; every join is decided; what is reported ready is served |
| `pipeline` | 2 workers, 2 tokens a session, 4 requests, 1 failure, high-water mark 1 | order, no duplicates, bounded pile-up, no answer used twice, `run_client` returns unless it is held |
| `serving` | 1 user, 2 completions, 1 probe, 2 replicas of worker 0, 2 tokens | the API answers unless a completion is held; it never refuses because of itself |
| `secure` | 3 workers on 2 key files, `lankamind keys`, copied files, 3 key pairs | keys agree unless two processes met or the file was replaced |
| `services` | either 2 shards, 2 launches of any two kinds, 1 stop, 1 fault, or 2 peers, 2 addresses, 2 clients, 4 intervals to live | launches: meaning of the ready files, launches are decided, undisturbed ones succeed; bootstrap node: exact lists, eviction in time, answers |
| `gateway` | 2 workers for one slot, one that cannot be pinged, requests for any model of width 1 and for one of width 2; miss limit 2, 3 faults, at most 1 of them up to the end of a request | chains, refusals, choice by latency; eviction, marking, recovery, one lost ping |
| `trust` | 1 worker, 2 threads, 2 saves, 1 crash, up to 9 earlier failures | which rewards survive, what a restart finds, how trust is lost |

Some statements name an exception, because the code has one:

- `RequestIsServed` excepts two places where a request stops for good (`Stranded`): in
  front of the worker of `start` itself, which is dead, and at the client when shard 0
  went to another machine. (`start` says "Starting first worker on this machine (shard 0)",
  main.py:121, but the coordinator gives shard 0 to whoever registers first.)
- `ReadyAfterLoad` excepts a ready file an earlier network left, which the notifier takes
  for the new worker's (auto_worker.py:200, in spite of the comment in line 189).
- `ReturnsUnlessHeld` excepts a client whose request worker 0 does not take: because it is
  down, or because it is up and blocked, with every queue full from there to a worker that
  is down, or to the client itself, which collects no results any more. "raise an error if
  no reply in 60 s" (client.py:155) ends the wait for a result, not the one in `ctx.term()`.
  `RequestsAnswered` excepts the completion that holds the event loop meanwhile.
- `FlowOrdered` holds until a process is replaced before its last results have left; from
  then on two senders feed one hop. `AnswersOnce` and `PileUpBounded` hold even so.
- `Conserved` lets a crash take what no undisturbed save had copied.
- `FileMeansWorker` excepts the files of workers that were killed or signalled before they
  had a handler, `KeysAgree` files that two processes fought for, `SavedIsFound` saves that
  overlapped or were cut off, `ChainIsFastest` latencies that moved during the choice.
- `AnsweredUnlessGarbled` excepts requests that are not JSON.

Why the bounds are enough. The coordinator's conflicts need two devices and the boundary
at the last shard; GPT-2 has 12 blocks, and 13 blocks on 4 shards contain each case of
the division (the theorems cover the rest). Joining has a third device so that one is
refused, two on one machine so that ports can collide, and one run more than processes
so that a retry meets its own late reply. In the pipeline the high-water mark of 1 (500
in the code) makes send() block. A worker 0 that is up is jammed by one abandoned
request in each of its three places (receive queue, computing, send queue), so that the
fourth is the one that is held: hence 4 requests. One failure leaves worker 1 down,
draining, or replaced beside a process that drains, which is what order and jams depend
on; two tokens make a session that goes on after an answer. The other way to be held, a
chain full up to the client itself, takes seven requests with two workers and four with
one; the same configuration with `NumWorkers = 1` reaches it. In `serving` two
completions and a user are what it takes to be refused by oneself or by another. Two
workers of one key file and a third with another are every relation between neighbours
of a chain; three pairs are two that collide and one renewal. Two launches overlap or
follow each other in every way, and one stop and one fault meet either. In the gateway
two candidates for a slot is what a choice needs, and MISS_LIMIT is 2 (3 in the code) so
that the counter has a middle value. A fault is a stop, a ping of a running worker that
is lost, or heartbeats that stay away: with three faults a running worker is marked and
meets one more while it recovers. One of them may come up to the end of a request
(`MaxServing`), so that workers stop, age or are marked between the reads of one
request; the health checker marks and heartbeats undo it in every one. `Launch` and
`Bootstrap` share nothing, so the run `services` needs no interleaving of the two: in a
behaviour of one the other does not move. Two clients of the bootstrap node may both
speak for one peer. Trust needs ten failures, which the initial file brings within
reach, and two saves that overlap. Bounds that cap a run: `MaxRuns`, `MaxRestarts`,
`MaxRequests`, `MaxFailures`, `MaxStops`, `MaxFaults`, `MaxServing`, `HWM`, `MaxLayers`,
`MaxShards`, `MaxTokens`, `MaxTurns`, `MaxKeys`, `MaxRewards`, `MaxGood`, `MaxBad`,
`MaxSaves`, `MaxCrashes`, `MaxEarlier`. Runs that check deadlock cannot stop; the others
may, because their bounds run out, a node is shut down, or nobody posts anything any
more.

Three more runs each exhibit a place where the program does not do what it says:

| Run | Statement | What happens |
|---|---|---|
| `join_background` | "Mark a shard as ready (model loaded, inference loop running)" (coordinator.py:163) | the worker thread of `lankamind start` dies in `signal.signal` after it touched the ready file |
| `pipeline_late_answer` | "Wait for the last worker to return next_token_id" (client.py:185) | the answer of an abandoned request is the next session's first token |
| `secure_answer` | "ZMQ CURVE (Curve25519) end-to-end encryption" (README.md:27) | a chain of encrypted workers never answers: the client's result socket is plain, and a worker knows no key but its own |

The run `secure_answer` gives encryption its best case, two workers that share one pair, so
that the hop between them works. Theorem `AnswerNeedsPlainHolds` states the extent for
every chain: no request that crossed an encrypted hop is ever answered.

## 4. Fairness

- *Network*: a device in its loop takes what has arrived on its input socket. `start`'s
  own thread is not in its loop. Nobody has to join or to send.
- *AutoJoin*: weak fairness for each step of a running process, for the
  coordinator's handlers (uvicorn serves what arrives) and for the timers, which
  fire on a caller that goes on waiting (`timeout=10`, `TOPOLOGY_TIMEOUT`). A failed
  or stopped join is started again by its user while runs are left; without that no
  network forms. No fault is owed.
- *InferencePipeline*: weak fairness for the client, for each worker that is up,
  for ZeroMQ's I/O threads, and for the receive timeout. Nobody has to restart a
  worker.
- *Serving*: weak fairness for the event loop, for each session (its receive timeout
  is one of its steps) and for a worker 0 that stays up and is not blocked. Nobody has to
  post, prompt, restart, or unblock a worker.
- *Bootstrap*: weak fairness for the eviction thread, for time, and for the REP loop.
- *Launch*: weak fairness for the launcher's polls, its deadline, its kill after 5 s and
  for the loading of a worker. Nobody need press Ctrl-C or run `stop_workers.py`, and a
  worker may stay in `ctx.term` for ever. The deadline is owed only when nothing is
  loading and not all files are there; otherwise it counts as a fault.
- *Gateway*: weak fairness for the heartbeat of a running worker (every 5 s), for
  the health checker's loop, and for the ageing of an entry whose worker stopped.
  Requests, faults and the metrics thread are not fair. `StoppedForgotten` therefore
  rests on the health checker's own call of `snapshot()`.
- *SecureLinks*, for the run `secure_answer`: the client goes on sending, and the 60 s it
  waits do not always run out before a socket that can deliver has delivered (strong
  fairness of the hops). Its other run, and *Trust*, state safety only.

## 5. Proofs

The proof modules assume what the code enforces: at least one shard (coordinator.py:80),
a shard index below the number of shards in every heartbeat (model_shard.py:101 raises
before a worker sends one), bounds that are natural numbers, finitely many devices, names
of different things that differ. The theorems about Network have one more condition,
given below. Each inductive invariant was also checked by TLC on the instance of the run
that checks the property.

**Coordinator, for any number of shards and any set of hosts.** `TypeOK` alone says
nothing about positions, and `RoutesFormChain` is not inductive: a step could
preserve it with a list in the wrong order that is not complete yet. The invariant
is `Inv == TypeOK /\ SlotsInOrder`: slot k is shard k - 1, its port follows, and the
counter is the length of the list. `RegisterInv` and `MarkReadyInv` show that each
method keeps it. `SlotPosition` turns it into what the readers compute (shard i is
found at position i + 1, exactly when i < Len(slots)), and with it follow

- `SlotsInOrderHolds`, `RoutesFormChainHolds`, `CompleteIsCompleteHolds` (invariants),
- `ConfigStableHolds` (action property: once the list is full only ready flags move),
- `Refinement` (`ShardAllocation`: Register is a Grant, MarkReady a Report or a stutter).

The run `network` checks these properties on four shards. `SlotsInOrder` and the type
invariant are not checked by a run of their own, since the theorem covers every instance.

**ShardedForward, for any number of blocks and shards.** `RangesPartition` is the
arithmetic of `compute_layer_range`: consecutive ranges from 0 to the last block.
`ChainIsWholeModel` follows with an invariant that says how much has been applied in
front of shard i: the embedding and the blocks below `LayerStart(i)`.

**Network, for any number of blocks and hosts.** `NetworkForwards`: the hops are the
steps of `ShardedForward`. The invariant `NetInv` adds to `Inv` where the activation is
sent, to the port of the shard that is next, so that only its device listens there
(`ListenerIsNext`). This needs `PortsFit`: at most 99 shards. With a hundred the last
device listens on the result port of the client, and the theorem is false.
`NetworkIsWholeModel` follows with `ChainIsWholeModel`.

**Serving, for any users, requests and replicas.** `RefusedByUsersOnly` compares two
sessions, the one that is refused and the one that has the port. `PortInv` relates both to
the event loop: a completion in `run_client` has it, and runs, and the owner of the result
port is a session that sends or waits. Two completions would both have the loop.

**SecureLinks, for any chain, key files and number of pairs.** `KeysAgree` is broken by a
save next to an encrypted worker, which no state it speaks of shows; `SaverAlone` excludes
it: on a file that nobody fought for one process saves, and it found no file, and so nobody
runs with a pair from there. `KeysHeld` says that whoever saves or uses a pair has one.
`AnswerNeedsPlain` is not inductive, as it speaks of the last hop alone. `HeldSecured`
carries it along the chain: whoever holds a request that came encrypted is encrypted too.

**Bootstrap, for any peers, clients and time to live.** `ListInv`: an entry is the last
registration of its peer, and a registration that is not stale has an entry.
`ListIsExact` and `ForgottenInTime` follow.

**AutoJoin, for any shards, devices, runs, restarts and faults.** The three safety
properties rest on one invariant, `JoinInv`. Its core is the history `grants`: slot k
was given to the k-th granted run (`GrantsMatch`), and a run is granted once, as its
request is gone then. From there the claims of everybody else are followed back to a
grant: those of an answer on its way (`AnswersMatch`), of a run past its registration or
a notifier that outlives it (`RunMatches`), of a configuration (`ConfigMatches`: it is the
one the coordinator would give now), of a ready file, a report and a ready flag
(`ReadyBacked`). What the last three say of grants holds until the coordinator restarts;
then it hands the same shards out again. `RunsBounded` counts: runs are as many as
their numbers, so the cap on their total keeps every number in its type.

**InferencePipeline, for any length of the chain and any high-water mark.** Every step takes
a request from the front of a queue and puts it at the back of another one (`MoveOnce`),
empties queues (`DropOnce`), or leaves a queue to the process that was replaced
(`AsideOnce`). So no request is on its way twice, nor once its answer was used (`NoCopies`,
`Fresh`), whoever sends beside whom: from this follow `PileUpBounded`, the refinement
`ServiceRefined` and, with `OnlyLatest` (until a request is given up there is none but the
one waited for), `StrictUntilTimeout`. The order needs more. As long as nothing is `lingering`
(`Settled`), a move goes to the next place of the chain (`MoveKeeps`; nothing lies in
between, by `NextPlaces`), and so `FlowOrdered` is kept.

**Gateway, for any workers, widths and miss limits.** The client loop holds entries
without the lock, so an invariant has to say what lasts. `HeldSeen`: what is healthy
now, or was when it was evicted, has been seen so during the request. `SteadyHeld`: a worker
that stays registered and healthy is still to be looked at, or kept, or has filled its
slot. `HeldFastest`: what the comparisons so far found is still true unless a latency
moved. `ClientShape` ties the loop's position to its variables. `OneMissForgiven` rests on
`MissInv`: a worker that answered its last ping has no misses counted, so one more does not
reach the limit.

**Launch, for any launches, shards, stops and faults.** `ReadyIsCurrent` is not inductive:
it says nothing of a launch that still waits. `FilesInv` adds that every launch that has
begun has seen all files there are being touched: `StartLaunch` empties the directory, and
whoever touches a file later loads its shard then (`LoadKeeps`). `FileMeansWorker` is
inductive with the types. `SignalledKeeps` shows that whoever a signal ends removes its
file or is counted as an orphan's, which is why the worker that has touched its file but
not installed its handler has a state of its own.

**Trust, for any finite set of workers, any threads, rewards and bounds.** `TrustInv` has
two parts. `ValidInv`: every ledger anywhere, in memory, in a file or in the hands of a
thread that saves it, balances, and every reputation is above the floor of its failures;
so a restart finds a valid store, whatever it finds. `SaverInv`: while
a save of a store that is still `exact` is under way, it is the only one, it holds what
`saved` says, and the file is empty between its truncation and its write, so that the write
is whole. `SavedIsFound` follows. `Conserved` compares the ledger with the tokens rewarded,
which a restart does not reset, and needs both: `KeptInv` adds that the last save has what
`tally` says of it, and that no ledger anywhere has more than was rewarded.
`DistrustTakesTen` needs more than the score after a row
of failures: good checks may lie in between and lower nothing, but what one failure takes
must be bounded for every score. `Floor` lists, in thousandths, what k failures leave at
least: each entry is at most nine tenths of the one before it, rounding included, and the
tenth one is 307, above the threshold of 300.

Types. `TypeCorrect`, `JoinTypeCorrect`, `PipeTypeCorrect`, `GatewayTypeCorrect`,
`LinkTypeCorrect`, `NodeTypeCorrect` and `LaunchTypeCorrect` follow from the invariants
above. `ServingTypeCorrect` needs one more, `TokensInv`: a session that sends or waits has
a token left to ask for, so no answer takes it beyond `MaxTokens`.

The recursion. The balances are summed over a set, and the scores of an earlier file are
`AfterFailures[k]`. The induction theorems of the library take an operator, which the
provers do not accept; that a well-founded order has minimal elements (`WFMin`) they do.
So each induction is a search for the smallest counterexample: `SmallestSubset` over finite
sets, `LeastNat` over numbers. With it `SumsExist` and `FailuresExist` build the function
a recursive definition asks for, `SumIs` and `AfterFailuresIs` show that the definition is
that function, and `SumStep` that the sum of the balances moves with one of them.

Only model-checked: all liveness, as fairness and ENABLED are out of the prover's reach
(`RequestIsServed`, `NetworkForms`, `JoinDecides`, `ReadyLeadsToServing`,
`ReturnsUnlessHeld`, `LaunchDecides`, `LaunchSucceeds`, `StoppedForgotten`, `DeafIsMarked`,
`RunningIsUsable`, `AnsweredUnlessGarbled`, `RequestsAnswered`). Every invariant and every
action property of a passing run has a theorem, and so has every refinement
(`ShardAllocation`, `ShardedForward`, and `TokenService` in its late form).

## 6. Limits

- Time is the order of events. That a ping takes 3 s and a heartbeat comes every
  5 s is not used; a statement that needs those numbers is not made.
- Payloads, tensors, tokeniser, logging and wire formats are abstracted away. Decode
  errors are modelled where a REP loop meets them (Bootstrap and Gateway).
- Two launches of different width, the API process `launch_all.py` starts last and
  the Windows branch of `stop_workers.py` are not modelled.
- The end of the gateway process is not modelled; it keeps nothing. A heartbeat without a
  field, which no worker of the repository sends, would end its heartbeat thread
  (gateway.py:100-109). A worker started with `--worker-id` may come back under its id; the
  model has an id per process, as without that option.
- The branch of `start` with `--no-first-worker`, whose loop never ends, is not modelled.
- The balances of the ledger are floats in the code; their rounding is left out.
- mDNS discovery is not modelled: nothing of it but a URL reaches the rest.
- Ports of wide networks: shard 99 would get the result port (see `PortsFit`), and
  ping ports (input port + 100) meet input ports of networks wider than 100. Ping
  ports are not modelled.

## 7. Plan

1. Ping ports, in the assumption of `NetworkForwards` and in a run of `Gateway`.
