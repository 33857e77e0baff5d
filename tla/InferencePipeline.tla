-------------------------- MODULE InferencePipeline --------------------------
(***************************************************************************)
(* cli/client.py (run_client), core/worker.py (the inference loop and its  *)
(* shutdown) and the ZeroMQ sockets of transport/zmq_transport.py between  *)
(* them.                                                                   *)
(*                                                                         *)
(*   client --hop 0--> worker 0 --hop 1--> ... worker N-1 --hop N--> client *)
(*                                                                         *)
(* Every hop is a PUSH socket that connects to a PULL socket that binds.   *)
(* sendq[h] is the queue of the PUSH end, which its owner keeps while the  *)
(* receiver is away; recvq[h] is the queue of the PULL end, which dies     *)
(* with the socket.  A process that is asked to stop closes its PULL end   *)
(* before it waits, in ctx.term(), for its PUSH end to empty: another one  *)
(* may take its place meanwhile, and two PUSH ends then feed one hop.      *)
(* lingering[h] holds the queues of the earlier ones.  A message is known  *)
(* by the number of its request, in the order the requests were sent (the  *)
(* header's request_id).                                                   *)
(***************************************************************************)
EXTENDS Integers, Sequences, FiniteSets, Functions

CONSTANTS
    NumWorkers,     \* workers of the chain
    MaxTokens,      \* max_new_tokens of a session
    MaxRequests,    \* bound: requests, in any number of runs of run_client
    MaxFailures,    \* bound: workers that go down
    HWM,            \* the high-water mark of a socket (500; the client's: 1000)
    Faults          \* what may happen, a subset of FaultKinds

FaultKinds == {"timeout", "kill", "terminate"}

ASSUME PipelineAssumption ==
    /\ NumWorkers \in Nat \ {0} /\ MaxTokens \in Nat \ {0}
    /\ MaxRequests \in Nat /\ MaxFailures \in Nat
    /\ HWM \in Nat \ {0}
    /\ Faults \subseteq FaultKinds

Workers == 0 .. NumWorkers - 1
Hops == 0 .. NumWorkers
Nothing == 0        \* no request: the numbers start at 1

VARIABLES
    client,     \* where run_client is
    step,       \* step of its generation loop
    issued,     \* requests sent so far, over all sessions
    answers,    \* the requests whose answers were appended, in that order
    worker,     \* worker[i]: "up", "draining" (in ctx.term) or "down"
    busy,       \* busy[i]: the request worker i computes, or Nothing
    sendq, recvq,
    lingering,  \* lingering[h]: what replaced processes have yet to send
    failures,   \* workers that went down so far
    givenUp,    \* history: requests whose answer was no longer waited for
    overlapped  \* history: a process was replaced with results left to send

clientVars == <<client, step, issued, answers, givenUp>>
workerVars == <<worker, busy, failures>>
replaced == <<lingering, overlapped>>
vars == <<clientVars, workerVars, sendq, recvq, replaced>>

TypeOK ==
    /\ client \in {"idle", "sending", "waiting", "leaving", "closing"}
    /\ step \in 0 .. MaxTokens
    /\ issued \in Nat /\ givenUp \in Nat
    /\ answers \in Seq(Nat)
    /\ worker \in [Workers -> {"up", "draining", "down"}]
    /\ busy \in [Workers -> Nat]
    /\ sendq \in [Hops -> Seq(Nat)] /\ recvq \in [Hops -> Seq(Nat)]
    /\ lingering \in [Hops -> Seq(Seq(Nat))]
    /\ failures \in 0 .. MaxFailures
    /\ overlapped \in BOOLEAN

Init ==
    /\ client = "idle" /\ step = 0
    /\ issued = 0 /\ answers = <<>> /\ givenUp = 0
    /\ worker = [i \in Workers |-> "up"]
    /\ busy = [i \in Workers |-> Nothing]
    /\ sendq = [h \in Hops |-> <<>>] /\ recvq = [h \in Hops |-> <<>>]
    /\ lingering = [h \in Hops |-> <<>>] /\ overlapped = FALSE
    /\ failures = 0

(* Another process takes the sending end of hop h: its queue is its own,   *)
(* and what the one before it has yet to send stays with that one.         *)
TakeSendingEnd(h) ==
    \/ sendq[h] = <<>> /\ UNCHANGED <<sendq, replaced>>
    \/ /\ sendq[h] # <<>>
       /\ lingering' = [lingering EXCEPT ![h] = Append(@, sendq[h])]
       /\ sendq' = [sendq EXCEPT ![h] = <<>>]
       /\ overlapped' = TRUE

-----------------------------------------------------------------------------
(* run_client                                                              *)

(* Connect the PUSH to worker 0 and bind the result port: no other         *)
(* run_client has it bound, though one may still be in its ctx.term().     *)
StartSession ==
    /\ client \in {"idle", "closing"}
    /\ issued < MaxRequests
    /\ step' = 0
    /\ client' = "sending"
    /\ TakeSendingEnd(0)
    /\ UNCHANGED <<issued, answers, givenUp, workerVars, recvq>>

(* (mutant: a request may be sent without waiting for the last answer)     *)
SendStepAhead ==
    /\ client = "sending"
    /\ Len(sendq[0]) < HWM
    /\ issued' = issued + 1
    /\ sendq' = [sendq EXCEPT ![0] = Append(@, issued + 1)]
    /\ client' \in {"sending", "waiting"}
    /\ UNCHANGED <<step, answers, givenUp, workerVars, recvq, replaced>>

SendStep ==
    /\ client = "sending"
    /\ Len(sendq[0]) < HWM
    /\ issued' = issued + 1
    /\ sendq' = [sendq EXCEPT ![0] = Append(@, issued + 1)]
    /\ client' = "waiting"
    /\ UNCHANGED <<step, answers, givenUp, workerVars, recvq, replaced>>

(* (mutant: the result that was read stays in the queue)                   *)
RecvTokenPeek ==
    /\ client = "waiting"
    /\ recvq[NumWorkers] # <<>>
    /\ answers' = Append(answers, Head(recvq[NumWorkers]))
    /\ step' = step + 1
    /\ \/ step + 1 < MaxTokens /\ issued < MaxRequests /\ client' = "sending"
       \/ client' = "leaving"
    /\ UNCHANGED <<issued, givenUp, workerVars, sendq, recvq, replaced>>

(* Whatever the result queue holds first is taken for the next token: its  *)
(* request_id is not looked at.  The loop ends with the last step or, at   *)
(* any step, with the end-of-text token.                                   *)
RecvToken ==
    /\ client = "waiting"
    /\ recvq[NumWorkers] # <<>>
    /\ answers' = Append(answers, Head(recvq[NumWorkers]))
    /\ recvq' = [recvq EXCEPT ![NumWorkers] = Tail(@)]
    /\ step' = step + 1
    /\ \/ step + 1 < MaxTokens /\ issued < MaxRequests /\ client' = "sending"
       \/ client' = "leaving"
    /\ UNCHANGED <<issued, givenUp, workerVars, sendq, replaced>>

(* (mutant: the timeout is set once the first result was read)             *)
RecvTimeoutFromSecond ==
    /\ "timeout" \in Faults
    /\ client = "waiting" /\ step > 0
    /\ recvq[NumWorkers] = <<>>
    /\ client' = "leaving"
    /\ givenUp' = givenUp + 1
    /\ UNCHANGED <<step, issued, answers, workerVars, sendq, recvq, replaced>>

(* 60 s without a result: RCVTIMEO, break.                                 *)
RecvTimeout ==
    /\ "timeout" \in Faults
    /\ client = "waiting"
    /\ recvq[NumWorkers] = <<>>
    /\ client' = "leaving"
    /\ givenUp' = givenUp + 1
    /\ UNCHANGED <<step, issued, answers, workerVars, sendq, recvq, replaced>>

(* The finally closes both sockets; a result that came after the timeout   *)
(* goes with the result queue.                                             *)
CloseSockets ==
    /\ client = "leaving"
    /\ client' = "closing"
    /\ recvq' = [recvq EXCEPT ![NumWorkers] = <<>>]
    /\ UNCHANGED <<step, issued, answers, givenUp, workerVars, sendq, replaced>>

(* ctx.term() returns once everything sent has left: LINGER is infinite.   *)
TermReturns ==
    /\ client = "closing"
    /\ sendq[0] = <<>>
    /\ client' = "idle"
    /\ UNCHANGED <<step, issued, answers, givenUp, workerVars, sendq, recvq,
                   replaced>>

-----------------------------------------------------------------------------
(* The sockets                                                             *)

ResultBound == client \in {"sending", "waiting", "leaving"}

ReceiverBound(h) ==
    IF h = NumWorkers THEN ResultBound ELSE worker[h] = "up"

Accepts(h) == ReceiverBound(h) /\ Len(recvq[h]) < HWM

(* (mutant: a message is delivered and kept for another delivery)          *)
TransferAgain(h) ==
    /\ sendq[h] # <<>>
    /\ Accepts(h)
    /\ recvq' = [recvq EXCEPT ![h] = Append(@, Head(sendq[h]))]
    /\ UNCHANGED <<sendq, clientVars, workerVars, replaced>>

Transfer(h) ==
    /\ sendq[h] # <<>>
    /\ Accepts(h)
    /\ recvq' = [recvq EXCEPT ![h] = Append(@, Head(sendq[h]))]
    /\ sendq' = [sendq EXCEPT ![h] = Tail(@)]
    /\ UNCHANGED <<clientVars, workerVars, replaced>>

(* A process that was replaced sends on what it has left; it exits when    *)
(* that is nothing.  The PULL end takes from both in turns.                *)
Linger(h, k) ==
    /\ lingering[h][k] # <<>>
    /\ Accepts(h)
    /\ recvq' = [recvq EXCEPT ![h] = Append(@, Head(lingering[h][k]))]
    /\ lingering' = [lingering EXCEPT ![h][k] = Tail(@)]
    /\ UNCHANGED <<clientVars, workerVars, sendq, overlapped>>

-----------------------------------------------------------------------------
(* run_worker, from the loop on                                            *)

WorkerRecv(i) ==
    /\ worker[i] = "up" /\ busy[i] = Nothing
    /\ recvq[i] # <<>>
    /\ busy' = [busy EXCEPT ![i] = Head(recvq[i])]
    /\ recvq' = [recvq EXCEPT ![i] = Tail(@)]
    /\ UNCHANGED <<clientVars, worker, failures, sendq, replaced>>

(* Compute and send on; send() blocks at the high-water mark.              *)
WorkerSend(i) ==
    /\ worker[i] = "up" /\ busy[i] # Nothing
    /\ Len(sendq[i + 1]) < HWM
    /\ sendq' = [sendq EXCEPT ![i + 1] = Append(@, busy[i])]
    /\ busy' = [busy EXCEPT ![i] = Nothing]
    /\ UNCHANGED <<clientVars, worker, failures, recvq, replaced>>

(* The process dies with its queues and the request it computes.           *)
Kill(i) ==
    /\ "kill" \in Faults
    /\ failures < MaxFailures
    /\ worker[i] # "down"
    /\ worker' = [worker EXCEPT ![i] = "down"]
    /\ busy' = [busy EXCEPT ![i] = Nothing]
    /\ recvq' = [recvq EXCEPT ![i] = <<>>]
    /\ sendq' = [sendq EXCEPT ![i + 1] = <<>>]
    /\ failures' = failures + 1
    /\ UNCHANGED <<clientVars, replaced>>

(* SIGTERM, Ctrl-C or an exception of the loop: the sockets are closed,    *)
(* and ctx.term() keeps the process until its results have left.           *)
Terminate(i) ==
    /\ "terminate" \in Faults
    /\ failures < MaxFailures
    /\ worker[i] = "up"
    /\ worker' = [worker EXCEPT ![i] = "draining"]
    /\ busy' = [busy EXCEPT ![i] = Nothing]
    /\ recvq' = [recvq EXCEPT ![i] = <<>>]
    /\ failures' = failures + 1
    /\ UNCHANGED <<clientVars, sendq, replaced>>

Exit(i) ==
    /\ worker[i] = "draining"
    /\ sendq[i + 1] = <<>>
    /\ worker' = [worker EXCEPT ![i] = "down"]
    /\ UNCHANGED <<clientVars, busy, failures, sendq, recvq, replaced>>

(* Somebody may start the worker again; nothing in the code does.  The     *)
(* port is free even while the one before it drains.                       *)
Restart(i) ==
    /\ worker[i] # "up"
    /\ worker' = [worker EXCEPT ![i] = "up"]
    /\ TakeSendingEnd(i + 1)
    /\ UNCHANGED <<clientVars, busy, failures, recvq>>

(* A worker that drains beside its replacement is killed after all.  It    *)
(* has gone down once already, so this counts as no failure.               *)
KillReplaced(h, k) ==
    /\ "kill" \in Faults
    /\ h > 0 /\ lingering[h][k] # <<>>
    /\ lingering' = [lingering EXCEPT ![h][k] = <<>>]
    /\ UNCHANGED <<clientVars, workerVars, sendq, recvq, overlapped>>

-----------------------------------------------------------------------------
Next ==
    \/ StartSession \/ SendStep \/ RecvToken \/ RecvTimeout
    \/ CloseSockets \/ TermReturns
    \/ \E h \in Hops : Transfer(h)
    \/ \E i \in Workers :
         WorkerRecv(i) \/ WorkerSend(i) \/ Kill(i) \/ Terminate(i)
         \/ Exit(i) \/ Restart(i)
    \/ \E h \in Hops : \E k \in DOMAIN lingering[h] : Linger(h, k) \/ KillReplaced(h, k)

Spec == Init /\ [][Next]_vars

(* The client and every worker that is up keep running, ZeroMQ's I/O       *)
(* threads move what can be moved, and a timer fires on a client that      *)
(* keeps waiting.  Nobody has to restart a worker.                         *)
Fairness ==
    /\ WF_vars(SendStep) /\ WF_vars(RecvToken) /\ WF_vars(RecvTimeout)
    /\ WF_vars(CloseSockets) /\ WF_vars(TermReturns)
    /\ \A h \in Hops :
         /\ WF_vars(Transfer(h))
         /\ WF_vars(\E k \in DOMAIN lingering[h] : Linger(h, k))
    /\ \A i \in Workers :
         /\ WF_vars(WorkerRecv(i)) /\ WF_vars(WorkerSend(i))
         /\ WF_vars(Exit(i))

FairSpec == Spec /\ Fairness

-----------------------------------------------------------------------------
(* Properties                                                              *)

(* The places a message comes to on its way: at every hop h it is in the   *)
(* send queue <<h, 0>>, in the receive queue <<h, 1>> and then with the    *)
(* worker <<h, 2>>; the result queue of the client is the last one.        *)
(* <<h, 3>>, <<h, 4>>, ... are the queues of the replaced processes.       *)
Chain == Hops \X (0 .. 2)
Places == UNION {{h} \X (0 .. 2 + Len(lingering[h])) : h \in Hops}

Queue(x) ==
    CASE x[2] = 0 -> sendq[x[1]]
      [] x[2] = 1 -> recvq[x[1]]
      [] x[2] = 2 -> IF x[1] \in Workers /\ busy[x[1]] # Nothing
                     THEN <<busy[x[1]]>> ELSE <<>>
      [] OTHER -> IF x[2] - 2 \in DOMAIN lingering[x[1]]
                  THEN lingering[x[1]][x[2] - 2] ELSE <<>>

Ahead(x, y) == x[1] > y[1] \/ (x[1] = y[1] /\ x[2] > y[2])

(* The requests on their way.                                              *)
InFlight == UNION {Range(Queue(x)) : x \in Places}

(* The numbers increase along the whole chain towards the client's send    *)
(* queue, all newer than any answer used.                                  *)
InOrder ==
    /\ \A x \in Chain : \A j, k \in DOMAIN Queue(x) :
         j < k => Queue(x)[j] < Queue(x)[k]
    /\ \A x, y \in Chain : Ahead(x, y) =>
         \A m \in Range(Queue(x)), n \in Range(Queue(y)) : m < n
    /\ \A m \in Range(answers), n \in InFlight : m < n

(* Requests overtake each other nowhere, whatever was killed, drained,     *)
(* started again or given up, as long as no process was replaced before    *)
(* its last result had left.  That one case is real: the old process and   *)
(* the new one then send side by side.                                     *)
FlowOrdered == ~overlapped => InOrder

(* Apart from the request the client waits for, only requests it gave up   *)
(* on are on their way.  So, none being there twice, while no timeout      *)
(* fires no queue ever holds two messages, and the high-water mark, at     *)
(* which send() blocks, takes as many abandoned requests to reach.         *)
PileUpBounded ==
    Cardinality(InFlight) <= givenUp + (IF client = "waiting" THEN 1 ELSE 0)

Service == INSTANCE TokenService WITH waiting <- client = "waiting"

(* Tokens are answers to the requests they are taken for.                  *)
AnswersStrictly == Service!StrictSpec

(* So they are until a client gives a request up, whatever the workers do. *)
AnswersStrictUntilTimeout ==
    [][answers' # answers /\ givenUp = 0 => answers' = Append(answers, issued)]_vars

(* Whatever fails, and whoever sends beside whom, every answer used is the *)
(* answer to a request that was asked, and none is used twice.             *)
AnswersOnce == Service!LateSpec

(* Worker i has all it can hold and cannot get rid of any of it.           *)
Jammed(i) ==
    /\ worker[i] = "up" /\ busy[i] # Nothing
    /\ Len(recvq[i]) = HWM /\ Len(sendq[i + 1]) = HWM

(* The client waits for worker 0 to take a request, in ctx.term() or, its  *)
(* own queue full, in send(), and the chain takes none: the first k        *)
(* workers are jammed and the next one is not up, or all of them are and   *)
(* nobody collects the results, least of all the client, which waits.      *)
Held ==
    /\ \/ client = "closing" /\ sendq[0] # <<>>
       \/ client = "sending" /\ Len(sendq[0]) = HWM
    /\ \E k \in Hops :
         /\ \A i \in 0 .. k - 1 : Jammed(i)
         /\ IF k = NumWorkers THEN ~Accepts(k) ELSE worker[k] # "up"

(* "raise an error if no reply in 60 s": whatever fails, run_client        *)
(* returns, unless it is held for good: the timeout ends the wait for a    *)
(* result but not the wait for a request to leave, which lasts until       *)
(* somebody starts the worker again that the chain is jammed up to.        *)
ReturnsUnlessHeld ==
    (client # "idle") ~> (client = "idle" \/ []Held)
=============================================================================
