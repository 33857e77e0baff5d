------------------------ MODULE InferencePipelineProofs ------------------------
(***************************************************************************)
(* What a chain of any length does to the requests, whatever goes down and *)
(* is started again.  Every step of the chain moves one request from the   *)
(* front of a queue to the back of another one (MoveOnce), empties queues  *)
(* (DropOnce) or leaves a queue to the process that was replaced           *)
(* (AsideOnce).  So no request is ever on its way twice, nor once its      *)
(* answer was used, and no more are than the client waits for or gave up   *)
(* on.  Until a process is replaced with results left to send, a move goes *)
(* to the next place of the chain, and the requests stay in order as well  *)
(* (MoveKeeps, DropKeeps).                                                 *)
(***************************************************************************)
EXTENDS InferencePipeline, FiniteSetTheorems, TLAPS

(* All the places there could be, whoever was replaced.                    *)
All == Hops \X Nat

(* Every request is on its way once at most.                               *)
NoCopies ==
    /\ \A x \in All : \A j, k \in DOMAIN Queue(x) : Queue(x)[j] = Queue(x)[k] => j = k
    /\ \A x, y \in All : x # y => Range(Queue(x)) \cap Range(Queue(y)) = {}

(* What is on its way was asked and is not answered.                       *)
Fresh ==
    /\ InFlight \subseteq 1 .. issued /\ Range(answers) \subseteq 1 .. issued
    /\ InFlight \cap Range(answers) = {}

(* Until a request is given up, the one the client waits for is alone.     *)
OnlyLatest ==
    givenUp = 0 => InFlight \subseteq (IF client = "waiting" THEN {issued} ELSE {})

(* A client that asks has tokens left to ask for.                          *)
StepsLeft == client \in {"sending", "waiting"} => step < MaxTokens

(* The order of the places of the chain itself.                            *)
OnChain == UNION {Range(Queue(x)) : x \in Chain}

ChainOrder ==
    /\ \A x \in Chain : \A j, k \in DOMAIN Queue(x) :
         j < k => Queue(x)[j] < Queue(x)[k]
    /\ \A x, y \in Chain : Ahead(x, y) =>
         \A m \in Range(Queue(x)), n \in Range(Queue(y)) : m < n
    /\ \A m \in Range(answers), n \in OnChain : m < n

(* Before anybody was replaced too early, the chain is all there is.       *)
Settled == ~overlapped => ChainOrder /\ \A h \in Hops : lingering[h] = <<>>

Counted == Fresh /\ PileUpBounded /\ OnlyLatest

PipeInv == TypeOK /\ StepsLeft /\ NoCopies /\ Counted /\ Settled

Ordered == TypeOK /\ ChainOrder

-----------------------------------------------------------------------------
(* Sequences of increasing numbers                                         *)

Rising(s) == s \in Seq(Nat) /\ \A j, k \in DOMAIN s : j < k => s[j] < s[k]

(* Short sequences rise.                                                   *)
LEMMA ShortRises ==
    /\ Rising(<<>>) /\ Range(<<>>) = {}
    /\ \A n \in Nat : Rising(<<n>>) /\ Range(<<n>>) = {n} /\ Tail(<<n>>) = <<>>
                      /\ Append(<<>>, n) = <<n>> /\ <<n>> # <<>> /\ Head(<<n>>) = n
BY DEF Rising, Range

(* What is newer than everything in a queue may join it.                   *)
LEMMA AppendRises ==
    ASSUME NEW s, Rising(s), NEW n \in Nat, \A m \in Range(s) : m < n
    PROVE  Rising(Append(s, n)) /\ Range(Append(s, n)) = Range(s) \cup {n}
<1>1. /\ s \in Seq(Nat) /\ Append(s, n) \in Seq(Nat)
      /\ DOMAIN s = 1 .. Len(s) /\ Len(s) \in Nat
      /\ DOMAIN Append(s, n) = 1 .. Len(s) + 1
      /\ \A k \in 1 .. Len(s) : Append(s, n)[k] = s[k]
      /\ Append(s, n)[Len(s) + 1] = n
    BY DEF Rising
<1>2. \A k \in 1 .. Len(s) : s[k] < n
    BY <1>1 DEF Range
<1>3. Rising(Append(s, n))
    BY <1>1, <1>2 DEF Rising
<1>4. Range(Append(s, n)) = Range(s) \cup {n}
    BY <1>1 DEF Range
<1> QED BY <1>3, <1>4

(* What leaves a queue at its front is older than what stays.              *)
LEMMA TailRises ==
    ASSUME NEW s, Rising(s), s # <<>>
    PROVE  /\ Rising(Tail(s)) /\ Head(s) \in Nat
           /\ Range(s) = Range(Tail(s)) \cup {Head(s)}
           /\ \A m \in Range(Tail(s)) : Head(s) < m
<1>1. /\ s \in Seq(Nat) /\ DOMAIN s = 1 .. Len(s) /\ Len(s) \in Nat \ {0}
      /\ Head(s) = s[1] /\ s[1] \in Nat
      /\ Tail(s) \in Seq(Nat) /\ DOMAIN Tail(s) = 1 .. Len(s) - 1
      /\ \A k \in 1 .. Len(s) - 1 : Tail(s)[k] = s[k + 1]
    BY DEF Rising
<1>2. Rising(Tail(s))
    BY <1>1 DEF Rising
<1>3. \A m \in Range(Tail(s)) : Head(s) < m /\ m \in Range(s)
    <2> SUFFICES ASSUME NEW k \in 1 .. Len(s) - 1
                 PROVE  Head(s) < s[k + 1] /\ s[k + 1] \in Range(s)
        BY <1>1 DEF Range
    <2>1. k + 1 \in 1 .. Len(s) /\ 1 \in 1 .. Len(s) /\ 1 < k + 1
        BY <1>1
    <2> QED BY <1>1, <2>1 DEF Rising, Range
<1>4. \A m \in Range(s) : m = Head(s) \/ m \in Range(Tail(s))
    <2> SUFFICES ASSUME NEW k \in 1 .. Len(s), k # 1
                 PROVE  s[k] \in Range(Tail(s))
        BY <1>1 DEF Range
    <2>1. k - 1 \in 1 .. Len(s) - 1 /\ Tail(s)[k - 1] = s[k]
        BY <1>1
    <2> QED BY <1>1, <2>1 DEF Range
<1>5. Head(s) \in Range(s)
    BY <1>1 DEF Range
<1> QED BY <1>1, <1>2, <1>3, <1>4, <1>5

-----------------------------------------------------------------------------
(* Places                                                                  *)

(* Every place holds a queue of numbers, in use or not.                    *)
LEMMA QueueSeq ==
    ASSUME TypeOK
    PROVE  /\ Chain \subseteq All /\ Places \subseteq All
           /\ \A x \in All : Queue(x) \in Seq(Nat) /\ (x \notin Places => Queue(x) = <<>>)
<1>1. Chain \subseteq All
    BY DEF Chain, All
<1>2. ASSUME NEW h \in Hops
      PROVE  /\ lingering[h] \in Seq(Seq(Nat)) /\ Len(lingering[h]) \in Nat
             /\ DOMAIN lingering[h] = 1 .. Len(lingering[h])
             /\ sendq[h] \in Seq(Nat) /\ recvq[h] \in Seq(Nat)
    BY DEF TypeOK
<1>3. Places \subseteq All
    BY <1>2 DEF Places, All
<1>4. ASSUME NEW x \in All
      PROVE  Queue(x) \in Seq(Nat) /\ (x \notin Places => Queue(x) = <<>>)
    <2>1. PICK h \in Hops, c \in Nat : x = <<h, c>>
        BY DEF All
    <2>2. /\ c > 2 /\ c - 2 \in DOMAIN lingering[h] => lingering[h][c - 2] \in Seq(Nat)
          /\ h \in Workers => busy[h] \in Nat
        BY <1>2 DEF TypeOK
    <2>3. x \notin Places => c \notin 0 .. 2 + Len(lingering[h])
        BY <2>1 DEF Places
    <2>4. CASE c > 2
        BY <1>2, <2>1, <2>2, <2>3, <2>4 DEF Queue
    <2>5. CASE c \in {0, 1}
        BY <1>2, <2>1, <2>3, <2>5 DEF Queue
    <2>6. CASE c = 2
        BY <1>2, <2>1, <2>2, <2>3, <2>6 DEF Queue
    <2> QED BY <2>4, <2>5, <2>6
<1> QED BY <1>1, <1>3, <1>4

(* What is on its way is in some place, and nothing else is.               *)
LEMMA InFlightIs == TypeOK => InFlight = UNION {Range(Queue(x)) : x \in All}
<1> SUFFICES ASSUME TypeOK PROVE InFlight = UNION {Range(Queue(x)) : x \in All}
    OBVIOUS
<1>1. \A x \in All : x \notin Places => Range(Queue(x)) = {}
    BY QueueSeq, ShortRises
<1> QED BY <1>1, QueueSeq DEF InFlight

(* So it is after a step.                                                  *)
LEMMA InFlightNext == TypeOK' => InFlight' = UNION {Range(Queue(x)') : x \in All}
<1>1. (TypeOK => InFlight = UNION {Range(Queue(x)) : x \in All})'
    BY InFlightIs, PTL
<1> QED BY <1>1 DEF All

(* The order in words of Rising.                                           *)
LEMMA OrderedIs ==
    ASSUME Ordered
    PROVE  /\ \A x \in Chain : Rising(Queue(x)) /\ \A m \in Range(Queue(x)) :
                m \in Nat /\ m \in OnChain
           /\ \A x, y \in Chain : Ahead(x, y) =>
                \A m \in Range(Queue(x)), n \in Range(Queue(y)) : m < n
           /\ OnChain \subseteq Nat
<1>1. ASSUME NEW x \in Chain PROVE Queue(x) \in Seq(Nat)
    BY QueueSeq DEF Ordered
<1>2. \A x \in Chain : Rising(Queue(x))
    BY <1>1 DEF Ordered, ChainOrder, Rising
<1>3. \A x \in Chain : \A m \in Range(Queue(x)) : m \in Nat
    BY <1>1 DEF Range
<1>4. \A x \in Chain : \A m \in Range(Queue(x)) : m \in OnChain
    BY DEF OnChain
<1> QED BY <1>2, <1>3, <1>4 DEF Ordered, ChainOrder, OnChain

(* The places are in a line.                                               *)
LEMMA InALine ==
    /\ \A x, y \in Chain : x # y => Ahead(x, y) \/ Ahead(y, x)
    /\ \A x, y \in Chain : ~(Ahead(x, y) /\ Ahead(y, x)) /\ ~Ahead(x, x)
    /\ \A h \in Hops, c \in 0 .. 2 : <<h, c>> \in Chain
<1>1. \A x \in Chain : x = <<x[1], x[2]>> /\ x[1] \in Int /\ x[2] \in Int
    BY PipelineAssumption DEF Chain, Hops
<1> QED BY <1>1 DEF Ahead, Chain

(* y is the place behind x.                                                *)
NextPlace(x, y) == Ahead(y, x) /\ \A z \in Chain : Ahead(z, x) => z = y \/ Ahead(z, y)

(* Receive queue behind send queue, worker behind receive queue, send      *)
(* queue of the next hop behind worker.                                    *)
LEMMA NextPlaces ==
    /\ \A h \in Hops : NextPlace(<<h, 0>>, <<h, 1>>) /\ NextPlace(<<h, 1>>, <<h, 2>>)
    /\ \A i \in Workers : NextPlace(<<i, 2>>, <<i + 1, 0>>)
<1>1. \A x \in Chain : x = <<x[1], x[2]>> /\ x[1] \in Int /\ x[2] \in 0 .. 2
    BY PipelineAssumption DEF Chain, Hops
<1>2. Workers \subseteq Int /\ Hops \subseteq Int
    BY PipelineAssumption DEF Workers, Hops
<1> QED BY <1>1, <1>2 DEF NextPlace, Ahead

(* A request goes from the front of a place to the back of the next one.   *)
LEMMA MoveKeeps ==
    ASSUME Ordered, NEW x \in Chain, NEW y \in Chain, NextPlace(x, y),
           Queue(x) # <<>>,
           Queue(x)' = Tail(Queue(x)), Queue(y)' = Append(Queue(y), Head(Queue(x))),
           \A z \in Chain \ {x, y} : Queue(z)' = Queue(z),
           UNCHANGED answers
    PROVE  ChainOrder' /\ OnChain' = OnChain
<1> DEFINE m == Head(Queue(x))
<1>1. /\ Rising(Queue(x)') /\ m \in Nat
      /\ Range(Queue(x)) = Range(Queue(x)') \cup {m}
      /\ \A n \in Range(Queue(x)') : m < n
    BY OrderedIs, TailRises
<1>2. Ahead(y, x) /\ x # y
    BY InALine DEF NextPlace
<1>3. \A n \in Range(Queue(y)) : n < m
    BY <1>1, <1>2, OrderedIs
<1>4. Rising(Queue(y)') /\ Range(Queue(y)') = Range(Queue(y)) \cup {m}
    BY <1>1, <1>3, OrderedIs, AppendRises
<1>5. \A z \in Chain : Rising(Queue(z)')
    BY <1>1, <1>4, OrderedIs
<1>6. OnChain' = OnChain
    <2>1. \A z \in Chain : Range(Queue(z)') \subseteq OnChain
        BY <1>1, <1>4 DEF OnChain
    <2>2. \A z \in Chain : Range(Queue(z)) \subseteq OnChain'
        BY <1>1, <1>4 DEF OnChain
    <2>3. OnChain' = UNION {Range(Queue(z)') : z \in Chain}
        BY DEF OnChain, Chain
    <2> QED BY <2>1, <2>2, <2>3 DEF OnChain
<1>7. ASSUME NEW a \in Chain, NEW b \in Chain, Ahead(a, b),
             NEW k \in Range(Queue(a)'), NEW n \in Range(Queue(b)')
      PROVE  k < n
    <2>1. CASE k \in Range(Queue(a)) /\ n \in Range(Queue(b))
        BY <1>7, <2>1, OrderedIs
    <2>2. CASE a = y /\ k = m
        <3>1. CASE b = x
            BY <1>1, <1>7, <2>2, <3>1
        <3>2. CASE b # x
            <4>1. b # y /\ n \in Range(Queue(b))
                BY <1>7, <2>2, <3>2, InALine
            <4>2. Ahead(x, b)
                BY <1>7, <2>2, <3>2, <4>1, InALine DEF NextPlace
            <4> QED BY <1>1, <2>2, <4>1, <4>2, OrderedIs
        <3> QED BY <3>1, <3>2
    <2>3. CASE b = y /\ n = m
        <3>1. a # x /\ a # y /\ k \in Range(Queue(a))
            BY <1>2, <1>7, <2>3, InALine
        <3>2. Ahead(a, x)
            <4>1. a[1] \in Int /\ a[2] \in Int /\ x[1] \in Int /\ x[2] \in Int
                  /\ y[1] \in Int /\ y[2] \in Int
                BY PipelineAssumption DEF Chain, Hops
            <4> QED BY <1>2, <1>7, <2>3, <4>1 DEF Ahead
        <3> QED BY <1>1, <2>3, <3>1, <3>2, OrderedIs
    <2>4. /\ k \in Range(Queue(a)) \/ (a = y /\ k = m)
          /\ n \in Range(Queue(b)) \/ (b = y /\ n = m)
        BY <1>1, <1>4
    <2> QED BY <2>1, <2>2, <2>3, <2>4
<1>8. ChainOrder'
    <2>1. \A k \in Range(answers'), n \in OnChain' : k < n
        BY <1>6 DEF Ordered, ChainOrder
    <2> QED BY <1>5, <1>7, <2>1 DEF ChainOrder, Rising, Chain, Ahead
<1> QED BY <1>6, <1>8

(* Chain are emptied.                                                     *)
LEMMA DropKeeps ==
    ASSUME Ordered, \A z \in Chain : Queue(z)' = Queue(z) \/ Queue(z)' = <<>>,
           UNCHANGED answers
    PROVE  ChainOrder' /\ OnChain' \subseteq OnChain
<1>1. \A z \in Chain : Rising(Queue(z)') /\ Range(Queue(z)') \subseteq Range(Queue(z))
    BY OrderedIs, ShortRises
<1>2. OnChain' \subseteq OnChain
    BY <1>1 DEF OnChain, Chain
<1>3. \A a, b \in Chain : Ahead(a, b) =>
        \A k \in Range(Queue(a)'), n \in Range(Queue(b)') : k < n
    BY <1>1, OrderedIs
<1>4. \A k \in Range(answers'), n \in OnChain' : k < n
    BY <1>2 DEF Ordered, ChainOrder
<1> QED BY <1>1, <1>2, <1>3, <1>4 DEF ChainOrder, Rising, Chain, Ahead

-----------------------------------------------------------------------------
(* Copies                                                                  *)

Distinct(s) == s \in Seq(Nat) /\ \A j, k \in DOMAIN s : s[j] = s[k] => j = k

(* What is not in a queue may join it.                                     *)
LEMMA AppendDistinct ==
    ASSUME NEW s, Distinct(s), NEW n \in Nat, n \notin Range(s)
    PROVE  Distinct(Append(s, n)) /\ Range(Append(s, n)) = Range(s) \cup {n}
<1>1. /\ s \in Seq(Nat) /\ Append(s, n) \in Seq(Nat)
      /\ DOMAIN s = 1 .. Len(s) /\ Len(s) \in Nat
      /\ DOMAIN Append(s, n) = 1 .. Len(s) + 1
      /\ \A k \in 1 .. Len(s) : Append(s, n)[k] = s[k]
      /\ Append(s, n)[Len(s) + 1] = n
    BY DEF Distinct
<1>2. \A k \in 1 .. Len(s) : s[k] # n
    BY <1>1 DEF Range
<1> QED BY <1>1, <1>2 DEF Distinct, Range

(* What leaves a queue at its front is no longer in it.                    *)
LEMMA TailDistinct ==
    ASSUME NEW s, Distinct(s), s # <<>>
    PROVE  /\ Distinct(Tail(s)) /\ Head(s) \in Nat /\ Head(s) \in Range(s)
           /\ Range(Tail(s)) = Range(s) \ {Head(s)}
<1>1. /\ s \in Seq(Nat) /\ DOMAIN s = 1 .. Len(s) /\ Len(s) \in Nat \ {0}
      /\ Head(s) = s[1] /\ s[1] \in Nat
      /\ Tail(s) \in Seq(Nat) /\ DOMAIN Tail(s) = 1 .. Len(s) - 1
      /\ \A k \in 1 .. Len(s) - 1 : Tail(s)[k] = s[k + 1]
    BY DEF Distinct
<1>2. Distinct(Tail(s))
    <2> SUFFICES ASSUME NEW j \in 1 .. Len(s) - 1, NEW k \in 1 .. Len(s) - 1,
                        s[j + 1] = s[k + 1]
                 PROVE  j = k
        BY <1>1 DEF Distinct
    <2>1. j + 1 \in 1 .. Len(s) /\ k + 1 \in 1 .. Len(s)
        BY <1>1
    <2>2. j + 1 = k + 1
        BY <1>1, <2>1 DEF Distinct
    <2> QED BY <2>2
<1>3. ASSUME NEW k \in 1 .. Len(s) - 1
      PROVE  Tail(s)[k] \in Range(s) /\ Tail(s)[k] # Head(s)
    <2>1. k + 1 \in 1 .. Len(s) /\ 1 \in 1 .. Len(s) /\ k + 1 # 1
        BY <1>1
    <2> QED BY <1>1, <2>1 DEF Distinct, Range
<1>4. ASSUME NEW k \in 1 .. Len(s), s[k] # Head(s) PROVE s[k] \in Range(Tail(s))
    <2>1. k - 1 \in 1 .. Len(s) - 1 /\ Tail(s)[k - 1] = s[k]
        BY <1>1, <1>4
    <2> QED BY <1>1, <2>1 DEF Range
<1>5. Range(s) = {s[k] : k \in 1 .. Len(s)}
      /\ Range(Tail(s)) = {Tail(s)[k] : k \in 1 .. Len(s) - 1}
    BY <1>1 DEF Range
<1>6. Range(Tail(s)) = Range(s) \ {Head(s)}
    BY <1>3, <1>4, <1>5
<1>7. Head(s) \in Range(s)
    BY <1>1 DEF Range
<1> QED BY <1>1, <1>2, <1>6, <1>7

(* NoCopies in words of Distinct.                                          *)
LEMMA OnceIs ==
    ASSUME TypeOK, NoCopies
    PROVE  /\ \A x \in All : Distinct(Queue(x)) /\ Range(Queue(x)) \subseteq InFlight
           /\ \A x, y \in All : x # y => Range(Queue(x)) \cap Range(Queue(y)) = {}
           /\ InFlight = UNION {Range(Queue(x)) : x \in All}
BY QueueSeq, InFlightIs DEF NoCopies, Distinct

(* A request goes from the front of a queue to the back of another one.    *)
LEMMA MoveOnce ==
    ASSUME TypeOK, TypeOK', NoCopies, NEW x \in All, NEW y \in All, x # y,
           Queue(x) # <<>>,
           Queue(x)' = Tail(Queue(x)), Queue(y)' = Append(Queue(y), Head(Queue(x))),
           \A z \in All \ {x, y} : Queue(z)' = Queue(z)
    PROVE  NoCopies' /\ InFlight' = InFlight
<1> DEFINE m == Head(Queue(x))
<1>1. /\ Distinct(Queue(x)') /\ m \in Nat /\ m \in Range(Queue(x))
      /\ Range(Queue(x)') = Range(Queue(x)) \ {m}
    BY OnceIs, TailDistinct
<1>2. \A z \in All \ {x} : m \notin Range(Queue(z))
    BY <1>1, OnceIs
<1>3. Distinct(Queue(y)') /\ Range(Queue(y)') = Range(Queue(y)) \cup {m}
    BY <1>1, <1>2, OnceIs, AppendDistinct
<1> HIDE DEF m
<1>4. \A z \in All : Distinct(Queue(z)')
    BY <1>1, <1>3, OnceIs
<1>5. ASSUME NEW a \in All, NEW b \in All, a # b
      PROVE  Range(Queue(a)') \cap Range(Queue(b)') = {}
    <2>1. Range(Queue(a)) \cap Range(Queue(b)) = {}
        BY <1>5, OnceIs
    <2>2. ASSUME NEW z \in All
          PROVE  /\ Range(Queue(z)') \subseteq Range(Queue(z)) \cup {m}
                 /\ m \in Range(Queue(z)') <=> z = y
        BY <1>1, <1>2, <1>3
    <2> QED BY <1>5, <2>1, <2>2
<1>6. InFlight' = UNION {Range(Queue(z)') : z \in All}
    BY InFlightNext
<1>7. InFlight' \subseteq InFlight
    <2>1. \A z \in All : Range(Queue(z)) \subseteq InFlight
        BY OnceIs
    <2>2. \A z \in All : Range(Queue(z)') \subseteq InFlight
        BY <1>1, <1>3, <2>1
    <2> QED BY <1>6, <2>2
<1>8. InFlight \subseteq InFlight'
    <2>1. \A z \in All : Range(Queue(z)) \subseteq InFlight'
        BY <1>1, <1>3, <1>6
    <2> QED BY <2>1, OnceIs
<1> QED BY <1>4, <1>5, <1>7, <1>8 DEF NoCopies, Distinct, All

(* Queues are emptied.                                                     *)
LEMMA DropOnce ==
    ASSUME TypeOK, TypeOK', NoCopies,
           \A z \in All : Queue(z)' = Queue(z) \/ Queue(z)' = <<>>
    PROVE  NoCopies' /\ InFlight' \subseteq InFlight
<1>1. \A z \in All : Distinct(Queue(z)') /\ Range(Queue(z)') \subseteq Range(Queue(z))
    <2>1. Distinct(<<>>) /\ Range(<<>>) = {}
        BY ShortRises DEF Distinct, Rising
    <2> QED BY <2>1, OnceIs
<1>2. InFlight' = UNION {Range(Queue(z)') : z \in All}
    BY InFlightNext
<1>3. InFlight' \subseteq InFlight
    BY <1>1, <1>2, OnceIs
<1>4. \A a, b \in All : a # b => Range(Queue(a)') \cap Range(Queue(b)') = {}
    BY <1>1, OnceIs
<1> QED BY <1>1, <1>3, <1>4 DEF NoCopies, Distinct, All

(* A queue is left to the process that was replaced.                       *)
LEMMA AsideOnce ==
    ASSUME TypeOK, TypeOK', NoCopies, NEW x \in All, NEW y \in All, x # y,
           Queue(x)' = <<>>, Queue(y) = <<>>, Queue(y)' = Queue(x),
           \A z \in All \ {x, y} : Queue(z)' = Queue(z)
    PROVE  NoCopies' /\ InFlight' = InFlight
<1>0. Distinct(<<>>) /\ Range(<<>>) = {}
    BY ShortRises DEF Distinct, Rising
<1>1. \A z \in All : Distinct(Queue(z)')
    BY <1>0, OnceIs
<1>2. \A a, b \in All : a # b => Range(Queue(a)') \cap Range(Queue(b)') = {}
    BY <1>0, OnceIs
<1>3. InFlight' = UNION {Range(Queue(z)') : z \in All}
    BY InFlightNext
<1>4. InFlight' \subseteq InFlight
    <2>1. \A z \in All : Range(Queue(z)') \subseteq InFlight
        BY <1>0, OnceIs
    <2> QED BY <1>3, <2>1
<1>5. InFlight \subseteq InFlight'
    <2>1. \A z \in All : Range(Queue(z)) \subseteq InFlight'
        BY <1>0, <1>3
    <2> QED BY <2>1, OnceIs
<1> QED BY <1>1, <1>2, <1>4, <1>5 DEF NoCopies, Distinct, All

(* A new request joins a queue.                                            *)
LEMMA JoinOnce ==
    ASSUME TypeOK, TypeOK', NoCopies, NEW x \in All, NEW n \in Nat, n \notin InFlight,
           Queue(x)' = Append(Queue(x), n),
           \A z \in All \ {x} : Queue(z)' = Queue(z)
    PROVE  NoCopies' /\ InFlight' = InFlight \cup {n}
<1>1. \A z \in All : n \notin Range(Queue(z))
    BY OnceIs
<1>2. Distinct(Queue(x)') /\ Range(Queue(x)') = Range(Queue(x)) \cup {n}
    BY <1>1, OnceIs, AppendDistinct
<1>3. \A z \in All : Distinct(Queue(z)')
    BY <1>2, OnceIs
<1>4. ASSUME NEW a \in All, NEW b \in All, a # b
      PROVE  Range(Queue(a)') \cap Range(Queue(b)') = {}
    <2>1. Range(Queue(a)) \cap Range(Queue(b)) = {}
        BY <1>4, OnceIs
    <2>2. ASSUME NEW z \in All
          PROVE  /\ Range(Queue(z)') \subseteq Range(Queue(z)) \cup {n}
                 /\ n \in Range(Queue(z)') <=> z = x
        BY <1>1, <1>2
    <2> QED BY <1>4, <2>1, <2>2
<1>5. InFlight' = UNION {Range(Queue(z)') : z \in All}
    BY InFlightNext
<1>6. InFlight' \subseteq InFlight \cup {n}
    <2>1. \A z \in All : Range(Queue(z)') \subseteq InFlight \cup {n}
        BY <1>2, OnceIs
    <2> QED BY <1>5, <2>1
<1>7. InFlight \cup {n} \subseteq InFlight'
    <2>1. \A z \in All : Range(Queue(z)) \subseteq InFlight'
        BY <1>2, <1>5
    <2>2. n \in InFlight'
        BY <1>2, <1>5
    <2> QED BY <2>1, <2>2, OnceIs
<1> QED BY <1>3, <1>4, <1>6, <1>7 DEF NoCopies, Distinct, All

(* A request leaves the chain.                                             *)
LEMMA TakeOnce ==
    ASSUME TypeOK, TypeOK', NoCopies, NEW x \in All, Queue(x) # <<>>,
           Queue(x)' = Tail(Queue(x)), \A z \in All \ {x} : Queue(z)' = Queue(z)
    PROVE  /\ NoCopies' /\ Head(Queue(x)) \in Nat /\ Head(Queue(x)) \in InFlight
           /\ InFlight' = InFlight \ {Head(Queue(x))}
<1> DEFINE m == Head(Queue(x))
<1>1. /\ Distinct(Queue(x)') /\ m \in Nat /\ m \in Range(Queue(x))
      /\ Range(Queue(x)') = Range(Queue(x)) \ {m}
    BY OnceIs, TailDistinct
<1>2. \A z \in All \ {x} : m \notin Range(Queue(z))
    BY <1>1, OnceIs
<1> HIDE DEF m
<1>3. \A z \in All : Distinct(Queue(z)') /\ Range(Queue(z)') = Range(Queue(z)) \ {m}
    BY <1>1, <1>2, OnceIs
<1>4. \A a, b \in All : a # b => Range(Queue(a)') \cap Range(Queue(b)') = {}
    BY <1>3, OnceIs
<1>5. InFlight' = UNION {Range(Queue(z)') : z \in All}
    BY InFlightNext
<1>6. InFlight' = InFlight \ {m}
    BY <1>3, <1>5, OnceIs
<1>7. m \in InFlight
    BY <1>1, OnceIs
<1> QED BY <1>1, <1>3, <1>4, <1>6, <1>7 DEF NoCopies, Distinct, All, m

-----------------------------------------------------------------------------
(* The steps                                                               *)

(* A chain has a first hop and a last one, and a hop on either side of     *)
(* every worker.                                                           *)
LEMMA ChainShape ==
    /\ NumWorkers \in Nat \ {0} /\ 0 \in Hops /\ NumWorkers \in Hops
    /\ NumWorkers \notin Workers
    /\ \A i \in Workers : i \in Hops /\ i + 1 \in Hops /\ i \in Int
    /\ \A h \in Hops : /\ h \in Int
                       /\ <<h, 0>> \in Chain /\ <<h, 1>> \in Chain /\ <<h, 2>> \in Chain
<1>1. 0 \in 0 .. 2 /\ 1 \in 0 .. 2 /\ 2 \in 0 .. 2
    OBVIOUS
<1> QED BY <1>1, PipelineAssumption DEF Workers, Hops, Chain

(* A request is a number, and so is what a queue hands over.               *)
LEMMA Handed ==
    /\ <<>> \in Seq(Nat) /\ <<>> \in Seq(Seq(Nat))
    /\ \A s \in Seq(Nat) : s # <<>> => Head(s) \in Nat /\ Tail(s) \in Seq(Nat)
OBVIOUS

(* A queue changes with the part of the state that holds it.               *)
LEMMA Elsewhere ==
    ASSUME NEW z \in All,
           \/ z[2] = 0 /\ sendq'[z[1]] = sendq[z[1]]
           \/ z[2] = 1 /\ recvq'[z[1]] = recvq[z[1]]
           \/ z[2] = 2 /\ (z[1] \in Workers => busy'[z[1]] = busy[z[1]])
           \/ z[2] > 2 /\ lingering'[z[1]] = lingering[z[1]]
    PROVE  Queue(z)' = Queue(z)
<1>1. z[1] \in Hops /\ z[2] \in Nat
    BY DEF All
<1>2. z[2] > 2 => z[2] # 0 /\ z[2] # 1 /\ z[2] # 2
    BY <1>1
<1> QED BY <1>2 DEF Queue

(* Taking the sending end of a hop.                                        *)
LEMMA TakingTyped ==
    ASSUME TypeOK, NEW h \in Hops, TakeSendingEnd(h)
    PROVE  /\ sendq' \in [Hops -> Seq(Nat)] /\ lingering' \in [Hops -> Seq(Seq(Nat))]
           /\ overlapped' \in BOOLEAN
<1>1. sendq[h] \in Seq(Nat) /\ lingering[h] \in Seq(Seq(Nat))
    BY DEF TypeOK
<1>2. Append(lingering[h], sendq[h]) \in Seq(Seq(Nat))
    BY <1>1
<1> QED BY <1>2, Handed DEF TakeSendingEnd, TypeOK, replaced

(* A step of the client leaves the state of its type.                      *)
LEMMA ClientTyped ==
    ASSUME TypeOK, StepsLeft,
           \/ StartSession \/ SendStep \/ RecvToken \/ RecvTimeout
           \/ CloseSockets \/ TermReturns
    PROVE  TypeOK' /\ StepsLeft'
<1>0. MaxTokens \in Nat \ {0} /\ step \in 0 .. MaxTokens
    BY PipelineAssumption DEF TypeOK
<1>1. CASE StartSession
    <2>1. step' \in 0 .. MaxTokens /\ step' < MaxTokens
        BY <1>0, <1>1 DEF StartSession
    <2>2. /\ sendq' \in [Hops -> Seq(Nat)] /\ lingering' \in [Hops -> Seq(Seq(Nat))]
          /\ overlapped' \in BOOLEAN
        BY <1>1, ChainShape, TakingTyped DEF StartSession
    <2> QED BY <1>1, <2>1, <2>2 DEF StartSession, TypeOK, StepsLeft, workerVars, replaced
<1>2. CASE SendStep
    <2>1. sendq' \in [Hops -> Seq(Nat)]
        <3>1. sendq[0] \in Seq(Nat) /\ issued + 1 \in Nat
            BY ChainShape DEF TypeOK
        <3>2. Append(sendq[0], issued + 1) \in Seq(Nat)
            BY <3>1
        <3> QED BY <1>2, <3>2 DEF SendStep, TypeOK
    <2>2. issued' \in Nat
        BY <1>2 DEF SendStep, TypeOK
    <2> QED BY <1>2, <2>1, <2>2 DEF SendStep, TypeOK, StepsLeft, workerVars, replaced
<1>3. CASE RecvToken
    <2>1. step' \in 0 .. MaxTokens /\ (client' = "sending" => step' < MaxTokens)
          /\ client' \in {"sending", "leaving"}
        BY <1>0, <1>3 DEF RecvToken, StepsLeft
    <2>2. recvq[NumWorkers] \in Seq(Nat)
        BY ChainShape DEF TypeOK
    <2>3. answers' \in Seq(Nat) /\ recvq' \in [Hops -> Seq(Nat)]
        <3>1. recvq[NumWorkers] # <<>> /\ Head(recvq[NumWorkers]) \in Nat
              /\ Tail(recvq[NumWorkers]) \in Seq(Nat)
            BY <1>3, <2>2, Handed DEF RecvToken
        <3>2. Append(answers, Head(recvq[NumWorkers])) \in Seq(Nat)
            BY <3>1 DEF TypeOK
        <3> QED BY <1>3, <3>1, <3>2 DEF RecvToken, TypeOK
    <2> QED BY <1>3, <2>1, <2>3 DEF RecvToken, TypeOK, StepsLeft, workerVars, replaced
<1>4. CASE RecvTimeout
    BY <1>4 DEF RecvTimeout, TypeOK, StepsLeft, workerVars, replaced
<1>5. CASE CloseSockets
    <2>1. recvq' \in [Hops -> Seq(Nat)]
        BY <1>5, Handed DEF CloseSockets, TypeOK
    <2> QED BY <1>5, <2>1 DEF CloseSockets, TypeOK, StepsLeft, workerVars, replaced
<1>6. CASE TermReturns
    BY <1>6 DEF TermReturns, TypeOK, StepsLeft, workerVars, replaced
<1> QED BY <1>1, <1>2, <1>3, <1>4, <1>5, <1>6

(* So does a step of a worker or of the sockets.                           *)
LEMMA WorkerTyped ==
    ASSUME TypeOK, StepsLeft,
           \/ \E h \in Hops : Transfer(h)
           \/ \E h \in Hops : \E k \in DOMAIN lingering[h] :
                Linger(h, k) \/ KillReplaced(h, k)
           \/ \E i \in Workers : \/ WorkerRecv(i) \/ WorkerSend(i) \/ Kill(i)
                                 \/ Terminate(i) \/ Exit(i) \/ Restart(i)
    PROVE  TypeOK' /\ StepsLeft'
<1>0. UNCHANGED clientVars
    BY DEF Transfer, WorkerRecv, WorkerSend, Kill, Terminate, Exit, Restart,
           Linger, KillReplaced
<1>1. StepsLeft'
    BY <1>0 DEF clientVars, StepsLeft
<1>2. ASSUME NEW h \in Hops, Transfer(h) PROVE TypeOK'
    <2>1. sendq[h] \in Seq(Nat) /\ recvq[h] \in Seq(Nat) /\ sendq[h] # <<>>
        BY <1>2 DEF Transfer, TypeOK
    <2>2. Tail(sendq[h]) \in Seq(Nat) /\ Append(recvq[h], Head(sendq[h])) \in Seq(Nat)
        BY <2>1, Handed
    <2> QED BY <1>0, <1>2, <2>2 DEF Transfer, TypeOK, clientVars, workerVars, replaced
<1>3. ASSUME NEW i \in Workers, WorkerRecv(i) PROVE TypeOK'
    <2>1. Head(recvq[i]) \in Nat /\ Tail(recvq[i]) \in Seq(Nat)
        BY <1>3, ChainShape, Handed DEF WorkerRecv, TypeOK
    <2> QED BY <1>0, <1>3, <2>1 DEF WorkerRecv, TypeOK, clientVars, replaced
<1>4. ASSUME NEW i \in Workers, WorkerSend(i) PROVE TypeOK'
    <2>1. Append(sendq[i + 1], busy[i]) \in Seq(Nat) /\ Nothing \in Nat
        BY ChainShape DEF TypeOK, Nothing
    <2> QED BY <1>0, <1>4, <2>1 DEF WorkerSend, TypeOK, clientVars, replaced
<1>5. ASSUME NEW i \in Workers, Kill(i) \/ Terminate(i) PROVE TypeOK'
    <2>1. failures' \in 0 .. MaxFailures /\ Nothing \in Nat
        BY <1>5, PipelineAssumption DEF Kill, Terminate, TypeOK, Nothing
    <2>2. /\ worker' \in [Workers -> {"up", "draining", "down"}]
          /\ busy' \in [Workers -> Nat]
        BY <1>5, <2>1 DEF Kill, Terminate, TypeOK
    <2>3. recvq' \in [Hops -> Seq(Nat)] /\ sendq' \in [Hops -> Seq(Nat)]
        <3>1. /\ recvq' = [recvq EXCEPT ![i] = <<>>]
              /\ \/ sendq' = sendq
                 \/ sendq' = [sendq EXCEPT ![i + 1] = <<>>]
            BY <1>5 DEF Kill, Terminate
        <3>2. recvq \in [Hops -> Seq(Nat)] /\ sendq \in [Hops -> Seq(Nat)]
            BY DEF TypeOK
        <3> QED BY <3>1, <3>2, Handed
    <2>4. UNCHANGED replaced
        BY <1>5 DEF Kill, Terminate
    <2> QED BY <1>0, <2>1, <2>2, <2>3, <2>4 DEF TypeOK, clientVars, replaced
<1>6. ASSUME NEW i \in Workers, Exit(i) PROVE TypeOK'
    BY <1>0, <1>6 DEF Exit, TypeOK, clientVars, replaced
<1>7. ASSUME NEW i \in Workers, Restart(i) PROVE TypeOK'
    <2>1. /\ sendq' \in [Hops -> Seq(Nat)] /\ lingering' \in [Hops -> Seq(Seq(Nat))]
          /\ overlapped' \in BOOLEAN
        BY <1>7, ChainShape, TakingTyped DEF Restart
    <2> QED BY <1>0, <1>7, <2>1 DEF Restart, TypeOK, clientVars
<1>8. ASSUME NEW h \in Hops, NEW k \in DOMAIN lingering[h],
             Linger(h, k) \/ KillReplaced(h, k)
      PROVE  TypeOK'
    <2>1. /\ lingering[h] \in Seq(Seq(Nat)) /\ lingering[h][k] \in Seq(Nat)
          /\ recvq[h] \in Seq(Nat) /\ lingering[h][k] # <<>>
        BY <1>8 DEF TypeOK, Linger, KillReplaced
    <2>2. /\ Head(lingering[h][k]) \in Nat /\ Tail(lingering[h][k]) \in Seq(Nat)
          /\ Append(recvq[h], Head(lingering[h][k])) \in Seq(Nat)
        BY <2>1, Handed
    <2>3. \A q \in Seq(Nat) : [lingering[h] EXCEPT ![k] = q] \in Seq(Seq(Nat))
        BY <2>1
    <2>4. CASE Linger(h, k)
        <3>1. /\ lingering' = [lingering EXCEPT ![h] = [lingering[h] EXCEPT ![k] = Tail(lingering[h][k])]]
              /\ recvq' = [recvq EXCEPT ![h] = Append(recvq[h], Head(lingering[h][k]))]
            BY <2>4 DEF Linger
        <3>2. /\ lingering' \in [Hops -> Seq(Seq(Nat))] /\ recvq' \in [Hops -> Seq(Nat)]
            BY <2>2, <2>3, <3>1 DEF TypeOK
        <3> QED BY <1>0, <2>4, <3>2 DEF Linger, TypeOK, clientVars, workerVars
    <2>5. CASE KillReplaced(h, k)
        <3>1. lingering' = [lingering EXCEPT ![h] = [lingering[h] EXCEPT ![k] = <<>>]]
            BY <2>5 DEF KillReplaced
        <3>2. lingering' \in [Hops -> Seq(Seq(Nat))]
            BY <2>3, <3>1, Handed DEF TypeOK
        <3> QED BY <1>0, <2>5, <3>2 DEF KillReplaced, TypeOK, clientVars, workerVars
    <2> QED BY <1>8, <2>4, <2>5
<1> QED BY <1>1, <1>2, <1>3, <1>4, <1>5, <1>6, <1>7, <1>8

(* What is on its way can be counted.                                      *)
LEMMA Countable ==
    ASSUME TypeOK, Fresh
    PROVE  /\ issued \in Nat /\ givenUp \in Nat /\ IsFiniteSet(InFlight)
           /\ Cardinality(InFlight) \in Nat
<1>1. issued \in Nat /\ givenUp \in Nat
    BY DEF TypeOK
<1>2. IsFiniteSet(1 .. issued)
    BY <1>1, FS_Interval
<1> QED BY <1>1, <1>2, FS_Subset, FS_CardinalityType DEF Fresh

(* The counts bear a step after which no more is on its way.               *)
LEMMA CountKeeps ==
    ASSUME TypeOK, Counted, InFlight' \subseteq InFlight,
           UNCHANGED <<answers, issued>>,
           \/ givenUp' = givenUp /\ (client' = "waiting" <=> client = "waiting")
           \/ givenUp' = givenUp + 1 /\ client = "waiting" /\ client' # "waiting"
    PROVE  Counted'
<1>1. Cardinality(InFlight') \in Nat /\ Cardinality(InFlight') <= Cardinality(InFlight)
    BY Countable, FS_Subset, FS_CardinalityType DEF Counted
<1>2. givenUp \in Nat /\ Cardinality(InFlight) \in Nat
    BY Countable DEF Counted
<1>3. PileUpBounded'
    BY <1>1, <1>2 DEF Counted, PileUpBounded
<1>4. OnlyLatest'
    BY <1>2 DEF Counted, OnlyLatest
<1>5. Fresh'
    BY DEF Counted, Fresh
<1> QED BY <1>3, <1>4, <1>5 DEF Counted

(* A request moves on: before anybody was replaced, to the next place.     *)
LEMMA MoveStep ==
    ASSUME PipeInv, TypeOK', StepsLeft', NEW x \in All, NEW y \in All, x # y,
           Queue(x) # <<>>,
           Queue(x)' = Tail(Queue(x)), Queue(y)' = Append(Queue(y), Head(Queue(x))),
           \A z \in All \ {x, y} : Queue(z)' = Queue(z),
           UNCHANGED <<answers, issued, client, givenUp, overlapped>>,
           ~overlapped => /\ x \in Chain /\ y \in Chain /\ NextPlace(x, y)
                          /\ UNCHANGED lingering
    PROVE  PipeInv'
<1>1. NoCopies' /\ InFlight' = InFlight
    BY MoveOnce DEF PipeInv
<1>2. Counted'
    BY <1>1, CountKeeps DEF PipeInv
<1>3. Settled'
    <2> SUFFICES ASSUME ~overlapped PROVE ChainOrder' /\ \A h \in Hops : lingering'[h] = <<>>
        BY DEF Settled
    <2>1. Ordered /\ \A h \in Hops : lingering[h] = <<>>
        BY DEF PipeInv, Settled, Ordered
    <2>2. \A z \in Chain \ {x, y} : Queue(z)' = Queue(z)
        BY QueueSeq DEF PipeInv
    <2> QED BY <2>1, <2>2, MoveKeeps
<1> QED BY <1>1, <1>2, <1>3 DEF PipeInv

(* Queues are emptied, none of them by a process that was replaced unless  *)
(* there are such.                                                         *)
LEMMA DropStep ==
    ASSUME PipeInv, TypeOK', StepsLeft',
           \A z \in All : Queue(z)' = Queue(z) \/ Queue(z)' = <<>>,
           UNCHANGED <<answers, issued, overlapped>>,
           ~overlapped => UNCHANGED lingering,
           \/ givenUp' = givenUp /\ (client' = "waiting" <=> client = "waiting")
           \/ givenUp' = givenUp + 1 /\ client = "waiting" /\ client' # "waiting"
    PROVE  PipeInv'
<1>1. NoCopies' /\ InFlight' \subseteq InFlight
    BY DropOnce DEF PipeInv
<1>2. Counted'
    BY <1>1, CountKeeps DEF PipeInv
<1>3. Settled'
    <2> SUFFICES ASSUME ~overlapped PROVE ChainOrder' /\ \A h \in Hops : lingering'[h] = <<>>
        BY DEF Settled
    <2>1. Ordered /\ \A h \in Hops : lingering[h] = <<>>
        BY DEF PipeInv, Settled, Ordered
    <2>2. \A z \in Chain : Queue(z)' = Queue(z) \/ Queue(z)' = <<>>
        BY QueueSeq DEF PipeInv
    <2> QED BY <2>1, <2>2, DropKeeps
<1> QED BY <1>1, <1>2, <1>3 DEF PipeInv

(* Transfer, WorkerRecv, WorkerSend and Linger move a request on.          *)
LEMMA MovesKeep ==
    ASSUME PipeInv,
           \/ \E h \in Hops : Transfer(h)
           \/ \E i \in Workers : WorkerRecv(i) \/ WorkerSend(i)
           \/ \E h \in Hops : \E k \in DOMAIN lingering[h] : Linger(h, k)
    PROVE  PipeInv'
<1>1. TypeOK' /\ StepsLeft' /\ TypeOK /\ Chain \subseteq All
    BY WorkerTyped, QueueSeq DEF PipeInv
<1>2. UNCHANGED <<answers, issued, client, givenUp, overlapped>>
    BY DEF Transfer, WorkerRecv, WorkerSend, Linger, clientVars, replaced
<1>3. \A z \in All : z = <<z[1], z[2]>> /\ z[1] \in Hops /\ z[2] \in Nat
    BY DEF All
<1>4. \A m \in InFlight : m \in Nat /\ m # Nothing
    BY DEF PipeInv, Counted, Fresh, TypeOK, Nothing
<1>5. ASSUME NEW h \in Hops, Transfer(h) PROVE PipeInv'
    <2> DEFINE x == <<h, 0>>
               y == <<h, 1>>
    <2>1. x \in Chain /\ y \in Chain /\ NextPlace(x, y)
        BY NextPlaces, ChainShape
    <2>10. x # y
        OBVIOUS
    <2>2. Queue(x) = sendq[h] /\ Queue(y) = recvq[h] /\ sendq[h] # <<>>
        BY <1>5 DEF Queue, Transfer
    <2>3. Queue(x)' = Tail(Queue(x)) /\ Queue(y)' = Append(Queue(y), Head(Queue(x)))
        BY <1>1, <1>5, <2>2 DEF Queue, Transfer, TypeOK
    <2>4. \A z \in All \ {x, y} : Queue(z)' = Queue(z)
        <3> SUFFICES ASSUME NEW z \in All, z # x, z # y PROVE Queue(z)' = Queue(z)
            OBVIOUS
        <3>1. /\ z[2] = 0 => sendq'[z[1]] = sendq[z[1]]
              /\ z[2] = 1 => recvq'[z[1]] = recvq[z[1]]
            BY <1>1, <1>3, <1>5 DEF Transfer, TypeOK
        <3>2. UNCHANGED <<busy, lingering>>
            BY <1>5 DEF Transfer, workerVars, replaced
        <3>3. z[2] = 0 \/ z[2] = 1 \/ z[2] = 2 \/ z[2] > 2
            BY <1>3
        <3> QED BY <3>1, <3>2, <3>3, Elsewhere
    <2>5. UNCHANGED lingering
        BY <1>5 DEF Transfer, replaced
    <2> HIDE DEF x, y
    <2> QED BY <1>1, <1>2, <2>1, <2>2, <2>3, <2>4, <2>5, <2>10, MoveStep
<1>6. ASSUME NEW i \in Workers, WorkerRecv(i) PROVE PipeInv'
    <2> DEFINE x == <<i, 1>>
               y == <<i, 2>>
    <2>1. x \in Chain /\ y \in Chain /\ NextPlace(x, y) /\ i \in Hops
        BY NextPlaces, ChainShape
    <2>10. x # y
        OBVIOUS
    <2>2. Queue(x) = recvq[i] /\ Queue(y) = <<>> /\ recvq[i] # <<>>
        BY <1>6 DEF Queue, WorkerRecv
    <2>3. Head(recvq[i]) \in Nat /\ Head(recvq[i]) # Nothing
        <3>1. Distinct(recvq[i]) /\ Range(recvq[i]) \subseteq InFlight
            BY <1>1, <2>1, <2>2, OnceIs DEF PipeInv
        <3> QED BY <1>4, <2>2, <3>1, TailDistinct
    <2>4. Queue(x)' = Tail(Queue(x))
        BY <1>1, <1>6, <2>1, <2>2 DEF Queue, WorkerRecv, TypeOK
    <2>5. busy'[i] = Head(recvq[i])
        BY <1>1, <1>6 DEF WorkerRecv, TypeOK
    <2>6. Queue(y)' = <<Head(recvq[i])>>
        BY <2>3, <2>5 DEF Queue
    <2>7. Queue(y)' = Append(Queue(y), Head(Queue(x)))
        BY <2>2, <2>3, <2>6, ShortRises
    <2>8. \A z \in All \ {x, y} : Queue(z)' = Queue(z)
        <3> SUFFICES ASSUME NEW z \in All, z # x, z # y PROVE Queue(z)' = Queue(z)
            OBVIOUS
        <3>1. /\ z[2] = 1 => recvq'[z[1]] = recvq[z[1]]
              /\ z[2] = 2 => (z[1] \in Workers => busy'[z[1]] = busy[z[1]])
            BY <1>1, <1>3, <1>6, <2>1 DEF WorkerRecv, TypeOK
        <3>2. UNCHANGED <<sendq, lingering>>
            BY <1>6 DEF WorkerRecv, replaced
        <3>3. z[2] = 0 \/ z[2] = 1 \/ z[2] = 2 \/ z[2] > 2
            BY <1>3
        <3> QED BY <3>1, <3>2, <3>3, Elsewhere
    <2>9. UNCHANGED lingering
        BY <1>6 DEF WorkerRecv, replaced
    <2> HIDE DEF x, y
    <2> QED BY <1>1, <1>2, <2>1, <2>2, <2>4, <2>7, <2>8, <2>9, <2>10, MoveStep
<1>7. ASSUME NEW i \in Workers, WorkerSend(i) PROVE PipeInv'
    <2> DEFINE x == <<i, 2>>
               y == <<i + 1, 0>>
    <2>1. x \in Chain /\ y \in Chain /\ NextPlace(x, y) /\ i + 1 \in Hops
        BY NextPlaces, ChainShape
    <2>10. x # y
        OBVIOUS
    <2>2. busy[i] \in Nat /\ busy[i] # Nothing
        BY <1>1, <1>7 DEF WorkerSend, TypeOK
    <2>3. Queue(x) = <<busy[i]>> /\ Queue(y) = sendq[i + 1]
        BY <2>2 DEF Queue
    <2>4. busy'[i] = Nothing /\ sendq'[i + 1] = Append(sendq[i + 1], busy[i])
        BY <1>1, <1>7, <2>1 DEF WorkerSend, TypeOK
    <2>5. Queue(x)' = <<>> /\ Queue(y)' = Append(sendq[i + 1], busy[i])
        BY <2>4 DEF Queue
    <2>6. /\ Queue(x) # <<>> /\ Queue(x)' = Tail(Queue(x))
          /\ Queue(y)' = Append(Queue(y), Head(Queue(x)))
        BY <2>2, <2>3, <2>5, ShortRises
    <2>7. \A z \in All \ {x, y} : Queue(z)' = Queue(z)
        <3> SUFFICES ASSUME NEW z \in All, z # x, z # y PROVE Queue(z)' = Queue(z)
            OBVIOUS
        <3>1. z[2] = 0 => sendq'[z[1]] = sendq[z[1]]
            BY <1>1, <1>3, <1>7 DEF WorkerSend, TypeOK
        <3>2. z[2] = 2 => (z[1] \in Workers => busy'[z[1]] = busy[z[1]])
            BY <1>1, <1>3, <1>7 DEF WorkerSend, TypeOK
        <3>3. UNCHANGED <<recvq, lingering>>
            BY <1>7 DEF WorkerSend, replaced
        <3>4. z[2] = 0 \/ z[2] = 1 \/ z[2] = 2 \/ z[2] > 2
            BY <1>3
        <3> QED BY <3>1, <3>2, <3>3, <3>4, Elsewhere
    <2>8. UNCHANGED lingering
        BY <1>7 DEF WorkerSend, replaced
    <2> HIDE DEF x, y
    <2> QED BY <1>1, <1>2, <2>1, <2>6, <2>7, <2>8, <2>10, MoveStep
<1>8. ASSUME NEW h \in Hops, NEW k \in DOMAIN lingering[h], Linger(h, k) PROVE PipeInv'
    <2> DEFINE x == <<h, k + 2>>
               y == <<h, 1>>
               q == lingering[h][k]
    <2>0. /\ lingering[h] \in Seq(Seq(Nat)) /\ k \in Nat \ {0} /\ q \in Seq(Nat)
          /\ q # <<>>
        <3>1. lingering[h] \in Seq(Seq(Nat)) /\ q # <<>>
            BY <1>1, <1>8 DEF TypeOK, Linger
        <3>2. k \in 1 .. Len(lingering[h]) /\ Len(lingering[h]) \in Nat
            BY <3>1
        <3> QED BY <3>1, <3>2
    <2>1. x \in All /\ y \in All /\ x # y
        BY <2>0 DEF All
    <2>2. overlapped
        BY <2>0 DEF PipeInv, Settled
    <2>3. lingering' = [lingering EXCEPT ![h] = [lingering[h] EXCEPT ![k] = Tail(q)]]
        BY <1>8 DEF Linger
    <2>4. /\ lingering'[h] = [lingering[h] EXCEPT ![k] = Tail(q)]
          /\ \A g \in Hops \ {h} : lingering'[g] = lingering[g]
        BY <1>1, <2>3 DEF TypeOK
    <2>5. /\ DOMAIN lingering'[h] = DOMAIN lingering[h] /\ lingering'[h][k] = Tail(q)
          /\ \A j \in DOMAIN lingering[h] \ {k} : lingering'[h][j] = lingering[h][j]
        BY <2>4
    <2>6. x[1] = h /\ x[2] = k + 2 /\ k + 2 > 2 /\ (k + 2) - 2 = k
        BY <2>0
    <2>7. Queue(x) = q /\ Queue(x)' = Tail(q)
        BY <2>0, <2>5, <2>6 DEF Queue
    <2>8. Queue(y) = recvq[h] /\ Queue(y)' = Append(recvq[h], Head(q))
        BY <1>1, <1>8 DEF Queue, Linger, TypeOK
    <2>9. \A z \in All \ {x, y} : Queue(z)' = Queue(z)
        <3> SUFFICES ASSUME NEW z \in All, z # x, z # y PROVE Queue(z)' = Queue(z)
            OBVIOUS
        <3>1. z[2] = 1 => recvq'[z[1]] = recvq[z[1]]
            BY <1>1, <1>3, <1>8 DEF Linger, TypeOK
        <3>2. UNCHANGED <<sendq, busy>>
            BY <1>8 DEF Linger, workerVars
        <3>3. z[2] = 0 \/ z[2] = 1 \/ z[2] = 2 \/ z[2] > 2
            BY <1>3
        <3>4. CASE z[2] > 2 /\ z[1] # h
            BY <1>3, <2>4, <3>4, Elsewhere
        <3>5. CASE z[2] > 2 /\ z[1] = h
            <4>1. z[2] - 2 # k
                BY <1>3, <2>0, <3>5
            <4>2. z[2] # 0 /\ z[2] # 1 /\ z[2] # 2
                BY <3>5
            <4> QED BY <2>5, <3>5, <4>1, <4>2 DEF Queue
        <3> QED BY <3>1, <3>2, <3>3, <3>4, <3>5, Elsewhere
    <2> HIDE DEF x, y, q
    <2> QED BY <1>1, <1>2, <2>0, <2>1, <2>2, <2>7, <2>8, <2>9, MoveStep
<1> QED BY <1>5, <1>6, <1>7, <1>8

(* What goes down, or closes its sockets, takes its requests with it.      *)
LEMMA DropsKeep ==
    ASSUME PipeInv,
           \/ CloseSockets \/ TermReturns \/ RecvTimeout
           \/ \E i \in Workers : Kill(i) \/ Terminate(i) \/ Exit(i)
           \/ \E h \in Hops : \E k \in DOMAIN lingering[h] : KillReplaced(h, k)
    PROVE  PipeInv'
<1>1. TypeOK' /\ StepsLeft' /\ TypeOK
    BY ClientTyped, WorkerTyped DEF PipeInv
<1>2. UNCHANGED <<answers, issued, overlapped>>
    BY DEF CloseSockets, TermReturns, RecvTimeout, Kill, Terminate, Exit, KillReplaced,
           clientVars, replaced
<1>3. \/ givenUp' = givenUp /\ (client' = "waiting" <=> client = "waiting")
      \/ givenUp' = givenUp + 1 /\ client = "waiting" /\ client' # "waiting"
    BY DEF CloseSockets, TermReturns, RecvTimeout, Kill, Terminate, Exit, KillReplaced,
           clientVars
<1>4. \A z \in All : z[1] \in Hops /\ z[2] \in Nat
    BY DEF All
<1>5. CASE ~\E h \in Hops : \E k \in DOMAIN lingering[h] : KillReplaced(h, k)
    <2>1. /\ \A h \in Hops : /\ sendq'[h] = sendq[h] \/ sendq'[h] = <<>>
                             /\ recvq'[h] = recvq[h] \/ recvq'[h] = <<>>
          /\ \A j \in Workers : busy'[j] = busy[j] \/ busy'[j] = Nothing
        <3>1. CASE CloseSockets \/ TermReturns \/ RecvTimeout
            BY <1>1, <3>1 DEF CloseSockets, TermReturns, RecvTimeout, workerVars, TypeOK
        <3>2. ASSUME NEW i \in Workers, Kill(i) \/ Terminate(i) \/ Exit(i)
              PROVE  /\ \A h \in Hops : /\ sendq'[h] = sendq[h] \/ sendq'[h] = <<>>
                                        /\ recvq'[h] = recvq[h] \/ recvq'[h] = <<>>
                     /\ \A j \in Workers : busy'[j] = busy[j] \/ busy'[j] = Nothing
            BY <1>1, <3>2 DEF Kill, Terminate, Exit, TypeOK
        <3> QED BY <1>5, <3>1, <3>2
    <2>2. UNCHANGED lingering
        BY <1>5 DEF CloseSockets, TermReturns, RecvTimeout, Kill, Terminate, Exit, replaced
    <2>3. ASSUME NEW z \in All PROVE Queue(z)' = Queue(z) \/ Queue(z)' = <<>>
        <3>1. CASE z[2] = 0
            BY <1>4, <2>1, <3>1 DEF Queue
        <3>2. CASE z[2] = 1
            BY <1>4, <2>1, <3>2 DEF Queue
        <3>3. CASE z[2] = 2
            BY <1>4, <2>1, <3>3 DEF Queue
        <3>4. CASE z[2] > 2
            BY <2>2, <3>4, Elsewhere
        <3> QED BY <1>4, <3>1, <3>2, <3>3, <3>4
    <2> QED BY <1>1, <1>2, <1>3, <2>2, <2>3, DropStep
<1>6. ASSUME NEW h \in Hops, NEW k \in DOMAIN lingering[h], KillReplaced(h, k)
      PROVE  PipeInv'
    <2>0. /\ lingering[h] \in Seq(Seq(Nat)) /\ lingering[h] # <<>>
        <3>1. lingering[h] \in Seq(Seq(Nat))
            BY <1>1 DEF TypeOK
        <3>2. k \in 1 .. Len(lingering[h])
            BY <3>1
        <3> QED BY <3>1, <3>2
    <2>1. lingering' = [lingering EXCEPT ![h] = [lingering[h] EXCEPT ![k] = <<>>]]
        BY <1>6 DEF KillReplaced
    <2>2. /\ lingering'[h] = [lingering[h] EXCEPT ![k] = <<>>]
          /\ \A g \in Hops \ {h} : lingering'[g] = lingering[g]
        BY <1>1, <2>1 DEF TypeOK
    <2>3. /\ DOMAIN lingering'[h] = DOMAIN lingering[h] /\ lingering'[h][k] = <<>>
          /\ \A j \in DOMAIN lingering[h] \ {k} : lingering'[h][j] = lingering[h][j]
        BY <2>2
    <2>4. UNCHANGED <<sendq, recvq, busy>>
        BY <1>6 DEF KillReplaced, workerVars
    <2>5. ASSUME NEW z \in All PROVE Queue(z)' = Queue(z) \/ Queue(z)' = <<>>
        <3>1. CASE z[2] \in 0 .. 2
            BY <1>4, <2>4, <3>1, Elsewhere
        <3>2. CASE z[2] > 2 /\ z[1] # h
            BY <1>4, <2>2, <3>2, Elsewhere
        <3>3. CASE z[2] > 2 /\ z[1] = h
            <4>1. z[2] # 0 /\ z[2] # 1 /\ z[2] # 2
                BY <3>3
            <4> QED BY <2>3, <3>3, <4>1 DEF Queue
        <3> QED BY <1>4, <3>1, <3>2, <3>3
    <2>6. overlapped
        BY <2>0 DEF PipeInv, Settled
    <2> QED BY <1>1, <1>2, <1>3, <2>5, <2>6, DropStep
<1> QED BY <1>5, <1>6

(* Who takes a sending end leaves what is in its queue to the one before.  *)
LEMMA TakingKeeps ==
    ASSUME PipeInv, TypeOK', StepsLeft', NEW h \in Hops, TakeSendingEnd(h),
           UNCHANGED <<answers, issued, givenUp, busy, recvq>>,
           client' = "waiting" <=> client = "waiting"
    PROVE  PipeInv'
<1>1. TypeOK /\ \A z \in All : z = <<z[1], z[2]>> /\ z[1] \in Hops /\ z[2] \in Nat
    BY DEF PipeInv, All
<1>2. CASE sendq[h] = <<>>
    <2>1. UNCHANGED <<sendq, lingering, overlapped>>
        BY <1>2 DEF TakeSendingEnd, replaced
    <2>2. \A z \in All : Queue(z)' = Queue(z)
        BY <2>1 DEF Queue
    <2> QED BY <2>1, <2>2, DropStep
<1>3. CASE sendq[h] # <<>>
    <2>0. PICK n \in Nat : n = Len(lingering[h])
        <3>1. lingering[h] \in Seq(Seq(Nat))
            BY <1>1 DEF TypeOK
        <3>2. Len(lingering[h]) \in Nat
            BY <3>1
        <3> QED BY <3>2
    <2> DEFINE x == <<h, 0>>
               y == <<h, n + 3>>
    <2>1. /\ lingering' = [lingering EXCEPT ![h] = Append(lingering[h], sendq[h])]
          /\ sendq' = [sendq EXCEPT ![h] = <<>>] /\ overlapped' = TRUE
        BY <1>3 DEF TakeSendingEnd
    <2>2. lingering[h] \in Seq(Seq(Nat)) /\ n \in Nat /\ DOMAIN lingering[h] = 1 .. n
        BY <1>1, <2>0 DEF TypeOK
    <2>3. /\ lingering'[h] = Append(lingering[h], sendq[h]) /\ sendq'[h] = <<>>
          /\ \A g \in Hops \ {h} : lingering'[g] = lingering[g] /\ sendq'[g] = sendq[g]
        BY <1>1, <2>1 DEF TypeOK
    <2>4. /\ DOMAIN lingering'[h] = 1 .. n + 1 /\ lingering'[h][n + 1] = sendq[h]
          /\ \A k \in 1 .. n : lingering'[h][k] = lingering[h][k]
        <3>1. sendq[h] \in Seq(Nat)
            BY <1>1 DEF TypeOK
        <3> QED BY <2>2, <2>3, <3>1
    <2>5. /\ x[1] = h /\ x[2] = 0 /\ y[1] = h /\ y[2] = n + 3
          /\ (n + 3) - 2 = n + 1 /\ n + 1 \in 1 .. n + 1 /\ n + 1 \notin 1 .. n
          /\ n + 3 # 0 /\ n + 3 # 1 /\ n + 3 # 2
        BY <2>2
    <2>6. x \in All /\ y \in All
        BY <2>2 DEF All
    <2>7. Queue(x) = sendq[h] /\ Queue(x)' = <<>>
        BY <2>3 DEF Queue
    <2>8. Queue(y) = <<>> /\ Queue(y)' = sendq[h]
        BY <2>2, <2>4, <2>5 DEF Queue
    <2>9. \A z \in All \ {x, y} : Queue(z)' = Queue(z)
        <3> SUFFICES ASSUME NEW z \in All, z # x, z # y PROVE Queue(z)' = Queue(z)
            OBVIOUS
        <3>1. CASE z[2] > 2 /\ z[1] = h
            <4>1. z[2] - 2 # n + 1 /\ z[2] - 2 \in Nat
                BY <1>1, <2>2, <3>1
            <4>2. z[2] # 0 /\ z[2] # 1 /\ z[2] # 2
                BY <3>1
            <4>3. z[2] - 2 \in 1 .. n + 1 <=> z[2] - 2 \in 1 .. n
                BY <2>2, <4>1
            <4> QED BY <2>2, <2>4, <3>1, <4>2, <4>3 DEF Queue
        <3>2. CASE z[2] > 2 /\ z[1] # h
            BY <1>1, <2>3, <3>2, Elsewhere
        <3>3. CASE z[2] = 0
            <4>1. z[1] # h
                BY <1>1, <3>3
            <4> QED BY <1>1, <2>3, <3>3, <4>1, Elsewhere
        <3>4. CASE z[2] = 1 \/ z[2] = 2
            BY <3>4, Elsewhere
        <3> QED BY <1>1, <3>1, <3>2, <3>3, <3>4
    <2>10. x # y
        BY <2>5
    <2>11. NoCopies' /\ InFlight' = InFlight
        <3> HIDE DEF x, y
        <3> QED BY <2>6, <2>7, <2>8, <2>9, <2>10, AsideOnce DEF PipeInv
    <2>12. Counted'
        BY <2>11, CountKeeps DEF PipeInv
    <2> QED BY <2>1, <2>11, <2>12 DEF PipeInv, Settled
<1> QED BY <1>2, <1>3

(* StartSession and Restart take a sending end.                            *)
LEMMA StartsKeep ==
    ASSUME PipeInv, StartSession \/ \E i \in Workers : Restart(i)
    PROVE  PipeInv'
<1>1. TypeOK' /\ StepsLeft'
    BY ClientTyped, WorkerTyped DEF PipeInv
<1>2. CASE StartSession
    <2>1. TakeSendingEnd(0) /\ 0 \in Hops
        BY <1>2, ChainShape DEF StartSession
    <2>2. /\ UNCHANGED <<answers, issued, givenUp, busy, recvq>>
          /\ client' # "waiting" /\ client # "waiting"
        BY <1>2 DEF StartSession, workerVars
    <2> QED BY <1>1, <2>1, <2>2, TakingKeeps
<1>3. ASSUME NEW i \in Workers, Restart(i) PROVE PipeInv'
    <2>1. TakeSendingEnd(i + 1) /\ i + 1 \in Hops
        BY <1>3, ChainShape DEF Restart
    <2>2. UNCHANGED <<answers, issued, givenUp, busy, recvq, client>>
        BY <1>3 DEF Restart, clientVars
    <2> QED BY <1>1, <2>1, <2>2, TakingKeeps
<1> QED BY <1>2, <1>3

(* The newest request joins the queue of the client, the last place.       *)
LEMMA SendStepKeeps == ASSUME PipeInv, SendStep PROVE PipeInv'
<1> DEFINE x == <<0, 0>>
<1>1. TypeOK' /\ StepsLeft' /\ TypeOK /\ Chain \subseteq All
    BY ClientTyped, QueueSeq DEF PipeInv
<1>2. /\ issued' = issued + 1 /\ issued \in Nat /\ issued' \in Nat
      /\ UNCHANGED <<answers, givenUp, lingering, overlapped, recvq, busy>>
      /\ client = "sending" /\ client' = "waiting"
    BY <1>1 DEF SendStep, TypeOK, workerVars, replaced
<1>3. x \in Chain /\ \A z \in Chain : ~Ahead(x, z)
    <2>1. \A z \in Chain : z[1] \in 0 .. NumWorkers /\ z[2] \in 0 .. 2
        BY DEF Chain, Hops
    <2>2. x \in Chain /\ x[1] = 0 /\ x[2] = 0
        BY ChainShape
    <2> QED BY <2>1, <2>2, ChainShape DEF Ahead
<1>4. Queue(x) = sendq[0] /\ Queue(x)' = Append(Queue(x), issued')
    BY <1>1, <1>2, ChainShape DEF Queue, SendStep, TypeOK
<1>5. \A z \in All \ {x} : Queue(z)' = Queue(z)
    <2> SUFFICES ASSUME NEW z \in All, z # x PROVE Queue(z)' = Queue(z)
        OBVIOUS
    <2>1. z = <<z[1], z[2]>> /\ z[1] \in Hops /\ z[2] \in Nat
        BY DEF All
    <2>2. z[2] = 0 => sendq'[z[1]] = sendq[z[1]]
        BY <1>1, <2>1 DEF SendStep, TypeOK
    <2>3. z[2] = 0 \/ z[2] = 1 \/ z[2] = 2 \/ z[2] > 2
        BY <2>1
    <2> QED BY <1>2, <2>2, <2>3, Elsewhere
<1> HIDE DEF x
<1>6. \A m \in InFlight \cup Range(answers) : m \in Nat /\ m < issued'
    BY <1>2 DEF PipeInv, Counted, Fresh
<1>7. NoCopies' /\ InFlight' = InFlight \cup {issued'}
    <2>1. issued' \notin InFlight
        BY <1>2, <1>6
    <2> QED BY <1>1, <1>2, <1>3, <1>4, <1>5, <2>1, JoinOnce DEF PipeInv
<1>8. Counted'
    <2>1. /\ IsFiniteSet(InFlight) /\ Cardinality(InFlight) \in Nat /\ givenUp \in Nat
          /\ issued' \notin InFlight
        BY <1>2, <1>6, Countable DEF PipeInv, Counted
    <2>2. Cardinality(InFlight') = Cardinality(InFlight) + 1
        BY <1>7, <2>1, FS_AddElement
    <2>3. Cardinality(InFlight) <= givenUp
        BY <1>2, <2>1 DEF PipeInv, Counted, PileUpBounded
    <2>4. PileUpBounded'
        BY <1>2, <2>1, <2>2, <2>3 DEF PileUpBounded
    <2>5. OnlyLatest'
        BY <1>2, <1>7 DEF PipeInv, Counted, OnlyLatest
    <2>6. Fresh'
        <3>1. issued' \in 1 .. issued' /\ 1 .. issued \subseteq 1 .. issued'
            BY <1>2
        <3>2. issued' \notin Range(answers)
            BY <1>2, <1>6
        <3> QED BY <1>2, <1>7, <3>1, <3>2 DEF PipeInv, Counted, Fresh
    <2> QED BY <2>4, <2>5, <2>6 DEF Counted
<1>9. ASSUME ~overlapped PROVE ChainOrder'
    <2>0. Ordered
        BY <1>9 DEF PipeInv, Settled, Ordered
    <2>1. \A z \in Chain : Range(Queue(z)) \subseteq InFlight
        BY <1>1, OnceIs DEF PipeInv
    <2>2. Rising(Queue(x)') /\ Range(Queue(x)') = Range(Queue(x)) \cup {issued'}
        BY <1>2, <1>3, <1>4, <1>6, <2>0, <2>1, OrderedIs, AppendRises
    <2>3. \A z \in Chain : Rising(Queue(z)')
        BY <1>1, <1>5, <2>0, <2>2, OrderedIs
    <2>4. ASSUME NEW a \in Chain, NEW b \in Chain, Ahead(a, b),
                 NEW k \in Range(Queue(a)'), NEW n \in Range(Queue(b)')
          PROVE  k < n
        <3>1. a # x /\ k \in Range(Queue(a))
            BY <1>1, <1>3, <1>5, <2>4
        <3>2. n \in Range(Queue(b)) \/ n = issued'
            BY <1>1, <1>5, <2>2
        <3> QED BY <1>6, <2>0, <2>1, <2>4, <3>1, <3>2, OrderedIs
    <2>5. OnChain' \subseteq OnChain \cup {issued'}
        <3>1. OnChain' = UNION {Range(Queue(z)') : z \in Chain}
            BY DEF OnChain, Chain
        <3>2. \A z \in Chain : Range(Queue(z)') \subseteq OnChain \cup {issued'}
            BY <1>1, <1>5, <2>2 DEF OnChain
        <3> QED BY <3>1, <3>2
    <2>6. \A k \in Range(answers'), n \in OnChain' : k < n
        BY <1>2, <1>6, <2>0, <2>5 DEF Ordered, ChainOrder
    <2> QED BY <2>3, <2>4, <2>6 DEF ChainOrder, Rising, Chain, Ahead
<1> QED BY <1>1, <1>2, <1>7, <1>8, <1>9 DEF PipeInv, Settled

(* What joined a sequence is in its range.                                 *)
LEMMA AppendRange ==
    ASSUME NEW s \in Seq(Nat), NEW n \in Nat
    PROVE  Range(Append(s, n)) = Range(s) \cup {n}
<1>1. /\ DOMAIN s = 1 .. Len(s) /\ Len(s) \in Nat
      /\ DOMAIN Append(s, n) = 1 .. Len(s) + 1
      /\ \A k \in 1 .. Len(s) : Append(s, n)[k] = s[k]
      /\ Append(s, n)[Len(s) + 1] = n
    OBVIOUS
<1> QED BY <1>1 DEF Range

(* A token is the answer to a request on its way, the one in the last      *)
(* place.                                                                  *)
LEMMA RecvTokenKeeps ==
    ASSUME PipeInv, RecvToken
    PROVE  /\ PipeInv'
           /\ \E m \in InFlight : answers' = Append(answers, m)
<1> DEFINE x == <<NumWorkers, 1>>
           m == Head(recvq[NumWorkers])
<1>1. TypeOK' /\ StepsLeft' /\ TypeOK /\ Chain \subseteq All
    BY ClientTyped, QueueSeq DEF PipeInv
<1>2. /\ answers' = Append(answers, m)
      /\ UNCHANGED <<issued, givenUp, sendq, busy, lingering, overlapped>>
      /\ client = "waiting" /\ client' # "waiting"
    BY DEF RecvToken, workerVars, replaced
<1>3. Queue(x) = recvq[NumWorkers] /\ recvq[NumWorkers] # <<>> /\ x \in Chain
    <2>1. recvq[NumWorkers] # <<>>
        BY DEF RecvToken
    <2>2. Queue(x) = recvq[NumWorkers]
        BY DEF Queue
    <2>3. x \in Chain
        BY ChainShape
    <2> QED BY <2>1, <2>2, <2>3
<1>4. Queue(x)' = Tail(Queue(x))
    BY <1>1, <1>3, ChainShape DEF Queue, RecvToken, TypeOK
<1>5. \A z \in All \ {x} : Queue(z)' = Queue(z)
    <2> SUFFICES ASSUME NEW z \in All, z # x PROVE Queue(z)' = Queue(z)
        OBVIOUS
    <2>1. z = <<z[1], z[2]>> /\ z[1] \in Hops /\ z[2] \in Nat
        BY DEF All
    <2>2. z[2] = 1 => recvq'[z[1]] = recvq[z[1]]
        BY <1>1, <2>1 DEF RecvToken, TypeOK
    <2>3. z[2] = 0 \/ z[2] = 1 \/ z[2] = 2 \/ z[2] > 2
        BY <2>1
    <2> QED BY <1>2, <2>2, <2>3, Elsewhere
<1>6. \A z \in Chain \ {x} : Ahead(x, z) \/ Queue(z) = <<>>
    <2>1. \A z \in Chain : /\ z = <<z[1], z[2]>> /\ z[1] \in 0 .. NumWorkers
                           /\ z[2] \in 0 .. 2
        BY DEF Chain, Hops
    <2>2. x[1] = NumWorkers /\ x[2] = 1
        OBVIOUS
    <2>3. \A z \in Chain \ {x} : Ahead(x, z) \/ (z[1] = NumWorkers /\ z[2] = 2)
        BY <2>1, <2>2, ChainShape DEF Ahead
    <2> QED BY <2>3, ChainShape DEF Queue
<1>7. /\ NoCopies' /\ m \in Nat /\ m \in InFlight /\ InFlight' = InFlight \ {m}
    <2> HIDE DEF x
    <2>1. x \in All /\ Queue(x) # <<>> /\ m = Head(Queue(x))
        BY <1>1, <1>3
    <2> QED BY <1>1, <1>4, <1>5, <2>1, TakeOnce DEF PipeInv
<1>8. m = Head(Queue(x))
    BY <1>3
<1> HIDE DEF x, m
<1>10. Range(answers') = Range(answers) \cup {m}
    BY <1>1, <1>2, <1>7, AppendRange DEF TypeOK
<1>11. Counted'
    <2>1. IsFiniteSet(InFlight) /\ Cardinality(InFlight) \in Nat /\ givenUp \in Nat
        BY Countable DEF PipeInv, Counted
    <2>2. Cardinality(InFlight \ {m}) = Cardinality(InFlight) - 1
        BY <1>7, <2>1, FS_RemoveElement
    <2>3. Cardinality(InFlight) <= givenUp + 1
        BY <1>2 DEF PipeInv, Counted, PileUpBounded
    <2>4. PileUpBounded'
        BY <1>2, <1>7, <2>1, <2>2, <2>3 DEF PileUpBounded
    <2>5. OnlyLatest'
        <3>1. givenUp = 0 => InFlight \subseteq {issued}
            BY <1>2 DEF PipeInv, Counted, OnlyLatest
        <3> QED BY <1>2, <1>7, <3>1 DEF OnlyLatest
    <2>6. Fresh'
        BY <1>2, <1>7, <1>10 DEF PipeInv, Counted, Fresh
    <2> QED BY <2>4, <2>5, <2>6 DEF Counted
<1>12. ASSUME ~overlapped PROVE ChainOrder'
    <2>0. Ordered
        BY <1>12 DEF PipeInv, Settled, Ordered
    <2>1. /\ Rising(Queue(x)') /\ Range(Queue(x)) = Range(Queue(x)') \cup {m}
          /\ m \in Range(Queue(x)) /\ \A j \in Range(Queue(x)') : m < j
        BY <1>3, <1>4, <1>8, <2>0, OrderedIs, TailRises
    <2>2. ASSUME NEW z \in Chain
          PROVE  /\ Rising(Queue(z)')
                 /\ Range(Queue(z)') \subseteq Range(Queue(z))
                 /\ \A j \in Range(Queue(z)') : m < j
        <3>1. CASE z = x
            BY <2>1, <3>1
        <3>2. CASE z # x
            BY <1>1, <1>3, <1>5, <1>6, <2>0, <2>1, <3>2, OrderedIs, ShortRises
        <3> QED BY <3>1, <3>2
    <2>3. OnChain' \subseteq OnChain /\ \A j \in OnChain' : m < j
        <3>1. OnChain' = UNION {Range(Queue(z)') : z \in Chain}
            BY DEF OnChain, Chain
        <3> QED BY <2>2, <3>1 DEF OnChain
    <2>4. \A a, b \in Chain : Ahead(a, b) =>
            \A k \in Range(Queue(a)'), j \in Range(Queue(b)') : k < j
        BY <2>0, <2>2, OrderedIs
    <2>5. \A k \in Range(answers'), j \in OnChain' : k < j
        BY <1>10, <2>0, <2>3 DEF Ordered, ChainOrder
    <2> QED BY <2>2, <2>4, <2>5 DEF ChainOrder, Rising, Chain, Ahead
<1> QED BY <1>1, <1>2, <1>7, <1>11, <1>12 DEF PipeInv, Settled

(* Nothing is on its way at first.                                         *)
LEMMA PipeInitInv == Init => PipeInv
<1> SUFFICES ASSUME Init PROVE PipeInv
    OBVIOUS
<1>1. TypeOK /\ StepsLeft
    <2>1. /\ sendq \in [Hops -> Seq(Nat)] /\ recvq \in [Hops -> Seq(Nat)]
          /\ lingering \in [Hops -> Seq(Seq(Nat))] /\ answers \in Seq(Nat)
        BY Handed DEF Init
    <2>2. busy \in [Workers -> Nat] /\ worker \in [Workers -> {"up", "draining", "down"}]
        BY DEF Init, Nothing
    <2>3. step \in 0 .. MaxTokens /\ failures \in 0 .. MaxFailures
        BY PipelineAssumption DEF Init
    <2>4. StepsLeft
        BY DEF Init, StepsLeft
    <2> QED BY <2>1, <2>2, <2>3, <2>4 DEF Init, TypeOK
<1>2. \A z \in All : Queue(z) = <<>>
    BY DEF Init, Queue, All
<1>3. InFlight = {} /\ OnChain = {} /\ Range(answers) = {}
    BY <1>1, <1>2, ShortRises, QueueSeq, InFlightIs DEF OnChain, Init
<1>4. NoCopies /\ ChainOrder
    BY <1>1, <1>2, <1>3, ShortRises, QueueSeq DEF NoCopies, ChainOrder
<1>5. PileUpBounded
    BY <1>3, FS_EmptySet DEF PileUpBounded, Init
<1>6. OnlyLatest /\ Fresh
    BY <1>3 DEF OnlyLatest, Fresh
<1>7. Settled
    BY <1>4 DEF Settled, Init
<1> QED BY <1>1, <1>4, <1>5, <1>6, <1>7 DEF PipeInv, Counted

(* A stuttering step.                                                      *)
LEMMA StutterKeeps == ASSUME PipeInv, UNCHANGED vars PROVE PipeInv'
<1>1. UNCHANGED <<client, step, issued, answers, givenUp, worker, busy,
                  failures, sendq, recvq, lingering, overlapped>>
    BY DEF vars, clientVars, workerVars, replaced
<1>2. \A z \in All : Queue(z)' = Queue(z)
    BY <1>1 DEF Queue
<1>3. TypeOK' /\ StepsLeft'
    BY <1>1 DEF PipeInv, TypeOK, StepsLeft
<1> QED BY <1>1, <1>2, <1>3, DropStep

(* Every step keeps the invariant.                                         *)
LEMMA PipeNextInv == ASSUME PipeInv, [Next]_vars PROVE PipeInv'
BY MovesKeep, DropsKeep, StartsKeep, SendStepKeeps, RecvTokenKeeps, StutterKeeps DEF Next

-----------------------------------------------------------------------------
(* The invariant on which the promises of the chain rest.                  *)
THEOREM PipeInvariance == Spec => []PipeInv
    BY PipeInitInv, PipeNextInv, PTL DEF Spec

(* The client, the workers and the queues between them have their types,   *)
(* whichever of them stops and starts again.                               *)
THEOREM PipeTypeCorrect == Spec => []TypeOK
<1>1. PipeInv => TypeOK
    BY DEF PipeInv
<1> QED BY <1>1, PipeInvariance, PTL

(* FlowOrdered: PUSH and PULL sockets, workers and their loss and restart  *)
(* do not reorder requests, in a chain of any length, as long as no        *)
(* process is replaced while it still has something to send.               *)
THEOREM FlowOrderedHolds == Spec => []FlowOrdered
<1>1. PipeInv => FlowOrdered
    <2> SUFFICES ASSUME PipeInv, ~overlapped PROVE InOrder
        BY DEF FlowOrdered
    <2>1. ChainOrder /\ TypeOK /\ \A h \in Hops : lingering[h] = <<>>
        BY DEF PipeInv, Settled
    <2>2. Places \subseteq Chain
        BY <2>1 DEF Places, Chain
    <2>3. InFlight \subseteq OnChain
        BY <2>2 DEF InFlight, OnChain
    <2> QED BY <2>1, <2>3 DEF InOrder, ChainOrder
<1> QED BY <1>1, PipeInvariance, PTL

(* PileUpBounded: run_client leaves no more behind in the chain than the   *)
(* requests it gave up on, whatever the high-water marks are and whoever   *)
(* sends beside whom.                                                      *)
THEOREM PileUpBoundedHolds == Spec => []PileUpBounded
<1>1. PipeInv => PileUpBounded
    BY DEF PipeInv, Counted
<1> QED BY <1>1, PipeInvariance, PTL

(* Which step takes an answer, and which.                                  *)
LEMMA Answering ==
    ASSUME PipeInv, [Next]_vars
    PROVE  \/ RecvToken /\ \E m \in InFlight : answers' = Append(answers, m)
           \/ UNCHANGED answers
<1>1. RecvToken => \E m \in InFlight : answers' = Append(answers, m)
    BY RecvTokenKeeps
<1> QED BY <1>1
    DEF Next, StartSession, SendStep, RecvTimeout, CloseSockets, TermReturns, Transfer,
        WorkerRecv, WorkerSend, Kill, Terminate, Exit, Restart, Linger, KillReplaced,
        vars, clientVars

(* AnswersStrictUntilTimeout: the result run_client reads is that of its   *)
(* latest request as long as it has never given one up.                    *)
THEOREM StrictUntilTimeout == Spec => AnswersStrictUntilTimeout
<1>1. ASSUME PipeInv, [Next]_vars, answers' # answers, givenUp = 0
      PROVE  answers' = Append(answers, issued)
    <2>1. RecvToken /\ \E m \in InFlight : answers' = Append(answers, m)
        BY <1>1, Answering
    <2>2. InFlight \subseteq {issued}
        BY <1>1, <2>1 DEF PipeInv, Counted, OnlyLatest, RecvToken
    <2> QED BY <2>1, <2>2
<1> QED BY <1>1, PipeInvariance, PTL DEF Spec, AnswersStrictUntilTimeout

(* AnswersOnce: sessions over a chain of any length, that fails in any way *)
(* and whose processes are replaced at any time, implement the late token  *)
(* service: what is used is an answer to a request that was asked, and no  *)
(* answer is used twice.                                                   *)
THEOREM ServiceRefined == Spec => AnswersOnce
<1>1. Init => Service!TInit
    BY DEF Init, Service!TInit
<1>2. ASSUME PipeInv, [Next]_vars
      PROVE  [Service!Ask \/ Service!AnswerLate \/ Service!GiveUp]_(Service!tvars)
    <2>1. CASE SendStep
        BY <2>1 DEF SendStep, Service!Ask
    <2>2. CASE RecvToken
        <3>1. PICK m \in InFlight : answers' = Append(answers, m)
            BY <1>2, <2>2, RecvTokenKeeps
        <3>2. m \in (1 .. issued) \ Range(answers)
            BY <1>2, <3>1 DEF PipeInv, Counted, Fresh
        <3>3. client = "waiting" /\ client' # "waiting" /\ UNCHANGED issued
            BY <2>2 DEF RecvToken
        <3>4. Service!AnswerLate
            BY <3>1, <3>2, <3>3 DEF Service!AnswerLate, Service!Range, Range
        <3> QED BY <3>4
    <2>3. CASE RecvTimeout
        BY <2>3 DEF RecvTimeout, Service!GiveUp
    <2>4. ASSUME ~SendStep, ~RecvToken, ~RecvTimeout PROVE UNCHANGED Service!tvars
        <3>1. UNCHANGED <<issued, answers>> /\ (client' = "waiting" <=> client = "waiting")
            BY <1>2, <2>4
            DEF Next, StartSession, CloseSockets, TermReturns, Transfer, WorkerRecv,
                WorkerSend, Kill, Terminate, Exit, Restart, Linger, KillReplaced, vars,
                clientVars
        <3> QED BY <3>1 DEF Service!tvars
    <2> QED BY <2>1, <2>2, <2>3, <2>4
<1> QED BY <1>1, <1>2, PipeInvariance, PTL DEF Spec, AnswersOnce, Service!LateSpec
=============================================================================
