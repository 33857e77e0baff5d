----------------------------- MODULE TrustProofs -----------------------------
(***************************************************************************)
(* The ledger and the reputations, in memory and on file, for any workers, *)
(* threads, rewards and bounds.  The invariant: whatever a file or a       *)
(* thread holds is the store of one moment, and a store whose last save    *)
(* nobody got in the way of has that save on file or is about to.          *)
(*                                                                         *)
(* Two things are defined by recursion: the sum of the balances, over the  *)
(* set of the workers, and the score after a number of failures.  The      *)
(* library states induction for an operator, which the provers do not      *)
(* take; what it follows from, that a well-founded order has minimal       *)
(* elements, they do: a claim with a counterexample has a smallest one.    *)
(***************************************************************************)
EXTENDS Trust, WellFoundedInduction, FiniteSetTheorems, TLAPS

-----------------------------------------------------------------------------
(* Among subsets of a finite set one is smallest: induction over finite    *)
(* sets, as a least counterexample.                                        *)
LEMMA SmallestSubset ==
    ASSUME NEW S, IsFiniteSet(S), NEW C \in SUBSET SUBSET S, C # {}
    PROVE  \E T \in C : \A U \in C : U \subseteq T => U = T
<1> DEFINE R == StrictSubsetOrdering(S)
<1>1. IsWellFoundedOn(R, SUBSET S)
    BY FS_StrictSubsetOrderingWellFounded, FS_FiniteSubsetsOfFinite
<1>2. \A U, T \in SUBSET S : U \subseteq T /\ U # T => <<U, T>> \in R
    BY DEF StrictSubsetOrdering
<1> HIDE DEF R
<1>3. PICK T \in C : \A U \in C : <<U, T>> \notin R
    BY <1>1, WFMin
<1> QED BY <1>2, <1>3

(* MapThenSumSet takes the elements of a set one by one, in this order.    *)
Some(T) == CHOOSE x \in T : TRUE
Rest(T) == T \ {Some(T)}

(* What is left of a set after its first element is a smaller set.         *)
LEMMA RestIs ==
    ASSUME NEW T, T # {}
    PROVE  Some(T) \in T /\ Rest(T) \subseteq T /\ Rest(T) # T
<1>1. PICK x \in T : TRUE
    OBVIOUS
<1>2. Some(T) \in T
    BY <1>1 DEF Some
<1> QED BY <1>2 DEF Rest

(* h[T] is the sum of f over T, for every subset T of S.                   *)
Sums(h, f, S) ==
    /\ h \in [SUBSET S -> Int]
    /\ \A T \in SUBSET S :
         h[T] = IF T = {} THEN 0 ELSE f[Some(T)] + h[Rest(T)]

(* Two such functions agree on the subsets they share.                     *)
LEMMA SumsUnique ==
    ASSUME NEW S, IsFiniteSet(S), NEW f, NEW g, NEW h, NEW A \in SUBSET S, NEW B \in SUBSET S,
           Sums(g, f, A), Sums(h, f, B)
    PROVE  \A T \in SUBSET (A \cap B) : g[T] = h[T]
<1> DEFINE C == {T \in SUBSET (A \cap B) : g[T] # h[T]}
<1> SUFFICES ASSUME C # {} PROVE FALSE
    OBVIOUS
<1>1. C \in SUBSET SUBSET S
    OBVIOUS
<1>2. PICK T \in C : \A U \in C : U \subseteq T => U = T
    <2> HIDE DEF C
    <2> QED BY <1>1, SmallestSubset
<1>3. T \in SUBSET A /\ T \in SUBSET B /\ g[T] # h[T]
    OBVIOUS
<1>4. CASE T = {}
    BY <1>3, <1>4 DEF Sums
<1>5. CASE T # {}
    <2>1. Rest(T) \in SUBSET (A \cap B) /\ Rest(T) \notin C
        BY <1>2, <1>5, RestIs
    <2>2. g[Rest(T)] = h[Rest(T)]
        BY <2>1
    <2> QED BY <1>3, <1>5, <2>2 DEF Sums
<1> QED BY <1>4, <1>5

(* There is one for every finite set.                                      *)
LEMMA SumsExist ==
    ASSUME NEW S, IsFiniteSet(S), NEW f, \A x \in S : f[x] \in Int
    PROVE  \E h : Sums(h, f, S)
<1> DEFINE C == {T \in SUBSET S : ~ \E h : Sums(h, f, T)}
<1> SUFFICES ASSUME C # {} PROVE FALSE
    OBVIOUS
<1>1. PICK T \in C : \A U \in C : U \subseteq T => U = T
    <2>1. C \in SUBSET SUBSET S
        OBVIOUS
    <2> HIDE DEF C
    <2> QED BY <2>1, SmallestSubset
<1> DEFINE sum(U) == CHOOSE h : Sums(h, f, U)
<1>2. \A U \in SUBSET T : U # T => Sums(sum(U), f, U)
    BY <1>1
<1> DEFINE
        k == [U \in SUBSET T |->
               IF U = {} THEN 0 ELSE f[Some(U)] + sum(Rest(U))[Rest(U)]]
<1>3. ASSUME NEW U \in SUBSET T, U # {}
      PROVE  /\ Rest(U) \in SUBSET T /\ Rest(U) # T
             /\ sum(Rest(U))[Rest(U)] \in Int
             /\ f[Some(U)] \in Int
    <2>1. Rest(U) \in SUBSET T /\ Rest(U) # T /\ Some(U) \in S
        BY <1>3, <1>1, RestIs
    <2>2. Sums(sum(Rest(U)), f, Rest(U))
        BY <1>2, <2>1
    <2> HIDE DEF sum
    <2> QED BY <2>1, <2>2 DEF Sums
<1>4. ASSUME NEW U \in SUBSET T, U # {}
      PROVE  sum(Rest(U))[Rest(U)] = k[Rest(U)]
    <2> DEFINE V == Rest(U)
    <2>1. V \in SUBSET T /\ V # T
        BY <1>3, <1>4
    <2>2. Sums(sum(V), f, V)
        BY <1>2, <2>1
    <2> HIDE DEF sum, V
    <2>3. CASE V = {}
        <3>1. sum(V)[V] = 0
            BY <2>2, <2>3 DEF Sums
        <3> QED BY <2>1, <2>3, <3>1 DEF V
    <2>4. CASE V # {}
        <3>1. sum(V)[V] = f[Some(V)] + sum(V)[Rest(V)]
            BY <2>2, <2>4 DEF Sums
        <3>2. Rest(V) \in SUBSET T /\ Rest(V) # T /\ Rest(V) \in SUBSET V
            BY <2>1, <2>4, RestIs
        <3>3. Sums(sum(Rest(V)), f, Rest(V))
            BY <1>2, <3>2
        <3>4. V \in SUBSET S /\ Rest(V) \in SUBSET S
            BY <1>1, <2>1, <3>2
        <3>5. sum(V)[Rest(V)] = sum(Rest(V))[Rest(V)]
            <4>1. Rest(V) \in SUBSET (V \cap Rest(V))
                BY <3>2
            <4> QED BY <2>2, <3>3, <3>4, <4>1, SumsUnique
        <3>6. k[V] = f[Some(V)] + sum(Rest(V))[Rest(V)]
            BY <2>1, <2>4
        <3> QED BY <3>1, <3>5, <3>6 DEF V
    <2> QED BY <2>3, <2>4
<1>5. k \in [SUBSET T -> Int]
    BY <1>3
<1>6. \A U \in SUBSET T : k[U] = IF U = {} THEN 0 ELSE f[Some(U)] + k[Rest(U)]
    <2> SUFFICES ASSUME NEW U \in SUBSET T
                 PROVE  k[U] = IF U = {} THEN 0 ELSE f[Some(U)] + k[Rest(U)]
        OBVIOUS
    <2>1. k[U] = IF U = {} THEN 0 ELSE f[Some(U)] + sum(Rest(U))[Rest(U)]
        OBVIOUS
    <2> HIDE DEF k, sum
    <2> QED BY <1>4, <2>1
<1> HIDE DEF k
<1>7. Sums(k, f, T)
    BY <1>5, <1>6 DEF Sums
<1> QED BY <1>1, <1>7

(* It is what the sum of the community modules computes.                   *)
LEMMA SumIs ==
    ASSUME NEW S, IsFiniteSet(S), NEW f, NEW h, Sums(h, f, S)
    PROVE  MapThenSumSet(LAMBDA n : f[n], S) = h[S]
<1> DEFINE Def(g) == [T \in SUBSET S |->
                       IF T = {} THEN 0 ELSE f[Some(T)] + g[Rest(T)]]
           iter == CHOOSE g : g = Def(g)
<1>1. MapThenSumSet(LAMBDA n : f[n], S) = iter[S]
    BY DEF MapThenSumSet, MapThenFoldSet, Some, Rest
<1>2. h = Def(h)
    BY DEF Sums
<1>3. iter = Def(iter)
    BY <1>2
<1> HIDE DEF iter
<1>4. DOMAIN iter = SUBSET S /\ \A T \in SUBSET S :
        iter[T] = IF T = {} THEN 0 ELSE f[Some(T)] + iter[Rest(T)]
    BY <1>3
<1> DEFINE C == {T \in SUBSET S : iter[T] # h[T]}
<1>5. C = {}
    <2> SUFFICES ASSUME C # {} PROVE FALSE
        OBVIOUS
    <2>1. PICK T \in C : \A U \in C : U \subseteq T => U = T
        <3>1. C \in SUBSET SUBSET S
            OBVIOUS
        <3> HIDE DEF C
        <3> QED BY <3>1, SmallestSubset
    <2>2. CASE T = {}
        BY <2>1, <2>2, <1>4 DEF Sums
    <2>3. CASE T # {}
        <3>1. Rest(T) \in SUBSET S /\ Rest(T) \notin C
            BY <2>1, <2>3, RestIs
        <3> QED BY <1>4, <2>1, <2>3, <3>1 DEF Sums
    <2> QED BY <2>2, <2>3
<1> QED BY <1>1, <1>5

(* A sum moves with one of its terms.                                      *)
LEMMA SumStep ==
    ASSUME NEW S, IsFiniteSet(S), NEW f \in [S -> Int], NEW x \in S, NEW d \in Int
    PROVE  /\ MapThenSumSet(LAMBDA n : f[n], S) \in Int
           /\ MapThenSumSet(LAMBDA n : [f EXCEPT ![x] = @ + d][n], S)
                = MapThenSumSet(LAMBDA n : f[n], S) + d
<1> DEFINE g == [f EXCEPT ![x] = @ + d]
<1>1. g \in [S -> Int] /\ g[x] = f[x] + d /\ \A y \in S \ {x} : g[y] = f[y]
    OBVIOUS
<1> HIDE DEF g
<1>2. PICK h : Sums(h, f, S)
    BY SumsExist
<1>3. PICK k : Sums(k, g, S)
    BY <1>1, SumsExist
<1>4. \A T \in SUBSET S : h[T] \in Int /\ k[T] \in Int
    BY <1>2, <1>3 DEF Sums
<1> DEFINE C == {T \in SUBSET S : k[T] # h[T] + (IF x \in T THEN d ELSE 0)}
<1>5. C = {}
    <2> SUFFICES ASSUME C # {} PROVE FALSE
        OBVIOUS
    <2>1. PICK T \in C : \A U \in C : U \subseteq T => U = T
        <3>1. C \in SUBSET SUBSET S
            OBVIOUS
        <3> HIDE DEF C
        <3> QED BY <3>1, SmallestSubset
    <2>2. CASE T = {}
        <3>1. h[T] = 0 /\ k[T] = 0
            BY <1>2, <1>3, <2>2 DEF Sums
        <3> QED BY <2>1, <2>2, <3>1
    <2>3. CASE T # {}
        <3>1. Rest(T) \in SUBSET S /\ Some(T) \in T /\ Some(T) \in S
              /\ k[Rest(T)] = h[Rest(T)] + (IF x \in Rest(T) THEN d ELSE 0)
            BY <2>1, <2>3, RestIs
        <3>2. h[T] = f[Some(T)] + h[Rest(T)] /\ k[T] = g[Some(T)] + k[Rest(T)]
            BY <1>2, <1>3, <2>1, <2>3 DEF Sums
        <3>3. x \in Rest(T) <=> x \in T /\ x # Some(T)
            BY DEF Rest
        <3>4. T \in SUBSET S /\ k[T] # h[T] + (IF x \in T THEN d ELSE 0)
            BY <2>1
        <3>5. f[Some(T)] \in Int /\ h[Rest(T)] \in Int
            BY <1>4, <3>1
        <3> QED BY <1>1, <3>1, <3>2, <3>3, <3>4, <3>5
    <2> QED BY <2>2, <2>3
<1>6. k[S] = h[S] + d /\ h[S] \in Int
    BY <1>4, <1>5
<1>7. MapThenSumSet(LAMBDA n : f[n], S) = h[S] /\ MapThenSumSet(LAMBDA n : g[n], S) = k[S]
    BY <1>2, <1>3, SumIs
<1> QED BY <1>6, <1>7 DEF g

(* The sum of zeros is zero.                                               *)
LEMMA SumOfZeros ==
    ASSUME NEW S, IsFiniteSet(S)
    PROVE  MapThenSumSet(LAMBDA n : [y \in S |-> 0][n], S) = 0
<1> DEFINE f == [y \in S |-> 0]
<1>1. \A y \in S : f[y] = 0
    OBVIOUS
<1> DEFINE h == [T \in SUBSET S |-> 0]
<1>2. Sums(h, f, S)
    <2>1. \A T \in SUBSET S : T # {} => Some(T) \in S /\ Rest(T) \in SUBSET S
        BY RestIs
    <2> QED BY <2>1 DEF Sums
<1> HIDE DEF f
<1>3. MapThenSumSet(LAMBDA n : f[n], S) = h[S]
    <2> HIDE DEF h
    <2> QED BY <1>2, SumIs
<1> QED BY <1>3 DEF f

-----------------------------------------------------------------------------
(* Induction over the naturals, as a least counterexample.                 *)
LEMMA LeastNat ==
    ASSUME NEW T \in SUBSET Nat, T # {}
    PROVE  \E n \in T : \A m \in T : n <= m
<1> DEFINE R == OpToRel(<, Nat)
<1>1. IsWellFoundedOn(R, Nat)
    BY NatLessThanWellFounded
<1>2. \A x, y \in Nat : x < y => <<x, y>> \in R
    BY DEF OpToRel
<1> HIDE DEF R
<1>3. PICK n \in T : \A m \in T : ~ (<<m, n>> \in R)
    BY <1>1, WFMin
<1>4. \A m \in T : ~(m < n)
    BY <1>2, <1>3
<1> QED BY <1>4

(* An entry after one failed check more.                                   *)
Failed(e) == Updated(e, FALSE)

(* h holds the entries of a worker through its first k failures.           *)
Failures(h, k) ==
    /\ DOMAIN h = 0 .. k
    /\ h[0] = NewEntry
    /\ \A j \in 1 .. k : h[j] = Failed(h[j - 1])

(* Two such histories agree as far as both go.                             *)
LEMMA FailuresUnique ==
    ASSUME NEW a \in Nat, NEW b \in Nat, a <= b, NEW g, NEW h, Failures(g, a), Failures(h, b)
    PROVE  \A j \in 0 .. a : g[j] = h[j]
<1> DEFINE C == {j \in 0 .. a : g[j] # h[j]}
<1> SUFFICES ASSUME C # {} PROVE FALSE
    OBVIOUS
<1>1. PICK j \in C : \A m \in C : j <= m
    <2>1. C \in SUBSET Nat
        OBVIOUS
    <2> HIDE DEF C
    <2> QED BY <2>1, LeastNat
<1>2. CASE j = 0
    BY <1>1, <1>2 DEF Failures
<1>3. CASE j # 0
    <2>1. j - 1 \in 0 .. a /\ j - 1 \notin C /\ j \in 1 .. a /\ j \in 1 .. b
        BY <1>1, <1>3
    <2>2. g[j] = Failed(g[j - 1]) /\ h[j] = Failed(h[j - 1])
        BY <2>1 DEF Failures
    <2> QED BY <1>1, <2>1, <2>2
<1> QED BY <1>2, <1>3

(* There is one of every length.                                           *)
LEMMA FailuresExist ==
    ASSUME NEW k \in Nat
    PROVE  \E h : Failures(h, k)
<1> DEFINE C == {j \in Nat : ~ \E h : Failures(h, j)}
<1> SUFFICES ASSUME C # {} PROVE FALSE
    OBVIOUS
<1>1. PICK j \in C : \A m \in C : j <= m
    <2>1. C \in SUBSET Nat
        OBVIOUS
    <2> HIDE DEF C
    <2> QED BY <2>1, LeastNat
<1>2. CASE j = 0
    <2> DEFINE h == [i \in 0 .. 0 |-> NewEntry]
    <2>1. Failures(h, 0)
        BY DEF Failures
    <2> QED BY <1>1, <1>2, <2>1
<1>3. CASE j # 0
    <2>1. j \in Nat /\ j - 1 \in Nat /\ j - 1 \notin C
        BY <1>1, <1>3
    <2>2. PICK g : Failures(g, j - 1)
        BY <2>1
    <2> DEFINE h == [i \in 0 .. j |-> IF i < j THEN g[i] ELSE Failed(g[j - 1])]
    <2>3. \A i \in 0 .. j - 1 : h[i] = g[i]
        BY <2>1
    <2>4. h[j] = Failed(h[j - 1])
        BY <2>1, <2>3
    <2>5. DOMAIN h = 0 .. j
        OBVIOUS
    <2> HIDE DEF h
    <2>6. \A i \in 1 .. j : h[i] = Failed(h[i - 1])
        BY <2>1, <2>2, <2>3, <2>4 DEF Failures
    <2>7. Failures(h, j)
        BY <2>1, <2>2, <2>3, <2>5, <2>6 DEF Failures
    <2> QED BY <1>1, <2>7
<1> QED BY <1>2, <1>3

(* The recursive function AfterFailures satisfies its equation.            *)
LEMMA AfterFailuresIs ==
    \A k \in Nat : AfterFailures[k] =
        IF k = 0 THEN NewEntry ELSE Failed(AfterFailures[k - 1])
<1> DEFINE past(k) == CHOOSE h : Failures(h, k)
           g == [k \in Nat |-> past(k)[k]]
           Def(f) == [k \in Nat |-> IF k = 0 THEN NewEntry ELSE Failed(f[k - 1])]
<1>1. \A k \in Nat : Failures(past(k), k)
    BY FailuresExist
<1> HIDE DEF past
<1>2. ASSUME NEW k \in Nat
      PROVE  g[k] = IF k = 0 THEN NewEntry ELSE Failed(g[k - 1])
    <2>1. CASE k = 0
        BY <1>1, <2>1 DEF Failures
    <2>2. CASE k # 0
        <3>1. k - 1 \in Nat
            BY <2>2
        <3>2. past(k)[k - 1] = past(k - 1)[k - 1]
            BY <1>1, <3>1, FailuresUnique
        <3>3. past(k)[k] = Failed(past(k)[k - 1])
            <4>1. k \in 1 .. k
                BY <2>2
            <4> QED BY <1>1, <4>1 DEF Failures
        <3> QED BY <2>2, <3>1, <3>2, <3>3
    <2> QED BY <2>1, <2>2
<1>3. g = Def(g)
    BY <1>2
<1>4. AfterFailures = CHOOSE f : f = Def(f)
    BY DEF AfterFailures, Failed
<1> HIDE DEF g
<1>5. AfterFailures = Def(AfterFailures)
    BY <1>3, <1>4
<1> QED BY <1>5

-----------------------------------------------------------------------------
(* All balances together.                                                  *)
Total(f) == MapThenSumSet(LAMBDA n : f[n], Nodes)

(* The books balance: balances and penalties make up the rewards.          *)
LEMMA BalancedIs ==
    ASSUME NEW led
    PROVE  Balanced(led) <=> Total(led.balance) + led.taken = led.total
BY DEF Balanced, Total

(* Moving one balance moves the total as much.                             *)
LEMMA TotalStep ==
    ASSUME NEW f \in [Nodes -> Int], NEW x \in Nodes, NEW d \in Int
    PROVE  /\ Total(f) \in Int
           /\ Total([f EXCEPT ![x] = @ + d]) = Total(f) + d
BY SumStep, TrustAssumption DEF Total

(* An empty ledger has no balances.                                        *)
LEMMA TotalZero == Total([n \in Nodes |-> 0]) = 0
BY SumOfZeros, TrustAssumption DEF Total

(* The least score, in thousandths, after 0, 1, ..., 9 failed checks.      *)
Floor == <<800, 720, 648, 583, 524, 471, 423, 380, 342, 307>>

Entry == [score : 0 .. MAX_SCORE, good : Nat, bad : Nat]
Trusted(e) == e.bad < 10 => e.score >= 1000 * Floor[e.bad + 1]

(* The scores are numbers between 0 and MAX_SCORE.                         *)
LEMMA ScoresAreNat == MAX_SCORE \in Nat /\ INITIAL_SCORE \in 0 .. MAX_SCORE
<1> DEFINE c == 1000
<1>1. c \in Nat /\ MAX_SCORE = 1000 * c /\ INITIAL_SCORE = 800 * c
    BY DEF MAX_SCORE, INITIAL_SCORE
<1> HIDE DEF c
<1> QED BY <1>1

(* A floor is at most nine tenths of the one before it.                    *)
LEMMA FloorStep ==
    ASSUME NEW b \in 0 .. 9
    PROVE  /\ Floor[b + 1] \in Int
           /\ b < 9 => /\ Floor[(b + 1) + 1] \in Int
                       /\ 10 * Floor[(b + 1) + 1] <= 9 * Floor[b + 1]
BY DEF Floor

(* An outcome, good or bad, keeps an entry above the floor of its          *)
(* failures: a good one never lowers a score, a bad one takes a tenth.     *)
LEMMA UpdatedKeeps ==
    ASSUME NEW e \in Entry, Trusted(e), NEW good \in BOOLEAN
    PROVE  Updated(e, good) \in Entry /\ Trusted(Updated(e, good))
<1> DEFINE M == MAX_SCORE
<1>1. e.score \in 0 .. M /\ e.good \in Nat /\ e.bad \in Nat /\ M \in Nat
    BY ScoresAreNat DEF Entry
<1>2. CASE good
    <2>1. Updated(e, good) = [score |-> (9 * e.score + M) \div 10, good |-> e.good + 1, bad |-> e.bad + 0]
        BY <1>2 DEF Updated
    <2> HIDE DEF M
    <2>2. (9 * e.score + M) \div 10 \in e.score .. M
        BY <1>1
    <2>3. e.bad < 10 => e.bad \in 0 .. 9
        BY <1>1
    <2>4. e.bad < 10 => Floor[e.bad + 1] \in Int
        BY <2>3, FloorStep
    <2> QED BY <1>1, <2>1, <2>2, <2>4 DEF Entry, M, Trusted
<1>3. CASE ~good
    <2> HIDE DEF M
    <2>1. Updated(e, good) = [score |-> (9 * e.score + 0) \div 10, good |-> e.good + 0, bad |-> e.bad + 1]
        BY <1>3 DEF Updated
    <2>2. (9 * e.score + 0) \div 10 \in 0 .. M
        BY <1>1
    <2>3. ASSUME e.bad + 1 < 10
          PROVE  (9 * e.score + 0) \div 10 >= 1000 * Floor[(e.bad + 1) + 1]
        <3>1. e.bad \in 0 .. 9 /\ e.bad < 9
            BY <1>1, <2>3
        <3> DEFINE x == Floor[e.bad + 1]
                   y == Floor[(e.bad + 1) + 1]
        <3>2. x \in Int /\ y \in Int /\ 10 * y <= 9 * x
            BY <3>1, FloorStep
        <3>3. e.score >= 1000 * x
            BY <3>1 DEF Trusted
        <3> HIDE DEF x, y
        <3>4. (9 * e.score + 0) \div 10 >= 1000 * y
            BY <1>1, <3>2, <3>3
        <3> QED BY <3>4 DEF y
    <2> QED BY <1>1, <2>1, <2>2, <2>3 DEF Entry, M, Trusted
<1> QED BY <1>2, <1>3

(* A worker nobody has checked is trusted.                                 *)
LEMMA NewEntryOK == NewEntry \in Entry /\ Trusted(NewEntry)
<1>1. NewEntry \in Entry
    BY ScoresAreNat DEF NewEntry, Entry
<1>2. INITIAL_SCORE = 1000 * Floor[0 + 1]
    BY DEF INITIAL_SCORE, Floor
<1> QED BY <1>1, <1>2, ScoresAreNat DEF NewEntry, Trusted

(* So is one with failures from an earlier run, as far as they allow.      *)
LEMMA AfterFailuresOK ==
    \A k \in Nat : AfterFailures[k] \in Entry /\ Trusted(AfterFailures[k])
<1> DEFINE OK(e) == e \in Entry /\ Trusted(e)
           C == {k \in Nat : ~OK(AfterFailures[k])}
<1>1. OK(NewEntry) /\ \A e : OK(e) => OK(Failed(e))
    BY NewEntryOK, UpdatedKeeps DEF Failed
<1> HIDE DEF OK
<1>2. C = {}
    <2> SUFFICES ASSUME C # {} PROVE FALSE
        OBVIOUS
    <2>1. PICK k \in C : \A m \in C : k <= m
        <3>1. C \in SUBSET Nat
            OBVIOUS
        <3> HIDE DEF C
        <3> QED BY <3>1, LeastNat
    <2>2. CASE k = 0
        BY <1>1, <2>1, <2>2, AfterFailuresIs
    <2>3. CASE k # 0
        <3>1. k \in Nat /\ k - 1 \in Nat /\ k - 1 \notin C
            BY <2>1, <2>3
        <3> QED BY <1>1, <2>1, <2>3, <3>1, AfterFailuresIs
    <2> QED BY <2>2, <2>3
<1> QED BY <1>2 DEF OK

-----------------------------------------------------------------------------
(* What may be in a file, in a store and in a thread.                      *)
Kinds == {"absent", "empty", "corrupt", "payload"}
Ledgers ==
    {led \in [balance : [Nodes -> Nat], total : Nat, taken : Nat] : Balanced(led)}
Reputations == {r \in [Nodes -> Entry] : \A n \in Nodes : Trusted(r[n])}
Valid(s) == IF s = "ledger" THEN Ledgers ELSE Reputations

Saving(s) == [at : {"copied", "truncated"}, store : {s}, payload : Valid(s)]
ThreadStates ==
    {Idle} \cup [at : {"penalty"}, node : Nodes] \cup Saving("ledger") \cup Saving("reputation")

(* Every ledger anywhere, in memory, on file or in a thread that saves it, *)
(* balances, and every reputation respects the floors.                     *)
ValidInv ==
    /\ ledger \in Ledgers /\ entries \in Reputations
    /\ thread \in [Threads -> ThreadStates]
    /\ file \in [Stores -> [kind : Kinds, data : Ledgers \cup Reputations]]
    /\ saved \in [Stores -> Ledgers \cup Reputations]
    /\ \A s \in Stores : file[s].data \in Valid(s) /\ saved[s] \in Valid(s)
    /\ exact \subseteq Stores

(* While a save of a store that is still exact is under way, it is the     *)
(* only one, it holds the payload of the last save, and the file is empty  *)
(* from its truncation to its write.                                       *)
SaverInv ==
    /\ SavedIsFound
    /\ \A s \in exact : \A t \in InSave(s) :
         /\ InSave(s) = {t} /\ thread[t].payload = saved[s]
         /\ thread[t].at = "truncated" => file[s] = Empty(s)

TrustInv == ValidInv /\ SaverInv

(* A store that starts without a file is valid.                            *)
LEMMA FreshValid ==
    /\ Fresh["ledger"] \in Ledgers
    /\ Fresh["reputation"] \in Reputations
    /\ \A s \in Stores : Fresh[s] \in Valid(s)
<1> DEFINE f == [n \in Nodes |-> 0]
           led == [balance |-> f, total |-> 0, taken |-> 0]
<1>1. Balanced(led)
    <2>1. led.balance = f /\ led.taken = 0 /\ led.total = 0
        OBVIOUS
    <2> HIDE DEF led
    <2> QED BY <2>1, BalancedIs, TotalZero
<1>2. led \in Ledgers
    BY <1>1 DEF Ledgers
<1>3. Fresh["ledger"] = led /\ Fresh["reputation"] = [n \in Nodes |-> NewEntry]
    BY DEF Fresh
<1>4. Fresh["reputation"] \in Reputations
    BY <1>3, NewEntryOK DEF Reputations
<1> QED BY <1>2, <1>3, <1>4 DEF Stores, Valid

(* A ledger still balances when one balance, the penalties and the rewards *)
(* move together.                                                          *)
LEMMA LedgerMoves ==
    ASSUME NEW led \in Ledgers, NEW n \in Nodes, NEW d \in Int,
           led.balance[n] + d \in Nat, NEW total \in Nat, NEW taken \in Nat,
           d + (taken - led.taken) = total - led.total
    PROVE  [balance |-> [led.balance EXCEPT ![n] = @ + d],
            total |-> total, taken |-> taken] \in Ledgers
<1>1. /\ led.balance \in [Nodes -> Nat] /\ led.total \in Nat /\ led.taken \in Nat
      /\ Balanced(led)
    BY DEF Ledgers
<1> DEFINE f == led.balance
           g == [f EXCEPT ![n] = @ + d]
           new == [balance |-> g, total |-> total, taken |-> taken]
<1>2. Total(f) \in Int /\ Total(g) = Total(f) + d
    BY <1>1, TotalStep
<1>3. Total(f) + led.taken = led.total
    BY <1>1, BalancedIs
<1>4. g \in [Nodes -> Nat]
    BY <1>1
<1>5. new.balance = g /\ new.taken = taken /\ new.total = total
    OBVIOUS
<1>6. Total(new.balance) + new.taken = new.total
    <2> HIDE DEF new, f, g
    <2> QED BY <1>1, <1>2, <1>3, <1>5
<1>7. Balanced(new)
    <2> HIDE DEF new
    <2> QED BY <1>6, BalancedIs
<1> QED BY <1>4, <1>7 DEF Ledgers

(* The ledger that an EXCEPT on a balance and the rewards gives.           *)
LEMMA WithTotal ==
    ASSUME NEW led \in Ledgers, NEW n \in Nodes, NEW b, NEW v
    PROVE  [led EXCEPT !.balance[n] = b, !.total = v]
             = [balance |-> [led.balance EXCEPT ![n] = b], total |-> v, taken |-> led.taken]
<1> DEFINE f == [led.balance EXCEPT ![n] = b]
           new == [led EXCEPT !.balance = f]
<1>1. [led EXCEPT !.balance[n] = b, !.total = v] = [new EXCEPT !.total = v]
    BY Zenon
<1> HIDE DEF f
<1>2. led = [balance |-> led.balance, total |-> led.total, taken |-> led.taken]
    BY DEF Ledgers
<1>3. new = [balance |-> f, total |-> led.total, taken |-> led.taken]
    BY <1>2
<1> HIDE DEF new
<1>4. [new EXCEPT !.total = v] = [balance |-> f, total |-> v, taken |-> led.taken]
    BY <1>3
<1> QED BY <1>1, <1>4 DEF f

(* The ledger that an EXCEPT on a balance and the penalties gives.         *)
LEMMA WithTaken ==
    ASSUME NEW led \in Ledgers, NEW n \in Nodes, NEW b, NEW v
    PROVE  [led EXCEPT !.balance[n] = b, !.taken = v]
             = [balance |-> [led.balance EXCEPT ![n] = b], total |-> led.total, taken |-> v]
<1> DEFINE f == [led.balance EXCEPT ![n] = b]
           new == [led EXCEPT !.balance = f]
<1>1. [led EXCEPT !.balance[n] = b, !.taken = v] = [new EXCEPT !.taken = v]
    BY Zenon
<1> HIDE DEF f
<1>2. led = [balance |-> led.balance, total |-> led.total, taken |-> led.taken]
    BY DEF Ledgers
<1>3. new = [balance |-> f, total |-> led.total, taken |-> led.taken]
    BY <1>2
<1> HIDE DEF new
<1>4. [new EXCEPT !.taken = v] = [balance |-> f, total |-> led.total, taken |-> v]
    BY <1>3
<1> QED BY <1>1, <1>4 DEF f

(* reward() keeps a ledger balanced.                                       *)
LEMMA RewardKeeps ==
    ASSUME NEW led \in Ledgers, NEW n \in Nodes, NEW k \in Nat
    PROVE  [led EXCEPT !.balance[n] = @ + k, !.total = @ + k] \in Ledgers
<1>1. /\ led.balance \in [Nodes -> Nat] /\ led.balance[n] \in Nat
      /\ led.total \in Nat /\ led.taken \in Nat
    BY DEF Ledgers
<1> DEFINE b == led.balance[n] + k
           v == led.total + k
           new == [balance |-> [led.balance EXCEPT ![n] = @ + k],
                   total |-> v, taken |-> led.taken]
<1>2. [led EXCEPT !.balance[n] = b, !.total = v] = new
    <2> HIDE DEF b, v
    <2>1. [led EXCEPT !.balance[n] = b, !.total = v]
            = [balance |-> [led.balance EXCEPT ![n] = b], total |-> v, taken |-> led.taken]
        BY WithTotal
    <2> QED BY <2>1 DEF b
<1>3. /\ led.balance[n] + k \in Nat /\ led.total + k \in Nat
      /\ k + (led.taken - led.taken) = (led.total + k) - led.total
    BY <1>1
<1>4. new \in Ledgers
    BY <1>1, <1>3, LedgerMoves
<1> QED BY <1>2, <1>4

(* So does debit(), which takes no more than there is.                     *)
LEMMA DebitedKeeps ==
    ASSUME NEW led \in Ledgers, NEW n \in Nodes
    PROVE  Debited(led, n) \in Ledgers
<1>1. /\ led.balance \in [Nodes -> Nat] /\ led.balance[n] \in Nat
      /\ led.total \in Nat /\ led.taken \in Nat
    BY DEF Ledgers
<1> DEFINE a == Least(PENALTY, led.balance[n])
<1>2. a \in 0 .. led.balance[n]
    BY <1>1, TrustAssumption DEF Least
<1>3. Debited(led, n) = [led EXCEPT !.balance[n] = @ - a, !.taken = @ + a]
    BY DEF Debited
<1> HIDE DEF a
<1>4. Debited(led, n) = [balance |-> [led.balance EXCEPT ![n] = @ - a],
                         total |-> led.total, taken |-> led.taken + a]
    BY <1>3, WithTaken
<1>5. [led.balance EXCEPT ![n] = @ - a] = [led.balance EXCEPT ![n] = @ + (0 - a)]
    BY <1>1, <1>2
<1>6. /\ led.balance[n] + (0 - a) \in Nat /\ led.taken + a \in Nat /\ 0 - a \in Int
      /\ (0 - a) + ((led.taken + a) - led.taken) = led.total - led.total
    BY <1>1, <1>2
<1>7. [balance |-> [led.balance EXCEPT ![n] = @ + (0 - a)],
       total |-> led.total, taken |-> led.taken + a] \in Ledgers
    BY <1>1, <1>6, LedgerMoves
<1> QED BY <1>4, <1>5, <1>7

(* record_good() and record_bad() keep reputations above their floors.     *)
LEMMA OutcomeKeeps ==
    ASSUME NEW r \in Reputations, NEW n \in Nodes, NEW good \in BOOLEAN
    PROVE  [r EXCEPT ![n] = Updated(@, good)] \in Reputations
<1>1. r \in [Nodes -> Entry] /\ \A m \in Nodes : r[m] \in Entry /\ Trusted(r[m])
    BY DEF Reputations
<1>2. Updated(r[n], good) \in Entry /\ Trusted(Updated(r[n], good))
    BY <1>1, UpdatedKeeps
<1> QED BY <1>1, <1>2 DEF Reputations

(* What a thread in a penalty or in a save holds.                          *)
LEMMA SavingIs ==
    ASSUME NEW th \in ThreadStates
    PROVE  /\ th.at = "penalty" => th.node \in Nodes
           /\ th.at \in {"copied", "truncated"} =>
                /\ th.store \in Stores /\ th.payload \in Valid(th.store)
                /\ th = [at |-> th.at, store |-> th.store, payload |-> th.payload]
BY DEF ThreadStates, Saving, Stores, Idle

-----------------------------------------------------------------------------
(* The process starts with fresh stores, or with the reputation file of an *)
(* earlier one.                                                            *)
LEMMA TrustInitInv == Init => TrustInv
<1> SUFFICES ASSUME Init PROVE TrustInv
    OBVIOUS
<1>1. PICK k \in 0 .. MaxEarlier :
        LET reputation == [n \in Nodes |-> AfterFailures[k]]
        IN  /\ ledger = Fresh["ledger"]
            /\ entries = reputation
            /\ file = [ledger |-> Absent("ledger"), reputation |->
                         IF k = 0 THEN Absent("reputation")
                         ELSE Content("payload", reputation)]
            /\ saved = [Fresh EXCEPT !["reputation"] = reputation]
            /\ thread = [t \in Threads |-> Idle]
            /\ exact = Stores
    BY DEF Init
<1> DEFINE r == [n \in Nodes |-> AfterFailures[k]]
<1>2. r \in Reputations
    <2>1. k \in Nat
        BY TrustAssumption
    <2> QED BY <2>1, AfterFailuresOK DEF Reputations
<1>3. k = 0 => r = Fresh["reputation"]
    BY AfterFailuresIs DEF Fresh
<1> HIDE DEF r
<1>4. /\ file["ledger"] = Absent("ledger")
      /\ file["reputation"] = IF k = 0 THEN Absent("reputation") ELSE Content("payload", r)
      /\ DOMAIN file = Stores
    BY <1>1 DEF r, Stores
<1>5. /\ saved["ledger"] = Fresh["ledger"] /\ saved["reputation"] = r
      /\ DOMAIN saved = Stores /\ saved = [s \in Stores |-> saved[s]]
    BY <1>1 DEF r, Stores, Fresh
<1>6. /\ file["ledger"].kind = "absent" /\ file["ledger"].data = Fresh["ledger"]
      /\ file["reputation"].kind \in {"absent", "payload"}
      /\ file["reputation"].data = r
    BY <1>3, <1>4 DEF Absent, Content
<1>7. file \in [Stores -> [kind : Kinds, data : Ledgers \cup Reputations]]
    <2>1. file = [s \in Stores |-> file[s]]
        BY <1>1 DEF Stores
    <2>2. \A s \in Stores : file[s] \in [kind : Kinds, data : Ledgers \cup Reputations]
        BY <1>2, <1>3, <1>4, FreshValid DEF Stores, Absent, Content, Kinds
    <2> QED BY <2>1, <2>2
<1>8. saved \in [Stores -> Ledgers \cup Reputations]
    BY <1>2, <1>5, FreshValid DEF Stores
<1>9. ValidInv
    <2>1. ledger \in Ledgers /\ entries \in Reputations
        BY <1>1, <1>2, FreshValid DEF r
    <2>2. thread \in [Threads -> ThreadStates]
        BY <1>1 DEF ThreadStates
    <2>3. \A s \in Stores : file[s].data \in Valid(s) /\ saved[s] \in Valid(s)
        BY <1>2, <1>5, <1>6, FreshValid DEF Stores, Valid
    <2> QED BY <1>1, <1>7, <1>8, <2>1, <2>2, <2>3 DEF ValidInv
<1>10. \A s \in Stores : InSave(s) = {}
    BY <1>1 DEF InSave, Idle
<1>11. \A s \in Stores : Loaded(s) = saved[s]
    <2>1. Loaded("ledger") = saved["ledger"]
        BY <1>5, <1>6 DEF Loaded
    <2>2. Loaded("reputation") = saved["reputation"]
        <3>1. CASE k = 0
            <4>1. file["reputation"].kind = "absent"
                BY <1>4, <3>1 DEF Absent, Content
            <4> QED BY <1>3, <1>5, <3>1, <4>1 DEF Loaded
        <3>2. CASE k # 0
            <4>1. file["reputation"].kind = "payload"
                BY <1>4, <3>2 DEF Content
            <4> QED BY <1>5, <1>6, <4>1 DEF Loaded
        <3> QED BY <3>1, <3>2
    <2> QED BY <2>1, <2>2 DEF Stores
<1> QED BY <1>1, <1>9, <1>10, <1>11 DEF TrustInv, SaverInv, SavedIsFound

(* A step that touches no file and no save keeps the invariant when its    *)
(* ledger and its reputations are valid.                                   *)
LEMMA OthersKeep ==
    ASSUME TrustInv, NEW t \in Threads, NEW th \in ThreadStates,
           thread[t].at \notin {"copied", "truncated"},
           th.at \notin {"copied", "truncated"},
           thread' = [thread EXCEPT ![t] = th] \/ thread' = thread,
           ledger' \in Ledgers, entries' \in Reputations,
           UNCHANGED <<file, saved, exact>>
    PROVE  TrustInv'
<1>1. /\ thread' \in [Threads -> ThreadStates]
      /\ \A u \in Threads : thread'[u].at \in {"copied", "truncated"} \/ thread[u].at \in {"copied", "truncated"}
            => thread'[u] = thread[u]
    BY DEF TrustInv, ValidInv
<1>2. \A s \in Stores : InSave(s)' = InSave(s) /\ \A u \in InSave(s) : thread'[u] = thread[u]
    BY <1>1 DEF InSave
<1>3. \A s \in Stores : Loaded(s)' = Loaded(s) /\ Empty(s)' = Empty(s)
    BY DEF Loaded, Empty, Content, Fresh
<1>4. ValidInv'
    BY <1>1 DEF TrustInv, ValidInv, Valid
<1>5. exact \subseteq Stores
    BY DEF TrustInv, ValidInv
<1> QED BY <1>2, <1>3, <1>4, <1>5 DEF TrustInv, SaverInv, SavedIsFound

(* A save begins: alone, or it spoils the exactness of its store.          *)
LEMMA CopyKeeps ==
    ASSUME TrustInv, NEW t \in Threads, NEW s \in Stores, Copy(t, s)
    PROVE  TrustInv'
<1> DEFINE th == [at |-> "copied", store |-> s, payload |-> InMemory(s)]
<1>1. InMemory(s) \in Valid(s) /\ Valid(s) \subseteq Ledgers \cup Reputations
    BY DEF TrustInv, ValidInv, InMemory, Valid, Stores
<1>2. th \in ThreadStates
    BY <1>1 DEF ThreadStates, Saving, Stores
<1>3. /\ thread' = [thread EXCEPT ![t] = th] /\ thread[t].at = "idle"
      /\ exact' = IF InSave(s) = {} THEN exact \cup {s} ELSE exact \ {s}
      /\ saved' = [saved EXCEPT ![s] = InMemory(s)]
      /\ UNCHANGED <<ledger, entries, file>>
    BY DEF Copy, Idle
<1>4. /\ th.at = "copied" /\ th.store = s /\ th.payload = InMemory(s)
    OBVIOUS
<1> HIDE DEF th
<1>5. /\ thread' \in [Threads -> ThreadStates] /\ thread'[t] = th
      /\ \A u \in Threads \ {t} : thread'[u] = thread[u]
    BY <1>2, <1>3 DEF TrustInv, ValidInv
<1>6. /\ saved' \in [Stores -> Ledgers \cup Reputations]
      /\ saved'[s] = InMemory(s)
      /\ \A x \in Stores \ {s} : saved'[x] = saved[x]
    BY <1>1, <1>3 DEF TrustInv, ValidInv
<1>7. InSave(s)' = InSave(s) \cup {t}
    BY <1>4, <1>5 DEF InSave
<1>8. \A x \in Stores \ {s} : InSave(x)' = InSave(x) /\ t \notin InSave(x)
    BY <1>3, <1>4, <1>5 DEF InSave
<1>9. \A x \in Stores : Loaded(x)' = Loaded(x) /\ Empty(x)' = Empty(x)
    BY <1>3 DEF Loaded, Empty, Content, Fresh
<1>10. ValidInv'
    <2>1. \A x \in Stores : saved'[x] \in Valid(x)
        BY <1>1, <1>6 DEF TrustInv, ValidInv
    <2> QED BY <1>3, <1>5, <1>6, <2>1 DEF TrustInv, ValidInv, Valid
<1>11. ASSUME NEW x \in exact' PROVE
         /\ InSave(x)' = {} => Loaded(x)' = saved'[x]
         /\ \A u \in InSave(x)' :
              /\ InSave(x)' = {u} /\ thread'[u].payload = saved'[x]
              /\ thread'[u].at = "truncated" => file'[x] = Empty(x)'
    <2>1. CASE x = s
        <3>1. InSave(s)' = {t}
            BY <1>3, <1>7, <1>11, <2>1
        <3> QED BY <1>4, <1>5, <1>6, <2>1, <3>1
    <2>2. CASE x # s
        <3>1. x \in exact /\ x \in Stores \ {s}
            BY <1>3, <1>11, <2>2 DEF TrustInv, ValidInv
        <3>2. \A u \in InSave(x) : thread'[u] = thread[u]
            BY <1>5, <1>8, <3>1 DEF InSave
        <3> QED BY <1>3, <1>6, <1>8, <1>9, <3>1, <3>2 DEF TrustInv, SaverInv, SavedIsFound
    <2> QED BY <2>1, <2>2
<1> QED BY <1>10, <1>11 DEF TrustInv, SaverInv, SavedIsFound

(* The file of a save is emptied.                                          *)
LEMMA TruncateKeeps ==
    ASSUME TrustInv, NEW t \in Threads, Truncate(t)
    PROVE  TrustInv'
<1>1. /\ thread[t] \in ThreadStates /\ thread[t].at = "copied"
      /\ thread' = [thread EXCEPT ![t].at = "truncated"]
      /\ file' = [file EXCEPT ![thread[t].store] = Empty(thread[t].store)]
      /\ UNCHANGED <<ledger, entries, saved, exact>>
    BY DEF Truncate, TrustInv, ValidInv
<1>2. PICK s \in Stores, p \in Ledgers \cup Reputations :
        p \in Valid(s) /\ thread[t] = [at |-> "copied", store |-> s, payload |-> p]
    <2>1. thread[t].store \in Stores /\ thread[t].payload \in Valid(thread[t].store)
          /\ thread[t] = [at |-> "copied", store |-> thread[t].store,
                           payload |-> thread[t].payload]
        BY <1>1, SavingIs
    <2> QED BY <2>1 DEF Valid
<1>3. thread[t].store = s /\ thread[t].payload = p
    BY <1>2
<1> DEFINE th == [at |-> "truncated", store |-> s, payload |-> p]
<1>4. [thread[t] EXCEPT !.at = "truncated"] = th
    BY <1>2
<1>5. th \in ThreadStates
    BY <1>2 DEF ThreadStates, Saving, Stores
<1>6. th.at = "truncated" /\ th.store = s /\ th.payload = p
    OBVIOUS
<1> HIDE DEF th
<1>7. /\ thread' \in [Threads -> ThreadStates] /\ thread'[t] = th
      /\ \A u \in Threads \ {t} : thread'[u] = thread[u]
    BY <1>1, <1>4, <1>5 DEF TrustInv, ValidInv
<1>8. t \in InSave(s) /\ \A x \in Stores : InSave(x)' = InSave(x)
    BY <1>1, <1>3, <1>6, <1>7 DEF InSave
<1>9. Empty(s).data = Fresh[s]
      /\ Empty(s) \in [kind : Kinds, data : Ledgers \cup Reputations]
    BY <1>2, FreshValid DEF Empty, Content, Kinds, Stores
<1>10. /\ file' \in [Stores -> [kind : Kinds, data : Ledgers \cup Reputations]]
       /\ file'[s] = Empty(s) /\ \A x \in Stores \ {s} : file'[x] = file[x]
    BY <1>1, <1>3, <1>9 DEF TrustInv, ValidInv
<1>11. \A x \in Stores : Empty(x)' = Empty(x)
    BY DEF Empty, Content, Fresh
<1>12. \A x \in Stores \ {s} : Loaded(x)' = Loaded(x)
    BY <1>10 DEF Loaded, Fresh
<1>13. ValidInv'
    <2>1. \A x \in Stores : file'[x].data \in Valid(x)
        BY <1>9, <1>10, FreshValid DEF TrustInv, ValidInv
    <2> QED BY <1>1, <1>7, <1>10, <2>1 DEF TrustInv, ValidInv, Valid
<1>14. ASSUME NEW x \in exact' PROVE
         /\ InSave(x)' = {} => Loaded(x)' = saved'[x]
         /\ \A u \in InSave(x)' :
              /\ InSave(x)' = {u} /\ thread'[u].payload = saved'[x]
              /\ thread'[u].at = "truncated" => file'[x] = Empty(x)'
    <2>1. x \in exact /\ x \in Stores
        BY <1>1, <1>14 DEF TrustInv, ValidInv
    <2>2. CASE x = s
        <3>1. InSave(s) = {t} /\ thread[t].payload = saved[s]
            BY <1>8, <2>1, <2>2 DEF TrustInv, SaverInv
        <3> QED BY <1>1, <1>3, <1>6, <1>7, <1>8, <1>10, <1>11, <2>1, <2>2, <3>1
    <2>3. CASE x # s
        <3>1. \A u \in InSave(x) : thread'[u] = thread[u]
            BY <1>3, <1>7, <2>1, <2>3 DEF InSave
        <3>2. /\ InSave(x)' = InSave(x) /\ Loaded(x)' = Loaded(x)
              /\ Empty(x)' = Empty(x) /\ file'[x] = file[x] /\ saved'[x] = saved[x]
            BY <1>1, <1>8, <1>10, <1>11, <1>12, <2>1, <2>3
        <3>3. /\ InSave(x) = {} => Loaded(x) = saved[x]
              /\ \A u \in InSave(x) :
                   /\ InSave(x) = {u} /\ thread[u].payload = saved[x]
                   /\ thread[u].at = "truncated" => file[x] = Empty(x)
            BY <2>1 DEF TrustInv, SaverInv, SavedIsFound
        <3> QED BY <3>1, <3>2, <3>3
    <2> QED BY <2>2, <2>3
<1> QED BY <1>13, <1>14 DEF TrustInv, SaverInv, SavedIsFound

(* The file of a save is written: whole, when nobody else has written      *)
(* since it was emptied.                                                   *)
LEMMA WriteKeeps ==
    ASSUME TrustInv, NEW t \in Threads, Write(t)
    PROVE  TrustInv'
<1>1. thread[t] \in ThreadStates /\ thread[t].at = "truncated"
    BY DEF Write, TrustInv, ValidInv
<1>2. PICK s \in Stores, p \in Ledgers \cup Reputations :
        p \in Valid(s) /\ thread[t].store = s /\ thread[t].payload = p
    BY <1>1, SavingIs DEF Valid
<1> DEFINE whole == Content("payload", p)
<1>3. /\ whole.kind = "payload" /\ whole.data = p
      /\ Corrupt(s).data = Fresh[s] /\ Corrupt(s).kind = "corrupt"
      /\ whole \in [kind : Kinds, data : Ledgers \cup Reputations]
      /\ Corrupt(s) \in [kind : Kinds, data : Ledgers \cup Reputations]
    BY <1>2, FreshValid DEF Content, Corrupt, Kinds, Stores, Valid
<1>4. PICK c \in IF file[s] = Empty(s) THEN {whole} ELSE {whole, Corrupt(s)} :
        /\ file' = [file EXCEPT ![s] = c]
        /\ thread' = [thread EXCEPT ![t] = Idle]
        /\ UNCHANGED <<ledger, entries, saved, exact>>
    BY <1>2 DEF Write
<1> HIDE DEF whole
<1>5. /\ file[s] = Empty(s) => c = whole
      /\ c \in [kind : Kinds, data : Ledgers \cup Reputations]
      /\ c.data \in Valid(s)
    <2>1. c = whole \/ (c = Corrupt(s) /\ file[s] # Empty(s))
        BY <1>4
    <2> QED BY <1>2, <1>3, <2>1, FreshValid
<1>6. /\ thread' \in [Threads -> ThreadStates] /\ thread'[t] = Idle /\ Idle.at = "idle"
      /\ \A u \in Threads \ {t} : thread'[u] = thread[u]
    BY <1>4 DEF TrustInv, ValidInv, ThreadStates, Idle
<1>7. /\ t \in InSave(s)
      /\ \A x \in Stores : InSave(x)' = InSave(x) \ {t}
      /\ \A x \in Stores \ {s} : t \notin InSave(x)
    BY <1>1, <1>2, <1>6 DEF InSave
<1>8. /\ file' \in [Stores -> [kind : Kinds, data : Ledgers \cup Reputations]]
      /\ file'[s] = c /\ \A x \in Stores \ {s} : file'[x] = file[x]
    BY <1>4, <1>5 DEF TrustInv, ValidInv
<1>9. \A x \in Stores : Empty(x)' = Empty(x)
    BY DEF Empty, Content, Fresh
<1>10. \A x \in Stores \ {s} : Loaded(x)' = Loaded(x)
    BY <1>8 DEF Loaded, Fresh
<1>11. ValidInv'
    <2>1. \A x \in Stores : file'[x].data \in Valid(x)
        BY <1>5, <1>8 DEF TrustInv, ValidInv
    <2> QED BY <1>4, <1>6, <1>8, <2>1 DEF TrustInv, ValidInv, Valid
<1>12. ASSUME NEW x \in exact' PROVE
         /\ InSave(x)' = {} => Loaded(x)' = saved'[x]
         /\ \A u \in InSave(x)' :
              /\ InSave(x)' = {u} /\ thread'[u].payload = saved'[x]
              /\ thread'[u].at = "truncated" => file'[x] = Empty(x)'
    <2>1. x \in exact /\ x \in Stores
        BY <1>4, <1>12 DEF TrustInv, ValidInv
    <2>2. CASE x = s
        <3>1. InSave(s) = {t} /\ p = saved[s] /\ file[s] = Empty(s)
            BY <1>1, <1>2, <1>7, <2>1, <2>2 DEF TrustInv, SaverInv
        <3>2. InSave(s)' = {}
            BY <1>7, <3>1
        <3>3. Loaded(s)' = p
            BY <1>3, <1>5, <1>8, <3>1 DEF Loaded
        <3> QED BY <1>4, <2>2, <3>1, <3>2, <3>3
    <2>3. CASE x # s
        <3>1. InSave(x)' = InSave(x)
            BY <1>7, <2>1, <2>3
        <3>2. \A u \in InSave(x) : thread'[u] = thread[u]
            BY <1>6, <1>7, <2>1, <2>3 DEF InSave
        <3> QED BY <1>4, <1>8, <1>9, <1>10, <2>1, <2>3, <3>1, <3>2
                DEF TrustInv, SaverInv, SavedIsFound
    <2> QED BY <2>2, <2>3
<1> QED BY <1>11, <1>12 DEF TrustInv, SaverInv, SavedIsFound

(* What a restart reads is valid, whatever is on file.                     *)
LEMMA LoadedValid == ASSUME TrustInv PROVE \A s \in Stores : Loaded(s) \in Valid(s)
BY FreshValid DEF TrustInv, ValidInv, Loaded

(* A restart: a store stays exact only if no save was cut off.             *)
LEMMA CrashKeeps == ASSUME TrustInv, Crash PROVE TrustInv'
<1>1. ledger' \in Ledgers /\ entries' \in Reputations
    BY LoadedValid DEF Crash, Stores, Valid
<1>2. thread' \in [Threads -> ThreadStates] /\ \A t \in Threads : thread'[t].at = "idle"
    BY DEF Crash, ThreadStates, Idle
<1>3. \A s \in Stores : InSave(s)' = {} /\ Loaded(s)' = Loaded(s)
    BY <1>2 DEF InSave, Loaded, Crash, Fresh
<1>4. ValidInv'
    BY <1>1, <1>2 DEF Crash, TrustInv, ValidInv, Valid
<1>5. \A s \in exact' : s \in exact /\ s \in Stores /\ InSave(s) = {}
    BY DEF Crash, TrustInv, ValidInv
<1> QED BY <1>3, <1>4, <1>5 DEF Crash, TrustInv, SaverInv, SavedIsFound

(* Every step keeps the invariant.                                         *)
LEMMA TrustNextInv == ASSUME TrustInv, [Next]_vars PROVE TrustInv'
<1>1. ledger \in Ledgers /\ entries \in Reputations /\ thread \in [Threads -> ThreadStates]
    BY DEF TrustInv, ValidInv
<1>2. Idle \in ThreadStates /\ Idle.at = "idle"
    BY DEF ThreadStates, Idle
<1>3. ASSUME NEW t \in Threads, NEW n \in Nodes, NEW k \in Tokens, Reward(t, n, k)
      PROVE  TrustInv'
    <2>1. ledger' \in Ledgers
        BY <1>1, <1>3, RewardKeeps, TrustAssumption DEF Reward
    <2> QED BY <1>1, <1>2, <1>3, <2>1, OthersKeep DEF Reward
<1>4. ASSUME NEW t \in Threads, NEW n \in Nodes, Passes(t, n)
      PROVE  TrustInv'
    <2>1. entries' \in Reputations
        BY <1>1, <1>4, OutcomeKeeps DEF Passes
    <2> QED BY <1>1, <1>2, <1>4, <2>1, OthersKeep DEF Passes
<1>5. ASSUME NEW t \in Threads, NEW n \in Nodes, Fails(t, n)
      PROVE  TrustInv'
    <2>1. entries' \in Reputations
        BY <1>1, <1>5, OutcomeKeeps DEF Fails
    <2> DEFINE th == [at |-> "penalty", node |-> n]
    <2>2. th \in ThreadStates /\ th.at = "penalty"
        BY DEF ThreadStates
    <2>3. thread' = [thread EXCEPT ![t] = th] /\ thread[t].at = "idle"
          /\ ledger' \in Ledgers /\ UNCHANGED <<file, saved, exact>>
        BY <1>1, <1>2, <1>5 DEF Fails
    <2> HIDE DEF th
    <2> QED BY <2>1, <2>2, <2>3, OthersKeep
<1>6. ASSUME NEW t \in Threads, Penalise(t)
      PROVE  TrustInv'
    <2>1. thread[t] \in ThreadStates /\ thread[t].at = "penalty" /\ thread[t].node \in Nodes
        BY <1>1, <1>6, SavingIs DEF Penalise
    <2>2. ledger' \in Ledgers
        BY <1>1, <1>6, <2>1, DebitedKeeps DEF Penalise
    <2> QED BY <1>1, <1>2, <1>6, <2>1, <2>2, OthersKeep DEF Penalise
<1>7. CASE UNCHANGED vars
    <2>1. \A s \in Stores : InSave(s)' = InSave(s) /\ Loaded(s)' = Loaded(s) /\ Empty(s)' = Empty(s)
        BY <1>7 DEF vars, InSave, Loaded, Fresh, Empty, Content
    <2> QED BY <1>7, <2>1 DEF vars, TrustInv, ValidInv, SaverInv, SavedIsFound, Valid
<1> QED BY <1>3, <1>4, <1>5, <1>6, <1>7, CopyKeeps, TruncateKeeps, WriteKeeps, CrashKeeps
        DEF Next

-----------------------------------------------------------------------------
(* The invariant on which the three results rest.                          *)
THEOREM TrustInvariance == Spec => []TrustInv
BY TrustInitInv, TrustNextInv, PTL DEF Spec

(* Memory holds the tokens that must not be lost, and the last save those  *)
(* it copied; and nothing anywhere holds more than was rewarded.           *)
KeptInv ==
    /\ tally \in [rewarded : Nat, kept : Nat, copied : Nat]
    /\ tally.kept <= ledger.total /\ ledger.total <= tally.rewarded
    /\ tally.copied <= saved["ledger"].total
    /\ saved["ledger"].total <= tally.rewarded
    /\ file["ledger"].data.total <= tally.rewarded
    /\ \A t \in InSave("ledger") : thread[t].payload.total <= tally.rewarded

(* What holds a ledger holds a number of tokens.                           *)
LEMMA TotalsAreNat ==
    ASSUME TrustInv
    PROVE  /\ ledger.total \in Nat /\ saved["ledger"].total \in Nat
           /\ file["ledger"].data.total \in Nat /\ Loaded("ledger").total \in Nat
           /\ Fresh["ledger"].total = 0
           /\ \A t \in InSave("ledger") : thread[t].payload.total \in Nat
<1>1. \A led \in Ledgers : led.total \in Nat
    BY DEF Ledgers
<1>2. /\ ledger \in Ledgers /\ saved["ledger"] \in Ledgers
      /\ file["ledger"].data \in Ledgers /\ Loaded("ledger") \in Ledgers
    BY LoadedValid DEF TrustInv, ValidInv, Valid, Stores
<1>3. ASSUME NEW t \in InSave("ledger") PROVE thread[t].payload \in Ledgers
    BY <1>3, SavingIs DEF InSave, TrustInv, ValidInv, Valid
<1> QED BY <1>1, <1>2, <1>3 DEF Fresh

(* A step that touches no file, no save and no ledger.                     *)
LEMMA OthersKeepTokens ==
    ASSUME TrustInv, KeptInv, tally' = tally, ledger'.total = ledger.total,
           UNCHANGED <<file, saved>>,
           \A u \in InSave("ledger")' : u \in InSave("ledger") /\ thread'[u] = thread[u]
    PROVE  KeptInv'
BY DEF KeptInv

(* Every step keeps it.                                                    *)
LEMMA KeptNextInv == ASSUME TrustInv, KeptInv, [Next]_vars PROVE KeptInv'
<1>1. /\ tally \in [rewarded : Nat, kept : Nat, copied : Nat]
      /\ thread \in [Threads -> ThreadStates] /\ Idle.at = "idle"
    BY DEF KeptInv, TrustInv, ValidInv, Idle
<1>2. ASSUME NEW t \in Threads, NEW n \in Nodes, NEW k \in Tokens, Reward(t, n, k)
      PROVE  KeptInv'
    <2>1. k \in Nat /\ ledger'.total = ledger.total + k
        <3>1. ledger \in [balance : [Nodes -> Nat], total : Nat, taken : Nat]
            BY DEF TrustInv, ValidInv, Ledgers
        <3> QED BY <1>2, <3>1, TrustAssumption DEF Reward
    <2>2. /\ tally' = [tally EXCEPT !.rewarded = @ + k, !.kept = @ + k]
          /\ UNCHANGED <<thread, file, saved>>
        BY <1>2 DEF Reward
    <2>3. /\ tally' \in [rewarded : Nat, kept : Nat, copied : Nat]
          /\ tally'.rewarded = tally.rewarded + k /\ tally'.kept = tally.kept + k
          /\ tally'.copied = tally.copied
        <3> DEFINE r == tally.rewarded + k
                   m == tally.kept + k
        <3>1. r \in Nat /\ m \in Nat /\ tally.copied \in Nat
            BY <1>1, <2>1
        <3>2. tally' = [tally EXCEPT !.rewarded = r, !.kept = m]
            BY <2>2
        <3> HIDE DEF r, m
        <3>3. tally' = [rewarded |-> r, kept |-> m, copied |-> tally.copied]
            BY <1>1, <3>2
        <3> QED BY <3>1, <3>3 DEF r, m
    <2>4. InSave("ledger")' = InSave("ledger")
        BY <2>2 DEF InSave
    <2> QED BY <1>1, <2>1, <2>2, <2>3, <2>4, TotalsAreNat DEF KeptInv
<1>3. ASSUME NEW t \in Threads, NEW n \in Nodes, Passes(t, n) \/ Fails(t, n)
      PROVE  KeptInv'
    <2>1. /\ UNCHANGED <<ledger, file, saved, tally>>
          /\ thread[t].at = "idle"
          /\ \/ thread' = thread
             \/ thread' = [thread EXCEPT ![t] = [at |-> "penalty", node |-> n]]
        BY <1>1, <1>3 DEF Passes, Fails
    <2>2. \A u \in InSave("ledger")' : u \in InSave("ledger") /\ thread'[u] = thread[u]
        BY <1>1, <2>1 DEF InSave
    <2> QED BY <2>1, <2>2, OthersKeepTokens
<1>4. ASSUME NEW t \in Threads, Penalise(t) PROVE KeptInv'
    <2>1. ledger'.total = ledger.total
        <3>1. ledger \in [balance : [Nodes -> Nat], total : Nat, taken : Nat]
            BY DEF TrustInv, ValidInv, Ledgers
        <3> QED BY <1>4, <3>1 DEF Penalise, Debited
    <2>2. \A u \in InSave("ledger")' : u \in InSave("ledger") /\ thread'[u] = thread[u]
        BY <1>1, <1>4 DEF InSave, Penalise
    <2> QED BY <1>4, <2>1, <2>2, OthersKeepTokens DEF Penalise
<1>5. ASSUME NEW t \in Threads, Truncate(t) PROVE KeptInv'
    <2>1. /\ UNCHANGED <<ledger, saved, tally>>
          /\ thread' = [thread EXCEPT ![t].at = "truncated"]
          /\ file' = [file EXCEPT ![thread[t].store] = Empty(thread[t].store)]
          /\ thread[t].at = "copied" /\ DOMAIN file = Stores
        BY <1>5 DEF Truncate, TrustInv, ValidInv
    <2>2. \A u \in InSave("ledger")' :
            u \in InSave("ledger") /\ thread'[u].payload = thread[u].payload
        <3>1. thread[t].store \in Stores
              /\ thread[t] = [at |-> "copied", store |-> thread[t].store,
                               payload |-> thread[t].payload]
            BY <1>1, <2>1, SavingIs
        <3>2. /\ thread'[t].store = thread[t].store
              /\ thread'[t].payload = thread[t].payload
            BY <1>1, <2>1, <3>1
        <3> QED BY <1>1, <2>1, <3>2 DEF InSave
    <2>3. file'["ledger"].data.total <= tally.rewarded
        <3>1. file'["ledger"] \in {file["ledger"], Empty("ledger")}
            BY <2>1 DEF Stores
        <3>2. Empty("ledger").data.total = 0
            BY TotalsAreNat DEF Empty, Content
        <3> QED BY <1>1, <3>1, <3>2 DEF KeptInv
    <2> QED BY <2>1, <2>2, <2>3 DEF KeptInv
<1>6. ASSUME NEW t \in Threads, Write(t) PROVE KeptInv'
    <2> DEFINE s == thread[t].store
    <2>1. /\ UNCHANGED <<ledger, saved, tally>>
          /\ thread' = [thread EXCEPT ![t] = Idle] /\ thread[t].at = "truncated"
          /\ DOMAIN file = Stores
          /\ \E c \in {Content("payload", thread[t].payload), Corrupt(s)} :
               file' = [file EXCEPT ![s] = c]
        BY <1>6 DEF Write, TrustInv, ValidInv
    <2>2. \A u \in InSave("ledger")' : u \in InSave("ledger") /\ thread'[u] = thread[u]
        BY <1>1, <2>1 DEF InSave
    <2>3. file'["ledger"].data.total <= tally.rewarded
        <3>1. CASE s # "ledger"
            BY <2>1, <3>1 DEF KeptInv
        <3>2. CASE s = "ledger"
            <4>1. t \in InSave("ledger")
                BY <2>1, <3>2 DEF InSave
            <4>2. file'["ledger"].data \in {thread[t].payload, Fresh["ledger"]}
                BY <2>1, <3>2 DEF Content, Corrupt, Stores
            <4> QED BY <1>1, <4>1, <4>2, TotalsAreNat DEF KeptInv
        <3> QED BY <3>1, <3>2
    <2> QED BY <2>1, <2>2, <2>3 DEF KeptInv
<1>7. ASSUME NEW t \in Threads, NEW s \in Stores, Copy(t, s) PROVE KeptInv'
    <2> DEFINE th == [at |-> "copied", store |-> s, payload |-> InMemory(s)]
    <2>1. /\ UNCHANGED <<ledger, file>> /\ thread' = [thread EXCEPT ![t] = th]
          /\ saved' = [saved EXCEPT ![s] = InMemory(s)] /\ DOMAIN saved = Stores
          /\ tally' = IF s = "ledger" THEN [tally EXCEPT !.copied = tally.kept] ELSE tally
        BY <1>7 DEF Copy, TrustInv, ValidInv
    <2>2. /\ th.store = s /\ th.payload = InMemory(s)
          /\ s = "ledger" => InMemory(s) = ledger
        BY DEF InMemory
    <2> HIDE DEF th
    <2>3. ASSUME NEW u \in InSave("ledger")' PROVE thread'[u].payload.total <= tally.rewarded
        <3>1. CASE u = t
            BY <1>1, <2>1, <2>2, <2>3, <3>1 DEF InSave, KeptInv
        <3>2. CASE u # t
            BY <1>1, <2>1, <2>3, <3>2 DEF InSave, KeptInv
        <3> QED BY <3>1, <3>2
    <2>4. CASE s = "ledger"
        <3>1. /\ tally' \in [rewarded : Nat, kept : Nat, copied : Nat]
              /\ tally'.rewarded = tally.rewarded /\ tally'.kept = tally.kept
              /\ tally'.copied = tally.kept
            BY <1>1, <2>1, <2>4
        <3>2. saved'["ledger"] = ledger
            BY <2>1, <2>2, <2>4
        <3> QED BY <2>1, <2>3, <3>1, <3>2 DEF KeptInv
    <2>5. CASE s # "ledger"
        <3>1. tally' = tally /\ saved'["ledger"] = saved["ledger"]
            BY <2>1, <2>5 DEF Stores
        <3> QED BY <2>1, <2>3, <3>1 DEF KeptInv
    <2> QED BY <2>4, <2>5
<1>8. CASE Crash
    <2>1. /\ ledger' = Loaded("ledger") /\ UNCHANGED <<file, saved>>
          /\ thread' = [t \in Threads |-> Idle]
          /\ exact' = {s \in exact : InSave(s) = {}}
          /\ tally' = [tally EXCEPT !.kept =
                         IF "ledger" \in exact' THEN tally.copied ELSE 0]
        BY <1>8 DEF Crash
    <2>2. /\ tally' \in [rewarded : Nat, kept : Nat, copied : Nat]
          /\ tally'.rewarded = tally.rewarded /\ tally'.copied = tally.copied
          /\ tally'.kept = IF "ledger" \in exact' THEN tally.copied ELSE 0
        BY <1>1, <2>1
    <2>3. tally'.kept <= ledger'.total
        <3>1. CASE "ledger" \in exact'
            <4>1. Loaded("ledger") = saved["ledger"]
                BY <2>1, <3>1 DEF TrustInv, SaverInv, SavedIsFound
            <4> QED BY <2>1, <2>2, <3>1, <4>1 DEF KeptInv
        <3>2. CASE "ledger" \notin exact'
            BY <2>1, <2>2, <3>2, TotalsAreNat
        <3> QED BY <3>1, <3>2
    <2>4. ledger'.total <= tally.rewarded
        <3>1. Loaded("ledger") \in {file["ledger"].data, Fresh["ledger"]}
            BY DEF Loaded
        <3> QED BY <1>1, <2>1, <3>1, TotalsAreNat DEF KeptInv
    <2>5. InSave("ledger")' = {}
        BY <1>1, <2>1 DEF InSave
    <2> QED BY <2>1, <2>2, <2>3, <2>4, <2>5 DEF KeptInv
<1>9. CASE UNCHANGED vars
    <2>1. InSave("ledger")' = InSave("ledger")
        BY <1>9 DEF vars, InSave
    <2> QED BY <1>9, <2>1, OthersKeepTokens DEF vars
<1> QED BY <1>2, <1>3, <1>4, <1>5, <1>6, <1>7, <1>8, <1>9 DEF Next

(* Conserved: a reward is lost only in a crash, and then only if no        *)
(* undisturbed save had it; and none is paid twice, for any workers,       *)
(* threads and bounds.                                                     *)
THEOREM ConservedHolds == Spec => []Conserved
<1>1. Init => KeptInv
    <2> SUFFICES ASSUME Init PROVE KeptInv
        OBVIOUS
    <2>1. TrustInv /\ Fresh["ledger"].total = 0
        BY TrustInitInv DEF Fresh
    <2>2. /\ ledger = Fresh["ledger"] /\ saved["ledger"] = Fresh["ledger"]
          /\ file["ledger"] = Absent("ledger")
          /\ tally = [rewarded |-> 0, kept |-> 0, copied |-> 0]
          /\ thread = [t \in Threads |-> Idle]
        BY DEF Init, Fresh
    <2>3. InSave("ledger") = {} /\ Absent("ledger").data = Fresh["ledger"]
        BY <2>2 DEF InSave, Idle, Absent, Content
    <2> QED BY <2>1, <2>2, <2>3 DEF KeptInv
<1>2. TrustInv /\ KeptInv /\ [Next]_vars => KeptInv'
    BY KeptNextInv
<1>3. TrustInv /\ KeptInv => Conserved
    BY LoadedValid
    DEF TrustInv, ValidInv, KeptInv, Conserved, Ledgers, Valid, Stores
<1> QED BY <1>1, <1>2, <1>3, TrustInvariance, PTL DEF Spec

(* SavedIsFound: a restart finds the last save, unless another one         *)
(* overlapped it or a crash cut it off.                                    *)
THEOREM SavedIsFoundHolds == Spec => []SavedIsFound
<1>1. TrustInv => SavedIsFound
    BY DEF TrustInv, SaverInv
<1> QED BY <1>1, TrustInvariance, PTL

(* DistrustTakesTen: nine failed checks, in any order with good ones and   *)
(* over any restarts, leave a worker trusted.                              *)
THEOREM DistrustTakesTenHolds == Spec => []DistrustTakesTen
<1>1. ASSUME NEW e \in Entry, Trusted(e), ~(e.bad >= 10) PROVE e.score >= REPUTATION_THRESHOLD
    <2>1. e.bad \in 0 .. 9 /\ e.score \in Int
        BY <1>1, ScoresAreNat DEF Entry
    <2>2. Floor[e.bad + 1] \in Int /\ Floor[e.bad + 1] >= 300
        BY <2>1 DEF Floor
    <2> DEFINE c == 1000
               x == Floor[e.bad + 1]
    <2>3. e.score >= c * x
        BY <1>1, <2>1 DEF Trusted
    <2>4. REPUTATION_THRESHOLD = 300 * c /\ c \in Nat /\ x \in Int /\ x >= 300
        BY <2>2 DEF REPUTATION_THRESHOLD
    <2> HIDE DEF c, x
    <2>5. c * x >= c * 300
        BY <2>4
    <2> QED BY <2>1, <2>3, <2>4, <2>5
<1>2. TrustInv => DistrustTakesTen
    <2> SUFFICES ASSUME TrustInv, NEW n \in Nodes, entries[n].score < REPUTATION_THRESHOLD
                 PROVE  entries[n].bad >= 10
        BY DEF DistrustTakesTen
    <2>1. entries[n] \in Entry /\ Trusted(entries[n])
        BY DEF TrustInv, ValidInv, Reputations
    <2>2. entries[n].score \in Int /\ REPUTATION_THRESHOLD \in Int
        BY <2>1, ScoresAreNat DEF Entry, REPUTATION_THRESHOLD
    <2> QED BY <1>1, <2>1, <2>2
<1> QED BY <1>2, TrustInvariance, PTL
=============================================================================
