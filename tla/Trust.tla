-------------------------------- MODULE Trust --------------------------------
(***************************************************************************)
(* trust/ledger.py, trust/reputation.py and trust/verifier.py in one       *)
(* process whose threads share a ledger, a tracker and a verifier, as      *)
(* their locks provide for (no code of the repository calls them).  Money  *)
(* is counted in rewards of one token (0.001 LKM), scores in millionths.   *)
(*                                                                         *)
(* Both stores are saved alike: a payload is copied under the lock, and    *)
(* after that, without the lock, the file is truncated and written.        *)
(***************************************************************************)
EXTENDS Integers, FiniteSetsExt

CONSTANTS
    Nodes,          \* worker_id
    Threads,
    Tokens,         \* numbers of tokens a reward is for
    PENALTY,        \* PENALTY_AMOUNT
    MaxRewards,     \* bound: rewards
    MaxGood, MaxBad,\* bound: outcomes
    MaxSaves, MaxCrashes,
    MaxEarlier      \* bound: failed checks an existing reputation file shows

ASSUME TrustAssumption ==
    /\ IsFiniteSet(Nodes) /\ Tokens \subseteq Nat /\ PENALTY \in Nat
    /\ MaxRewards \in Nat /\ MaxGood \in Nat /\ MaxBad \in Nat
    /\ MaxSaves \in Nat /\ MaxCrashes \in Nat /\ MaxEarlier \in Nat

MAX_SCORE == 1000 * 1000
INITIAL_SCORE == 800 * 1000
REPUTATION_THRESHOLD == 300 * 1000

Stores == {"ledger", "reputation"}

VARIABLES
    ledger,     \* _balances and _total_tokens, and (history) what debits took
    entries,    \* the tracker's _entries
    thread,     \* thread[t]: what thread t is in the middle of
    file,       \* file[s]: its content, or Absent, Empty or Corrupt
    saved,      \* history: saved[s], the payload of the last save
    exact,      \* history: stores whose last save nobody got in the way of
    tally,      \* history: tokens rewarded, those that must not be lost
                \* (kept), and how many of them the last save has (copied)
    count       \* how often the bounded things have happened

vars == <<ledger, entries, thread, file, saved, exact, tally, count>>

NewEntry == [score |-> INITIAL_SCORE, good |-> 0, bad |-> 0]

Fresh == [ledger |-> [balance |-> [n \in Nodes |-> 0], total |-> 0, taken |-> 0],
          reputation |-> [n \in Nodes |-> NewEntry]]

Content(kind, data) == [kind |-> kind, data |-> data]
Absent(s) == Content("absent", Fresh[s])
Empty(s) == Content("empty", Fresh[s])      \* truncated, nothing written yet
Corrupt(s) == Content("corrupt", Fresh[s])  \* not JSON, or not all of it

Idle == [at |-> "idle"]

Happens(what, bound) ==
    count[what] < bound /\ count' = [count EXCEPT ![what] = @ + 1]

-----------------------------------------------------------------------------
(* Ledger and tracker, each call under its lock                            *)

(* Ledger.reward()                                                         *)
Reward(t, n, tokens) ==
    /\ thread[t] = Idle /\ Happens("reward", MaxRewards)
    /\ ledger' = [ledger EXCEPT !.balance[n] = @ + tokens, !.total = @ + tokens]
    /\ tally' = [tally EXCEPT !.rewarded = @ + tokens, !.kept = @ + tokens]
    /\ UNCHANGED <<entries, thread, file, saved, exact>>

Least(x, y) == IF x < y THEN x ELSE y

(* Ledger.debit(): the balance is clamped at 0.                            *)
Debited(led, n) ==
    LET amount == Least(PENALTY, led.balance[n])
    IN  [led EXCEPT !.balance[n] = @ - amount, !.taken = @ + amount]

(* (mutant: the average forgets faster)                                    *)
UpdatedFast(e, good) ==
    [score |-> (8 * e.score + 2 * (IF good THEN MAX_SCORE ELSE 0)) \div 10,
     good |-> e.good + (IF good THEN 1 ELSE 0),
     bad |-> e.bad + (IF good THEN 0 ELSE 1)]

(* ReputationEntry.update() with ALPHA = 0.1 and an outcome of 1 or 0.     *)
Updated(e, good) ==
    [score |-> (9 * e.score + (IF good THEN MAX_SCORE ELSE 0)) \div 10,
     good |-> e.good + (IF good THEN 1 ELSE 0),
     bad |-> e.bad + (IF good THEN 0 ELSE 1)]

(* The entry of a worker that has failed k checks.                         *)
AfterFailures[k \in Nat] ==
    IF k = 0 THEN NewEntry ELSE Updated(AfterFailures[k - 1], FALSE)

(* The process starts without a ledger and with a reputation file of       *)
(* earlier failures, or none.                                              *)
Init ==
    \E k \in 0 .. MaxEarlier :
        LET reputation == [n \in Nodes |-> AfterFailures[k]]
        IN  /\ ledger = Fresh["ledger"]
            /\ entries = reputation
            /\ file = [ledger |-> Absent("ledger"), reputation |->
                         IF k = 0 THEN Absent("reputation")
                         ELSE Content("payload", reputation)]
            /\ saved = [Fresh EXCEPT !["reputation"] = reputation]
            /\ thread = [t \in Threads |-> Idle]
            /\ exact = Stores
            /\ tally = [rewarded |-> 0, kept |-> 0, copied |-> 0]
            /\ count = [reward |-> 0, good |-> 0, bad |-> 0, save |-> 0, crash |-> 0]

(* maybe_verify(): the check is skipped, or passes, and the outcome is     *)
(* good either way.                                                        *)
Passes(t, n) ==
    /\ thread[t] = Idle /\ Happens("good", MaxGood)
    /\ entries' = [entries EXCEPT ![n] = Updated(@, TRUE)]
    /\ UNCHANGED <<ledger, thread, file, saved, exact, tally>>

(* It fails: record_bad() ...                                              *)
Fails(t, n) ==
    /\ thread[t] = Idle /\ Happens("bad", MaxBad)
    /\ entries' = [entries EXCEPT ![n] = Updated(@, FALSE)]
    /\ thread' = [thread EXCEPT ![t] = [at |-> "penalty", node |-> n]]
    /\ UNCHANGED <<ledger, file, saved, exact, tally>>

(* ... and then debit(), under the other lock.                             *)
Penalise(t) ==
    /\ thread[t].at = "penalty"
    /\ ledger' = Debited(ledger, thread[t].node)
    /\ thread' = [thread EXCEPT ![t] = Idle]
    /\ UNCHANGED <<entries, file, saved, exact, tally, count>>

-----------------------------------------------------------------------------
(* Persistence                                                             *)

InMemory(s) == IF s = "ledger" THEN ledger ELSE entries

InSave(s) == {t \in Threads :
    thread[t].at \in {"copied", "truncated"} /\ thread[t].store = s}

(* save(): the payload is copied under the lock.                           *)
Copy(t, s) ==
    /\ thread[t] = Idle /\ Happens("save", MaxSaves)
    /\ thread' = [thread EXCEPT ![t] =
         [at |-> "copied", store |-> s, payload |-> InMemory(s)]]
    /\ exact' = IF InSave(s) = {} THEN exact \cup {s} ELSE exact \ {s}
    /\ saved' = [saved EXCEPT ![s] = InMemory(s)]
    /\ tally' = IF s = "ledger" THEN [tally EXCEPT !.copied = tally.kept] ELSE tally
    /\ UNCHANGED <<ledger, entries, file>>

(* write_text() opens the file and with that empties it ...                *)
Truncate(t) ==
    /\ thread[t].at = "copied"
    /\ thread' = [thread EXCEPT ![t].at = "truncated"]
    /\ file' = [file EXCEPT ![thread[t].store] = Empty(thread[t].store)]
    /\ UNCHANGED <<ledger, entries, saved, exact, tally, count>>

(* (mutant: the bytes of an older file are not removed first)              *)
WriteOver(t) ==
    /\ thread[t].at = "truncated"
    /\ LET s == thread[t].store
           whole == Content("payload", thread[t].payload)
       IN  file' \in {[file EXCEPT ![s] = c] : c \in {whole, Corrupt(s)}}
    /\ thread' = [thread EXCEPT ![t] = Idle]
    /\ UNCHANGED <<ledger, entries, saved, exact, tally, count>>

(* ... and writes from its beginning.  If another save has written since,  *)
(* what is longer of its text remains behind ours.                         *)
Write(t) ==
    /\ thread[t].at = "truncated"
    /\ LET s == thread[t].store
           whole == Content("payload", thread[t].payload)
       IN  file' \in {[file EXCEPT ![s] = c] :
             c \in IF file[s] = Empty(s) THEN {whole} ELSE {whole, Corrupt(s)}}
    /\ thread' = [thread EXCEPT ![t] = Idle]
    /\ UNCHANGED <<ledger, entries, saved, exact, tally, count>>

(* (mutant: the total is not read back)                                    *)
LoadedBalances(s) ==
    IF file[s].kind # "payload" THEN Fresh[s]
    ELSE IF s = "ledger" THEN [file[s].data EXCEPT !.total = 0]
    ELSE file[s].data

(* _load_if_exists() takes a file it cannot read for none; the tracker's   *)
(* load() raises then, and leaves the entries as they are: none.           *)
Loaded(s) == IF file[s].kind = "payload" THEN file[s].data ELSE Fresh[s]

(* The process ends at any point and a new one loads both files.           *)
Crash ==
    /\ Happens("crash", MaxCrashes)
    /\ ledger' = Loaded("ledger")
    /\ entries' = Loaded("reputation")
    /\ thread' = [t \in Threads |-> Idle]
    /\ exact' = {s \in exact : InSave(s) = {}}
    /\ tally' = [tally EXCEPT !.kept = IF "ledger" \in exact' THEN tally.copied ELSE 0]
    /\ UNCHANGED <<file, saved>>

-----------------------------------------------------------------------------
Next ==
    \/ \E t \in Threads :
         \/ \E n \in Nodes :
              \/ \E k \in Tokens : Reward(t, n, k)
              \/ Passes(t, n) \/ Fails(t, n)
         \/ Penalise(t) \/ Truncate(t) \/ Write(t)
         \/ \E s \in Stores : Copy(t, s)
    \/ Crash

Spec == Init /\ [][Next]_vars

-----------------------------------------------------------------------------
(* Properties                                                              *)

Balanced(led) ==
    MapThenSumSet(LAMBDA n : led.balance[n], Nodes) + led.taken = led.total

(* A token that was rewarded is in a balance, or was taken as a penalty,   *)
(* until a crash; and it survives a crash when a save had copied it that   *)
(* no other one overlapped and no crash cut off.  What came after that     *)
(* save is lost, and everything may be if there is none: no more is        *)
(* promised.  And no restart pays a token twice, or makes a ledger of two  *)
(* moments, in memory or on file.                                          *)
Conserved ==
    /\ Balanced(ledger) /\ Balanced(Loaded("ledger"))
    /\ tally.kept <= ledger.total /\ ledger.total <= tally.rewarded

(* The last save is what a restart (or `lankamind balance`) finds, unless  *)
(* two saves overlapped or a crash cut one off: then it may find an older  *)
(* one, or an unreadable file and with it no balances at all.              *)
SavedIsFound ==
    \A s \in exact : InSave(s) = {} => Loaded(s) = saved[s]

(* A worker falls below the threshold only after ten failed checks, also   *)
(* over restarts: the nine tenths of its score that every failure leaves   *)
(* it keep it trusted until then.                                          *)
DistrustTakesTen ==
    \A n \in Nodes : entries[n].score < REPUTATION_THRESHOLD => entries[n].bad >= 10
=============================================================================
