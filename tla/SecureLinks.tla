----------------------------- MODULE SecureLinks -----------------------------
(***************************************************************************)
(* network/keypair.py and the encrypted sockets of a chain of workers.     *)
(* A worker is given a key file (--key-file) or takes that of its user,    *)
(* which the other workers of the machine take too, and users can copy one *)
(* to another machine.  get_or_create looks for the file and then loads    *)
(* it, or generates a pair and saves it, with nothing that keeps two       *)
(* processes apart.  Each worker is started with --encrypt or without.  A  *)
(* ZeroMQ connection carries messages only if both ends use CURVE, and the *)
(* sender the key of the receiver, or neither does.                        *)
(***************************************************************************)
EXTENDS Integers

CONSTANTS
    NumWorkers,
    Files,      \* key files, as numbers that no worker has
    File,       \* File[w]: the key file of worker w
    MaxKeys     \* bound: key pairs generated

Workers == 0 .. NumWorkers - 1

ASSUME SecureAssumption ==
    /\ NumWorkers \in Nat \ {0} /\ MaxKeys \in Nat
    /\ File \in [Workers -> Files]
    /\ Files \subseteq Nat /\ Files \cap Workers = {}

(* The processes that use a key file: the workers, and for each file a     *)
(* `lankamind keys`.                                                       *)
Procs == Workers \cup Files
FileOf(p) == IF p \in Files THEN p ELSE File[p]

NO_KEY == 0         \* no key file; a process without a key
TORN == -1          \* a key file whose JSON is not, or not yet, complete

VARIABLES
    file,       \* file[f]: what key file f holds
    phase,      \* phase[p]: where process p is
    encrypt,    \* encrypt[w]: worker w runs with CURVE sockets
    key,        \* key[p]: the pair p uses
    keys,       \* pairs generated so far
    pos,        \* workers that have had the request, NumWorkers + 1: answered
    secured,    \* the hops it crossed encrypted; hop w leads to worker w
    contested   \* history: files on which two processes were in the way of
                \* each other, a save was cut off, or the pair was replaced

fileVars == <<file, phase, encrypt, key, keys, contested>>
vars == <<file, phase, encrypt, key, keys, pos, secured, contested>>

(* "loading" and "saving": in get_or_create, which saw the file or did not *)
(* (or in keys --generate); "writing": the file is truncated; "up": a      *)
(* worker with its sockets.                                                *)
Phases == {"off", "loading", "saving", "writing", "up"}

TypeOK ==
    /\ file \in [Files -> TORN .. MaxKeys]
    /\ phase \in [Procs -> Phases]
    /\ encrypt \in [Workers -> BOOLEAN]
    /\ key \in [Procs -> NO_KEY .. MaxKeys]
    /\ keys \in 0 .. MaxKeys
    /\ pos \in 0 .. NumWorkers + 1
    /\ secured \subseteq 0 .. NumWorkers
    /\ contested \subseteq Files

Init ==
    /\ file = [f \in Files |-> NO_KEY]
    /\ phase = [p \in Procs |-> "off"]
    /\ encrypt = [w \in Workers |-> FALSE]
    /\ key = [p \in Procs |-> NO_KEY]
    /\ keys = 0 /\ pos = 0 /\ secured = {} /\ contested = {}

-----------------------------------------------------------------------------
(* The key file                                                            *)

Saving(f) == \E p \in Procs : FileOf(p) = f /\ phase[p] \in {"saving", "writing"}

(* generate(), and the way into save().                                    *)
Generate(p) ==
    /\ keys < MaxKeys
    /\ keys' = keys + 1
    /\ key' = [key EXCEPT ![p] = keys + 1]
    /\ phase' = [phase EXCEPT ![p] = "saving"]

(* (mutant: the default path is looked up, another one written)            *)
GetOrCreateBlind(p) ==
    /\ phase[p] = "off"
    /\ Generate(p)
    /\ contested' = IF Saving(FileOf(p)) THEN contested \cup {FileOf(p)} ELSE contested
    /\ UNCHANGED <<file, encrypt, pos, secured>>

(* A worker started with --encrypt, or `lankamind keys`: path.exists().    *)
GetOrCreate(p) ==
    /\ phase[p] = "off"
    /\ \/ /\ file[FileOf(p)] = NO_KEY
          /\ Generate(p)
       \/ /\ file[FileOf(p)] # NO_KEY
          /\ phase' = [phase EXCEPT ![p] = "loading"]
          /\ UNCHANGED <<key, keys>>
    /\ contested' = IF Saving(FileOf(p)) THEN contested \cup {FileOf(p)} ELSE contested
    /\ UNCHANGED <<file, encrypt, pos, secured>>

(* `lankamind keys --generate`, whatever runs with the old pair.           *)
Renew(f) ==
    /\ phase[f] = "off"
    /\ Generate(f)
    /\ contested' = contested \cup {f}
    /\ UNCHANGED <<file, encrypt, pos, secured>>

(* A user copies one key file over another, or to where none is yet.       *)
Copy(f, g) ==
    /\ f # g /\ file[f] # NO_KEY
    /\ file' = [file EXCEPT ![g] = file[f]]
    /\ contested' = IF file[g] = NO_KEY /\ ~Saving(g) THEN contested
                                                     ELSE contested \cup {g}
    /\ UNCHANGED <<phase, encrypt, key, keys, pos, secured>>

(* The worker goes on with its pair; `lankamind keys` prints it and ends.  *)
HasKey(p) ==
    /\ phase' = [phase EXCEPT ![p] = IF p \in Workers THEN "up" ELSE "off"]
    /\ encrypt' = [w \in Workers |-> IF w = p THEN TRUE ELSE encrypt[w]]

(* load(): it raises, and the process ends, on an incomplete file.         *)
Load(p) ==
    /\ phase[p] = "loading"
    /\ \/ /\ file[FileOf(p)] # TORN
          /\ key' = [key EXCEPT ![p] = file[FileOf(p)]]
          /\ HasKey(p)
       \/ /\ file[FileOf(p)] = TORN
          /\ phase' = [phase EXCEPT ![p] = "off"]
          /\ UNCHANGED <<key, encrypt>>
    /\ UNCHANGED <<file, keys, pos, secured, contested>>

(* save(): write_text opens the file and with that empties it ...          *)
Truncate(p) ==
    /\ phase[p] = "saving"
    /\ file' = [file EXCEPT ![FileOf(p)] = TORN]
    /\ phase' = [phase EXCEPT ![p] = "writing"]
    /\ UNCHANGED <<encrypt, key, keys, pos, secured, contested>>

(* ... and then writes: all payloads have the same length.                 *)
Write(p) ==
    /\ phase[p] = "writing"
    /\ file' = [file EXCEPT ![FileOf(p)] = key[p]]
    /\ HasKey(p)
    /\ UNCHANGED <<key, keys, pos, secured, contested>>

StartPlain(w) ==
    /\ phase[w] = "off"
    /\ phase' = [phase EXCEPT ![w] = "up"]
    /\ encrypt' = [encrypt EXCEPT ![w] = FALSE]
    /\ key' = [key EXCEPT ![w] = NO_KEY]
    /\ UNCHANGED <<file, keys, pos, secured, contested>>

(* A process ends; a request that has reached a worker and not been        *)
(* answered is lost with the worker that holds it.                         *)
Stop(p) ==
    /\ phase[p] # "off"
    /\ phase' = [phase EXCEPT ![p] = "off"]
    /\ contested' = IF phase[p] = "writing" THEN contested \cup {FileOf(p)} ELSE contested
    /\ IF pos \in 1 .. NumWorkers /\ p = pos - 1
       THEN pos' = 0 /\ secured' = {}
       ELSE UNCHANGED <<pos, secured>>
    /\ key' = [key EXCEPT ![p] = NO_KEY]
    /\ encrypt' = [w \in Workers |-> IF w = p THEN FALSE ELSE encrypt[w]]
    /\ UNCHANGED <<file, keys>>

-----------------------------------------------------------------------------
(* The chain                                                               *)

(* run_client connects its PUSH with CURVE if it has been given a server   *)
(* key k; without one (the gateway's chain never has any) it is plain.     *)
ClientSends(k) ==
    /\ pos = 0 /\ phase[0] = "up"
    /\ encrypt[0] = (k # NO_KEY) /\ k = key[0]
    /\ pos' = 1
    /\ secured' = IF k # NO_KEY THEN {0} ELSE {}
    /\ UNCHANGED fileVars

(* Worker w - 1 encrypts for the holder of its own pair, worker w is the   *)
(* server of its pair: run_worker has no other key to pass on.             *)
HopWorks(w) ==
    /\ encrypt[w - 1] = encrypt[w]
    /\ encrypt[w] => key[w - 1] = key[w]

Hop(w) ==
    /\ pos = w /\ w > 0 /\ phase[w] = "up"
    /\ HopWorks(w)
    /\ pos' = w + 1
    /\ secured' = IF encrypt[w] THEN secured \cup {w} ELSE secured
    /\ UNCHANGED fileVars

(* The client binds its result socket without CURVE, always.               *)
Answer ==
    /\ pos = NumWorkers
    /\ ~encrypt[NumWorkers - 1]
    /\ pos' = NumWorkers + 1
    /\ UNCHANGED <<fileVars, secured>>

(* The next request, after an answer or 60 s without one.                  *)
Again ==
    /\ pos # 0
    /\ pos' = 0 /\ secured' = {}
    /\ UNCHANGED fileVars

-----------------------------------------------------------------------------
Next ==
    \/ \E p \in Procs :
         GetOrCreate(p) \/ Load(p) \/ Truncate(p) \/ Write(p) \/ Stop(p)
    \/ \E f \in Files : Renew(f)
    \/ \E f, g \in Files : Copy(f, g)
    \/ \E w \in Workers : StartPlain(w) \/ Hop(w)
    \/ \E k \in NO_KEY .. MaxKeys : ClientSends(k)
    \/ Answer \/ Again

Spec == Init /\ [][Next]_vars

(* The client goes on sending, a socket delivers what it can, and the 60 s *)
(* of the client do not always run out before a worker has computed.       *)
FairSpec ==
    /\ Spec
    /\ WF_vars(\E k \in NO_KEY .. MaxKeys : ClientSends(k)) /\ WF_vars(Again)
    /\ \A w \in Workers : SF_vars(Hop(w))
    /\ SF_vars(Answer)

-----------------------------------------------------------------------------
(* Properties                                                              *)

(* With a key file that no two processes were using in get_or_create at    *)
(* the same time, whose pair nobody replaced and no save of which was cut  *)
(* off, every encrypted worker runs with the pair on file, so that workers *)
(* of one file reach each other.  (Otherwise the file may hold another     *)
(* pair or none a process could load.)                                     *)
KeysAgree ==
    \A w \in Workers :
        (phase[w] = "up" /\ encrypt[w] /\ File[w] \notin contested)
            => key[w] = file[File[w]]

(* "ZMQ CURVE (Curve25519) end-to-end encryption": a chain whose workers   *)
(* all run with --encrypt answers requests.  It does not hold: a worker    *)
(* connects to the next one with its own key, and the client binds its     *)
(* result socket without any.                                              *)
AllEncrypted == \A w \in Workers : phase[w] = "up" /\ encrypt[w]

EncryptedChainAnswers == <>[]AllEncrypted => []<>(pos = NumWorkers + 1)
=============================================================================
