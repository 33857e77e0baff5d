-------------------------- MODULE SecureLinksProofs --------------------------
(***************************************************************************)
(* What encryption does to a request, for any number of workers, key files *)
(* and key pairs.  Two invariants: the worker that holds a request which   *)
(* crossed an encrypted hop is itself encrypted, so the last one cannot    *)
(* answer; and where no two processes got in each other's way, a pair is   *)
(* saved or copied to its file before any worker uses that file.           *)
(***************************************************************************)
EXTENDS SecureLinks, TLAPS

(* The request is with worker pos - 1, which is up; it has come over an    *)
(* encrypted hop only if that worker is encrypted, hence not when it has   *)
(* been answered.                                                          *)
HeldSecured ==
    /\ pos \in 1 .. NumWorkers =>
         /\ phase[pos - 1] = "up"
         /\ secured # {} => encrypt[pos - 1]
    /\ pos \in {0, NumWorkers + 1} => secured = {}

(* A request is answered only if no hop of it was encrypted, not even the  *)
(* one from the client.                                                    *)
AnswerNeedsPlain == pos = NumWorkers + 1 => secured = {}

(* Whoever saves or uses a pair has one, and nobody removes a key file.    *)
KeysHeld ==
    /\ \A p \in Procs : phase[p] \in {"saving", "writing"} => key[p] # NO_KEY
    /\ \A p \in Procs : phase[p] = "loading" => file[FileOf(p)] # NO_KEY
    /\ \A w \in Workers : phase[w] = "up" /\ encrypt[w] => key[w] # NO_KEY

LinkInv == TypeOK /\ HeldSecured /\ KeysHeld

(* On such a file one process at a time is in save(), it found none there, *)
(* and what it writes is its own.                                          *)
SaverAlone ==
    \A p \in Procs : (phase[p] \in {"saving", "writing"} /\ FileOf(p) \notin contested) =>
        /\ file[FileOf(p)] = IF phase[p] = "saving" THEN NO_KEY ELSE TORN
        /\ \A q \in Procs : FileOf(q) = FileOf(p) /\ phase[q] \in {"saving", "writing"} => q = p

FileInv == LinkInv /\ SaverAlone /\ KeysAgree

-----------------------------------------------------------------------------
(* Every process has a key file, and no worker is one.                     *)
LEMMA Places ==
    /\ \A p \in Procs : FileOf(p) \in Files
    /\ \A w \in Workers : w \in Procs /\ w \in Nat /\ w \notin Files
                          /\ FileOf(w) = File[w]
    /\ \A m \in Files : m \in Procs /\ m \notin Workers /\ FileOf(m) = m
BY SecureAssumption DEF Procs, FileOf, Workers

(* Nothing has happened at first.                                          *)
LEMMA LinkInitInv == Init => LinkInv
BY SecureAssumption, Places
   DEF Init, LinkInv, TypeOK, Phases, HeldSecured, KeysHeld,
       NO_KEY, TORN

(* A step that leaves the request alone does not disturb where it is, if   *)
(* workers that are up stay up and keep their mode.                        *)
LEMMA RequestRests ==
    ASSUME LinkInv, UNCHANGED <<pos, secured>>,
           \A w \in Workers : phase[w] = "up" =>
             phase'[w] = "up" /\ encrypt'[w] = encrypt[w]
    PROVE  HeldSecured'
<1>1. ASSUME pos \in 1 .. NumWorkers PROVE pos - 1 \in Workers
    BY <1>1, SecureAssumption DEF Workers
<1> QED BY <1>1 DEF LinkInv, HeldSecured

(* A new pair is nobody else's.                                            *)
LEMMA GenerateKeeps ==
    ASSUME LinkInv, NEW p \in Procs, phase[p] = "off", Generate(p),
           contested' \subseteq Files, UNCHANGED <<file, encrypt, pos, secured>>
    PROVE  LinkInv'
<1>1. /\ keys' = keys + 1 /\ keys' \in 0 .. MaxKeys /\ keys' # NO_KEY
      /\ key'[p] = keys' /\ phase'[p] = "saving"
      /\ \A q \in Procs \ {p} : key'[q] = key[q] /\ phase'[q] = phase[q]
      /\ key' \in [Procs -> NO_KEY .. MaxKeys] /\ phase' \in [Procs -> Phases]
    BY SecureAssumption DEF Generate, LinkInv, TypeOK, Phases, NO_KEY
<1>2. TypeOK'
    BY <1>1 DEF LinkInv, TypeOK
<1>3. HeldSecured'
    BY <1>1, Places, RequestRests
<1>6. KeysHeld'
    BY <1>1, Places DEF LinkInv, KeysHeld, TypeOK, NO_KEY
<1> QED BY <1>2, <1>3, <1>6 DEF LinkInv

(* load() gives the process the pair on file, or ends it.                  *)
LEMMA LoadKeeps == ASSUME LinkInv, NEW p \in Procs, Load(p) PROVE LinkInv'
<1>1. CASE file[FileOf(p)] # TORN /\ key' = [key EXCEPT ![p] = file[FileOf(p)]] /\ HasKey(p)
    <2>1. /\ FileOf(p) \in Files /\ file[FileOf(p)] \in 1 .. MaxKeys
          /\ file[FileOf(p)] # NO_KEY
        <3>1. FileOf(p) \in Files /\ file[FileOf(p)] \in TORN .. MaxKeys
            BY Places DEF LinkInv, TypeOK
        <3>2. file[FileOf(p)] # NO_KEY /\ file[FileOf(p)] # TORN
            BY <1>1, <3>1 DEF Load, LinkInv, KeysHeld
        <3> QED BY <3>1, <3>2, SecureAssumption DEF NO_KEY, TORN
    <2>2. /\ phase' \in [Procs -> Phases] /\ phase'[p] \in {"up", "off"}
          /\ encrypt' \in [Workers -> BOOLEAN]
          /\ \A q \in Procs \ {p} : phase'[q] = phase[q]
          /\ \A w \in Workers : w # p => encrypt'[w] = encrypt[w]
        BY <1>1, Places DEF HasKey, LinkInv, TypeOK, Phases
    <2>3. /\ key' \in [Procs -> NO_KEY .. MaxKeys] /\ key'[p] = file[FileOf(p)]
          /\ \A q \in Procs \ {p} : key'[q] = key[q]
        BY <1>1, <2>1 DEF LinkInv, TypeOK, NO_KEY
    <2>4. TypeOK'
        BY <2>2, <2>3 DEF Load, LinkInv, TypeOK
    <2>5. HeldSecured'
        BY <2>2, Places, RequestRests DEF Load
    <2>6. KeysHeld'
        BY <2>1, <2>2, <2>3, Places DEF Load, LinkInv, KeysHeld, NO_KEY
    <2> QED BY <2>4, <2>5, <2>6 DEF LinkInv
<1>2. CASE phase' = [phase EXCEPT ![p] = "off"] /\ UNCHANGED <<key, encrypt>>
    <2>1. /\ phase' \in [Procs -> Phases] /\ phase'[p] = "off"
          /\ \A q \in Procs \ {p} : phase'[q] = phase[q]
        BY <1>2 DEF LinkInv, TypeOK, Phases
    <2>2. TypeOK'
        BY <1>2, <2>1 DEF Load, LinkInv, TypeOK
    <2>3. HeldSecured'
        BY <1>2, <2>1, Places, RequestRests DEF Load
    <2>4. KeysHeld'
        BY <1>2, <2>1, Places DEF Load, LinkInv, KeysHeld
    <2> QED BY <2>2, <2>3, <2>4 DEF LinkInv
<1> QED BY <1>1, <1>2 DEF Load

(* save(): the file has no pair, and then that of the process.             *)
LEMMA SaveKeeps ==
    ASSUME LinkInv, NEW p \in Procs, Truncate(p) \/ Write(p)
    PROVE  LinkInv'
<1>1. FileOf(p) \in Files /\ \A m \in Files : file[m] \in TORN .. MaxKeys
    BY Places DEF LinkInv, TypeOK
<1>2. CASE Truncate(p)
    <2>1. /\ phase' \in [Procs -> Phases] /\ phase'[p] = "writing"
          /\ \A q \in Procs \ {p} : phase'[q] = phase[q]
          /\ file' \in [Files -> TORN .. MaxKeys] /\ file'[FileOf(p)] = TORN
          /\ \A m \in Files \ {FileOf(p)} : file'[m] = file[m]
        BY <1>1, <1>2, SecureAssumption DEF Truncate, LinkInv, TypeOK, Phases, TORN
    <2>2. TypeOK'
        BY <1>2, <2>1 DEF Truncate, LinkInv, TypeOK
    <2>3. HeldSecured'
        BY <1>2, <2>1, Places, RequestRests DEF Truncate
    <2>4. KeysHeld'
        BY <1>1, <1>2, <2>1, Places
        DEF Truncate, LinkInv, KeysHeld, TypeOK, NO_KEY, TORN
    <2> QED BY <2>2, <2>3, <2>4 DEF LinkInv
<1>3. CASE Write(p)
    <2>1. /\ phase' \in [Procs -> Phases] /\ phase'[p] \in {"up", "off"}
          /\ \A q \in Procs \ {p} : phase'[q] = phase[q]
          /\ encrypt' \in [Workers -> BOOLEAN]
          /\ \A w \in Workers : w # p => encrypt'[w] = encrypt[w]
        BY <1>3, Places DEF Write, HasKey, LinkInv, TypeOK, Phases
    <2>2. key[p] \in NO_KEY .. MaxKeys /\ key[p] # NO_KEY
        BY <1>3 DEF Write, LinkInv, TypeOK, KeysHeld
    <2>3. /\ file' \in [Files -> TORN .. MaxKeys] /\ file'[FileOf(p)] = key[p]
          /\ \A m \in Files \ {FileOf(p)} : file'[m] = file[m]
        BY <1>1, <1>3, <2>2 DEF Write, LinkInv, TypeOK, TORN, NO_KEY
    <2>4. TypeOK'
        BY <1>3, <2>1, <2>3 DEF Write, LinkInv, TypeOK
    <2>5. HeldSecured'
        BY <1>3, <2>1, Places, RequestRests DEF Write
    <2>6. KeysHeld'
        BY <1>1, <1>3, <2>1, <2>2, <2>3, Places
        DEF Write, LinkInv, KeysHeld, TypeOK, NO_KEY
    <2> QED BY <2>4, <2>5, <2>6 DEF LinkInv
<1> QED BY <1>2, <1>3

(* A worker starts without --encrypt.                                      *)
LEMMA PlainKeeps == ASSUME LinkInv, NEW w \in Workers, StartPlain(w) PROVE LinkInv'
<1>0. NO_KEY <= keys
    BY DEF LinkInv, TypeOK, NO_KEY
<1>1. /\ phase' \in [Procs -> Phases] /\ key' \in [Procs -> NO_KEY .. MaxKeys]
      /\ encrypt' \in [Workers -> BOOLEAN]
      /\ phase'[w] = "up" /\ key'[w] = NO_KEY /\ encrypt'[w] = FALSE
      /\ \A q \in Procs \ {w} : phase'[q] = phase[q] /\ key'[q] = key[q]
      /\ \A v \in Workers \ {w} : encrypt'[v] = encrypt[v]
    BY Places, SecureAssumption DEF StartPlain, LinkInv, TypeOK, Phases, NO_KEY
<1>2. TypeOK'
    BY <1>1 DEF StartPlain, LinkInv, TypeOK
<1>3. HeldSecured'
    BY <1>1, Places, RequestRests DEF StartPlain
<1>4. KeysHeld'
    BY <1>1, <1>0, Places DEF StartPlain, LinkInv, KeysHeld
<1> QED BY <1>2, <1>3, <1>4 DEF LinkInv

(* A process ends, and a request it holds with it.                         *)
LEMMA StopKeeps == ASSUME LinkInv, NEW p \in Procs, Stop(p) PROVE LinkInv'
<1>0. NO_KEY <= keys
    BY DEF LinkInv, TypeOK, NO_KEY
<1>1. /\ phase' \in [Procs -> Phases] /\ key' \in [Procs -> NO_KEY .. MaxKeys]
      /\ encrypt' \in [Workers -> BOOLEAN]
      /\ phase'[p] = "off" /\ key'[p] = NO_KEY
      /\ \A q \in Procs \ {p} : phase'[q] = phase[q] /\ key'[q] = key[q]
      /\ \A v \in Workers : v # p => encrypt'[v] = encrypt[v]
    <2>1. "off" \in Phases /\ NO_KEY \in NO_KEY .. MaxKeys
        BY SecureAssumption DEF Phases, NO_KEY
    <2>2. /\ phase' = [phase EXCEPT ![p] = "off"] /\ key' = [key EXCEPT ![p] = NO_KEY]
          /\ encrypt' = [w \in Workers |-> IF w = p THEN FALSE ELSE encrypt[w]]
        BY DEF Stop
    <2>3. /\ phase \in [Procs -> Phases] /\ key \in [Procs -> NO_KEY .. MaxKeys]
          /\ encrypt \in [Workers -> BOOLEAN]
        BY DEF LinkInv, TypeOK
    <2> QED BY <2>1, <2>2, <2>3
<1>2. /\ pos' \in 0 .. NumWorkers + 1 /\ secured' \subseteq secured
      /\ contested' \subseteq Files
    <2>1. \/ pos' = 0 /\ secured' = {}
          \/ pos' = pos /\ secured' = secured
        BY DEF Stop
    <2>2. contested' = contested \/ contested' = contested \cup {FileOf(p)}
        BY DEF Stop
    <2>3. pos' \in 0 .. NumWorkers + 1
        BY <2>1, SecureAssumption DEF LinkInv, TypeOK
    <2>4. secured' \subseteq secured
        BY <2>1
    <2>5. contested' \subseteq Files
        BY <2>2, Places DEF LinkInv, TypeOK
    <2> QED BY <2>3, <2>4, <2>5
<1>3. TypeOK'
    BY <1>1, <1>2 DEF Stop, LinkInv, TypeOK
<1>4. HeldSecured'
    <2>1. CASE pos \in 1 .. NumWorkers /\ p = pos - 1
        BY <2>1, SecureAssumption DEF Stop, HeldSecured
    <2>2. CASE ~(pos \in 1 .. NumWorkers /\ p = pos - 1)
        <3>1. ASSUME pos \in 1 .. NumWorkers
              PROVE  pos - 1 \in Workers /\ pos - 1 \in Procs /\ pos - 1 # p
            BY <2>2, <3>1, Places, SecureAssumption DEF Workers
        <3>2. UNCHANGED <<pos, secured>>
            BY <2>2 DEF Stop
        <3> QED BY <1>1, <3>1, <3>2 DEF LinkInv, HeldSecured
    <2> QED BY <2>1, <2>2
<1>6. KeysHeld'
    BY <1>1, <1>0, Places DEF Stop, LinkInv, KeysHeld
<1> QED BY <1>3, <1>4, <1>6 DEF LinkInv

(* The two ends of a hop have the same mode.                               *)
LEMMA HopKeeps == ASSUME LinkInv, NEW w \in Workers, Hop(w) PROVE LinkInv'
<1>1. /\ w \in 1 .. NumWorkers - 1 /\ w - 1 \in Workers /\ w - 1 \in Procs
      /\ pos = w /\ pos \in 1 .. NumWorkers /\ pos' = w + 1
    BY Places, SecureAssumption DEF Hop, Workers
<1>2. phase[w - 1] = "up" /\ phase[w] = "up" /\ encrypt[w - 1] = encrypt[w]
      /\ (secured # {} => encrypt[w - 1])
    BY <1>1 DEF Hop, HopWorks, LinkInv, HeldSecured
<1>3. secured' = IF encrypt[w] THEN secured \cup {w} ELSE secured
    BY DEF Hop
<1>5. TypeOK'
    <2>1. pos' \in 0 .. NumWorkers + 1 /\ secured' \subseteq 0 .. NumWorkers
        BY <1>1, <1>3, SecureAssumption DEF LinkInv, TypeOK
    <2> QED BY <2>1 DEF Hop, fileVars, LinkInv, TypeOK
<1>6. HeldSecured'
    <2>1. pos' - 1 = w /\ pos' # 0 /\ pos' # NumWorkers + 1
        BY <1>1, SecureAssumption
    <2>2. secured' # {} => encrypt[w]
        BY <1>2, <1>3
    <2> QED BY <1>2, <2>1, <2>2 DEF Hop, fileVars, HeldSecured
<1>8. KeysHeld'
    BY DEF Hop, fileVars, LinkInv, KeysHeld
<1> QED BY <1>5, <1>6, <1>8 DEF LinkInv

(* The client's steps.                                                     *)
LEMMA ClientKeeps ==
    ASSUME LinkInv, NEW k \in NO_KEY .. MaxKeys, ClientSends(k) \/ Answer \/ Again
    PROVE  LinkInv'
<1>1. KeysHeld'
    BY DEF ClientSends, Answer, Again, fileVars, LinkInv, KeysHeld
<1>2. CASE ClientSends(k)
    <2>1. /\ pos' = 1 /\ pos' - 1 = 0 /\ phase[0] = "up"
          /\ secured' = (IF encrypt[0] THEN {0} ELSE {})
          /\ NumWorkers \in Nat \ {0} /\ 0 \in Workers
        BY <1>2, SecureAssumption DEF ClientSends, LinkInv, TypeOK, Workers
    <2>2. TypeOK'
        BY <1>2, <2>1 DEF ClientSends, fileVars, LinkInv, TypeOK
    <2>3. HeldSecured'
        BY <1>2, <2>1 DEF ClientSends, fileVars, HeldSecured
    <2> QED BY <1>1, <2>2, <2>3 DEF LinkInv
<1>3. CASE Answer
    <2>1. secured = {} /\ secured' = {} /\ pos' = NumWorkers + 1
        BY <1>3, SecureAssumption DEF Answer, LinkInv, HeldSecured
    <2> QED BY <1>1, <1>3, <2>1, SecureAssumption
            DEF Answer, fileVars, LinkInv, TypeOK, HeldSecured
<1>4. CASE Again
    BY <1>1, <1>4, SecureAssumption
    DEF Again, fileVars, LinkInv, TypeOK, HeldSecured
<1> QED BY <1>2, <1>3, <1>4

(* Copying a key file removes none.                                        *)
LEMMA CopyKeeps == ASSUME LinkInv, NEW f \in Files, NEW g \in Files, Copy(f, g) PROVE LinkInv'
<1>1. /\ file' \in [Files -> TORN .. MaxKeys] /\ file'[g] = file[f] /\ file[f] # NO_KEY
      /\ \A h \in Files \ {g} : file'[h] = file[h]
    BY DEF Copy, LinkInv, TypeOK
<1>2. TypeOK'
    BY <1>1 DEF Copy, LinkInv, TypeOK
<1>3. HeldSecured'
    BY RequestRests DEF Copy
<1>4. KeysHeld'
    BY <1>1, Places DEF Copy, LinkInv, KeysHeld
<1> QED BY <1>2, <1>3, <1>4 DEF LinkInv

(* Every step keeps the invariant.                                         *)
LEMMA LinkNextInv == ASSUME LinkInv, [Next]_vars PROVE LinkInv'
<1>1. ASSUME NEW p \in Procs, GetOrCreate(p) PROVE LinkInv'
    <2>1. contested' \subseteq Files
        BY <1>1, Places DEF GetOrCreate, LinkInv, TypeOK
    <2>2. CASE Generate(p)
        BY <1>1, <2>1, <2>2, GenerateKeeps DEF GetOrCreate
    <2>3. CASE file[FileOf(p)] # NO_KEY /\ phase' = [phase EXCEPT ![p] = "loading"]
               /\ UNCHANGED <<key, keys>>
        <3>1. /\ phase' \in [Procs -> Phases] /\ phase'[p] = "loading"
              /\ \A q \in Procs \ {p} : phase'[q] = phase[q]
            BY <2>3 DEF LinkInv, TypeOK, Phases
        <3>2. TypeOK'
            BY <1>1, <2>1, <2>3, <3>1 DEF GetOrCreate, LinkInv, TypeOK
        <3>3. HeldSecured'
            BY <1>1, <3>1, Places, RequestRests DEF GetOrCreate
        <3>4. KeysHeld'
            BY <1>1, <2>3, <3>1, Places DEF GetOrCreate, LinkInv, KeysHeld
        <3> QED BY <3>2, <3>3, <3>4 DEF LinkInv
    <2> QED BY <1>1, <2>2, <2>3 DEF GetOrCreate
<1>2. ASSUME NEW m \in Files, Renew(m) PROVE LinkInv'
    <2>1. contested' \subseteq Files
        BY <1>2 DEF Renew, LinkInv, TypeOK
    <2> QED BY <1>2, <2>1, Places, GenerateKeeps DEF Renew
<1>3. CASE UNCHANGED vars
    BY <1>3 DEF vars, LinkInv, TypeOK, HeldSecured, KeysHeld
<1>4. ASSUME NEW w \in Workers, StartPlain(w) \/ Hop(w) PROVE LinkInv'
    BY <1>4, PlainKeeps, HopKeeps
<1>5. ASSUME NEW p \in Procs, Load(p) \/ Truncate(p) \/ Write(p) \/ Stop(p)
      PROVE  LinkInv'
    BY <1>5, LoadKeeps, SaveKeeps, StopKeeps
<1>6. ASSUME Answer \/ Again PROVE LinkInv'
    BY <1>6, ClientKeeps, SecureAssumption DEF NO_KEY
<1> QED BY <1>1, <1>2, <1>3, <1>4, <1>5, <1>6, ClientKeeps, CopyKeeps DEF Next

-----------------------------------------------------------------------------
(* Whoever has a pair, has one that a file can hold.                       *)
LEMMA UsersHaveKeys ==
    ASSUME LinkInv, NEW w \in Workers, phase[w] = "up", encrypt[w]
    PROVE  key[w] \in Int /\ key[w] # NO_KEY /\ key[w] # TORN
BY Places DEF LinkInv, TypeOK, KeysHeld, NO_KEY, TORN

(* A process that generates a pair found no file and nobody in its way, or *)
(* leaves the file contested.                                              *)
LEMMA FileGenerate ==
    ASSUME FileInv, NEW p \in Procs, phase[p] = "off", Generate(p),
           contested \subseteq contested',
           FileOf(p) \in contested' \/ (file[FileOf(p)] = NO_KEY /\ ~Saving(FileOf(p))),
           UNCHANGED <<file, encrypt>>
    PROVE  SaverAlone' /\ KeysAgree'
<1>1. /\ phase'[p] = "saving"
      /\ \A q \in Procs \ {p} : key'[q] = key[q] /\ phase'[q] = phase[q]
    BY DEF Generate, FileInv, LinkInv, TypeOK
<1>2. KeysAgree'
    BY <1>1, Places DEF FileInv, KeysAgree
<1>3. SaverAlone'
    BY <1>1 DEF FileInv, SaverAlone, Saving
<1> QED BY <1>2, <1>3

(* get_or_create, on either way.                                           *)
LEMMA FileGetOrCreate ==
    ASSUME FileInv, NEW p \in Procs, GetOrCreate(p)
    PROVE  SaverAlone' /\ KeysAgree'
<1>1. /\ contested \subseteq contested'
      /\ FileOf(p) \in contested' \/ ~Saving(FileOf(p))
    BY DEF GetOrCreate
<1>2. CASE file[FileOf(p)] = NO_KEY /\ Generate(p)
    BY <1>1, <1>2, FileGenerate DEF GetOrCreate
<1>3. CASE phase' = [phase EXCEPT ![p] = "loading"] /\ UNCHANGED <<key, keys>>
    <2>1. phase'[p] = "loading" /\ \A q \in Procs \ {p} : phase'[q] = phase[q]
        BY <1>3 DEF FileInv, LinkInv, TypeOK
    <2> QED BY <1>1, <1>3, <2>1, Places DEF GetOrCreate, FileInv, SaverAlone, KeysAgree
<1> QED BY <1>2, <1>3 DEF GetOrCreate

(* load(): a worker that goes on has what the file holds.                  *)
LEMMA FileLoad ==
    ASSUME FileInv, NEW p \in Procs, Load(p)
    PROVE  SaverAlone' /\ KeysAgree'
<1>1. phase'[p] \in {"up", "off"} /\ \A q \in Procs \ {p} : phase'[q] = phase[q]
    BY DEF Load, HasKey, FileInv, LinkInv, TypeOK
<1>2. \A q \in Procs \ {p} : key'[q] = key[q] /\ (q \in Workers => encrypt'[q] = encrypt[q])
    BY Places DEF Load, HasKey, FileInv, LinkInv, TypeOK
<1>3. phase'[p] = "up" => key'[p] = file[FileOf(p)]
    BY DEF Load, FileInv, LinkInv, TypeOK
<1>4. UNCHANGED <<file, contested>>
    BY DEF Load
<1>5. SaverAlone'
    BY <1>1, <1>4 DEF FileInv, SaverAlone
<1>6. KeysAgree'
    BY <1>1, <1>2, <1>3, <1>4, Places DEF FileInv, KeysAgree
<1> QED BY <1>5, <1>6

(* save(): nobody runs with a pair yet while the one saver is at work, and *)
(* it leaves the file with its own pair.                                   *)
LEMMA FileSave ==
    ASSUME FileInv, NEW p \in Procs, Truncate(p) \/ Write(p)
    PROVE  SaverAlone' /\ KeysAgree'
<1>1. FileOf(p) \in Files
    BY Places
<1>2. ASSUME NEW w \in Workers, phase[w] = "up", encrypt[w], File[w] = FileOf(p)
      PROVE  FileOf(p) \in contested
    <2>1. SUFFICES ASSUME FileOf(p) \notin contested PROVE FALSE
        OBVIOUS
    <2>2. file[FileOf(p)] \in {NO_KEY, TORN}
        BY <2>1 DEF Truncate, Write, FileInv, SaverAlone
    <2>3. key[w] = file[FileOf(p)]
        BY <1>2, <2>1 DEF FileInv, KeysAgree
    <2> QED BY <1>2, <2>2, <2>3, UsersHaveKeys DEF FileInv
<1>3. CASE Truncate(p)
    <2>1. /\ phase[p] = "saving" /\ phase'[p] = "writing" /\ file'[FileOf(p)] = TORN
          /\ \A q \in Procs \ {p} : phase'[q] = phase[q]
          /\ \A m \in Files \ {FileOf(p)} : file'[m] = file[m]
          /\ UNCHANGED <<encrypt, key, contested>>
        BY <1>1, <1>3 DEF Truncate, FileInv, LinkInv, TypeOK
    <2>2. SaverAlone'
        BY <2>1, Places DEF FileInv, SaverAlone
    <2>3. KeysAgree'
        BY <1>2, <2>1, Places DEF FileInv, KeysAgree
    <2> QED BY <2>2, <2>3
<1>4. CASE Write(p)
    <2>1. /\ phase[p] = "writing" /\ phase'[p] \in {"up", "off"}
          /\ file'[FileOf(p)] = key[p]
          /\ \A q \in Procs \ {p} : phase'[q] = phase[q]
          /\ \A w \in Workers : w # p => encrypt'[w] = encrypt[w]
          /\ \A m \in Files \ {FileOf(p)} : file'[m] = file[m]
          /\ UNCHANGED <<key, contested>>
        BY <1>1, <1>4 DEF Write, HasKey, FileInv, LinkInv, TypeOK
    <2>2. SaverAlone'
        BY <2>1, Places DEF FileInv, SaverAlone
    <2>3. KeysAgree'
        BY <1>2, <2>1, Places DEF FileInv, KeysAgree
    <2> QED BY <2>2, <2>3
<1> QED BY <1>3, <1>4

(* Starting without --encrypt and ending: one user or one saver less, or,  *)
(* if it was writing, a contested file.                                    *)
LEMMA FileEnds ==
    ASSUME FileInv, NEW p \in Procs, Stop(p) \/ (p \in Workers /\ StartPlain(p))
    PROVE  SaverAlone' /\ KeysAgree'
<1>1. /\ phase'[p] \in {"off", "up"}
      /\ p \in Workers => phase'[p] = "off" \/ ~encrypt'[p]
      /\ \A q \in Procs \ {p} : phase'[q] = phase[q] /\ key'[q] = key[q]
      /\ \A w \in Workers : w # p => encrypt'[w] = encrypt[w]
      /\ UNCHANGED file /\ contested \subseteq contested'
    BY DEF Stop, StartPlain, FileInv, LinkInv, TypeOK
<1>2. SaverAlone'
    BY <1>1 DEF FileInv, SaverAlone
<1>3. KeysAgree'
    BY <1>1, Places DEF FileInv, KeysAgree
<1> QED BY <1>2, <1>3

(* A copy to where there was no file finds nobody with a pair of it, and   *)
(* nobody who saves one; any other one leaves the file contested.          *)
LEMMA FileCopy ==
    ASSUME FileInv, NEW f \in Files, NEW g \in Files, Copy(f, g)
    PROVE  SaverAlone' /\ KeysAgree'
<1>1. /\ file'[g] = file[f] /\ \A h \in Files \ {g} : file'[h] = file[h]
      /\ UNCHANGED <<phase, encrypt, key>> /\ contested \subseteq contested'
      /\ g \in contested' \/ (file[g] = NO_KEY /\ ~Saving(g))
    BY DEF Copy, FileInv, LinkInv, TypeOK
<1>2. SaverAlone'
    BY <1>1, Places DEF FileInv, SaverAlone, Saving
<1>3. KeysAgree'
    <2> SUFFICES ASSUME NEW w \in Workers, phase[w] = "up", encrypt[w], File[w] \notin contested'
                 PROVE  key[w] = file'[File[w]]
        BY <1>1 DEF KeysAgree
    <2>1. key[w] = file[File[w]] /\ key[w] # NO_KEY
        BY <1>1, UsersHaveKeys DEF FileInv, KeysAgree
    <2> QED BY <1>1, <2>1, Places
<1> QED BY <1>2, <1>3

(* Every step keeps the key files in order.                                *)
LEMMA FileNextInv == ASSUME FileInv, [Next]_vars PROVE FileInv'
<1>1. LinkInv'
    BY LinkNextInv DEF FileInv
<1>2. ASSUME NEW p \in Procs,
             GetOrCreate(p) \/ Load(p) \/ Truncate(p) \/ Write(p) \/ Stop(p)
      PROVE  SaverAlone' /\ KeysAgree'
    BY <1>2, FileGetOrCreate, FileLoad, FileSave, FileEnds
<1>3. ASSUME NEW m \in Files, Renew(m) PROVE SaverAlone' /\ KeysAgree'
    <2>1. m \in Procs /\ FileOf(m) = m
        BY Places
    <2> QED BY <1>3, <2>1, FileGenerate DEF Renew
<1>4. ASSUME NEW w \in Workers, StartPlain(w) PROVE SaverAlone' /\ KeysAgree'
    BY <1>4, Places, FileEnds
<1>5. ASSUME UNCHANGED fileVars PROVE SaverAlone' /\ KeysAgree'
    BY <1>5 DEF fileVars, FileInv, SaverAlone, KeysAgree
<1>6. [Next]_vars =>
        \/ \E p \in Procs : GetOrCreate(p) \/ Load(p) \/ Truncate(p) \/ Write(p) \/ Stop(p)
        \/ \E f \in Files : Renew(f)
        \/ \E f, g \in Files : Copy(f, g)
        \/ \E w \in Workers : StartPlain(w)
        \/ UNCHANGED fileVars
    BY DEF Next, Hop, ClientSends, Answer, Again, vars, fileVars
<1> QED BY <1>1, <1>2, <1>3, <1>4, <1>5, <1>6, FileCopy DEF FileInv

-----------------------------------------------------------------------------
(* The invariant on which the two results rest.                            *)
THEOREM LinkInvariance == Spec => []LinkInv
    BY LinkInitInv, LinkNextInv, PTL DEF Spec

(* Key files, key pairs and processes have their types, and the request is *)
(* at a place of the chain, whatever crashes in the middle of a save.      *)
THEOREM LinkTypeCorrect == Spec => []TypeOK
<1>1. LinkInv => TypeOK
    BY DEF LinkInv
<1> QED BY <1>1, LinkInvariance, PTL

(* AnswerNeedsPlain: run_client's result socket, bound without CURVE,      *)
(* answers no request that any hop encrypted, in a chain of any length.    *)
THEOREM AnswerNeedsPlainHolds == Spec => []AnswerNeedsPlain
<1>1. LinkInv => AnswerNeedsPlain
    BY DEF LinkInv, HeldSecured, AnswerNeedsPlain
<1> QED BY <1>1, LinkInvariance, PTL

(* KeysAgree: the users of a key file that did not get in each other's way *)
(* run with the pair on file, however many came and went and wherever a    *)
(* user copied it to.                                                      *)
THEOREM KeysAgreeHolds == Spec => []KeysAgree
<1>1. Init => FileInv
    BY LinkInitInv, Places DEF Init, FileInv, SaverAlone, KeysAgree
<1>2. FileInv => KeysAgree
    BY DEF FileInv
<1> QED BY <1>1, <1>2, FileNextInv, PTL DEF Spec
=============================================================================
