--------------------------------- MODULE Launch ---------------------------------
(***************************************************************************)
(* scripts/launch_workers.py, launch_all.py, run_demo.py and stop_workers  *)
(* with the worker processes (core/worker.py) of one machine: who starts   *)
(* and who stops whom, the ready files in the temp directory and the file  *)
(* .worker_pids.                                                           *)
(*                                                                         *)
(* A launch is one run of a launcher; a user may start another one at any  *)
(* time, and run stop_workers.py at any time.  A worker is known by its    *)
(* launch and its shard.  Files are named after the shard only, so the     *)
(* workers of all launches share them, like the ports.                     *)
(***************************************************************************)
EXTENDS Integers, FiniteSets

CONSTANTS
    NumShards,  \* --shards, the same for every launch
    Launches,   \* runs of a launcher: 1, 2, ... in the order they start
    KindsOf,    \* KindsOf[l]: the launchers launch l may be a run of
    MaxStops,   \* bound: runs of stop_workers.py
    MaxFaults   \* bound: workers that fail to load or are killed, and
                \* launches that run out of LOAD_TIMEOUT_SECONDS

(* launch_workers.py, launch_all.py and run_demo.py.                       *)
Kinds == {"workers", "all", "demo"}

ASSUME LaunchAssumption ==
    /\ NumShards \in Nat \ {0}
    /\ Launches \subseteq Nat /\ KindsOf \in [Launches -> SUBSET Kinds]
    /\ MaxStops \in Nat /\ MaxFaults \in Nat

Shards == 0 .. NumShards - 1

VARIABLES
    kind,       \* kind[l]: which launcher launch l runs, once it has started
    launcher,   \* launcher[l]: where launch l is
    worker,     \* worker[l][i]: where its worker of shard i is
    readyFiles, \* shards whose ready file exists
    pidFile,    \* the launch whose PIDs .worker_pids holds, as a set
    stops, faults,
    loaded,     \* history: loaded[l], the shards some worker has loaded
                \* since launch l began
    alone,      \* history: the launch since whose start nobody else has
                \* removed or owned its files, as a set
    orphaned    \* history: shards whose ready file was last touched by a
                \* worker that died without running _cleanup

lvars == <<kind, launcher, worker, readyFiles, pidFile, stops, faults,
          loaded, alone, orphaned>>

(* "up": waiting for its processes to end or, the demo, in run_client.     *)
(* "failing" and "ending" are inside _terminate_all, the former after a    *)
(* crash or a timeout, the latter when Ctrl-C or the end of the demo has   *)
(* ended "up" ("closing").                                                 *)
LauncherStates ==
    {"new", "waiting", "up", "failing", "closing", "ending",
     "failed", "interrupted", "ended"}

(* "touched": loaded, bound and the ready file touched, but the handler of *)
(* SIGTERM not installed yet.  "stopping": in _shutdown, called for        *)
(* SIGTERM, which runs _cleanup again when ctx.term() has returned.        *)
(* "leaving": in the finally of the loop, after Ctrl-C, with nothing left  *)
(* to clean.                                                               *)
WorkerStates == {"none", "loading", "touched", "serving", "stopping", "leaving", "dead"}

LaunchTypeOK ==
    /\ kind \in [Launches -> Kinds]
    /\ launcher \in [Launches -> LauncherStates]
    /\ worker \in [Launches -> [Shards -> WorkerStates]]
    /\ readyFiles \subseteq Shards
    /\ pidFile \subseteq Launches /\ Cardinality(pidFile) <= 1
    /\ stops \in 0 .. MaxStops /\ faults \in 0 .. MaxFaults
    /\ loaded \in [Launches -> SUBSET Shards]
    /\ alone \subseteq Launches /\ orphaned \subseteq Shards

LaunchInit ==
    /\ kind = [l \in Launches |-> "workers"]
    /\ launcher = [l \in Launches |-> "new"]
    /\ worker = [l \in Launches |-> [i \in Shards |-> "none"]]
    /\ readyFiles = {} /\ pidFile = {}
    /\ stops = 0 /\ faults = 0
    /\ loaded = [l \in Launches |-> {}] /\ alone = {} /\ orphaned = {}

Fault == faults < MaxFaults /\ faults' = faults + 1

-----------------------------------------------------------------------------
(* Workers                                                                 *)

PortTaken(i) == \E l \in Launches : worker[l][i] \in {"touched", "serving"}

(* Mutant: the ready file is numbered from 1, like the shards on screen.   *)
LoadOneBased(l, i) ==
    /\ worker[l][i] = "loading" /\ ~PortTaken(i)
    /\ worker' = [worker EXCEPT ![l][i] = "touched"]
    /\ readyFiles' = readyFiles \cup ({i + 1} \cap Shards)
    /\ loaded' = [m \in Launches |->
         IF launcher[m] = "new" THEN {} ELSE loaded[m] \cup {i}]
    /\ orphaned' = orphaned \ {i}
    /\ UNCHANGED <<kind, alone, launcher, pidFile, stops, faults>>

(* Load, bind, touch the ready file.                                       *)
Load(l, i) ==
    /\ worker[l][i] = "loading" /\ ~PortTaken(i)
    /\ worker' = [worker EXCEPT ![l][i] = "touched"]
    /\ readyFiles' = readyFiles \cup {i}
    /\ loaded' = [m \in Launches |->
         IF launcher[m] = "new" THEN {} ELSE loaded[m] \cup {i}]
    /\ orphaned' = orphaned \ {i}
    /\ UNCHANGED <<kind, alone, launcher, pidFile, stops, faults>>

EnterLoop(l, i) ==
    /\ worker[l][i] = "touched"
    /\ worker' = [worker EXCEPT ![l][i] = "serving"]
    /\ UNCHANGED <<kind, alone, launcher, readyFiles, pidFile, stops, faults, loaded, orphaned>>

(* The bind or, as a fault, the loading raises; no file was touched.       *)
LoadingFails(l, i) ==
    /\ worker[l][i] = "loading"
    /\ IF PortTaken(i) THEN UNCHANGED faults ELSE Fault
    /\ worker' = [worker EXCEPT ![l][i] = "dead"]
    /\ UNCHANGED <<kind, alone, launcher, readyFiles, pidFile, stops, loaded, orphaned>>

KillWorker(l, i) ==
    /\ worker[l][i] \in {"touched", "serving"} /\ Fault
    /\ worker' = [worker EXCEPT ![l][i] = "dead"]
    /\ orphaned' = orphaned \cup {i}
    /\ UNCHANGED <<kind, alone, launcher, readyFiles, pidFile, stops, loaded>>

(* ctx.term() returns, if it does.                                         *)
Exit(l, i) ==
    /\ worker[l][i] \in {"stopping", "leaving"}
    /\ worker' = [worker EXCEPT ![l][i] = "dead"]
    /\ readyFiles' = IF worker[l][i] = "stopping" THEN readyFiles \ {i}
                     ELSE readyFiles
    /\ UNCHANGED <<kind, alone, launcher, pidFile, stops, faults, loaded, orphaned>>

(* Mutant: the handler leaves the file to the finally of the loop.         *)
SignalledKeepsFile(l, into, files) ==
    /\ worker' = [worker EXCEPT ![l] = [i \in Shards |->
         CASE @[i] \in {"loading", "touched"} -> "dead"
           [] @[i] \in {"serving", "leaving"} -> into
           [] OTHER -> @[i]]]
    /\ readyFiles' = files
    /\ orphaned' = orphaned \cup {i \in Shards : worker[l][i] = "touched"}

(* SIGTERM or Ctrl-C reaches the processes of l.  A worker that has not    *)
(* entered its loop dies at once and leaves the file it may have touched;  *)
(* one that serves, or is about to end, removes it and closes its sockets. *)
Signalled(l, into, files) ==
    /\ worker' = [worker EXCEPT ![l] = [i \in Shards |->
         CASE @[i] \in {"loading", "touched"} -> "dead"
           [] @[i] \in {"serving", "leaving"} -> into
           [] OTHER -> @[i]]]
    /\ readyFiles' = files \
         {i \in Shards : worker[l][i] \in {"serving", "stopping", "leaving"}}
    /\ orphaned' = orphaned \cup {i \in Shards : worker[l][i] = "touched"}

-----------------------------------------------------------------------------
(* The launchers                                                           *)

(* launch_workers writes the PIDs of its workers over those of an earlier  *)
(* launch.  The gateway of launch_all needs no variable: on ports that are *)
(* taken its threads die and its main thread lives on, so that it runs     *)
(* from here until it is signalled.                                        *)
Spawned(l, k) ==
    /\ kind' = [kind EXCEPT ![l] = k]
    /\ launcher' = [launcher EXCEPT ![l] = "waiting"]
    /\ worker' = [worker EXCEPT ![l] = [i \in Shards |-> "loading"]]
    /\ pidFile' = IF k = "workers" THEN {l} ELSE pidFile
    /\ alone' = {l}

NextLaunch(l) ==
    launcher[l] = "new" /\ \A m \in Launches : m < l => launcher[m] # "new"

(* Mutant: files of an earlier run are not removed.                        *)
StartLaunchUnclean(l) ==
    /\ NextLaunch(l)
    /\ \E k \in KindsOf[l] : Spawned(l, k)
    /\ UNCHANGED <<readyFiles, stops, faults, loaded, orphaned>>

(* Remove old ready files and spawn the processes.                         *)
StartLaunch(l) ==
    /\ NextLaunch(l)
    /\ readyFiles' = {}
    /\ \E k \in KindsOf[l] : Spawned(l, k)
    /\ UNCHANGED <<stops, faults, loaded, orphaned>>

AllReady == readyFiles = Shards

(* Every launcher believes the files, before it looks at its processes.    *)
ReportReady(l) ==
    /\ launcher[l] = "waiting" /\ AllReady
    /\ launcher' = [launcher EXCEPT ![l] = "up"]
    /\ UNCHANGED <<kind, worker, readyFiles, pidFile, stops, faults,
                   loaded, alone, orphaned>>

(* A worker of the launch has exited: _terminate_all, exit code 1.         *)
NoticeCrash(l) ==
    /\ launcher[l] = "waiting" /\ ~AllReady
    /\ \E i \in Shards : worker[l][i] = "dead"
    /\ launcher' = [launcher EXCEPT ![l] = "failing"]
    /\ Signalled(l, "stopping", readyFiles)
    /\ UNCHANGED <<kind, pidFile, stops, faults, loaded, alone>>

Loading(l) == \E i \in Shards : worker[l][i] = "loading"

(* Mutant: the deadline is only watched while a worker loads.              *)
TimeOutLoading(l) ==
    /\ launcher[l] = "waiting" /\ Loading(l) /\ Fault
    /\ launcher' = [launcher EXCEPT ![l] = "failing"]
    /\ Signalled(l, "stopping", readyFiles)
    /\ UNCHANGED <<kind, pidFile, stops, loaded, alone>>

(* The time to load is over.  It is a fault when workers still load or a   *)
(* poll would find all files; otherwise nothing else is going to happen.   *)
TimeOut(l) ==
    /\ launcher[l] = "waiting"
    /\ IF Loading(l) \/ AllReady THEN Fault ELSE UNCHANGED faults
    /\ launcher' = [launcher EXCEPT ![l] = "failing"]
    /\ Signalled(l, "stopping", readyFiles)
    /\ UNCHANGED <<kind, pidFile, stops, loaded, alone>>

(* Ctrl-C goes to the launcher and its processes.  The waiting loops have  *)
(* no handler for it: nothing is terminated, no file is removed.           *)
Interrupt(l) ==
    /\ launcher[l] \in {"waiting", "up"}
    /\ launcher' = [launcher EXCEPT ![l] =
         IF @ = "waiting" THEN "interrupted" ELSE "closing"]
    /\ Signalled(l, "leaving", readyFiles)
    /\ UNCHANGED <<kind, pidFile, stops, faults, loaded, alone>>

(* run_client of the demo has returned or raised, or every proc.wait() of  *)
(* launch_workers, which then ends as it is.  launch_all waits for its     *)
(* gateway as well, until Ctrl-C.                                          *)
Ended(l) ==
    /\ launcher[l] = "up"
    /\ \/ kind[l] = "demo"
       \/ kind[l] = "workers" /\ \A i \in Shards : worker[l][i] = "dead"
    /\ launcher' = [launcher EXCEPT ![l] =
         IF kind[l] = "workers" THEN "ended" ELSE "closing"]
    /\ UNCHANGED <<kind, worker, readyFiles, pidFile, stops, faults,
                   loaded, alone, orphaned>>

(* SIGTERM to every process of the launch; launch_all has removed the      *)
(* ready files of all shards before, whoever they belong to.               *)
TerminateAll(l) ==
    /\ launcher[l] = "closing"
    /\ launcher' = [launcher EXCEPT ![l] = "ending"]
    /\ Signalled(l, "stopping", IF kind[l] = "all" THEN {} ELSE readyFiles)
    /\ alone' = IF kind[l] = "all" THEN {} ELSE alone
    /\ UNCHANGED <<kind, pidFile, stops, faults, loaded>>

(* _terminate_all: a worker that is still there after 5 s is killed.       *)
KillLeftover(l, i) ==
    /\ launcher[l] \in {"failing", "ending"}
    /\ worker[l][i] = "stopping"
    /\ worker' = [worker EXCEPT ![l][i] = "dead"]
    /\ UNCHANGED <<kind, launcher, readyFiles, pidFile, stops, faults,
                   loaded, alone, orphaned>>

AllDead(l) == \A i \in Shards : worker[l][i] = "dead"

(* A failed launch leaves the files as they are.  After "up", launch_      *)
(* workers and the demo remove the ready files of every shard, the former  *)
(* also the PID file, whoever they belong to by then.                      *)
Finish(l) ==
    /\ AllDead(l)
    /\ \/ /\ launcher[l] = "failing"
          /\ launcher' = [launcher EXCEPT ![l] = "failed"]
          /\ UNCHANGED <<readyFiles, pidFile, alone>>
       \/ /\ launcher[l] = "ending"
          /\ launcher' = [launcher EXCEPT ![l] = "interrupted"]
          /\ readyFiles' = IF kind[l] = "all" THEN readyFiles ELSE {}
          /\ pidFile' = IF kind[l] = "workers" THEN {} ELSE pidFile
          /\ alone' = IF kind[l] = "all" THEN alone ELSE {}
    /\ UNCHANGED <<kind, worker, stops, faults, loaded, orphaned>>

-----------------------------------------------------------------------------
(* stop_workers.py: SIGTERM to the PIDs of the file, if there is one, then *)
(* both kinds of files are removed.  It does not wait for anybody.         *)
StopWorkers ==
    /\ stops < MaxStops
    /\ stops' = stops + 1
    /\ readyFiles' = {} /\ pidFile' = {} /\ alone' = {}
    /\ worker' = [l \in Launches |-> [i \in Shards |->
         CASE l \in pidFile /\ worker[l][i] \in {"loading", "touched"} -> "dead"
           [] l \in pidFile /\ worker[l][i] \in {"serving", "leaving"} -> "stopping"
           [] OTHER -> worker[l][i]]]
    /\ UNCHANGED <<kind, launcher, faults, loaded, orphaned>>

-----------------------------------------------------------------------------
LaunchNext ==
    \/ \E l \in Launches :
         \/ StartLaunch(l) \/ ReportReady(l) \/ NoticeCrash(l) \/ TimeOut(l)
         \/ Interrupt(l) \/ Ended(l) \/ TerminateAll(l) \/ Finish(l)
         \/ \E i \in Shards :
              Load(l, i) \/ EnterLoop(l, i) \/ LoadingFails(l, i) \/ KillWorker(l, i)
              \/ Exit(l, i) \/ KillLeftover(l, i)
    \/ StopWorkers

LaunchSpec == LaunchInit /\ [][LaunchNext]_lvars

(* Workers load or fail, a launcher goes on polling, waiting and killing.  *)
(* Nobody need press Ctrl-C, run_client of the demo need not return, and a *)
(* worker may stay in ctx.term() for ever.                                 *)
LaunchFairness ==
    \A l \in Launches :
        /\ WF_lvars(ReportReady(l) \/ NoticeCrash(l)) /\ WF_lvars(TimeOut(l))
        /\ WF_lvars(TerminateAll(l)) /\ WF_lvars(Finish(l))
        /\ \A i \in Shards :
             /\ WF_lvars(Load(l, i) \/ (PortTaken(i) /\ LoadingFails(l, i)))
             /\ WF_lvars(EnterLoop(l, i)) /\ WF_lvars(KillLeftover(l, i))

LaunchFairSpec == LaunchSpec /\ LaunchFairness

-----------------------------------------------------------------------------
(* Properties                                                              *)

(* A launch reports "All workers ready" only for shards that were loaded   *)
(* since it began, whatever earlier launches and killed workers left.      *)
ReadyIsCurrent ==
    \A l \in Launches : launcher[l] = "up" => loaded[l] = Shards

(* A ready file belongs to a worker that serves its shard or is about to,  *)
(* unless that worker died without cleaning up: launches of any kind that  *)
(* overlap, a stop in the middle of one, and workers that end late delete  *)
(* files of others but never leave one behind.                             *)
FileMeansWorker ==
    \A i \in readyFiles \ orphaned : \E l \in Launches :
        worker[l][i] \in {"touched", "serving"}

(* A launch is decided: it does not wait for ever for a file that somebody *)
(* else has removed, nor for a worker that does not end.                   *)
LaunchDecides ==
    \A l \in Launches :
        launcher[l] \in {"waiting", "failing", "closing", "ending"} ~>
            launcher[l] \in {"up", "failed", "interrupted"}

(* While a launch waits: nobody else has removed files, and no process of  *)
(* another launch is still there.                                          *)
Undisturbed(l) ==
    /\ l \in alone
    /\ \A m \in Launches \ {l} : \A i \in Shards : worker[m][i] \in {"none", "dead"}

(* Without faults such a launch gets ready, unless its user interrupts it, *)
(* on a machine with any history of launches, interrupts and stops.        *)
LaunchSucceeds ==
    \A l \in Launches :
        [](faults = 0 /\ (launcher[l] = "waiting" => Undisturbed(l))) =>
            (launcher[l] = "waiting" ~> launcher[l] \in {"up", "interrupted"})
================================================================================
