------------------------------- MODULE Deploy -------------------------------
(***************************************************************************)
(* deploy-prod.yml: the deployment of a release to the server and its      *)
(* rollback, command by command (deploy-dev.yml has the same steps under   *)
(* other names).                                                           *)
(*                                                                         *)
(* Run n brings release n and environment n; 0 is what an earlier,         *)
(* complete deployment left.  A release is dist with package.json,         *)
(* yarn.lock and the pm2 configuration.  The commands run under set -e:    *)
(* one that fails ends its step, and the steps after it are skipped except *)
(* the rollback.  The next run cancels the one in progress; then failure() *)
(* is false and the rollback is skipped as well.                           *)
(*                                                                         *)
(* Most commands are those of bash scripts on the server, which ssh feeds  *)
(* from a here-document, without a terminal.  A lost connection fails the  *)
(* step and a cancellation ends the ssh of the runner, but the script runs *)
(* on, beside the rollback and the runs that follow, until it ends.        *)
(***************************************************************************)
EXTENDS Integers, FiniteSets

CONSTANTS
    MaxRuns, \* bound on the number of runs
    MaxLeft, \* bound on the scripts that run on at a time
    Worker,  \* the processes of the pm2 cluster
    None,    \* there is no such file; pm2 does not know the process
    Torn,    \* files half written, half removed or of two releases
    Down     \* a process that could not start

Version == 0..MaxRuns
Loadable == [rel : Version, env : Version]

ASSUME DeployAssumption ==
    /\ MaxRuns \in Nat
    /\ None \notin Nat /\ Torn \notin Nat /\ None # Torn
    /\ None # Down /\ None \notin Loadable /\ Down \notin Loadable

VARIABLES
    job,     \* the current run: its number, the command it is at, and what of it
             \* is done: the processes that pm2 has renewed, Torn for half a copy
    left,    \* scripts that run on without a runner, as job at their command
    env, envBak, envNew, \* the environment file, its .bak and its .new
    dist,    \* the release
    relBak,  \* .release.bak
    tarball, \* /tmp/backend-prod.tar.gz
    schema,  \* the release whose migrations the database has
    worker,  \* what each process has loaded
    envMark, relMark, \* the runs whose markers are there
    found,   \* (history) environment and release when the run began
    upset    \* (history) what went wrong besides a failing command

envFiles == <<env, envBak, envNew>>
releases == <<dist, relBak, tarball>>
server == <<schema, worker>>
marks == <<envMark, relMark>>
vars == <<job, left, envFiles, releases, server, marks, found, upset>>

EnvScript == {"touchEnv", "copyEnv", "moveEnv"}
ReleaseScript == {"clear", "copyRelease", "touchRelease", "remove", "extract", "discard",
                  "install", "migrate", "reload", "health"}
RollbackCommands == {"rollback", "choose", "rbRemove", "rbCopy", "rbInstall",
                     "rbReload", "rbHealth"}
Scripts == {EnvScript, ReleaseScript, {"unmark"}, RollbackCommands}
Remote == UNION Scripts
Commands == {"scp", "upload", "external", "unmark"} \cup EnvScript \cup ReleaseScript
Finals == {"success", "skipped", "envRestored", "rolledBack", "stuck", "cancelled"}

Place(n, command) == [run |-> n, pc |-> command, done |-> {}]

Init ==
    /\ job = Place(0, "success") /\ left = {} /\ schema = 0
    /\ envBak = None /\ envNew = None /\ relBak = None /\ tarball = None
    /\ \/ env = 0 /\ dist = 0 /\ worker = [w \in Worker |-> [rel |-> 0, env |-> 0]]
       \/ env = None /\ dist = None /\ worker = [w \in Worker |-> None]
    /\ envMark = {} /\ relMark = {}
    /\ found = [env |-> env, dist |-> dist]
    /\ upset = {}

\* A push, or a start by hand.  The concurrency group lets one run work at a
\* time.  The steps before the first scp touch nothing on the server.
StartRun ==
    /\ job.pc \in Finals /\ job.run < MaxRuns
    /\ job' = Place(job.run + 1, "scp")
    /\ found' = [env |-> env, dist |-> dist]
    /\ UNCHANGED <<left, envFiles, releases, server, marks, upset>>

\* s, the current run or a script that runs on, gets to t.  The script ends
\* where what follows is up to the runner.
Step(s, t) ==
    /\ \/ /\ s = job /\ job' = t /\ UNCHANGED left
          /\ upset' = upset \cup IF t.pc = "stuck" THEN {"rollbackFailed"} ELSE {}
       \/ /\ s \in left /\ UNCHANGED job
          /\ left' = (left \ {s}) \cup {u \in {t} : \E c \in Scripts : {s.pc, u.pc} \subseteq c}
          /\ upset' = upset \cup {IF s.run = job.run THEN "unwatched" ELSE "overlapped"}
    /\ UNCHANGED found

At(s, command, next) == s.pc = command /\ Step(s, Place(s.run, next))

\* What a copy of x leaves where old is: a mixture if another script has put
\* something there since the first half.
Copied(s, x, old) == {x} \cup IF s.done # {} /\ old # Torn THEN {Torn} ELSE {}

-----------------------------------------------------------------------------
(* Upload env file, upload release                                         *)

UploadEnv(s) ==
    /\ At(s, "scp", "touchEnv")
    /\ envNew' = s.run
    /\ UNCHANGED <<env, envBak, releases, server, marks>>

TouchEnvMarker(s) ==
    /\ At(s, "touchEnv", "copyEnv")
    /\ envMark' = envMark \cup {s.run}
    /\ UNCHANGED <<envFiles, releases, server, relMark>>

\* (slip) an older .bak is kept
BackUpEnv_once(s) ==
    /\ At(s, "copyEnv", "moveEnv")
    /\ envBak' = IF env = None \/ envBak # None THEN envBak ELSE env
    /\ UNCHANGED <<env, envNew, releases, server, marks>>

BackUpEnv(s) ==
    /\ At(s, "copyEnv", "moveEnv")
    /\ envBak' = IF env = None THEN envBak ELSE env
    /\ UNCHANGED <<env, envNew, releases, server, marks>>

ReplaceEnv(s) ==
    /\ At(s, "moveEnv", "upload") /\ envNew # None
    /\ env' = envNew /\ envNew' = None
    /\ UNCHANGED <<envBak, releases, server, marks>>

UploadRelease(s) ==
    /\ At(s, "upload", "clear")
    /\ tarball' = s.run
    /\ UNCHANGED <<envFiles, dist, relBak, server, marks>>

-----------------------------------------------------------------------------
(* Deploy on Lightsail; the rollback has some of the same commands         *)

\* (slip) the release is not copied
ClearBackup_only(s) ==
    /\ At(s, "clear", "touchRelease") /\ env # None
    /\ relBak' = None
    /\ UNCHANGED <<envFiles, dist, tarball, server, marks>>

ClearBackup(s) ==
    /\ At(s, "clear", "copyRelease") /\ env # None
    /\ relBak' = None
    /\ UNCHANGED <<envFiles, dist, tarball, server, marks>>

BackUpRelease(s) ==
    /\ At(s, "copyRelease", "touchRelease")
    /\ IF dist = None THEN UNCHANGED relBak
       ELSE relBak' \in Copied(s, dist, relBak)
    /\ UNCHANGED <<envFiles, dist, tarball, server, marks>>

TouchReleaseMarker(s) ==
    /\ At(s, "touchRelease", "remove")
    /\ relMark' = relMark \cup {s.run}
    /\ UNCHANGED <<envFiles, releases, server, envMark>>

RemoveDist(s) ==
    /\ At(s, "remove", "extract") \/ At(s, "rbRemove", "rbCopy")
    /\ dist' = None
    /\ UNCHANGED <<envFiles, relBak, tarball, server, marks>>

Extract(s) ==
    /\ At(s, "extract", "discard") /\ tarball \in Version
    /\ dist' \in Copied(s, tarball, dist)
    /\ UNCHANGED <<envFiles, relBak, tarball, server, marks>>

DiscardTarball(s) ==
    /\ At(s, "discard", "install")
    /\ tarball' = None
    /\ UNCHANGED <<envFiles, dist, relBak, server, marks>>

\* (slip) the processes are reloaded before the migrations
Install_thenReload(s) ==
    /\ At(s, "install", "reload") \/ At(s, "rbInstall", "rbReload")
    /\ UNCHANGED <<envFiles, releases, server, marks>>

Install(s) ==
    /\ At(s, "install", "migrate") \/ At(s, "rbInstall", "rbReload")
    /\ UNCHANGED <<envFiles, releases, server, marks>>

\* migration:show, migration:run: the pending migrations of dist, in one
\* transaction.
Migrate(s) ==
    /\ At(s, "migrate", "reload") /\ dist \in Version /\ env \in Version
    /\ schema' = IF schema < dist THEN dist ELSE schema
    /\ UNCHANGED <<envFiles, releases, worker, marks>>

\* A process that starts reads the release and the environment on the disk.
Loaded == IF dist \in Version /\ env \in Version
          THEN [rel |-> dist, env |-> env] ELSE Down

\* pm2 startOrReload replaces one process of the cluster after the other.
Reload(s, w) ==
    /\ s.pc \in {"reload", "rbReload"} /\ w \notin s.done
    /\ Step(s, [run |-> s.run, pc |-> s.pc, done |-> s.done \cup {w}])
    /\ worker' = [worker EXCEPT ![w] = Loaded]
    /\ UNCHANGED <<envFiles, releases, schema, marks>>

\* (slip) pm2 is told to reload one process
Reloaded_one(s) ==
    /\ At(s, "reload", "health") \/ At(s, "rbReload", "rbHealth")
    /\ s.done # {}
    /\ UNCHANGED <<envFiles, releases, server, marks>>

Reloaded(s) ==
    /\ At(s, "reload", "health") \/ At(s, "rbReload", "rbHealth")
    /\ s.done = Worker
    /\ UNCHANGED <<envFiles, releases, server, marks>>

Answering == \E w \in Worker : worker[w] \in Loadable

CheckHealth(s) ==
    /\ At(s, "health", "external") \/ At(s, "external", "unmark")
    /\ Answering
    /\ UNCHANGED <<envFiles, releases, server, marks>>

\* The markers go with the last success.
RemoveMarkers(s) ==
    /\ At(s, "unmark", "success")
    /\ envMark' = envMark \ {s.run} /\ relMark' = relMark \ {s.run}
    /\ UNCHANGED <<envFiles, releases, server>>

-----------------------------------------------------------------------------
(* Rollback on failure                                                     *)

Marked(s) == s.run \in envMark \cup relMark

\* (slip) it is not asked whether there is a .bak
RestoreEnv_unasked(s) ==
    /\ At(s, "rollback", IF Marked(s) THEN "choose" ELSE "skipped")
    /\ IF s.run \in envMark THEN env' = envBak /\ envBak' = None
       ELSE UNCHANGED <<env, envBak>>
    /\ UNCHANGED <<envNew, releases, server, marks>>

\* (slip) the environment file is left as it is
RestoreEnv_not(s) ==
    /\ At(s, "rollback", IF Marked(s) THEN "choose" ELSE "skipped")
    /\ UNCHANGED <<envFiles, releases, server, marks>>

\* Without a marker of its own the run has changed nothing.
RestoreEnv(s) ==
    /\ At(s, "rollback", IF Marked(s) THEN "choose" ELSE "skipped")
    /\ IF s.run \in envMark /\ envBak # None
       THEN env' = envBak /\ envBak' = None
       ELSE UNCHANGED <<env, envBak>>
    /\ UNCHANGED <<envNew, releases, server, marks>>

EnvWasAll(s) ==
    /\ At(s, "choose", "envRestored") /\ s.run \notin relMark
    /\ envMark' = envMark \ {s.run}
    /\ UNCHANGED <<envFiles, releases, server, relMark>>

NoBackup(s) ==
    /\ At(s, "choose", "stuck") /\ s.run \in relMark /\ relBak = None
    /\ UNCHANGED <<envFiles, releases, server, marks>>

HasBackup(s) ==
    /\ At(s, "choose", "rbRemove") /\ s.run \in relMark /\ relBak # None
    /\ UNCHANGED <<envFiles, releases, server, marks>>

RestoreRelease(s) ==
    /\ At(s, "rbCopy", "rbInstall") /\ relBak # None
    /\ dist' \in Copied(s, relBak, dist)
    /\ UNCHANGED <<envFiles, relBak, tarball, server, marks>>

RollbackHealth(s) ==
    /\ At(s, "rbHealth", "rolledBack") /\ Answering
    /\ envMark' = envMark \ {s.run} /\ relMark' = relMark \ {s.run}
    /\ UNCHANGED <<envFiles, releases, server>>

-----------------------------------------------------------------------------
(* What can go wrong                                                       *)

\* scp, cp, rm -r and tar are not atomic; what follows is the rest of the
\* command, its failure, or a cancellation.
Underway(s) ==
    /\ s.done = {} /\ Step(s, [run |-> s.run, pc |-> s.pc, done |-> {Torn}])
    /\ \/ /\ s.pc = "scp" /\ envNew' = Torn
          /\ UNCHANGED <<env, envBak, releases>>
       \/ /\ s.pc = "copyEnv" /\ env # None /\ envBak' = Torn
          /\ UNCHANGED <<env, envNew, releases>>
       \/ /\ s.pc = "upload" /\ tarball' = Torn
          /\ UNCHANGED <<envFiles, dist, relBak>>
       \/ /\ \/ s.pc = "clear" /\ relBak # None
             \/ s.pc = "copyRelease" /\ dist # None
          /\ relBak' = Torn
          /\ UNCHANGED <<envFiles, dist, tarball>>
       \/ /\ \/ s.pc \in {"remove", "rbRemove"} /\ dist # None
             \/ s.pc = "extract" /\ tarball # None
             \/ s.pc = "rbCopy" /\ relBak # None
          /\ dist' = Torn
          /\ UNCHANGED <<envFiles, relBak, tarball>>
    /\ UNCHANGED <<server, marks>>

RunsOn == {left} \cup IF job.pc \in Remote /\ Cardinality(left) < MaxLeft
                      THEN {left \cup {job}} ELSE {}

\* A command fails, or the connection to its script is lost.  A failing cp of the
\* environment file leaves an old or a torn .bak behind.
Fail ==
    /\ \/ job.pc \in Commands /\ job' = Place(job.run, "rollback")
       \/ job.pc \in RollbackCommands /\ job' = Place(job.run, "stuck")
    /\ left' \in RunsOn
    /\ upset' = upset \cup
         (IF job.pc = "copyEnv" THEN {"backupFailed"}
          ELSE IF job.pc \in RollbackCommands THEN {"rollbackFailed"} ELSE {})
    /\ UNCHANGED <<envFiles, releases, server, marks, found>>

Cancel ==
    /\ job.pc \in Commands \cup RollbackCommands /\ job' = Place(job.run, "cancelled")
    /\ left' \in RunsOn
    /\ upset' = upset \cup {"cancelled"}
    /\ UNCHANGED <<envFiles, releases, server, marks, found>>

\* A script that runs on fails or is ended.
Stop(s) ==
    /\ left' = left \ {s}
    /\ UNCHANGED <<job, envFiles, releases, server, marks, found, upset>>

\* autorestart, max_memory_restart: pm2 starts a process anew at any time.
Restart(w) ==
    /\ worker[w] # None /\ worker[w] # Loaded
    /\ worker' = [worker EXCEPT ![w] = Loaded]
    /\ upset' = upset \cup {"restarted"}
    /\ UNCHANGED <<job, left, envFiles, releases, schema, marks, found>>

DeployStep(s) ==
    \/ UploadEnv(s) \/ TouchEnvMarker(s) \/ BackUpEnv(s) \/ ReplaceEnv(s)
    \/ UploadRelease(s) \/ ClearBackup(s) \/ BackUpRelease(s) \/ TouchReleaseMarker(s)
    \/ RemoveDist(s) \/ Extract(s) \/ DiscardTarball(s) \/ Install(s) \/ Migrate(s)
    \/ CheckHealth(s) \/ RemoveMarkers(s)

RollbackStep(s) ==
    \/ RestoreEnv(s) \/ EnvWasAll(s) \/ NoBackup(s) \/ HasBackup(s)
    \/ RestoreRelease(s) \/ RollbackHealth(s)

Next ==
    \/ StartRun \/ Fail \/ Cancel
    \/ \E s \in left \cup {job} :
          \/ DeployStep(s) \/ RollbackStep(s) \/ Reloaded(s) \/ Underway(s)
          \/ \E w \in Worker : Reload(s, w)
    \/ \E s \in left : Stop(s)
    \/ \E w \in Worker : Restart(w)

Spec == Init /\ [][Next]_vars
-----------------------------------------------------------------------------
(* Properties                                                              *)

Kinds == {"backupFailed", "unwatched", "overlapped", "rollbackFailed", "cancelled",
          "restarted"}
File == Version \cup {None, Torn}

\* Files, processes and places are what they may be, scripts that run on belong
\* to runs that have begun, and an environment file that was there never
\* disappears: the application finds one at each start.
TypeOK ==
    /\ job \in [run : Version, pc : Commands \cup RollbackCommands \cup Finals,
                done : SUBSET (Worker \cup {Torn})]
    /\ left \subseteq [run : 1..job.run, pc : Remote, done : SUBSET (Worker \cup {Torn})]
    /\ {env, envBak, envNew, dist, relBak, tarball} \subseteq File
    /\ schema \in Version
    /\ worker \in [Worker -> Loadable \cup {None, Down}]
    /\ envMark \subseteq 1..job.run /\ relMark \subseteq 1..job.run
    /\ found \in [env : File, dist : File]
    /\ upset \subseteq Kinds
    /\ found.env # None => env # None

\* Scripts without their runner are all a run has to fear: at each moment of it,
\* its rollback and its cancellation included, and even while a script of the run
\* itself runs on, the release it found exists complete, in place or as
\* .release.bak.  A script of an earlier run that acts is the only exception.
FoundReleaseKept ==
    "overlapped" \notin upset /\ found.dist \in Version =>
        dist = found.dist \/ relBak = found.dist

\* deployment.md: a deployment that fails and is rolled back restores the
\* environment file that was there before.
PreviousEnvRestored ==
    job.pc \in {"envRestored", "rolledBack"} /\ found.env # None => env = found.env

\* A run that fails and whose rollback ends well, or finds nothing to do, leaves
\* the release and the environment file it found, unless the very copy of the
\* environment file failed, or a script that had lost its runner has acted.
FailureRestores ==
    /\ job.pc \in {"skipped", "envRestored", "rolledBack"}
    /\ upset \cap {"backupFailed", "unwatched", "overlapped"} = {}
    => /\ dist = found.dist
       /\ found.env # None => env = found.env

\* A success means that files, schema and all processes are those of the run,
\* unless a script of an earlier run has acted.
SuccessMeansRunning ==
    job.pc = "success" /\ job.run > 0 /\ "overlapped" \notin upset =>
        /\ dist = job.run /\ env = job.run /\ schema = job.run
        /\ \A w \in Worker : worker[w] = [rel |-> job.run, env |-> job.run]

\* The migrations of a release precede its start.  A process that pm2 restarts
\* in between, a cancelled run whose release the next one restores, a rollback
\* that failed and a script that acts without its runner are the ways around it.
SchemaNotBehind ==
    upset \subseteq {"backupFailed"} =>
        \A w \in Worker : worker[w] \in Loadable => worker[w].rel <= schema

\* Whichever commands fail, no process runs one run's release in another run's
\* environment: only a failed copy of the environment file, a failed rollback, a
\* cancellation, a restart by pm2 or a script that acts without its runner leads
\* there.
RunningPairsMatch ==
    upset = {} =>
        \A w \in Worker : worker[w] \in Loadable => worker[w].rel = worker[w].env
=============================================================================
