--------------------------- MODULE Deploy_proofs ---------------------------
(***************************************************************************)
(* Theorems about module Deploy, for any number of runs, processes and     *)
(* scripts that run on.                                                    *)
(*                                                                         *)
(* What a command may rely on is what the commands before it have left, so *)
(* the invariant says for each place of a run which files are those of the *)
(* run, which are those it found, and which markers are set.  It comes in  *)
(* three parts: what holds whatever the scripts without a runner do, what  *)
(* holds unless one of an earlier run acts, and what holds unless any of   *)
(* them acts.                                                              *)
(***************************************************************************)
EXTENDS Deploy, TLAPS

\* The places before the first command that touches the release, ...
Early == {"scp", "touchEnv", "copyEnv", "moveEnv", "upload", "clear", "copyRelease",
          "touchRelease"}
\* ... those at which the environment file is the run's, ...
WithEnv == {"upload", "clear", "copyRelease", "touchRelease", "remove", "extract",
            "discard", "install", "migrate", "reload", "health", "external", "unmark"}
\* ... those at which the release is the run's, ...
WithRelease == {"discard", "install", "migrate", "reload", "health", "external", "unmark"}
\* ... and the commands of a rollback of the release.
Restoring == {"rbRemove", "rbCopy", "rbInstall", "rbReload", "rbHealth"}

Running == left \cup {job}

-----------------------------------------------------------------------------
(* Whatever happens                                                        *)

\* Nothing is of a run that has not begun.
Begun ==
    /\ {env, envBak, envNew, dist, relBak, tarball} \subseteq (0..job.run) \cup {None, Torn}
    /\ schema <= job.run
    /\ job.run = 0 => job.pc = "success"

\* While a run is underway it has no script without its runner, and later at
\* most one besides the rollback.
OneScript ==
    /\ job.pc \in Commands \cup {"success"} => \A s \in left : s.run # job.run
    /\ \A s, t \in left :
          s.run = job.run /\ t.run = job.run /\ s.pc \in Commands /\ t.pc \in Commands => s = t

-----------------------------------------------------------------------------
(* Unless a script of an earlier run acts                                  *)

\* The release that was found is in place until a script of the run removes it,
\* and in the backup from the moment its copy is complete; a marker says so.
ScriptAt(s) ==
    /\ s.pc \in Early => dist = found.dist /\ job.run \notin relMark
    /\ s.pc = "copyRelease" =>
          /\ dist = None => relBak = None
          /\ s.done # {} => relBak = Torn
    /\ s.pc = "touchRelease" => relBak = found.dist
    /\ s.pc \in {"remove", "extract"} \cup WithRelease \cup Restoring => relBak = found.dist
    /\ s.pc \in Restoring => \A t \in Running : t.run = job.run => t.pc \notin Early

ReleaseKept ==
    /\ \A s \in Running : s.run = job.run => ScriptAt(s)
    /\ job.run \in relMark => relBak = found.dist
    /\ dist = found.dist \/ relBak = found.dist

\* What a run that has not failed has done so far.
RunAt ==
    /\ job.pc \in {"scp", "touchEnv"} => job.run \notin envMark
    /\ job.pc \in {"scp", "touchEnv", "copyEnv", "moveEnv"} => env = found.env
    /\ job.pc \in {"touchEnv", "copyEnv", "moveEnv"} => envNew = job.run
    /\ job.pc \in {"moveEnv"} \cup WithEnv /\ found.env # None => envBak = found.env
    /\ job.pc \in WithEnv => env = job.run
    /\ job.pc \in {"copyEnv", "moveEnv"} \cup WithEnv => job.run \in envMark
    /\ job.pc \in {"remove", "extract"} \cup WithRelease => job.run \in relMark
    /\ job.pc \in {"clear", "copyRelease", "touchRelease", "remove", "extract"}
       => tarball = job.run
    /\ job.pc = "extract" /\ job.done # {} => dist = Torn
    /\ job.pc \in WithRelease => dist = job.run
    /\ job.pc \in {"reload", "health", "external", "unmark"} => schema = job.run
    /\ job.pc = "reload" =>
          \A w \in job.done \cap Worker : worker[w] = [rel |-> job.run, env |-> job.run]
    /\ job.pc \in {"health", "external", "unmark"} =>
          \A w \in Worker : worker[w] = [rel |-> job.run, env |-> job.run]
    /\ job.pc = "success" /\ job.run = 0 => schema = 0 /\ env = dist /\ dist \in {0, None}
    /\ SuccessMeansRunning

-----------------------------------------------------------------------------
(* Unless a script acts without its runner                                 *)

Watched == upset \cap {"unwatched", "overlapped"} = {}

EnvRestored ==
    found.env # None /\ "backupFailed" \notin upset => env = found.env

\* What a rollback starts from and what it has restored.
RollbackAt ==
    /\ job.pc = "rollback" =>
          /\ job.run \notin relMark => dist = found.dist
          /\ job.run \notin envMark => env = found.env
          /\ job.run \in envMark /\ found.env # None /\ "backupFailed" \notin upset
             => envBak = found.env
    /\ job.pc \in {"choose", "skipped", "envRestored", "rolledBack"} \cup Restoring
       => EnvRestored
    /\ job.pc = "choose" /\ job.run \notin relMark => dist = found.dist
    /\ job.pc = "rbCopy" /\ job.done # {} => dist = Torn
    /\ job.pc \in {"rbInstall", "rbReload", "rbHealth", "skipped", "envRestored", "rolledBack"}
       => dist = found.dist
    /\ job.pc = "stuck" => "rollbackFailed" \in upset
    /\ job.pc = "cancelled" => "cancelled" \in upset

\* A release that was found has its migrations, and belongs to the environment
\* that was found; without an environment file there is no release.
FoundPairs ==
    /\ env = None => dist = None
    /\ found.env = None => found.dist = None
    /\ upset \subseteq {"backupFailed"} /\ found.dist \in Version => found.dist <= schema
    /\ upset = {} /\ found.dist \in Version /\ found.env \in Version
       => found.dist = found.env

IInv ==
    /\ TypeOK /\ Begun /\ OneScript
    /\ "overlapped" \notin upset => ReleaseKept /\ RunAt
    /\ Watched => RollbackAt /\ FoundPairs
    /\ SchemaNotBehind /\ RunningPairsMatch

-----------------------------------------------------------------------------
(* A step of the current run or of a script that runs on                   *)

\* s gets to t: nothing else moves, and s is a script of an earlier run, a script
\* of this run, which is in its rollback then, or the current run itself.
Moved(s, t) ==
    /\ job'.run = job.run /\ found' = found /\ upset \subseteq upset' /\ upset' \subseteq Kinds
    /\ job' \in [run : Version, pc : Commands \cup RollbackCommands \cup Finals,
                 done : SUBSET (Worker \cup {Torn})]
    /\ left' \subseteq [run : 1..job.run, pc : Remote, done : SUBSET (Worker \cup {Torn})]
    /\ OneScript'
    /\ \A u \in Running' :
          \/ u = t
          \/ /\ u \in Running
             /\ u.run = job.run /\ s.run = job.run /\ s.pc \in Commands => u.pc \notin Commands
    /\ "overlapped" \notin upset' =>
          /\ s.run = job.run
          /\ \/ s = job /\ job' = t
             \/ job' = job /\ job.pc \notin Commands \cup {"success"}
    /\ Watched' => s = job /\ job' = t /\ (t.pc = "stuck" => "rollbackFailed" \in upset')
    /\ upset' = {} => upset = {}

LEMMA Moves ==
    ASSUME TypeOK, OneScript, NEW s \in Running, NEW t, Step(s, t),
           t \in [run : {s.run}, pc : Commands \cup RollbackCommands \cup Finals,
                 done : SUBSET (Worker \cup {Torn})],
           s.pc \in Commands \cup RollbackCommands,
           s.pc \in Commands => t.pc \in Commands \cup Finals,
           s.pc \in RollbackCommands => t.pc \in RollbackCommands \cup (Finals \ {"success"})
    PROVE  Moved(s, t)
<1> USE DEF TypeOK, OneScript, Running, Kinds
<1> DEFINE Goes == \E c \in Scripts : {s.pc, t.pc} \subseteq c
<1>1. CASE s = job /\ job' = t /\ UNCHANGED left
           /\ upset' = upset \cup IF t.pc = "stuck" THEN {"rollbackFailed"} ELSE {}
  <2>1. found' = found
    BY DEF Step
  <2>2. OneScript'
    BY <1>1 DEF Commands, RollbackCommands, Finals, EnvScript, ReleaseScript
  <2>3. \A u \in Running' :
          \/ u = t
          \/ /\ u \in Running
             /\ u.run = job.run /\ s.run = job.run /\ s.pc \in Commands => u.pc \notin Commands
    BY <1>1
  <2>4. job' \in [run : Version, pc : Commands \cup RollbackCommands \cup Finals,
                 done : SUBSET (Worker \cup {Torn})]
        /\ job'.run = job.run
    BY <1>1
  <2> QED BY <1>1, <2>1, <2>2, <2>3, <2>4 DEF Moved, Watched
<1>2. CASE s \in left /\ UNCHANGED job
           /\ left' = (left \ {s}) \cup {u \in {t} : \E c \in Scripts : {s.pc, u.pc} \subseteq c}
           /\ upset' = upset \cup {IF s.run = job.run THEN "unwatched" ELSE "overlapped"}
  <2>1. found' = found
    BY DEF Step
  <2>2. \A u \in left' : (u \in left /\ u # s) \/ (u = t /\ Goes)
    BY <1>2
  <2>3. Goes => t.pc \in Remote /\ (t.pc \in Commands => s.pc \in Commands)
    BY DEF Remote, Scripts, Commands, RollbackCommands, Finals, EnvScript, ReleaseScript
  <2>4. left' \subseteq [run : 1..job.run, pc : Remote, done : SUBSET (Worker \cup {Torn})]
    BY <1>2, <2>2, <2>3
  <2>5. OneScript'
    BY <1>2, <2>2, <2>3
  <2>6. \A u \in Running' :
          \/ u = t
          \/ /\ u \in Running
             /\ u.run = job.run /\ s.run = job.run /\ s.pc \in Commands => u.pc \notin Commands
    BY <1>2, <2>2
  <2>7. "overlapped" \notin upset' =>
          /\ s.run = job.run
          /\ job' = job /\ job.pc \notin Commands \cup {"success"}
    BY <1>2
  <2>8. ~Watched' /\ upset' # {} /\ upset \subseteq upset' /\ upset' \subseteq Kinds
    BY <1>2 DEF Watched
  <2> QED BY <1>2, <2>1, <2>4, <2>5, <2>6, <2>7, <2>8 DEF Moved
<1> QED BY <1>1, <1>2 DEF Step

LEMMA AtMoves ==
    ASSUME IInv, NEW s \in Running,
           NEW c \in Commands \cup RollbackCommands,
           NEW n \in Commands \cup RollbackCommands \cup Finals, At(s, c, n),
           c \in Commands => n \in Commands \cup Finals,
           c \in RollbackCommands => n \in RollbackCommands \cup (Finals \ {"success"})
    PROVE  s.pc = c /\ s.run \in 1..job.run /\ Moved(s, Place(s.run, n))
<1>1. s.pc = c /\ Step(s, Place(s.run, n))
  BY DEF At
<1>2. Place(s.run, n) \in [run : {s.run}, pc : Commands \cup RollbackCommands \cup Finals,
                           done : SUBSET (Worker \cup {Torn})]
  BY DEF Place
<1>3. Place(s.run, n).pc = n
  BY DEF Place
<1>4. s.run \in 1..job.run
  BY <1>1 DEF IInv, TypeOK, Begun, Running, Version, Commands, RollbackCommands, EnvScript,
      ReleaseScript
<1> QED BY <1>1, <1>2, <1>3, <1>4, Moves DEF IInv

LEMMA UploadEnvInv == ASSUME IInv, NEW s \in Running, UploadEnv(s) PROVE IInv'
<1> USE DeployAssumption DEF UploadEnv, Running, envFiles, releases, server, marks
<1>1. s.pc = "scp" /\ s.run \in 1..job.run /\ Moved(s, Place(s.run, "touchEnv"))
  BY AtMoves DEF Commands, RollbackCommands, Finals, EnvScript, ReleaseScript
<1> USE DEF Place, Moved
<1>2. TypeOK' /\ Begun'
  BY <1>1 DEF IInv, TypeOK, Begun, File, Version
<1>3. ASSUME "overlapped" \notin upset' PROVE ReleaseKept'
  BY <1>1, <1>3 DEF IInv, TypeOK, ReleaseKept, ScriptAt, Early, WithRelease, Restoring,
      Commands, EnvScript, ReleaseScript
<1>4. ASSUME "overlapped" \notin upset' PROVE RunAt'
  BY <1>1, <1>4 DEF IInv, TypeOK, Begun, RunAt, SuccessMeansRunning, WithEnv, WithRelease,
      Commands, EnvScript, ReleaseScript
<1>5. ASSUME Watched' PROVE RollbackAt' /\ FoundPairs'
  BY <1>1, <1>5 DEF IInv, TypeOK, Watched, RollbackAt, FoundPairs, EnvRestored, RunAt,
      ReleaseKept, ScriptAt, Early, WithEnv, WithRelease, Restoring, Commands, EnvScript,
      ReleaseScript
<1>6. SchemaNotBehind' /\ RunningPairsMatch'
  BY <1>1 DEF IInv, TypeOK, Begun, SchemaNotBehind, RunningPairsMatch, Version, Loadable
<1> QED BY <1>1, <1>2, <1>3, <1>4, <1>5, <1>6 DEF IInv

LEMMA TouchEnvMarkerInv == ASSUME IInv, NEW s \in Running, TouchEnvMarker(s) PROVE IInv'
<1> USE DeployAssumption DEF TouchEnvMarker, Running, envFiles, releases, server, marks
<1>1. s.pc = "touchEnv" /\ s.run \in 1..job.run /\ Moved(s, Place(s.run, "copyEnv"))
  BY AtMoves DEF Commands, RollbackCommands, Finals, EnvScript, ReleaseScript
<1> USE DEF Place, Moved
<1>2. TypeOK' /\ Begun'
  <2>1. envMark' \subseteq 1..job.run /\ relMark' \subseteq 1..job.run
    BY <1>1 DEF IInv, TypeOK
  <2>2. UNCHANGED <<envFiles, releases, server>>
    OBVIOUS
  <2> QED BY <1>1, <2>1, <2>2 DEF IInv, TypeOK, Begun, File
<1>3. ASSUME "overlapped" \notin upset' PROVE ReleaseKept'
  BY <1>1, <1>3 DEF IInv, TypeOK, ReleaseKept, ScriptAt, Early, WithRelease, Restoring,
      Commands, EnvScript, ReleaseScript
<1>4. ASSUME "overlapped" \notin upset' PROVE RunAt'
  BY <1>1, <1>4 DEF IInv, TypeOK, Begun, RunAt, SuccessMeansRunning, WithEnv, WithRelease,
      Commands, EnvScript, ReleaseScript
<1>5. ASSUME Watched' PROVE RollbackAt' /\ FoundPairs'
  BY <1>1, <1>5 DEF IInv, TypeOK, Watched, RollbackAt, FoundPairs, EnvRestored, RunAt,
      ReleaseKept, ScriptAt, Early, WithEnv, WithRelease, Restoring, Commands, EnvScript,
      ReleaseScript
<1>6. SchemaNotBehind' /\ RunningPairsMatch'
  BY <1>1 DEF IInv, TypeOK, Begun, SchemaNotBehind, RunningPairsMatch, Version, Loadable
<1> QED BY <1>1, <1>2, <1>3, <1>4, <1>5, <1>6 DEF IInv

LEMMA BackUpEnvInv == ASSUME IInv, NEW s \in Running, BackUpEnv(s) PROVE IInv'
<1> USE DeployAssumption DEF BackUpEnv, Running, envFiles, releases, server, marks
<1>1. s.pc = "copyEnv" /\ s.run \in 1..job.run /\ Moved(s, Place(s.run, "moveEnv"))
  BY AtMoves DEF Commands, RollbackCommands, Finals, EnvScript, ReleaseScript
<1> USE DEF Place, Moved
<1>2. TypeOK' /\ Begun'
  BY <1>1 DEF IInv, TypeOK, Begun, File, Version
<1>3. ASSUME "overlapped" \notin upset' PROVE ReleaseKept'
  BY <1>1, <1>3 DEF IInv, TypeOK, ReleaseKept, ScriptAt, Early, WithRelease, Restoring,
      Commands, EnvScript, ReleaseScript
<1>4. ASSUME "overlapped" \notin upset' PROVE RunAt'
  BY <1>1, <1>4 DEF IInv, TypeOK, Begun, RunAt, SuccessMeansRunning, WithEnv, WithRelease,
      Commands, EnvScript, ReleaseScript
<1>5. ASSUME Watched' PROVE RollbackAt' /\ FoundPairs'
  BY <1>1, <1>5 DEF IInv, TypeOK, Watched, RollbackAt, FoundPairs, EnvRestored, RunAt,
      ReleaseKept, ScriptAt, Early, WithEnv, WithRelease, Restoring, Commands, EnvScript,
      ReleaseScript
<1>6. SchemaNotBehind' /\ RunningPairsMatch'
  BY <1>1 DEF IInv, TypeOK, Begun, SchemaNotBehind, RunningPairsMatch, Version, Loadable
<1> QED BY <1>1, <1>2, <1>3, <1>4, <1>5, <1>6 DEF IInv

LEMMA ReplaceEnvInv == ASSUME IInv, NEW s \in Running, ReplaceEnv(s) PROVE IInv'
<1> USE DeployAssumption DEF ReplaceEnv, Running, envFiles, releases, server, marks
<1>1. s.pc = "moveEnv" /\ s.run \in 1..job.run /\ Moved(s, Place(s.run, "upload"))
  BY AtMoves DEF Commands, RollbackCommands, Finals, EnvScript, ReleaseScript
<1> USE DEF Place, Moved
<1>2. TypeOK' /\ Begun'
  BY <1>1 DEF IInv, TypeOK, Begun, File, Version
<1>3. ASSUME "overlapped" \notin upset' PROVE ReleaseKept'
  BY <1>1, <1>3 DEF IInv, TypeOK, ReleaseKept, ScriptAt, Early, WithRelease, Restoring,
      Commands, EnvScript, ReleaseScript
<1>4. ASSUME "overlapped" \notin upset' PROVE RunAt'
  BY <1>1, <1>4 DEF IInv, TypeOK, Begun, RunAt, SuccessMeansRunning, WithEnv, WithRelease,
      Commands, EnvScript, ReleaseScript
<1>5. ASSUME Watched' PROVE RollbackAt' /\ FoundPairs'
  BY <1>1, <1>5 DEF IInv, TypeOK, Watched, RollbackAt, FoundPairs, EnvRestored, RunAt,
      ReleaseKept, ScriptAt, Early, WithEnv, WithRelease, Restoring, Commands, EnvScript,
      ReleaseScript
<1>6. SchemaNotBehind' /\ RunningPairsMatch'
  BY <1>1 DEF IInv, TypeOK, Begun, SchemaNotBehind, RunningPairsMatch, Version, Loadable
<1> QED BY <1>1, <1>2, <1>3, <1>4, <1>5, <1>6 DEF IInv

LEMMA UploadReleaseInv == ASSUME IInv, NEW s \in Running, UploadRelease(s) PROVE IInv'
<1> USE DeployAssumption DEF UploadRelease, Running, envFiles, releases, server, marks
<1>1. s.pc = "upload" /\ s.run \in 1..job.run /\ Moved(s, Place(s.run, "clear"))
  BY AtMoves DEF Commands, RollbackCommands, Finals, EnvScript, ReleaseScript
<1> USE DEF Place, Moved
<1>2. TypeOK' /\ Begun'
  BY <1>1 DEF IInv, TypeOK, Begun, File, Version
<1>3. ASSUME "overlapped" \notin upset' PROVE ReleaseKept'
  BY <1>1, <1>3 DEF IInv, TypeOK, ReleaseKept, ScriptAt, Early, WithRelease, Restoring,
      Commands, EnvScript, ReleaseScript
<1>4. ASSUME "overlapped" \notin upset' PROVE RunAt'
  BY <1>1, <1>4 DEF IInv, TypeOK, Begun, RunAt, SuccessMeansRunning, WithEnv, WithRelease,
      Commands, EnvScript, ReleaseScript
<1>5. ASSUME Watched' PROVE RollbackAt' /\ FoundPairs'
  BY <1>1, <1>5 DEF IInv, TypeOK, Watched, RollbackAt, FoundPairs, EnvRestored, RunAt,
      ReleaseKept, ScriptAt, Early, WithEnv, WithRelease, Restoring, Commands, EnvScript,
      ReleaseScript
<1>6. SchemaNotBehind' /\ RunningPairsMatch'
  BY <1>1 DEF IInv, TypeOK, Begun, SchemaNotBehind, RunningPairsMatch, Version, Loadable
<1> QED BY <1>1, <1>2, <1>3, <1>4, <1>5, <1>6 DEF IInv

LEMMA ClearBackupInv == ASSUME IInv, NEW s \in Running, ClearBackup(s) PROVE IInv'
<1> USE DeployAssumption DEF ClearBackup, Running, envFiles, releases, server, marks
<1>1. s.pc = "clear" /\ s.run \in 1..job.run /\ Moved(s, Place(s.run, "copyRelease"))
  BY AtMoves DEF Commands, RollbackCommands, Finals, EnvScript, ReleaseScript
<1> USE DEF Place, Moved
<1>2. TypeOK' /\ Begun'
  BY <1>1 DEF IInv, TypeOK, Begun, File, Version
<1>3. ASSUME "overlapped" \notin upset' PROVE ReleaseKept'
  BY <1>1, <1>3 DEF IInv, TypeOK, ReleaseKept, ScriptAt, Early, WithRelease, Restoring,
      Commands, EnvScript, ReleaseScript
<1>4. ASSUME "overlapped" \notin upset' PROVE RunAt'
  BY <1>1, <1>4 DEF IInv, TypeOK, Begun, RunAt, SuccessMeansRunning, WithEnv, WithRelease,
      Commands, EnvScript, ReleaseScript
<1>5. ASSUME Watched' PROVE RollbackAt' /\ FoundPairs'
  BY <1>1, <1>5 DEF IInv, TypeOK, Watched, RollbackAt, FoundPairs, EnvRestored, RunAt,
      ReleaseKept, ScriptAt, Early, WithEnv, WithRelease, Restoring, Commands, EnvScript,
      ReleaseScript
<1>6. SchemaNotBehind' /\ RunningPairsMatch'
  BY <1>1 DEF IInv, TypeOK, Begun, SchemaNotBehind, RunningPairsMatch, Version, Loadable
<1> QED BY <1>1, <1>2, <1>3, <1>4, <1>5, <1>6 DEF IInv

LEMMA BackUpReleaseInv == ASSUME IInv, NEW s \in Running, BackUpRelease(s) PROVE IInv'
<1> USE DeployAssumption DEF BackUpRelease, Running, Copied, envFiles, releases, server,
        marks
<1>1. s.pc = "copyRelease" /\ s.run \in 1..job.run /\ Moved(s, Place(s.run, "touchRelease"))
  BY AtMoves DEF Commands, RollbackCommands, Finals, EnvScript, ReleaseScript
<1> USE DEF Place, Moved
<1>2. TypeOK' /\ Begun'
  BY <1>1 DEF IInv, TypeOK, Begun, File, Version
<1>3. ASSUME "overlapped" \notin upset' PROVE ReleaseKept'
  BY <1>1, <1>3 DEF IInv, TypeOK, ReleaseKept, ScriptAt, Early, WithRelease, Restoring,
      Commands, EnvScript, ReleaseScript
<1>4. ASSUME "overlapped" \notin upset' PROVE RunAt'
  BY <1>1, <1>4 DEF IInv, TypeOK, Begun, RunAt, SuccessMeansRunning, WithEnv, WithRelease,
      Commands, EnvScript, ReleaseScript
<1>5. ASSUME Watched' PROVE RollbackAt' /\ FoundPairs'
  BY <1>1, <1>5 DEF IInv, TypeOK, Watched, RollbackAt, FoundPairs, EnvRestored, RunAt,
      ReleaseKept, ScriptAt, Early, WithEnv, WithRelease, Restoring, Commands, EnvScript,
      ReleaseScript
<1>6. SchemaNotBehind' /\ RunningPairsMatch'
  BY <1>1 DEF IInv, TypeOK, Begun, SchemaNotBehind, RunningPairsMatch, Version, Loadable
<1> QED BY <1>1, <1>2, <1>3, <1>4, <1>5, <1>6 DEF IInv

LEMMA TouchReleaseMarkerInv == ASSUME IInv, NEW s \in Running, TouchReleaseMarker(s) PROVE IInv'
<1> USE DeployAssumption DEF TouchReleaseMarker, Running, envFiles, releases, server, marks
<1>1. s.pc = "touchRelease" /\ s.run \in 1..job.run /\ Moved(s, Place(s.run, "remove"))
  BY AtMoves DEF Commands, RollbackCommands, Finals, EnvScript, ReleaseScript
<1> USE DEF Place, Moved
<1>2. TypeOK' /\ Begun'
  <2>1. envMark' \subseteq 1..job.run /\ relMark' \subseteq 1..job.run
    BY <1>1 DEF IInv, TypeOK
  <2>2. UNCHANGED <<envFiles, releases, server>>
    OBVIOUS
  <2> QED BY <1>1, <2>1, <2>2 DEF IInv, TypeOK, Begun, File
<1>3. ASSUME "overlapped" \notin upset' PROVE ReleaseKept'
  BY <1>1, <1>3 DEF IInv, TypeOK, ReleaseKept, ScriptAt, Early, WithRelease, Restoring,
      Commands, EnvScript, ReleaseScript
<1>4. ASSUME "overlapped" \notin upset' PROVE RunAt'
  BY <1>1, <1>4 DEF IInv, TypeOK, Begun, RunAt, SuccessMeansRunning, WithEnv, WithRelease,
      Commands, EnvScript, ReleaseScript
<1>5. ASSUME Watched' PROVE RollbackAt' /\ FoundPairs'
  BY <1>1, <1>5 DEF IInv, TypeOK, Watched, RollbackAt, FoundPairs, EnvRestored, RunAt,
      ReleaseKept, ScriptAt, Early, WithEnv, WithRelease, Restoring, Commands, EnvScript,
      ReleaseScript
<1>6. SchemaNotBehind' /\ RunningPairsMatch'
  BY <1>1 DEF IInv, TypeOK, Begun, SchemaNotBehind, RunningPairsMatch, Version, Loadable
<1> QED BY <1>1, <1>2, <1>3, <1>4, <1>5, <1>6 DEF IInv

LEMMA ExtractInv == ASSUME IInv, NEW s \in Running, Extract(s) PROVE IInv'
<1> USE DeployAssumption DEF Extract, Running, Copied, envFiles, releases, server, marks
<1>1. s.pc = "extract" /\ s.run \in 1..job.run /\ Moved(s, Place(s.run, "discard"))
  BY AtMoves DEF Commands, RollbackCommands, Finals, EnvScript, ReleaseScript
<1> USE DEF Place, Moved
<1>2. TypeOK' /\ Begun'
  BY <1>1 DEF IInv, TypeOK, Begun, File, Version
<1>3. ASSUME "overlapped" \notin upset' PROVE ReleaseKept'
  BY <1>1, <1>3 DEF IInv, TypeOK, ReleaseKept, ScriptAt, Early, WithRelease, Restoring,
      Commands, EnvScript, ReleaseScript
<1>4. ASSUME "overlapped" \notin upset' PROVE RunAt'
  BY <1>1, <1>4 DEF IInv, TypeOK, Begun, RunAt, SuccessMeansRunning, WithEnv, WithRelease,
      Commands, EnvScript, ReleaseScript
<1>5. ASSUME Watched' PROVE RollbackAt' /\ FoundPairs'
  BY <1>1, <1>5 DEF IInv, TypeOK, Watched, RollbackAt, FoundPairs, EnvRestored, RunAt,
      ReleaseKept, ScriptAt, Early, WithEnv, WithRelease, Restoring, Commands, EnvScript,
      ReleaseScript
<1>6. SchemaNotBehind' /\ RunningPairsMatch'
  BY <1>1 DEF IInv, TypeOK, Begun, SchemaNotBehind, RunningPairsMatch, Version, Loadable
<1> QED BY <1>1, <1>2, <1>3, <1>4, <1>5, <1>6 DEF IInv

LEMMA DiscardTarballInv == ASSUME IInv, NEW s \in Running, DiscardTarball(s) PROVE IInv'
<1> USE DeployAssumption DEF DiscardTarball, Running, envFiles, releases, server, marks
<1>1. s.pc = "discard" /\ s.run \in 1..job.run /\ Moved(s, Place(s.run, "install"))
  BY AtMoves DEF Commands, RollbackCommands, Finals, EnvScript, ReleaseScript
<1> USE DEF Place, Moved
<1>2. TypeOK' /\ Begun'
  BY <1>1 DEF IInv, TypeOK, Begun, File, Version
<1>3. ASSUME "overlapped" \notin upset' PROVE ReleaseKept'
  BY <1>1, <1>3 DEF IInv, TypeOK, ReleaseKept, ScriptAt, Early, WithRelease, Restoring,
      Commands, EnvScript, ReleaseScript
<1>4. ASSUME "overlapped" \notin upset' PROVE RunAt'
  BY <1>1, <1>4 DEF IInv, TypeOK, Begun, RunAt, SuccessMeansRunning, WithEnv, WithRelease,
      Commands, EnvScript, ReleaseScript
<1>5. ASSUME Watched' PROVE RollbackAt' /\ FoundPairs'
  BY <1>1, <1>5 DEF IInv, TypeOK, Watched, RollbackAt, FoundPairs, EnvRestored, RunAt,
      ReleaseKept, ScriptAt, Early, WithEnv, WithRelease, Restoring, Commands, EnvScript,
      ReleaseScript
<1>6. SchemaNotBehind' /\ RunningPairsMatch'
  BY <1>1 DEF IInv, TypeOK, Begun, SchemaNotBehind, RunningPairsMatch, Version, Loadable
<1> QED BY <1>1, <1>2, <1>3, <1>4, <1>5, <1>6 DEF IInv

LEMMA MigrateInv == ASSUME IInv, NEW s \in Running, Migrate(s) PROVE IInv'
<1> USE DeployAssumption DEF Migrate, Running, envFiles, releases, server, marks
<1>1. s.pc = "migrate" /\ s.run \in 1..job.run /\ Moved(s, Place(s.run, "reload"))
  BY AtMoves DEF Commands, RollbackCommands, Finals, EnvScript, ReleaseScript
<1> USE DEF Place, Moved
<1>0. /\ schema' \in Nat /\ schema <= schema' /\ schema' <= job.run
      /\ dist = job.run => schema' = job.run
  BY <1>1 DEF IInv, TypeOK, Begun, Version
<1>2. TypeOK' /\ Begun'
  BY <1>1 DEF IInv, TypeOK, Begun, File, Version
<1>3. ASSUME "overlapped" \notin upset' PROVE ReleaseKept'
  BY <1>1, <1>3 DEF IInv, TypeOK, ReleaseKept, ScriptAt, Early, WithRelease, Restoring,
      Commands, EnvScript, ReleaseScript
<1>4. ASSUME "overlapped" \notin upset' PROVE RunAt'
  BY <1>0, <1>1, <1>4 DEF IInv, TypeOK, Begun, RunAt, SuccessMeansRunning, WithEnv,
      WithRelease, Commands, EnvScript, ReleaseScript
<1>5. ASSUME Watched' PROVE RollbackAt' /\ FoundPairs'
  <2>1. RollbackAt'
    BY <1>0, <1>1, <1>5 DEF RollbackAt, Restoring, Watched
  <2>2. FoundPairs'
    BY <1>0, <1>1, <1>5 DEF IInv, TypeOK, Watched, FoundPairs, Version
  <2> QED BY <2>1, <2>2
<1>6. SchemaNotBehind' /\ RunningPairsMatch'
  BY <1>1 DEF IInv, TypeOK, Begun, SchemaNotBehind, RunningPairsMatch, Version, Loadable
<1> QED BY <1>1, <1>2, <1>3, <1>4, <1>5, <1>6 DEF IInv

LEMMA RemoveMarkersInv == ASSUME IInv, NEW s \in Running, RemoveMarkers(s) PROVE IInv'
<1> USE DeployAssumption DEF RemoveMarkers, Running, envFiles, releases, server, marks
<1>1. s.pc = "unmark" /\ s.run \in 1..job.run /\ Moved(s, Place(s.run, "success"))
  BY AtMoves DEF Commands, RollbackCommands, Finals, EnvScript, ReleaseScript
<1> USE DEF Place, Moved
<1>2. TypeOK' /\ Begun'
  <2>1. envMark' \subseteq 1..job.run /\ relMark' \subseteq 1..job.run
    BY <1>1 DEF IInv, TypeOK
  <2>2. UNCHANGED <<envFiles, releases, server>>
    OBVIOUS
  <2> QED BY <1>1, <2>1, <2>2 DEF IInv, TypeOK, Begun, File
<1>3. ASSUME "overlapped" \notin upset' PROVE ReleaseKept'
  BY <1>1, <1>3 DEF IInv, TypeOK, ReleaseKept, ScriptAt, Early, WithRelease, Restoring,
      Commands, EnvScript, ReleaseScript
<1>4. ASSUME "overlapped" \notin upset' PROVE RunAt'
  BY <1>1, <1>4 DEF IInv, TypeOK, Begun, RunAt, SuccessMeansRunning, WithEnv, WithRelease,
      Commands, EnvScript, ReleaseScript
<1>5. ASSUME Watched' PROVE RollbackAt' /\ FoundPairs'
  BY <1>1, <1>5 DEF IInv, TypeOK, Watched, RollbackAt, FoundPairs, EnvRestored, RunAt,
      ReleaseKept, ScriptAt, Early, WithEnv, WithRelease, Restoring, Commands, EnvScript,
      ReleaseScript
<1>6. SchemaNotBehind' /\ RunningPairsMatch'
  BY <1>1 DEF IInv, TypeOK, Begun, SchemaNotBehind, RunningPairsMatch, Version, Loadable
<1> QED BY <1>1, <1>2, <1>3, <1>4, <1>5, <1>6 DEF IInv

LEMMA EnvWasAllInv == ASSUME IInv, NEW s \in Running, EnvWasAll(s) PROVE IInv'
<1> USE DeployAssumption DEF EnvWasAll, Running, envFiles, releases, server, marks
<1>1. s.pc = "choose" /\ s.run \in 1..job.run /\ Moved(s, Place(s.run, "envRestored"))
  BY AtMoves DEF Commands, RollbackCommands, Finals, EnvScript, ReleaseScript
<1> USE DEF Place, Moved
<1>2. TypeOK' /\ Begun'
  <2>1. envMark' \subseteq 1..job.run /\ relMark' \subseteq 1..job.run
    BY <1>1 DEF IInv, TypeOK
  <2>2. UNCHANGED <<envFiles, releases, server>>
    OBVIOUS
  <2> QED BY <1>1, <2>1, <2>2 DEF IInv, TypeOK, Begun, File
<1>3. ASSUME "overlapped" \notin upset' PROVE ReleaseKept'
  BY <1>1, <1>3 DEF IInv, TypeOK, ReleaseKept, ScriptAt, Early, WithRelease, Restoring,
      Commands, EnvScript, ReleaseScript
<1>4. ASSUME "overlapped" \notin upset' PROVE RunAt'
  BY <1>1, <1>4 DEF IInv, TypeOK, Begun, RunAt, SuccessMeansRunning, WithEnv, WithRelease,
      Commands, EnvScript, ReleaseScript
<1>5. ASSUME Watched' PROVE RollbackAt' /\ FoundPairs'
  BY <1>1, <1>5 DEF IInv, TypeOK, Watched, RollbackAt, FoundPairs, EnvRestored, RunAt,
      ReleaseKept, ScriptAt, Early, WithEnv, WithRelease, Restoring, Commands, EnvScript,
      ReleaseScript
<1>6. SchemaNotBehind' /\ RunningPairsMatch'
  BY <1>1 DEF IInv, TypeOK, Begun, SchemaNotBehind, RunningPairsMatch, Version, Loadable
<1> QED BY <1>1, <1>2, <1>3, <1>4, <1>5, <1>6 DEF IInv

LEMMA NoBackupInv == ASSUME IInv, NEW s \in Running, NoBackup(s) PROVE IInv'
<1> USE DeployAssumption DEF NoBackup, Running, envFiles, releases, server, marks
<1>1. s.pc = "choose" /\ s.run \in 1..job.run /\ Moved(s, Place(s.run, "stuck"))
  BY AtMoves DEF Commands, RollbackCommands, Finals, EnvScript, ReleaseScript
<1> USE DEF Place, Moved
<1>2. TypeOK' /\ Begun'
  BY <1>1 DEF IInv, TypeOK, Begun, File, Version
<1>3. ASSUME "overlapped" \notin upset' PROVE ReleaseKept'
  BY <1>1, <1>3 DEF IInv, TypeOK, ReleaseKept, ScriptAt, Early, WithRelease, Restoring,
      Commands, EnvScript, ReleaseScript
<1>4. ASSUME "overlapped" \notin upset' PROVE RunAt'
  BY <1>1, <1>4 DEF IInv, TypeOK, Begun, RunAt, SuccessMeansRunning, WithEnv, WithRelease,
      Commands, EnvScript, ReleaseScript
<1>5. ASSUME Watched' PROVE RollbackAt' /\ FoundPairs'
  BY <1>1, <1>5 DEF IInv, TypeOK, Watched, RollbackAt, FoundPairs, EnvRestored, RunAt,
      ReleaseKept, ScriptAt, Early, WithEnv, WithRelease, Restoring, Commands, EnvScript,
      ReleaseScript
<1>6. SchemaNotBehind' /\ RunningPairsMatch'
  BY <1>1 DEF IInv, TypeOK, Begun, SchemaNotBehind, RunningPairsMatch, Version, Loadable
<1> QED BY <1>1, <1>2, <1>3, <1>4, <1>5, <1>6 DEF IInv

LEMMA HasBackupInv == ASSUME IInv, NEW s \in Running, HasBackup(s) PROVE IInv'
<1> USE DeployAssumption DEF HasBackup, Running, envFiles, releases, server, marks
<1>1. s.pc = "choose" /\ s.run \in 1..job.run /\ Moved(s, Place(s.run, "rbRemove"))
  BY AtMoves DEF Commands, RollbackCommands, Finals, EnvScript, ReleaseScript
<1> USE DEF Place, Moved
<1>2. TypeOK' /\ Begun'
  BY <1>1 DEF IInv, TypeOK, Begun, File, Version
<1>3. ASSUME "overlapped" \notin upset' PROVE ReleaseKept'
  BY <1>1, <1>3 DEF IInv, TypeOK, ReleaseKept, ScriptAt, Early, WithRelease, Restoring,
      Commands, EnvScript, ReleaseScript
<1>4. ASSUME "overlapped" \notin upset' PROVE RunAt'
  BY <1>1, <1>4 DEF IInv, TypeOK, Begun, RunAt, SuccessMeansRunning, WithEnv, WithRelease,
      Commands, EnvScript, ReleaseScript
<1>5. ASSUME Watched' PROVE RollbackAt' /\ FoundPairs'
  BY <1>1, <1>5 DEF IInv, TypeOK, Watched, RollbackAt, FoundPairs, EnvRestored, RunAt,
      ReleaseKept, ScriptAt, Early, WithEnv, WithRelease, Restoring, Commands, EnvScript,
      ReleaseScript
<1>6. SchemaNotBehind' /\ RunningPairsMatch'
  BY <1>1 DEF IInv, TypeOK, Begun, SchemaNotBehind, RunningPairsMatch, Version, Loadable
<1> QED BY <1>1, <1>2, <1>3, <1>4, <1>5, <1>6 DEF IInv

LEMMA RestoreReleaseInv == ASSUME IInv, NEW s \in Running, RestoreRelease(s) PROVE IInv'
<1> USE DeployAssumption DEF RestoreRelease, Running, Copied, envFiles, releases, server,
        marks
<1>1. s.pc = "rbCopy" /\ s.run \in 1..job.run /\ Moved(s, Place(s.run, "rbInstall"))
  BY AtMoves DEF Commands, RollbackCommands, Finals, EnvScript, ReleaseScript
<1> USE DEF Place, Moved
<1>2. TypeOK' /\ Begun'
  BY <1>1 DEF IInv, TypeOK, Begun, File, Version
<1>3. ASSUME "overlapped" \notin upset' PROVE ReleaseKept'
  BY <1>1, <1>3 DEF IInv, TypeOK, ReleaseKept, ScriptAt, Early, WithRelease, Restoring,
      Commands, EnvScript, ReleaseScript
<1>4. ASSUME "overlapped" \notin upset' PROVE RunAt'
  BY <1>1, <1>4 DEF IInv, TypeOK, Begun, RunAt, SuccessMeansRunning, WithEnv, WithRelease,
      Commands, EnvScript, ReleaseScript
<1>5. ASSUME Watched' PROVE RollbackAt' /\ FoundPairs'
  BY <1>1, <1>5 DEF IInv, TypeOK, Watched, RollbackAt, FoundPairs, EnvRestored, RunAt,
      ReleaseKept, ScriptAt, Early, WithEnv, WithRelease, Restoring, Commands, EnvScript,
      ReleaseScript
<1>6. SchemaNotBehind' /\ RunningPairsMatch'
  BY <1>1 DEF IInv, TypeOK, Begun, SchemaNotBehind, RunningPairsMatch, Version, Loadable
<1> QED BY <1>1, <1>2, <1>3, <1>4, <1>5, <1>6 DEF IInv

LEMMA RollbackHealthInv == ASSUME IInv, NEW s \in Running, RollbackHealth(s) PROVE IInv'
<1> USE DeployAssumption DEF RollbackHealth, Running, Answering, envFiles, releases,
        server, marks
<1>1. s.pc = "rbHealth" /\ s.run \in 1..job.run /\ Moved(s, Place(s.run, "rolledBack"))
  BY AtMoves DEF Commands, RollbackCommands, Finals, EnvScript, ReleaseScript
<1> USE DEF Place, Moved
<1>2. TypeOK' /\ Begun'
  <2>1. envMark' \subseteq 1..job.run /\ relMark' \subseteq 1..job.run
    BY <1>1 DEF IInv, TypeOK
  <2>2. UNCHANGED <<envFiles, releases, server>>
    OBVIOUS
  <2> QED BY <1>1, <2>1, <2>2 DEF IInv, TypeOK, Begun, File
<1>3. ASSUME "overlapped" \notin upset' PROVE ReleaseKept'
  BY <1>1, <1>3 DEF IInv, TypeOK, ReleaseKept, ScriptAt, Early, WithRelease, Restoring,
      Commands, EnvScript, ReleaseScript
<1>4. ASSUME "overlapped" \notin upset' PROVE RunAt'
  BY <1>1, <1>4 DEF IInv, TypeOK, Begun, RunAt, SuccessMeansRunning, WithEnv, WithRelease,
      Commands, EnvScript, ReleaseScript
<1>5. ASSUME Watched' PROVE RollbackAt' /\ FoundPairs'
  BY <1>1, <1>5 DEF IInv, TypeOK, Watched, RollbackAt, FoundPairs, EnvRestored, RunAt,
      ReleaseKept, ScriptAt, Early, WithEnv, WithRelease, Restoring, Commands, EnvScript,
      ReleaseScript
<1>6. SchemaNotBehind' /\ RunningPairsMatch'
  BY <1>1 DEF IInv, TypeOK, Begun, SchemaNotBehind, RunningPairsMatch, Version, Loadable
<1> QED BY <1>1, <1>2, <1>3, <1>4, <1>5, <1>6 DEF IInv

LEMMA RemoveDistInv == ASSUME IInv, NEW s \in Running, RemoveDist(s) PROVE IInv'
<1> USE DeployAssumption DEF RemoveDist, Running, envFiles, releases, server, marks
<1>1. /\ s.run \in 1..job.run
      /\ \/ s.pc = "remove" /\ Moved(s, Place(s.run, "extract"))
         \/ s.pc = "rbRemove" /\ Moved(s, Place(s.run, "rbCopy"))
  <2>1. CASE At(s, "remove", "extract")
    BY <2>1, AtMoves DEF Commands, RollbackCommands, Finals, EnvScript, ReleaseScript
  <2>2. CASE At(s, "rbRemove", "rbCopy")
    BY <2>2, AtMoves DEF Commands, RollbackCommands, Finals, EnvScript, ReleaseScript
  <2> QED BY <2>1, <2>2
<1> USE DEF Place, Moved
<1>2. TypeOK' /\ Begun'
  BY <1>1 DEF IInv, TypeOK, Begun, File, Version
<1>3. ASSUME "overlapped" \notin upset' PROVE ReleaseKept'
  BY <1>1, <1>3 DEF IInv, TypeOK, ReleaseKept, ScriptAt, Early, WithRelease, Restoring,
      Commands, EnvScript, ReleaseScript
<1>4. ASSUME "overlapped" \notin upset' PROVE RunAt'
  BY <1>1, <1>4 DEF IInv, TypeOK, Begun, RunAt, SuccessMeansRunning, WithEnv, WithRelease,
      Commands, EnvScript, ReleaseScript
<1>5. ASSUME Watched' PROVE RollbackAt' /\ FoundPairs'
  BY <1>1, <1>5 DEF IInv, TypeOK, Watched, RollbackAt, FoundPairs, EnvRestored, RunAt,
      ReleaseKept, ScriptAt, Early, WithEnv, WithRelease, Restoring, Commands, EnvScript,
      ReleaseScript
<1>6. SchemaNotBehind' /\ RunningPairsMatch'
  BY <1>1 DEF IInv, TypeOK, Begun, SchemaNotBehind, RunningPairsMatch, Version, Loadable
<1> QED BY <1>1, <1>2, <1>3, <1>4, <1>5, <1>6 DEF IInv

LEMMA InstallInv == ASSUME IInv, NEW s \in Running, Install(s) PROVE IInv'
<1> USE DeployAssumption DEF Install, Running, envFiles, releases, server, marks
<1>1. /\ s.run \in 1..job.run
      /\ \/ s.pc = "install" /\ Moved(s, Place(s.run, "migrate"))
         \/ s.pc = "rbInstall" /\ Moved(s, Place(s.run, "rbReload"))
  <2>1. CASE At(s, "install", "migrate")
    BY <2>1, AtMoves DEF Commands, RollbackCommands, Finals, EnvScript, ReleaseScript
  <2>2. CASE At(s, "rbInstall", "rbReload")
    BY <2>2, AtMoves DEF Commands, RollbackCommands, Finals, EnvScript, ReleaseScript
  <2> QED BY <2>1, <2>2
<1> USE DEF Place, Moved
<1>2. TypeOK' /\ Begun'
  BY <1>1 DEF IInv, TypeOK, Begun, File, Version
<1>3. ASSUME "overlapped" \notin upset' PROVE ReleaseKept'
  BY <1>1, <1>3 DEF IInv, TypeOK, ReleaseKept, ScriptAt, Early, WithRelease, Restoring,
      Commands, EnvScript, ReleaseScript
<1>4. ASSUME "overlapped" \notin upset' PROVE RunAt'
  BY <1>1, <1>4 DEF IInv, TypeOK, Begun, RunAt, SuccessMeansRunning, WithEnv, WithRelease,
      Commands, EnvScript, ReleaseScript
<1>5. ASSUME Watched' PROVE RollbackAt' /\ FoundPairs'
  BY <1>1, <1>5 DEF IInv, TypeOK, Watched, RollbackAt, FoundPairs, EnvRestored, RunAt,
      ReleaseKept, ScriptAt, Early, WithEnv, WithRelease, Restoring, Commands, EnvScript,
      ReleaseScript
<1>6. SchemaNotBehind' /\ RunningPairsMatch'
  BY <1>1 DEF IInv, TypeOK, Begun, SchemaNotBehind, RunningPairsMatch, Version, Loadable
<1> QED BY <1>1, <1>2, <1>3, <1>4, <1>5, <1>6 DEF IInv

LEMMA ReloadedInv == ASSUME IInv, NEW s \in Running, Reloaded(s) PROVE IInv'
<1> USE DeployAssumption DEF Reloaded, Running, envFiles, releases, server, marks
<1>1. /\ s.run \in 1..job.run
      /\ \/ s.pc = "reload" /\ Moved(s, Place(s.run, "health"))
         \/ s.pc = "rbReload" /\ Moved(s, Place(s.run, "rbHealth"))
  <2>1. CASE At(s, "reload", "health")
    BY <2>1, AtMoves DEF Commands, RollbackCommands, Finals, EnvScript, ReleaseScript
  <2>2. CASE At(s, "rbReload", "rbHealth")
    BY <2>2, AtMoves DEF Commands, RollbackCommands, Finals, EnvScript, ReleaseScript
  <2> QED BY <2>1, <2>2
<1> USE DEF Place, Moved
<1>2. TypeOK' /\ Begun'
  BY <1>1 DEF IInv, TypeOK, Begun, File, Version
<1>3. ASSUME "overlapped" \notin upset' PROVE ReleaseKept'
  BY <1>1, <1>3 DEF IInv, TypeOK, ReleaseKept, ScriptAt, Early, WithRelease, Restoring,
      Commands, EnvScript, ReleaseScript
<1>4. ASSUME "overlapped" \notin upset' PROVE RunAt'
  BY <1>1, <1>4 DEF IInv, TypeOK, Begun, RunAt, SuccessMeansRunning, WithEnv, WithRelease,
      Commands, EnvScript, ReleaseScript
<1>5. ASSUME Watched' PROVE RollbackAt' /\ FoundPairs'
  BY <1>1, <1>5 DEF IInv, TypeOK, Watched, RollbackAt, FoundPairs, EnvRestored, RunAt,
      ReleaseKept, ScriptAt, Early, WithEnv, WithRelease, Restoring, Commands, EnvScript,
      ReleaseScript
<1>6. SchemaNotBehind' /\ RunningPairsMatch'
  BY <1>1 DEF IInv, TypeOK, Begun, SchemaNotBehind, RunningPairsMatch, Version, Loadable
<1> QED BY <1>1, <1>2, <1>3, <1>4, <1>5, <1>6 DEF IInv

LEMMA CheckHealthInv == ASSUME IInv, NEW s \in Running, CheckHealth(s) PROVE IInv'
<1> USE DeployAssumption DEF CheckHealth, Running, Answering, envFiles, releases, server,
        marks
<1>1. /\ s.run \in 1..job.run
      /\ \/ s.pc = "health" /\ Moved(s, Place(s.run, "external"))
         \/ s.pc = "external" /\ Moved(s, Place(s.run, "unmark"))
  <2>1. CASE At(s, "health", "external")
    BY <2>1, AtMoves DEF Commands, RollbackCommands, Finals, EnvScript, ReleaseScript
  <2>2. CASE At(s, "external", "unmark")
    BY <2>2, AtMoves DEF Commands, RollbackCommands, Finals, EnvScript, ReleaseScript
  <2> QED BY <2>1, <2>2
<1> USE DEF Place, Moved
<1>2. TypeOK' /\ Begun'
  BY <1>1 DEF IInv, TypeOK, Begun, File, Version
<1>3. ASSUME "overlapped" \notin upset' PROVE ReleaseKept'
  BY <1>1, <1>3 DEF IInv, TypeOK, ReleaseKept, ScriptAt, Early, WithRelease, Restoring,
      Commands, EnvScript, ReleaseScript
<1>4. ASSUME "overlapped" \notin upset' PROVE RunAt'
  BY <1>1, <1>4 DEF IInv, TypeOK, Begun, RunAt, SuccessMeansRunning, WithEnv, WithRelease,
      Commands, EnvScript, ReleaseScript
<1>5. ASSUME Watched' PROVE RollbackAt' /\ FoundPairs'
  BY <1>1, <1>5 DEF IInv, TypeOK, Watched, RollbackAt, FoundPairs, EnvRestored, RunAt,
      ReleaseKept, ScriptAt, Early, WithEnv, WithRelease, Restoring, Commands, EnvScript,
      ReleaseScript
<1>6. SchemaNotBehind' /\ RunningPairsMatch'
  BY <1>1 DEF IInv, TypeOK, Begun, SchemaNotBehind, RunningPairsMatch, Version, Loadable
<1> QED BY <1>1, <1>2, <1>3, <1>4, <1>5, <1>6 DEF IInv

LEMMA RestoreEnvInv == ASSUME IInv, NEW s \in Running, RestoreEnv(s) PROVE IInv'
<1> USE DeployAssumption DEF RestoreEnv, Running, envFiles, releases, server, marks
<1>1. /\ s.run \in 1..job.run
      /\ \/ Marked(s) /\ s.pc = "rollback" /\ Moved(s, Place(s.run, "choose"))
         \/ ~Marked(s) /\ s.pc = "rollback" /\ Moved(s, Place(s.run, "skipped"))
  <2>1. CASE Marked(s)
    BY <2>1, AtMoves DEF Commands, RollbackCommands, Finals, EnvScript, ReleaseScript
  <2>2. CASE ~Marked(s)
    BY <2>2, AtMoves DEF Commands, RollbackCommands, Finals, EnvScript, ReleaseScript
  <2> QED BY <2>1, <2>2
<1> USE DEF Place, Moved
<1>2. TypeOK' /\ Begun'
  BY <1>1 DEF IInv, TypeOK, Begun, File, Version
<1>3. ASSUME "overlapped" \notin upset' PROVE ReleaseKept'
  BY <1>1, <1>3 DEF IInv, TypeOK, ReleaseKept, ScriptAt, Early, WithRelease, Restoring,
      Commands, EnvScript, ReleaseScript
<1>4. ASSUME "overlapped" \notin upset' PROVE RunAt'
  BY <1>1, <1>4 DEF IInv, TypeOK, Begun, RunAt, SuccessMeansRunning, WithEnv, WithRelease,
      Commands, EnvScript, ReleaseScript
<1>5. ASSUME Watched' PROVE RollbackAt' /\ FoundPairs'
  BY <1>1, <1>5 DEF Marked, IInv, TypeOK, Watched, RollbackAt, FoundPairs, EnvRestored,
      RunAt, ReleaseKept, ScriptAt, Early, WithEnv, WithRelease, Restoring, Commands,
      EnvScript, ReleaseScript
<1>6. SchemaNotBehind' /\ RunningPairsMatch'
  BY <1>1 DEF IInv, TypeOK, Begun, SchemaNotBehind, RunningPairsMatch, Version, Loadable
<1> QED BY <1>1, <1>2, <1>3, <1>4, <1>5, <1>6 DEF IInv

LEMMA ReloadInv == ASSUME IInv, NEW s \in Running, NEW w \in Worker, Reload(s, w) PROVE IInv'
<1> DEFINE t == [run |-> s.run, pc |-> s.pc, done |-> s.done \cup {w}]
<1> USE DeployAssumption DEF Reload, Running, envFiles, releases, server, marks
<1>1. /\ s.run \in 1..job.run /\ s.done \subseteq Worker \cup {Torn}
      /\ s.pc \in {"reload", "rbReload"} /\ Moved(s, t)
  <2>1. s.pc \in RollbackCommands \cup Commands
    BY DEF Commands, RollbackCommands, ReleaseScript
  <2>2. s.run \in 1..job.run /\ s.done \subseteq Worker \cup {Torn}
    BY DEF IInv, TypeOK, Begun, Version
  <2>3. /\ t \in [run : {s.run}, pc : Commands \cup RollbackCommands \cup Finals,
                  done : SUBSET (Worker \cup {Torn})]
        /\ t.pc = s.pc
    BY <2>1, <2>2
  <2>4. Step(s, t)
    OBVIOUS
  <2> HIDE DEF t, Reload
  <2> QED BY <2>1, <2>2, <2>3, <2>4, Moves DEF IInv, Reload
<1> USE DEF Moved
<1>2. Loaded \in Loadable \cup {Down}
  BY DEF Loaded, Loadable
<1>3. TypeOK' /\ Begun'
  <2>1. worker' \in [Worker -> Loadable \cup {None, Down}]
    <3> HIDE DEF Loadable
    <3> QED BY <1>2 DEF IInv, TypeOK
  <2>2. UNCHANGED <<envFiles, releases, schema, marks>>
    OBVIOUS
  <2> QED BY <1>1, <2>1, <2>2 DEF IInv, TypeOK, Begun, File
<1>4. ASSUME "overlapped" \notin upset' PROVE ReleaseKept'
  BY <1>1, <1>4 DEF IInv, TypeOK, ReleaseKept, ScriptAt, Early, WithRelease, Restoring
<1>5. ASSUME "overlapped" \notin upset' PROVE RunAt'
  <2>1. CASE s = job /\ job' = t
    BY <1>1, <1>5, <2>1 DEF IInv, TypeOK, RunAt, SuccessMeansRunning, WithEnv, WithRelease,
       Loaded, Begun, Version
  <2>2. CASE job' = job /\ job.pc \notin Commands \cup {"success"}
    BY <1>1, <1>5, <2>2 DEF IInv, TypeOK, RunAt, SuccessMeansRunning, WithEnv, WithRelease,
       Commands, EnvScript, ReleaseScript
  <2> QED BY <1>1, <1>5, <2>1, <2>2
<1>6. ASSUME Watched' PROVE RollbackAt' /\ FoundPairs'
  BY <1>1, <1>6 DEF IInv, TypeOK, Watched, RollbackAt, FoundPairs, EnvRestored, Restoring
<1>7. ASSUME upset' \subseteq {"backupFailed"}, Loaded \in Loadable
      PROVE  Loaded.rel <= schema /\ (upset' = {} => Loaded.rel = Loaded.env)
  <2>1. Watched' /\ "overlapped" \notin upset /\ Watched /\ upset \subseteq {"backupFailed"}
        /\ s = job
    BY <1>1, <1>7 DEF Watched
  <2> QED BY <1>1, <1>7, <2>1
          DEF IInv, TypeOK, RunAt, RollbackAt, FoundPairs, EnvRestored, Restoring, WithEnv,
              WithRelease, Loaded, Loadable, Version, Begun
<1>8. SchemaNotBehind' /\ RunningPairsMatch'
  BY <1>1, <1>2, <1>7 DEF IInv, TypeOK, SchemaNotBehind, RunningPairsMatch
<1> QED BY <1>1, <1>3, <1>4, <1>5, <1>6, <1>8 DEF IInv

LEMMA UnderwayInv == ASSUME IInv, NEW s \in Running, Underway(s) PROVE IInv'
<1> DEFINE t == [run |-> s.run, pc |-> s.pc, done |-> {Torn}]
<1> USE DeployAssumption DEF Underway, Running, envFiles, releases, server, marks
<1>1. /\ s.run \in 1..job.run /\ s.done = {} /\ Moved(s, t)
      /\ s.pc \in {"scp", "copyEnv", "upload", "clear", "copyRelease", "remove", "rbRemove",
                   "extract", "rbCopy"}
  <2>1. s.pc \in {"scp", "copyEnv", "upload", "clear", "copyRelease", "remove", "rbRemove",
                   "extract", "rbCopy"}
    OBVIOUS
  <2>2. s.pc \in RollbackCommands \cup Commands
    BY <2>1 DEF Commands, RollbackCommands, ReleaseScript, EnvScript
  <2>3. s.run \in 1..job.run
    BY <2>1 DEF IInv, TypeOK, Begun, Version
  <2>4. /\ t \in [run : {s.run}, pc : Commands \cup RollbackCommands \cup Finals,
                  done : SUBSET (Worker \cup {Torn})]
        /\ t.pc = s.pc
    BY <2>2
  <2>5. Step(s, t) /\ s.done = {}
    OBVIOUS
  <2> HIDE DEF t, Underway
  <2> QED BY <2>1, <2>2, <2>3, <2>4, <2>5, Moves DEF IInv
<1> USE DEF Moved
<1>2. TypeOK' /\ Begun'
  BY <1>1 DEF IInv, TypeOK, Begun, File, Version
<1>3. ASSUME "overlapped" \notin upset' PROVE ReleaseKept'
  BY <1>1, <1>3 DEF IInv, TypeOK, ReleaseKept, ScriptAt, Early, WithRelease, Restoring,
      Commands, EnvScript, ReleaseScript
<1>4. ASSUME "overlapped" \notin upset' PROVE RunAt'
  BY <1>1, <1>4 DEF IInv, TypeOK, Begun, RunAt, SuccessMeansRunning, WithEnv, WithRelease,
      Commands, EnvScript, ReleaseScript
<1>5. ASSUME Watched' PROVE RollbackAt' /\ FoundPairs'
  BY <1>1, <1>5 DEF IInv, TypeOK, Watched, RollbackAt, FoundPairs, EnvRestored, RunAt,
      ReleaseKept, ScriptAt, Early, WithEnv, WithRelease, Restoring, Commands, EnvScript,
      ReleaseScript
<1>6. SchemaNotBehind' /\ RunningPairsMatch'
  BY <1>1 DEF IInv, TypeOK, SchemaNotBehind, RunningPairsMatch
<1> QED BY <1>1, <1>2, <1>3, <1>4, <1>5, <1>6 DEF IInv

-----------------------------------------------------------------------------
(* The other steps                                                         *)

LEMMA StartRunInv == ASSUME IInv, StartRun PROVE IInv'
<1> USE DeployAssumption DEF StartRun, Place, Running, envFiles, releases, server, marks
<1>1. job.run \in Version /\ job'.run = job.run + 1 /\ job'.pc = "scp" /\ job'.done = {}
      /\ job.pc \in Finals /\ job'.run \in Version
  BY DEF IInv, TypeOK, Version
<1>2. TypeOK' /\ Begun'
  <2>1. job' \in [run : Version, pc : Commands \cup RollbackCommands \cup Finals,
                done : SUBSET (Worker \cup {Torn})]
    BY <1>1 DEF Commands
  <2>2. left' \subseteq [run : 1..job'.run, pc : Remote, done : SUBSET (Worker \cup {Torn})]
    BY <1>1 DEF IInv, TypeOK, Version
  <2>3. envMark' \subseteq 1..job'.run /\ relMark' \subseteq 1..job'.run
    BY <1>1 DEF IInv, TypeOK, Version
  <2>4. found' \in [env : File, dist : File] /\ (found'.env # None => env' # None)
    BY DEF IInv, TypeOK
  <2>5. Begun'
    BY <1>1 DEF IInv, TypeOK, Begun, Version
  <2> QED BY <2>1, <2>2, <2>3, <2>4, <2>5 DEF IInv, TypeOK
<1>3. \A s \in left' : s.run # job'.run
  BY <1>1 DEF IInv, TypeOK, Version
<1>4. OneScript'
  BY <1>3 DEF OneScript
<1>5. job'.run \notin relMark /\ job'.run \notin envMark
  BY <1>1 DEF IInv, TypeOK, Version
<1>6. ReleaseKept'
  BY <1>1, <1>3, <1>5 DEF ReleaseKept, ScriptAt, Early, WithRelease, Restoring
<1>7. RunAt'
  BY <1>1, <1>5 DEF RunAt, SuccessMeansRunning, WithEnv, WithRelease
<1>8. ASSUME Watched' PROVE RollbackAt' /\ FoundPairs'
  BY <1>1, <1>8 DEF IInv, TypeOK, Begun, Finals, Watched, RollbackAt, FoundPairs,
      EnvRestored, RunAt, SuccessMeansRunning,
     Restoring, Version
<1>9. SchemaNotBehind' /\ RunningPairsMatch'
  BY DEF IInv, SchemaNotBehind, RunningPairsMatch
<1> QED BY <1>2, <1>4, <1>6, <1>7, <1>8, <1>9 DEF IInv

\* A command fails, a connection is lost or the run is cancelled: what the run has
\* changed so far stays, and its script may run on.
LEMMA EndsInv ==
    ASSUME IInv, Fail \/ Cancel
    PROVE  IInv'
<1> USE DeployAssumption DEF Place, Running, envFiles, releases, server, marks
<1>1. /\ job.pc \in Commands \cup RollbackCommands
      /\ job'.run = job.run /\ job'.pc \in {"rollback", "stuck", "cancelled"} /\ job'.done = {}
      /\ job'.pc = "rollback" => job.pc \in Commands
      /\ job'.pc = "stuck" => "rollbackFailed" \in upset'
      /\ job'.pc = "cancelled" => "cancelled" \in upset'
      /\ job.pc = "copyEnv" /\ job'.pc = "rollback" => "backupFailed" \in upset'
      /\ upset \subseteq upset' /\ upset' \subseteq upset \cup {"backupFailed", "rollbackFailed", "cancelled"}
      /\ UNCHANGED <<envFiles, releases, server, marks, found>>
  BY DEF Fail, Cancel, RollbackCommands
<1>2. left' = left \/ (left' = left \cup {job} /\ job.pc \in Remote)
  BY DEF Fail, Cancel, RunsOn
<1>3. TypeOK' /\ Begun'
  <2>1. job' \in [run : Version, pc : Commands \cup RollbackCommands \cup Finals,
                done : SUBSET (Worker \cup {Torn})]
    BY DEF Fail, Cancel, IInv, TypeOK, RollbackCommands, Finals
  <2>2. left' \subseteq [run : 1..job'.run, pc : Remote, done : SUBSET (Worker \cup {Torn})]
    <3>1. job.run \in 1..job.run
      BY <1>1 DEF IInv, TypeOK, Begun, Version, Commands, RollbackCommands, EnvScript,
          ReleaseScript
    <3> QED BY <1>1, <1>2, <3>1 DEF IInv, TypeOK
  <2>3. upset' \subseteq Kinds
    BY <1>1 DEF IInv, TypeOK, Kinds
  <2>4. Begun'
    BY <1>1 DEF IInv, Begun, Commands, RollbackCommands, EnvScript, ReleaseScript
  <2> QED BY <1>1, <2>1, <2>2, <2>3, <2>4 DEF IInv, TypeOK
<1>4. OneScript'
  BY <1>1, <1>2 DEF IInv, OneScript, Commands, RollbackCommands, EnvScript, ReleaseScript
<1>5. ASSUME "overlapped" \notin upset' PROVE ReleaseKept' /\ RunAt'
  <2>1. \A s \in Running' : s = job' \/ s \in Running
    BY <1>2
  <2>2. ReleaseKept'
    BY <1>1, <1>5, <2>1 DEF IInv, ReleaseKept, ScriptAt, Early, WithRelease, Restoring
  <2>3. RunAt'
    BY <1>1 DEF RunAt, SuccessMeansRunning, WithEnv, WithRelease
  <2> QED BY <2>2, <2>3
<1>6. ASSUME Watched' PROVE RollbackAt' /\ FoundPairs'
  <2>1. Watched /\ "overlapped" \notin upset /\ job \in Running
    BY <1>1, <1>6 DEF Watched
  <2>2. FoundPairs'
    BY <1>1, <2>1 DEF IInv, FoundPairs
  <2>3. RollbackAt'
    BY <1>1, <2>1 DEF IInv, TypeOK, RollbackAt, EnvRestored, RunAt, ReleaseKept, ScriptAt,
        Early, WithEnv, WithRelease,
       Restoring, Commands, EnvScript, ReleaseScript
  <2> QED BY <2>2, <2>3
<1>7. SchemaNotBehind' /\ RunningPairsMatch'
  BY <1>1 DEF IInv, SchemaNotBehind, RunningPairsMatch
<1> QED BY <1>3, <1>4, <1>5, <1>6, <1>7 DEF IInv

LEMMA StopInv == ASSUME IInv, NEW s \in left, Stop(s) PROVE IInv'
<1> USE DEF Stop, envFiles, releases, server, marks
<1>1. left' \subseteq left /\ UNCHANGED <<job, envFiles, releases, server, marks, found, upset>>
  OBVIOUS
<1>2. TypeOK' /\ Begun' /\ OneScript'
  BY <1>1 DEF IInv, TypeOK, Begun, OneScript
<1>3. ASSUME "overlapped" \notin upset PROVE ReleaseKept'
  BY <1>1, <1>3 DEF IInv, ReleaseKept, ScriptAt, Running
<1>4. /\ RunAt => RunAt'
      /\ Watched' => Watched
      /\ RollbackAt /\ FoundPairs => RollbackAt' /\ FoundPairs'
      /\ SchemaNotBehind /\ RunningPairsMatch => SchemaNotBehind' /\ RunningPairsMatch'
  BY <1>1 DEF RunAt, RollbackAt, FoundPairs, SchemaNotBehind, RunningPairsMatch,
              EnvRestored, Watched, SuccessMeansRunning
<1> QED BY <1>1, <1>2, <1>3, <1>4 DEF IInv

LEMMA RestartInv == ASSUME IInv, NEW w \in Worker, Restart(w) PROVE IInv'
<1> USE DeployAssumption DEF Restart, envFiles, releases, server, marks
<1>1. Loaded \in Loadable \cup {Down}
  BY DEF Loaded, Loadable
<1>2. UNCHANGED <<job, left, envFiles, releases, schema, marks, found>>
      /\ upset' = upset \cup {"restarted"}
  OBVIOUS
<1>3. TypeOK' /\ Begun' /\ OneScript'
  <2>1. worker' \in [Worker -> Loadable \cup {None, Down}]
    <3> HIDE DEF Loadable
    <3> QED BY <1>1 DEF IInv, TypeOK
  <2> QED BY <1>2, <2>1 DEF IInv, TypeOK, Begun, OneScript, Kinds
<1>4. ASSUME "overlapped" \notin upset' PROVE ReleaseKept' /\ RunAt'
  <2>1. ReleaseKept'
    BY <1>2, <1>4 DEF IInv, ReleaseKept, ScriptAt, Running
  <2>2. RunAt'
    BY <1>2, <1>4 DEF IInv, TypeOK, Begun, RunAt, SuccessMeansRunning, WithEnv,
        WithRelease, Loaded, Version
  <2> QED BY <2>1, <2>2
<1>5. ASSUME Watched' PROVE RollbackAt' /\ FoundPairs'
  BY <1>2, <1>5 DEF IInv, Watched, RollbackAt, FoundPairs, EnvRestored
<1>6. SchemaNotBehind' /\ RunningPairsMatch'
  BY <1>2 DEF SchemaNotBehind, RunningPairsMatch
<1> QED BY <1>3, <1>4, <1>5, <1>6 DEF IInv

LEMMA NextInv == IInv /\ [Next]_vars => IInv'
<1> SUFFICES ASSUME IInv, [Next]_vars PROVE IInv'
  OBVIOUS
<1>1. CASE StartRun
  BY <1>1, StartRunInv
<1>2. CASE Fail \/ Cancel
  BY <1>2, EndsInv
<1>3. ASSUME NEW s \in Running, DeployStep(s) PROVE IInv'
  BY <1>3, UploadEnvInv, TouchEnvMarkerInv, BackUpEnvInv, ReplaceEnvInv, UploadReleaseInv,
     ClearBackupInv, BackUpReleaseInv, TouchReleaseMarkerInv, RemoveDistInv, ExtractInv,
     DiscardTarballInv, InstallInv, MigrateInv, CheckHealthInv, RemoveMarkersInv
  DEF DeployStep
<1>4. ASSUME NEW s \in Running, RollbackStep(s) PROVE IInv'
  BY <1>4, RestoreEnvInv, EnvWasAllInv, NoBackupInv, HasBackupInv, RestoreReleaseInv,
     RollbackHealthInv DEF RollbackStep
<1>5. ASSUME NEW s \in Running, Reloaded(s) \/ Underway(s) \/ \E w \in Worker : Reload(s, w)
      PROVE  IInv'
  BY <1>5, ReloadedInv, UnderwayInv, ReloadInv
<1>6. ASSUME NEW s \in left, Stop(s) PROVE IInv'
  BY <1>6, StopInv
<1>7. ASSUME NEW w \in Worker, Restart(w) PROVE IInv'
  BY <1>7, RestartInv
<1>8. CASE UNCHANGED vars
  <2>1. UNCHANGED <<job, left, env, envBak, envNew, dist, relBak, tarball, schema, worker,
                    envMark, relMark, found, upset>>
    BY <1>8 DEF vars, envFiles, releases, server, marks
  <2> QED BY <2>1 DEF IInv, TypeOK, Begun, OneScript, ReleaseKept, ScriptAt, Running, RunAt,
       RollbackAt, FoundPairs, SchemaNotBehind, RunningPairsMatch, EnvRestored, Watched,
       SuccessMeansRunning
<1> QED BY <1>1, <1>2, <1>3, <1>4, <1>5, <1>6, <1>7, <1>8 DEF Next, Running

LEMMA InitInv == Init => IInv
<1> SUFFICES ASSUME Init PROVE IInv
  OBVIOUS
<1> USE DeployAssumption DEF Init, Place
<1>1. 0 \in Version
  BY DEF Version
<1>2. job.run = 0 /\ job.pc = "success" /\ job.done = {} /\ left = {}
  OBVIOUS
<1>3. TypeOK
  <2>1. job \in [run : Version, pc : Commands \cup RollbackCommands \cup Finals,
               done : SUBSET (Worker \cup {Torn})]
    BY <1>1 DEF Finals
  <2>2. worker \in [Worker -> Loadable \cup {None, Down}]
    BY <1>1 DEF Loadable
  <2>3. found \in [env : File, dist : File] /\ (found.env # None => env # None)
        /\ {env, envBak, envNew, dist, relBak, tarball} \subseteq File
    BY <1>1 DEF File
  <2> QED BY <1>1, <1>2, <2>1, <2>2, <2>3 DEF TypeOK
<1>4. Begun
  BY DEF Begun
<1>5. OneScript
  BY DEF OneScript
<1>6. ReleaseKept
  BY DEF ReleaseKept, ScriptAt, Running, Early, WithRelease, Restoring
<1>7. RunAt
  BY DEF RunAt, SuccessMeansRunning, WithEnv, WithRelease
<1>8. RollbackAt /\ FoundPairs
  BY DEF RollbackAt, FoundPairs, Restoring, Version
<1>9. SchemaNotBehind /\ RunningPairsMatch
  BY DEF SchemaNotBehind, RunningPairsMatch, Loadable
<1> QED BY <1>3, <1>4, <1>5, <1>6, <1>7, <1>8, <1>9 DEF IInv

LEMMA InvAlways == Spec => []IInv
BY InitInv, NextInv, PTL DEF Spec

-----------------------------------------------------------------------------
(* Theorems                                                                *)

\* The files, processes and places of a deployment are what they may be, and
\* no step makes the environment file of the server disappear, whichever scripts
\* run on.
THEOREM TypeCorrect == Spec => []TypeOK
<1> IInv => TypeOK
  BY DEF IInv
<1> QED BY InvAlways, PTL

\* Whatever fails, is cancelled, restarted or runs on without its runner: the
\* release a run has found is still there, complete, unless a script of an earlier
\* run acts.
THEOREM ReleaseIsKept == Spec => []FoundReleaseKept
<1> IInv => FoundReleaseKept
  BY DEF IInv, ReleaseKept, FoundReleaseKept
<1> QED BY InvAlways, PTL

\* A rollback that ends well leaves what the run has found, as long as no script
\* acts that has lost its runner.
THEOREM FailureIsUndone == Spec => []FailureRestores
<1> IInv => FailureRestores
  BY DEF IInv, Watched, RollbackAt, EnvRestored, FailureRestores
<1> QED BY InvAlways, PTL

\* When a run reports success, every process runs its release in its
\* environment, on its schema, unless a script of an earlier run acts.
THEOREM SuccessIsComplete == Spec => []SuccessMeansRunning
<1> IInv => SuccessMeansRunning
  BY DEF IInv, RunAt, SuccessMeansRunning
<1> QED BY InvAlways, PTL

\* No process runs a release whose migrations the database lacks, but after a
\* cancellation, a restart by pm2, a failed rollback or an act of a script that
\* has lost its runner.
THEOREM SchemaComesFirst == Spec => []SchemaNotBehind
<1> IInv => SchemaNotBehind
  BY DEF IInv
<1> QED BY InvAlways, PTL

\* Release and environment of a process belong together as long as nothing but
\* commands fails, and neither the copy of the environment file nor the rollback.
THEOREM PairsMatch == Spec => []RunningPairsMatch
<1> IInv => RunningPairsMatch
  BY DEF IInv
<1> QED BY InvAlways, PTL
=============================================================================
