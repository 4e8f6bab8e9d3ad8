---------------------------- MODULE InstallProofs ----------------------------
(***************************************************************************)
(* What an install leaves alone and what it promises, for any package,     *)
(* directories and number of runs, failures, kills and restarts of the     *)
(* host: the identity of an enrolled worker and the files of a running one *)
(* stay; success means installed; a run in which no call fails succeeds.   *)
(*                                                                         *)
(* What stays rests on the order of the steps.  Once the service is        *)
(* stopped, and unless a worker survived that, nothing runs and nothing    *)
(* will be started until the run registers the service again, so that what *)
(* it decided about the credentials is still true when it writes them.     *)
(* What is promised rests on what the run knows of the disk at each step:  *)
(* the names it has staged are whole, since nobody else writes them.       *)
(***************************************************************************)
EXTENDS Install, DataLemmas

Commands == {"none", "install", "remove"}
Faces == {"cli", "wizard", "child"}

Jobs ==
    [cmd : Commands, face : Faces, token : BOOLEAN, dir : Dirs \cup {Nowhere},
     release : Releases \cup {Oldest}, left : SUBSET ReleaseNames, keep : BOOLEAN,
     again : BOOLEAN, beside : BOOLEAN, sound : BOOLEAN, fault : BOOLEAN]

\* The types the argument needs.
InstallTypes ==
    /\ host.platform \in {"systemd", "launchd", "scm"}
    /\ unit \in [file : {"none", "half", "whole", "marked"}, dir : Dirs \cup {Nowhere}]
    /\ manager \in [enabled : BOOLEAN, active : BOOLEAN]
    /\ running \in Dirs \cup {Nowhere} /\ record \in Dirs \cup {Nowhere}
    /\ job \in Jobs

\* Which command and which face is at which step.
StepsOfCommands ==
    /\ pc \in {"stop", "stage", "finalize", "decide", "persist",
               "register", "activate", "record"} => job.cmd = "install" /\ job.dir \in Dirs
    /\ pc \in {"elevate", "deregister", "unlink"} =>
          job.cmd \in {"install", "remove"} /\ job.dir \in Dirs
    /\ pc \in {"remove", "forget"} => job.cmd = "remove" /\ job.dir \in Dirs
    /\ pc \in {"form", "done"} => job.dir \in Dirs
    /\ pc = "decide" => job.face # "wizard"

\* Without a registration there is nothing to start a worker from, and the SCM has
\* no half written one.
UnitFits ==
    /\ unit.file = "none" => unit.dir = Nowhere
    /\ host.platform = "scm" => unit.file # "half"

\* The steps before which this run stopped the service.
BehindTheStop ==
    \/ pc \in {"stage", "finalize", "decide", "unlink"}
    \/ pc = "persist" /\ job.face # "wizard"
    \/ pc = "remove" /\ job.sound

\* Nothing runs behind the stop, unless it survived it; a removal that finds no
\* registration finds no worker either.
StoppedBehindTheStop ==
    /\ BehindTheStop /\ ~job.beside => ~Alive
    /\ pc = "deregister" /\ job.cmd = "remove" /\ job.sound /\ unit.file = "none" => ~Alive

\* Credentials about to be overwritten hold no identity.
DecidedWell ==
    pc = "persist" /\ job.face # "wizard" /\ ~job.token /\ ~job.beside /\ ~job.keep
        => ~Enrolled

InstallInv ==
    InstallTypes /\ StepsOfCommands /\ UnitFits /\ StoppedBehindTheStop /\ DecidedWell

\* What the two properties say of one step.
KeepsIdentity ==
    Enrolled /\ cred' # cred =>
        \/ job.cmd = "install" /\ (job.token \/ job.face = "wizard" \/ job.beside)
        \/ job.cmd = "remove" /\ DataInside(job.dir)

KeepsRunningFiles ==
    running # Nowhere /\ staged'[running] # staged[running] => job.beside \/ ~job.sound

-----------------------------------------------------------------------------
\* Initially there is no run, no service and no worker.
LEMMA InstallInit == Init => InstallInv
BY DEF Init, InstallInv, InstallTypes, StepsOfCommands, UnitFits, StoppedBehindTheStop,
   BehindTheStop, DecidedWell, Hosts, NoUnit, NoJob, Jobs, Commands, Faces, Alive

\* What a step must do: keep the invariant, the identity and the running files.
Safe == InstallInv' /\ KeepsIdentity /\ KeepsRunningFiles

\* The order of the steps, for each face.
LEMMA Steps ==
    ASSUME NEW face
    PROVE  /\ After(face, "start") = IF face = "wizard" THEN "persist" ELSE "stop"
           /\ After(face, "persist") = IF face = "wizard" THEN "stop" ELSE "register"
           /\ After(face, "stop") = "stage"
           /\ After(face, "stage") = "finalize"
           /\ After(face, "finalize") = IF face = "wizard" THEN "register" ELSE "decide"
           /\ face # "wizard" => After(face, "decide") = "persist"
<1>1. CASE face = "wizard"
  BY <1>1 DEF After, WizardAfter
<1>2. CASE face # "wizard"
  BY <1>2 DEF After, CliAfter
<1> QED BY <1>1, <1>2

\* A fault only sets its flag, and a run that has ended is at no step.
LEMMA FaultEnds ==
    ASSUME InstallTypes, Fault \/ Refused
    PROVE  pc' = "failed" /\ job' \in Jobs
BY DEF InstallTypes, Fault, Refused, Jobs

\* A run that has ended is at no step that the invariant speaks of.
LEMMA EndsSafely ==
    ASSUME InstallTypes', UnitFits', KeepsIdentity, KeepsRunningFiles,
           pc' \in {"failed", "done"}, pc' = "done" => job'.dir \in Dirs
    PROVE  Safe
BY DEF Safe, InstallInv, StepsOfCommands, StoppedBehindTheStop, BehindTheStop, DecidedWell

\* A step that leaves files, service and credentials alone moves only the run.
LEMMA RunMoves ==
    ASSUME InstallInv, UNCHANGED <<host, staged, service, data>>, job' \in Jobs
    PROVE  /\ InstallTypes' /\ UnitFits' /\ KeepsIdentity /\ KeepsRunningFiles
           /\ Alive' = Alive
BY DEF InstallInv, InstallTypes, UnitFits, KeepsIdentity, KeepsRunningFiles, Alive,
   service, data, Jobs, ReleaseNames, Oldest, First

\* The first step of a request: it has not stopped the service yet, and it has
\* no decision to rely on.
LEMMA RequestSafe ==
    ASSUME InstallInv, UNCHANGED <<host, staged, service, data>>,
           NEW cmd \in {"install", "remove"}, NEW face \in Faces, NEW token \in BOOLEAN,
           NEW dir \in Dirs, NEW release \in Releases \cup {Oldest},
           job' = Asked(cmd, face, token, dir, release),
           pc' = FirstStep(cmd, face) \/ pc' = "elevate"
    PROVE  Safe
<1>1. job' \in Jobs /\ job'.cmd = cmd /\ job'.face = face /\ job'.dir = dir
  <2>1. Sound \in BOOLEAN
    BY DEF Sound, Alive
  <2> QED BY <2>1 DEF Asked, NoJob, Jobs, Commands, Faces
<1>2. job'.sound = Sound
  BY DEF Asked, NoJob
<1>3. \/ pc' = "elevate"
      \/ cmd = "remove" /\ pc' = "deregister"
      \/ cmd = "install" /\ face = "wizard" /\ pc' = "persist"
      \/ cmd = "install" /\ face # "wizard" /\ pc' = "stop"
  BY Steps DEF FirstStep
<1>4. InstallTypes' /\ UnitFits' /\ KeepsIdentity /\ KeepsRunningFiles
         /\ Alive' = Alive
  BY <1>1, RunMoves
<1>5. StepsOfCommands'
  BY <1>1, <1>3 DEF StepsOfCommands
<1>6. StoppedBehindTheStop'
  BY <1>1, <1>2, <1>3, <1>4 DEF StoppedBehindTheStop, BehindTheStop, Sound, service
<1>7. DecidedWell'
  BY <1>1, <1>3 DEF DecidedWell
<1> QED BY <1>4, <1>5, <1>6, <1>7 DEF Safe, InstallInv

\* An open form, or a run that is refused at once, has done nothing.
LEMMA FormSafe ==
    ASSUME InstallInv, UNCHANGED <<host, staged, service, data>>, job' \in Jobs,
           pc' \in {"form", "failed", "idle"}, pc' = "form" => job'.dir \in Dirs
    PROVE  Safe
<1>1. StepsOfCommands' /\ StoppedBehindTheStop' /\ DecidedWell'
  BY DEF StepsOfCommands, StoppedBehindTheStop, BehindTheStop, DecidedWell
<1> QED BY <1>1, RunMoves DEF Safe, InstallInv

\* What the operator does changes no file and no service.
LEMMA OperatorSafe ==
    ASSUME InstallInv, Operator
    PROVE  Safe
<1> USE DEF InstallInv
<1>1. UNCHANGED <<host, staged, service, data>>
  BY DEF Operator, Launch, Submit, LaunchWithoutRights, UsageError, OpenWizard,
     BackToForm, EditForm, ElevationDeclined, RunAsRoot, counts
<1>2. job \in Jobs /\ job.face \in Faces /\ job.token \in BOOLEAN
         /\ job.release \in Releases \cup {Oldest} /\ SeededDir \in Dirs
  BY DirsAssumption DEF InstallTypes, SeededDir, Jobs
<1>3. ASSUME NEW cmd \in {"install", "remove"}, NEW token \in BOOLEAN, NEW dir \in Dirs,
             NEW release \in Releases, Launch(cmd, token, dir, release)
      PROVE  Safe
  BY <1>1, <1>3, RequestSafe DEF Launch, Faces
<1>4. ASSUME NEW cmd \in {"install", "remove"}, NEW release \in Releases,
             NEW root \in BOOLEAN, Submit(cmd, release, root)
      PROVE  Safe
  <2>1. job.dir \in Dirs
    BY <1>4 DEF Submit, StepsOfCommands
  <2> QED BY <1>1, <1>2, <1>4, <2>1, RequestSafe DEF Submit, Faces
<1>5. ASSUME NEW cmd \in {"install", "remove"}, LaunchWithoutRights(cmd)
      PROVE  Safe
  <2>1. job' \in Jobs
    BY <1>5 DEF LaunchWithoutRights, NoJob, Jobs, Commands, Faces
  <2> QED BY <1>1, <1>5, <2>1, FormSafe DEF LaunchWithoutRights
<1>6. CASE UsageError
  <2>1. job' \in Jobs
    BY <1>6 DEF UsageError, NoJob, Jobs, Commands, Faces
  <2> QED BY <1>1, <1>6, <2>1, FormSafe DEF UsageError
<1>7. CASE OpenWizard
  <2>1. PICK token \in BOOLEAN :
            job' = [NoJob EXCEPT !.face = "wizard", !.dir = SeededDir, !.token = token]
    BY <1>7 DEF OpenWizard, SeededTokens
  <2>2. job' \in Jobs /\ job'.dir = SeededDir
    BY <1>2, <2>1 DEF NoJob, Jobs, Commands, Faces
  <2> QED BY <1>1, <1>2, <1>7, <2>2, FormSafe DEF OpenWizard
<1>8. CASE BackToForm
  <2>1. job' \in Jobs /\ job'.dir = job.dir
    BY <1>2, <1>8 DEF BackToForm, NoJob, Jobs, Commands, Faces
  <2>2. job.dir \in Dirs
    BY <1>8 DEF BackToForm, StepsOfCommands
  <2> QED BY <1>1, <1>8, <2>1, <2>2, FormSafe DEF BackToForm
<1>9. ASSUME NEW dir \in Dirs, NEW token \in BOOLEAN, EditForm(dir, token)
      PROVE  Safe
  <2>1. job' \in Jobs /\ (pc' = "form" => job'.dir = dir)
    <3>1. NoJob \in Jobs
      BY DEF NoJob, Jobs, Commands, Faces
    <3>2. [job EXCEPT !.dir = dir, !.token = token] \in Jobs
      BY <1>2 DEF Jobs
    <3>3. [job EXCEPT !.dir = dir, !.token = token].dir = dir
      BY <1>2 DEF Jobs
    <3> QED BY <1>9, <3>1, <3>2, <3>3 DEF EditForm
  <2>2. pc' \in {"form", "idle"}
    BY <1>9 DEF EditForm
  <2> QED BY <1>1, <2>1, <2>2, FormSafe
<1>10. CASE ElevationDeclined
  BY <1>1, <1>2, <1>10, FormSafe DEF ElevationDeclined, StepsOfCommands
<1>11. CASE RunAsRoot
  <2>1. job.cmd \in {"install", "remove"} /\ job.dir \in Dirs
    BY <1>11 DEF RunAsRoot, StepsOfCommands
  <2>2. CASE Fault
    BY <1>1, <2>2, FaultEnds, FormSafe
  <2>3. CASE job' = Asked(job.cmd, "child", job.token, job.dir, job.release)
             /\ pc' = FirstStep(job.cmd, "child")
    BY <1>1, <1>2, <2>1, <2>3, RequestSafe DEF Faces
  <2> QED BY <1>11, <2>2, <2>3 DEF RunAsRoot
<1> QED BY <1>3, <1>4, <1>5, <1>6, <1>7, <1>8, <1>9, <1>10, <1>11 DEF Operator

-----------------------------------------------------------------------------
\* A run that goes from a step to the next with its request unchanged, and the
\* worker as alive as it was, keeps what holds behind the stop.
LEMMA StopSafe ==
    ASSUME InstallInv, Stop
    PROVE  Safe
<1> USE DEF InstallInv
<1>1. job \in Jobs /\ pc = "stop" /\ job.cmd = "install" /\ job.dir \in Dirs
  BY DEF Stop, InstallTypes, StepsOfCommands
<1>p. SystemdStop \/ LaunchdStop \/ ScmStop
  BY DEF Stop, InstallTypes
<1>2. UNCHANGED <<host, staged, data, unit>>
  BY <1>p DEF Stop, SystemdStop, LaunchdStop, ScmStop, service, counts
<1>3. manager' \in [enabled : BOOLEAN, active : BOOLEAN] /\ running' \in Dirs \cup {Nowhere}
  BY <1>p DEF SystemdStop, LaunchdStop, ScmStop, service, Stopped, InstallTypes
<1>4. \/ Fault \/ Refused
      \/ GoOnBeside
      \/ UNCHANGED service /\ job' = [job EXCEPT !.beside = Alive, !.fault = TRUE]
             /\ Advance("stop")
  BY <1>p DEF SystemdStop, LaunchdStop, ScmStop
<1>5. KeepsIdentity /\ KeepsRunningFiles /\ UnitFits'
  BY <1>2 DEF KeepsIdentity, KeepsRunningFiles, UnitFits, data
<1>6. ASSUME job' \in Jobs PROVE InstallTypes'
  BY <1>2, <1>3, <1>6 DEF InstallTypes, data, Jobs, ReleaseNames, Oldest, First
<1>7. CASE Fault \/ Refused
  BY <1>5, <1>6, <1>7, FaultEnds, EndsSafely
<1>8. CASE \/ GoOnBeside
           \/ UNCHANGED service /\ job' = [job EXCEPT !.beside = Alive, !.fault = TRUE]
                  /\ Advance("stop")
  <2>1. Alive' \in BOOLEAN /\ Alive \in BOOLEAN
    BY DEF Alive
  <2>2. UNCHANGED service => Alive' = Alive
    BY DEF Alive, service
  <2>3. /\ job' \in Jobs /\ job'.cmd = "install" /\ job'.dir \in Dirs
        /\ job'.beside = Alive' /\ pc' = After(job.face, "stop")
    BY <1>1, <1>8, <2>1, <2>2 DEF Jobs, GoOnBeside, Advance
  <2>4. pc' = "stage"
    BY <2>3, Steps
  <2>5. StepsOfCommands' /\ StoppedBehindTheStop' /\ DecidedWell'
    BY <2>3, <2>4 DEF StepsOfCommands, StoppedBehindTheStop, DecidedWell
  <2> QED BY <1>5, <1>6, <2>3, <2>5 DEF Safe
<1> QED BY <1>4, <1>7, <1>8

\* Staging: one entry at a time into the directory of the run.
Staging ==
    \/ StageInPlace \/ StageDirFails \/ StagePacked \/ StageDone
    \/ \E name \in Names : StageSibling(name)

\* Nothing runs while files are staged, and nothing but files changes.
LEMMA StagingSafe ==
    ASSUME InstallInv, Staging
    PROVE  Safe
<1> USE DEF InstallInv
<1>1. pc = "stage" /\ UNCHANGED <<host, service, data>>
  BY DEF Staging, StageInPlace, StageDirFails, StagePacked, StageDone, StageSibling, counts
<1>2. job \in Jobs /\ job.cmd = "install" /\ job.dir \in Dirs /\ (Alive => job.beside)
  BY <1>1 DEF InstallTypes, StepsOfCommands, StoppedBehindTheStop, BehindTheStop
<1>3. Alive' = Alive /\ (running # Nowhere => Alive)
  BY <1>1 DEF Alive, service
<1>4. KeepsIdentity /\ KeepsRunningFiles /\ UnitFits'
  BY <1>1, <1>2, <1>3 DEF KeepsIdentity, KeepsRunningFiles, UnitFits, data, service
<1>5. ASSUME job' \in Jobs PROVE InstallTypes'
  BY <1>1, <1>5 DEF InstallTypes, data, service, Jobs, ReleaseNames, Oldest, First
<1>6. \/ Fault \/ Refused
      \/ pc' = pc /\ \E name : job' = [job EXCEPT !.left = @ \ {name}]
      \/ job' = job /\ pc' = After(job.face, "stage")
  <2>1. ASSUME NEW name, NEW bytes, StageBytes(name, bytes)
        PROVE  \/ Fault \/ Refused
               \/ pc' = pc /\ \E n : job' = [job EXCEPT !.left = @ \ {n}]
    BY <2>1 DEF StageBytes
  <2>2. CASE StageInPlace \/ StageDirFails \/ StageDone
    BY <2>2 DEF StageInPlace, StageDirFails, StageDone, Advance
  <2>3. CASE StagePacked
    BY <2>1, <2>3 DEF StagePacked
  <2>4. ASSUME NEW name \in Names, StageSibling(name)
        PROVE  \/ Fault \/ Refused
               \/ pc' = pc /\ \E n : job' = [job EXCEPT !.left = @ \ {n}]
    BY <2>1, <2>4 DEF StageSibling
  <2> QED BY <2>2, <2>3, <2>4 DEF Staging
<1>7. CASE Fault \/ Refused
  BY <1>4, <1>5, <1>7, FaultEnds, EndsSafely
<1>8. CASE \/ pc' = pc /\ \E name : job' = [job EXCEPT !.left = @ \ {name}]
           \/ job' = job /\ pc' = After(job.face, "stage")
  <2>1. /\ job' \in Jobs /\ job'.cmd = "install" /\ job'.dir \in Dirs
        /\ job'.beside = job.beside
    BY <1>2, <1>8 DEF Jobs
  <2>2. pc' \in {"stage", "finalize"}
    BY <1>1, <1>8, Steps
  <2>3. StepsOfCommands' /\ StoppedBehindTheStop' /\ DecidedWell'
    BY <1>2, <1>3, <2>1, <2>2 DEF StepsOfCommands, StoppedBehindTheStop, DecidedWell
  <2> QED BY <1>4, <1>5, <2>1, <2>3 DEF Safe
<1> QED BY <1>6, <1>7, <1>8

\* The settings: what is decided behind the stop still holds when it is written.
LEMMA SettingsSafe ==
    ASSUME InstallInv, FinalizePaths \/ Decide \/ PersistSettings \/ SaveAll
    PROVE  Safe
<1> USE DEF InstallInv
<1>1. /\ pc \in {"finalize", "decide", "persist"}
      /\ UNCHANGED <<host, staged, service, record>>
  BY DEF FinalizePaths, Decide, PersistSettings, SaveAll, counts, data
<1>2. job \in Jobs /\ job.cmd = "install" /\ job.dir \in Dirs
  BY <1>1 DEF InstallTypes, StepsOfCommands
<1>3. Alive' = Alive
  BY <1>1 DEF Alive, service
<1>4. KeepsRunningFiles /\ UnitFits'
  BY <1>1 DEF KeepsRunningFiles, UnitFits, service
<1>5. KeepsIdentity
  <2>1. CASE FinalizePaths \/ Decide
    BY <2>1 DEF FinalizePaths, Decide, data, KeepsIdentity
  <2>2. CASE SaveAll
    BY <1>2, <2>2 DEF SaveAll, KeepsIdentity
  <2>3. CASE PersistSettings
    BY <1>2, <2>3 DEF PersistSettings, KeepsIdentity, DecidedWell
  <2> QED BY <2>1, <2>2, <2>3
<1>6. ASSUME job' \in Jobs PROVE InstallTypes'
  BY <1>1, <1>6 DEF InstallTypes, service, Jobs, ReleaseNames, Oldest, First
<1>7. CASE Fault
  BY <1>4, <1>5, <1>6, <1>7, FaultEnds, EndsSafely
<1>8. CASE FinalizePaths /\ ~Fault
  <2>1. job' = job /\ pc = "finalize" /\ pc' = After(job.face, "finalize")
    BY <1>8 DEF FinalizePaths, Advance
  <2>2. pc' = "register" \/ (pc' = "decide" /\ job.face # "wizard")
    <3>1. After(job.face, "finalize") = IF job.face = "wizard" THEN "register" ELSE "decide"
      BY Steps
    <3> QED BY <2>1, <3>1
  <2>3. StepsOfCommands' /\ StoppedBehindTheStop' /\ DecidedWell'
    BY <1>2, <1>3, <2>1, <2>2
       DEF StepsOfCommands, StoppedBehindTheStop, BehindTheStop, DecidedWell
  <2> QED BY <1>2, <1>4, <1>5, <1>6, <2>1, <2>3 DEF Safe
<1>9. CASE Decide
  <2>1. Enrolled' = Enrolled /\ Enrolled \in BOOLEAN /\ (~job.token /\ Enrolled) \in BOOLEAN
    BY <1>9 DEF Decide, data, Enrolled
  <2>2. /\ job' \in Jobs /\ job'.cmd = job.cmd /\ job'.dir = job.dir /\ job'.face = job.face
        /\ job'.beside = job.beside /\ job'.token = job.token
        /\ job'.keep = (~job.token /\ Enrolled)
    BY <1>2, <1>9, <2>1 DEF Decide, Jobs
  <2>3. pc = "decide" /\ job.face # "wizard" /\ pc' = "persist"
    BY <1>9, Steps DEF Decide, StepsOfCommands, Advance
  <2>4. StepsOfCommands' /\ StoppedBehindTheStop'
    BY <1>2, <1>3, <2>2, <2>3 DEF StepsOfCommands, StoppedBehindTheStop, BehindTheStop
  <2>5. DecidedWell'
    BY <2>1, <2>2 DEF DecidedWell
  <2> QED BY <1>4, <1>5, <1>6, <2>2, <2>4, <2>5 DEF Safe
<1>10. CASE PersistSettings \/ SaveAll
  <2>1. CASE job' = job /\ pc' = After(job.face, "persist")
    <3>1. pc' = "stop" \/ pc' = "register"
      BY <2>1, Steps
    <3>2. StepsOfCommands' /\ StoppedBehindTheStop' /\ DecidedWell'
      BY <1>2, <2>1, <3>1
         DEF StepsOfCommands, StoppedBehindTheStop, BehindTheStop, DecidedWell
    <3> QED BY <1>2, <1>4, <1>5, <1>6, <2>1, <3>2 DEF Safe
  <2> QED BY <1>7, <1>10, <2>1 DEF PersistSettings, SaveAll, Advance
<1> QED BY <1>7, <1>8, <1>9, <1>10

\* Registering, activating and recording: the service may be started again.
LEMMA RegisteringSafe ==
    ASSUME InstallInv, Register \/ Activate \/ SaveRecord
    PROVE  Safe
<1> USE DEF InstallInv
<1>1. /\ pc \in {"register", "activate", "record"}
      /\ UNCHANGED <<host, staged, running, cred>>
  BY DEF Register, Activate, SaveRecord, counts, data, service
<1>2. job \in Jobs /\ job.cmd = "install" /\ job.dir \in Dirs
  BY <1>1 DEF InstallTypes, StepsOfCommands
<1>3. KeepsIdentity /\ KeepsRunningFiles
  BY <1>1 DEF KeepsIdentity, KeepsRunningFiles
<1>4. ASSUME job' \in Jobs, job'.cmd = "install", job'.dir \in Dirs,
             InstallTypes', UnitFits', pc' \in {"activate", "deregister", "record", "done"}
      PROVE  Safe
  <2>1. StepsOfCommands' /\ StoppedBehindTheStop' /\ DecidedWell'
    BY <1>4 DEF StepsOfCommands, StoppedBehindTheStop, BehindTheStop, DecidedWell
  <2> QED BY <1>3, <1>4, <2>1 DEF Safe
<1>5. CASE Register
  <2>1. (host.platform # "scm" /\ SystemdRegister) \/ (host.platform = "scm" /\ ScmRegister)
    BY <1>5 DEF Register, LaunchdRegister, InstallTypes
  <2>p. host.platform = "scm" => unit.file \in {"none", "marked", "whole"}
    BY DEF UnitFits, InstallTypes
  <2>2. UNCHANGED <<manager, record>> /\ (unit' = unit \/ unit' = Points
           \/ (host.platform # "scm" /\ unit' = [Points EXCEPT !.file = "half"]))
    <3>1. UNCHANGED <<manager, record>>
      BY <1>5 DEF Register, data
    <3>2. ASSUME SystemdRegister
          PROVE  unit' = unit \/ unit' = Points \/ unit' = [Points EXCEPT !.file = "half"]
      BY <3>2 DEF SystemdRegister, Replace
    <3>3. ASSUME host.platform = "scm", ScmRegister
          PROVE  unit' = unit \/ unit' = Points
      BY <2>p, <3>3 DEF ScmRegister, Replace
    <3> QED BY <2>1, <3>1, <3>2, <3>3
  <2>3. UnitFits' /\ (job' \in Jobs => InstallTypes')
    BY <1>1, <1>2, <2>2 DEF UnitFits, InstallTypes, Points, Jobs, ReleaseNames, Oldest, First
  <2>4. \/ Fault \/ Refused
        \/ job' = job /\ pc' = "activate"
        \/ job' = [job EXCEPT !.again = TRUE] /\ pc' = "deregister"
        \/ job' = [job EXCEPT !.fault = TRUE] /\ pc' = "activate"
    BY <2>1, <2>p DEF SystemdRegister, ScmRegister, Replace, Fault
  <2>5. CASE Fault \/ Refused
    BY <1>3, <2>3, <2>5, FaultEnds, EndsSafely
  <2>6. CASE pc' \in {"activate", "deregister"}
             /\ job' \in {job, [job EXCEPT !.again = TRUE], [job EXCEPT !.fault = TRUE]}
    <3>1. job' \in Jobs /\ job'.cmd = "install" /\ job'.dir \in Dirs
      BY <1>2, <2>6 DEF Jobs
    <3> QED BY <1>4, <2>3, <2>6, <3>1
  <2> QED BY <2>4, <2>5, <2>6
<1>6. CASE Activate
  <2>1. SystemdActivate \/ LaunchdActivate \/ ScmActivate
    BY <1>6 DEF Activate, InstallTypes
  <2>2. /\ record' = record /\ (unit' = unit \/ unit' = NoUnit)
        /\ manager' \in [enabled : BOOLEAN, active : BOOLEAN]
    <3>1. manager \in [enabled : BOOLEAN, active : BOOLEAN] /\ record' = record
      BY <1>6 DEF Activate, InstallTypes, data
    <3>2. manager' = manager
             \/ \E e, a \in BOOLEAN : manager' = [enabled |-> e, active |-> a]
      BY <2>1 DEF SystemdActivate, LaunchdActivate, ScmActivate, Activated
    <3>3. unit' = unit \/ unit' = NoUnit
      BY <2>1 DEF SystemdActivate, LaunchdActivate, ScmActivate, Fault, Refused
    <3> QED BY <3>1, <3>2, <3>3
  <2>3. UnitFits' /\ (job' \in Jobs => InstallTypes')
    BY <1>1, <2>2 DEF UnitFits, InstallTypes, NoUnit, Jobs, ReleaseNames, Oldest, First
  <2>4. Fault \/ Refused \/ (job' = job /\ pc' = "record")
    BY <2>1 DEF SystemdActivate, LaunchdActivate, ScmActivate, Activated
  <2>5. CASE Fault \/ Refused
    BY <1>3, <2>3, <2>5, FaultEnds, EndsSafely
  <2> QED BY <1>2, <1>4, <2>3, <2>4, <2>5
<1>7. CASE SaveRecord
  <2>1. UnitFits' /\ job' = job /\ pc' = "done" /\ InstallTypes'
    BY <1>1, <1>2, <1>7 DEF SaveRecord, UnitFits, InstallTypes, service, Jobs, ReleaseNames,
       Oldest, First
  <2> QED BY <1>2, <1>4, <2>1
<1> QED BY <1>5, <1>6, <1>7

\* Removing: the service is stopped before its files go, or found not to be there.
LEMMA RemoveSafe ==
    ASSUME InstallInv, Remove
    PROVE  Safe
<1> USE DEF InstallInv
<1>1. pc \in {"deregister", "unlink", "remove", "forget"} /\ UNCHANGED host
  BY DEF Remove, NothingRegistered, Disable, UnlinkFails, SystemdUnlink, LaunchdUnlink,
     ScmDelete, RemoveFiles, ForgetRecord, counts
<1>2. job \in Jobs /\ job.cmd \in {"install", "remove"} /\ job.dir \in Dirs
  BY <1>1 DEF InstallTypes, StepsOfCommands
<1>3. (running # Nowhere => Alive) /\ (pc = "unlink" /\ ~job.beside => ~Alive)
         /\ (pc = "remove" /\ job.sound /\ ~job.beside => ~Alive)
  BY DEF StoppedBehindTheStop, BehindTheStop, Alive
<1>4. ASSUME job' = job, UNCHANGED <<staged, data>>, Deregistered, InstallTypes', UnitFits',
             job.cmd = "remove" /\ job.sound /\ ~job.beside => ~Alive'
      PROVE  Safe
  <2>1. \/ job.cmd = "install" /\ pc' = "register"
        \/ job.cmd = "remove" /\ pc' = "remove"
    BY <1>2, <1>4 DEF Deregistered
  <2>2. StepsOfCommands' /\ StoppedBehindTheStop' /\ DecidedWell'
    BY <1>2, <1>4, <2>1 DEF StepsOfCommands, StoppedBehindTheStop, BehindTheStop, DecidedWell
  <2> QED BY <1>4, <2>2 DEF Safe, KeepsIdentity, KeepsRunningFiles, data
<1>5. CASE NothingRegistered
  <2>1. InstallTypes' /\ UnitFits' /\ Alive' = Alive
    BY <1>1, <1>2, <1>5 DEF NothingRegistered, InstallTypes, UnitFits, Alive, service, data, Jobs,
       ReleaseNames, Oldest, First
  <2>2. job.cmd = "remove" /\ job.sound => ~Alive
    BY <1>5 DEF NothingRegistered, StoppedBehindTheStop
  <2> QED BY <1>4, <1>5, <2>1, <2>2 DEF NothingRegistered
<1>6. CASE Disable
  <2>1. UNCHANGED <<staged, unit, data>> /\ pc' = "unlink"
    BY <1>6 DEF Disable
  <2>2. /\ job' \in Jobs /\ job'.cmd = job.cmd /\ job'.dir = job.dir
        /\ Alive' => job'.beside
        /\ manager' \in [enabled : BOOLEAN, active : BOOLEAN] /\ running' \in Dirs \cup {Nowhere}
    <3>1. CASE manager' = [enabled |-> FALSE, active |-> FALSE] /\ running' = Nowhere
               /\ job' = job
      BY <1>2, <3>1 DEF Alive
    <3>2. CASE UNCHANGED <<manager, running>>
               /\ job' = [job EXCEPT !.beside = @ \/ Alive, !.fault = TRUE]
      <4>1. Alive' = Alive /\ (job.beside \/ Alive) \in BOOLEAN
        BY <3>2 DEF Alive
      <4>2. job' \in Jobs /\ job'.cmd = job.cmd /\ job'.dir = job.dir
               /\ job'.beside = (job.beside \/ Alive)
        BY <1>2, <3>2, <4>1 DEF Jobs
      <4> QED BY <3>2, <4>1, <4>2 DEF InstallTypes
    <3> QED BY <1>6, <3>1, <3>2 DEF Disable
  <2>3. InstallTypes' /\ UnitFits'
    BY <1>1, <2>1, <2>2 DEF InstallTypes, UnitFits, data, Jobs, ReleaseNames, Oldest, First
  <2>4. StepsOfCommands' /\ StoppedBehindTheStop' /\ DecidedWell'
    BY <1>2, <2>1, <2>2 DEF StepsOfCommands, StoppedBehindTheStop, DecidedWell
  <2> QED BY <2>1, <2>3, <2>4 DEF Safe, KeepsIdentity, KeepsRunningFiles, data
<1>7. CASE UnlinkFails
  <2>1. job' \in Jobs => InstallTypes' /\ UnitFits'
    BY <1>1, <1>7 DEF UnlinkFails, InstallTypes, UnitFits, service, data, Jobs, ReleaseNames,
       Oldest, First
  <2>2. KeepsIdentity /\ KeepsRunningFiles
    BY <1>7 DEF UnlinkFails, KeepsIdentity, KeepsRunningFiles, data
  <2> QED BY <1>7, <2>1, <2>2, FaultEnds, EndsSafely DEF UnlinkFails
<1>8. CASE SystemdUnlink \/ LaunchdUnlink
  <2>1. /\ UNCHANGED <<staged, running, data, job>> /\ unit' = NoUnit /\ Deregistered
        /\ pc = "unlink"
        /\ \/ manager' = [enabled |-> FALSE, active |-> FALSE]
           \/ manager' = [manager EXCEPT !.enabled = FALSE]
    BY <1>8 DEF SystemdUnlink, LaunchdUnlink
  <2>2. InstallTypes' /\ UnitFits' /\ (Alive' => Alive)
    <3>1. manager \in [enabled : BOOLEAN, active : BOOLEAN]
      BY DEF InstallTypes
    <3>2. /\ manager' \in [enabled : BOOLEAN, active : BOOLEAN]
          /\ manager'.active => manager.active
      <4>1. CASE manager' = [enabled |-> FALSE, active |-> FALSE]
        BY <4>1
      <4>2. CASE manager' = [manager EXCEPT !.enabled = FALSE]
        BY <3>1, <4>2
      <4> QED BY <2>1, <4>1, <4>2
    <3>3. Alive' => Alive
      BY <2>1, <3>2 DEF Alive
    <3>4. NoUnit \in [file : {"none", "half", "whole", "marked"}, dir : Dirs \cup {Nowhere}]
             /\ NoUnit.file = "none" /\ NoUnit.dir = Nowhere
      BY DEF NoUnit
    <3>5. UnitFits'
      BY <2>1, <3>4 DEF UnitFits
    <3> QED
      BY <1>1, <1>2, <2>1, <3>2, <3>3, <3>4, <3>5
         DEF InstallTypes, data, Jobs, ReleaseNames, Oldest, First
  <2> QED BY <1>3, <1>4, <2>1, <2>2
<1>9. CASE ScmDelete
  <2>1. /\ UNCHANGED <<staged, data>>
        /\ manager' = [manager EXCEPT !.active = FALSE] /\ running' \in {running, Nowhere}
        /\ \/ running' = Nowhere /\ unit' = NoUnit /\ Deregistered /\ job' = job
           \/ unit' = [unit EXCEPT !.file = "marked"] /\ Fault /\ unit.file # "none"
           \/ unit' = unit /\ Fault
    BY <1>9 DEF ScmDelete
  <2>2. UnitFits' /\ (job' \in Jobs => InstallTypes')
    <3>1. manager \in [enabled : BOOLEAN, active : BOOLEAN]
             /\ unit \in [file : {"none", "half", "whole", "marked"}, dir : Dirs \cup {Nowhere}]
      BY DEF InstallTypes
    <3>2. manager' \in [enabled : BOOLEAN, active : BOOLEAN]
      BY <2>1, <3>1
    <3>3. unit' \in [file : {"none", "half", "whole", "marked"}, dir : Dirs \cup {Nowhere}]
             /\ UnitFits'
      BY <1>1, <2>1, <3>1 DEF UnitFits, NoUnit
    <3> QED BY <1>1, <2>1, <3>2, <3>3 DEF InstallTypes, data, Jobs, ReleaseNames, Oldest, First
  <2>3. KeepsIdentity /\ KeepsRunningFiles
    BY <2>1 DEF KeepsIdentity, KeepsRunningFiles, data
  <2>4. CASE Fault
    BY <2>2, <2>3, <2>4, FaultEnds, EndsSafely
  <2>5. CASE running' = Nowhere /\ unit' = NoUnit /\ Deregistered /\ job' = job
    <3>1. ~Alive'
      BY <2>1, <2>5 DEF Alive, InstallTypes
    <3> QED BY <1>2, <1>4, <2>1, <2>2, <2>5, <3>1
  <2> QED BY <2>1, <2>4, <2>5
<1>10. CASE RemoveFiles
  <2>1. /\ pc = "remove" /\ job.cmd = "remove" /\ UNCHANGED service
        /\ cred' = cred \/ DataInside(job.dir)
        /\ record' = record \/ record' = Nowhere
        /\ Fault \/ (pc' = "forget" /\ job' = job)
    BY <1>10 DEF RemoveFiles, StepsOfCommands, data
  <2>2. KeepsIdentity
    BY <2>1 DEF KeepsIdentity
  <2>3. KeepsRunningFiles
    BY <1>3, <2>1 DEF KeepsRunningFiles
  <2>4. UnitFits' /\ (job' \in Jobs => InstallTypes')
    BY <1>1, <2>1 DEF InstallTypes, UnitFits, service, Jobs, ReleaseNames, Oldest, First
  <2>5. CASE Fault
    BY <2>2, <2>3, <2>4, <2>5, FaultEnds, EndsSafely
  <2>6. CASE pc' = "forget" /\ job' = job
    <3>1. StepsOfCommands' /\ StoppedBehindTheStop' /\ DecidedWell'
      BY <1>2, <2>1, <2>6
         DEF StepsOfCommands, StoppedBehindTheStop, BehindTheStop, DecidedWell
    <3> QED BY <1>2, <2>2, <2>3, <2>4, <2>6, <3>1 DEF Safe
  <2> QED BY <2>1, <2>5, <2>6
<1>11. CASE ForgetRecord
  <2>1. UnitFits' /\ InstallTypes' /\ pc' = "done" /\ job' = job
    BY <1>1, <1>2, <1>11 DEF ForgetRecord, InstallTypes, UnitFits, service, Jobs, ReleaseNames,
       Oldest, First
  <2>2. KeepsIdentity /\ KeepsRunningFiles
    BY <1>11 DEF ForgetRecord, KeepsIdentity, KeepsRunningFiles
  <2> QED BY <1>2, <2>1, <2>2, EndsSafely
<1> QED BY <1>5, <1>6, <1>7, <1>8, <1>9, <1>10, <1>11 DEF Remove

\* Beside the installer: behind the stop no worker starts, so none enrols.
LEMMA AroundSafe ==
    ASSUME InstallInv, Around
    PROVE  Safe
<1> USE DEF InstallInv
<1>1. CASE InstallerKilled
  <2>1. UNCHANGED <<host, staged, service, data>> /\ Fault
    BY <1>1 DEF InstallerKilled, counts
  <2>2. job' \in Jobs /\ pc' = "failed"
    BY <2>1, FaultEnds
  <2> QED BY <2>1, <2>2, FormSafe
<1>2. CASE Reboot
  <2>1. /\ UNCHANGED <<host, staged, data>> /\ running' = Nowhere
        /\ unit' = unit \/ unit' = NoUnit
        /\ \E up \in BOOLEAN : manager' = [enabled |-> up, active |-> up]
        /\ Fault \/ UNCHANGED <<pc, job>>
        /\ Fault \/ Between
    <3>1. (manager.enabled /\ unit.file = "whole") \in BOOLEAN
      OBVIOUS
    <3> QED BY <1>2, <3>1 DEF Reboot
  <2>2. KeepsIdentity /\ KeepsRunningFiles
    BY <2>1 DEF KeepsIdentity, KeepsRunningFiles, data
  <2>3. UnitFits' /\ (job' \in Jobs => InstallTypes')
    BY <2>1 DEF InstallTypes, UnitFits, NoUnit, data, Jobs, ReleaseNames, Oldest, First
  <2>4. CASE Fault
    BY <2>2, <2>3, <2>4, FaultEnds, EndsSafely
  <2>5. CASE UNCHANGED <<pc, job>> /\ Between
    <3>1. StepsOfCommands' /\ StoppedBehindTheStop' /\ DecidedWell'
      BY <2>5 DEF Between, StepsOfCommands, StoppedBehindTheStop, BehindTheStop, DecidedWell
    <3>2. job \in Jobs
      BY DEF InstallTypes
    <3> QED BY <2>2, <2>3, <2>5, <3>1, <3>2 DEF Safe
  <2> QED BY <2>1, <2>4, <2>5
<1>3. ASSUME UNCHANGED <<host, staged, pc, job>>, KeepsIdentity, InstallTypes', UnitFits',
             StoppedBehindTheStop', DecidedWell'
      PROVE  Safe
  BY <1>3 DEF Safe, StepsOfCommands, KeepsRunningFiles
<1>4. CASE WorkerStarts
  <2>1. /\ UNCHANGED <<host, staged, unit, manager, data, pc, job>> /\ manager.active
        /\ unit.dir # Nowhere /\ running' = unit.dir
    BY <1>4 DEF WorkerStarts, counts
  <2>2. KeepsIdentity /\ UnitFits' /\ InstallTypes' /\ DecidedWell'
    BY <2>1 DEF KeepsIdentity, UnitFits, InstallTypes, DecidedWell, Enrolled, data, Jobs,
       ReleaseNames, Oldest, First
  <2>3. StoppedBehindTheStop'
    BY <2>1 DEF StoppedBehindTheStop, BehindTheStop, Alive, UnitFits
  <2> QED BY <1>3, <2>1, <2>2, <2>3
<1>5. ASSUME NEW exit, WorkerExits(exit)
      PROVE  Safe
  <2>1. /\ UNCHANGED <<host, staged, unit, data, pc, job>> /\ running' = Nowhere
        /\ \E again \in BOOLEAN : manager' = [manager EXCEPT !.active = @ /\ again]
    <3>1. host.platform \in {"systemd", "launchd", "scm"}
      BY DEF InstallTypes
    <3> QED BY <1>5, <3>1
         DEF WorkerExits, counts, SystemdRestarts, LaunchdRestarts, ScmRestarts
  <2>2. KeepsIdentity /\ UnitFits' /\ InstallTypes' /\ DecidedWell'
    BY <2>1 DEF KeepsIdentity, UnitFits, InstallTypes, DecidedWell, Enrolled, data, Jobs,
       ReleaseNames, Oldest, First
  <2>3. Alive' => Alive
    BY <2>1 DEF Alive, InstallTypes
  <2>4. StoppedBehindTheStop'
    BY <2>1, <2>3 DEF StoppedBehindTheStop, BehindTheStop
  <2> QED BY <1>3, <2>1, <2>2, <2>4
<1>6. CASE WorkerEnrolls
  <2>1. /\ UNCHANGED <<host, staged, service, record, pc, job>> /\ running # Nowhere
        /\ cred = Seeded
    BY <1>6 DEF WorkerEnrolls
  <2>2. Alive /\ Alive' = Alive /\ ~Enrolled
    BY <2>1 DEF Alive, service, Enrolled, Seeded
  <2>3. KeepsIdentity /\ UnitFits' /\ InstallTypes'
    BY <2>1, <2>2 DEF KeepsIdentity, UnitFits, InstallTypes, service, Jobs, ReleaseNames, Oldest,
       First
  <2>4. StoppedBehindTheStop'
    BY <2>1, <2>2 DEF StoppedBehindTheStop, BehindTheStop, service
  <2>5. DecidedWell'
    BY <2>1, <2>2 DEF DecidedWell, StoppedBehindTheStop, BehindTheStop
  <2> QED BY <1>3, <2>1, <2>3, <2>4, <2>5
<1>7. CASE MarkedEntryGoes
  <2>1. /\ UNCHANGED <<host, staged, running, data, pc, job>> /\ running = Nowhere
        /\ unit' = NoUnit /\ manager' = [enabled |-> FALSE, active |-> FALSE]
    BY <1>7 DEF MarkedEntryGoes, counts
  <2>2. KeepsIdentity /\ UnitFits' /\ InstallTypes' /\ DecidedWell' /\ ~Alive'
    BY <2>1 DEF KeepsIdentity, UnitFits, InstallTypes, DecidedWell, Enrolled, Alive, NoUnit, data,
       Jobs, ReleaseNames, Oldest, First
  <2>3. StoppedBehindTheStop'
    BY <2>1, <2>2 DEF StoppedBehindTheStop
  <2> QED BY <1>3, <2>1, <2>2, <2>3
<1> QED BY <1>1, <1>2, <1>4, <1>5, <1>6, <1>7 DEF Around

-----------------------------------------------------------------------------
\* Every step is safe, and so is none.
LEMMA InstallStep ==
    ASSUME InstallInv, [Next]_vars
    PROVE  Safe \/ (UNCHANGED vars /\ InstallInv')
<1>1. CASE UNCHANGED vars
  <2>1. UNCHANGED <<host, staged, service, data>> /\ job' = job /\ pc' = pc
    BY <1>1 DEF vars, service, data
  <2>2. InstallTypes' /\ UnitFits' /\ Alive' = Alive
    BY <2>1, RunMoves DEF InstallInv, InstallTypes
  <2>3. StepsOfCommands' /\ StoppedBehindTheStop' /\ DecidedWell'
    BY <2>1, <2>2 DEF InstallInv, StepsOfCommands, StoppedBehindTheStop, BehindTheStop,
       DecidedWell, Enrolled, data, service
  <2> QED BY <1>1, <2>2, <2>3 DEF InstallInv
<1>2. CASE Install
  BY <1>2, StopSafe, StagingSafe, SettingsSafe, RegisteringSafe DEF Install, Staging
<1> QED BY <1>1, <1>2, OperatorSafe, RemoveSafe, AroundSafe DEF Next

\* Throughout, the service is stopped behind the stop of a run, unless its worker
\* survived it, and credentials to be overwritten hold no identity.
THEOREM InstallInvariant == Spec => []InstallInv
<1>1. InstallInv /\ [Next]_vars => InstallInv'
  BY InstallStep DEF Safe
<1> QED BY InstallInit, <1>1, PTL DEF Spec

\* A command-line install without a token never costs an enrolled worker its
\* identity (setup_install.cpp, service.cpp): it is given up only for a token, in
\* the wizard, behind a worker that survived the stop, or with the data directory
\* of a removal.
THEOREM IdentityIsKept == Spec => IdentityKept
<1>1. InstallInv /\ [Next]_vars =>
         [Enrolled /\ cred' # cred =>
             \/ job.cmd = "install" /\ (job.token \/ job.face = "wizard" \/ job.beside)
             \/ job.cmd = "remove" /\ DataInside(job.dir)]_vars
  BY InstallStep DEF Safe, KeepsIdentity
<1> QED BY InstallInvariant, <1>1, PTL DEF Spec, IdentityKept

\* No run replaces or removes a file under a running worker, unless the service
\* manager was told to stop it and did not.
THEOREM RunningFilesAreKept == Spec => NoWriteUnderRunningWorker
<1>1. InstallInv /\ [Next]_vars =>
         [running # Nowhere /\ staged'[running] # staged[running] =>
             job.beside \/ ~job.sound]_vars
  BY InstallStep DEF Safe, KeepsRunningFiles
<1> QED BY InstallInvariant, <1>1, PTL DEF Spec, NoWriteUnderRunningWorker
-----------------------------------------------------------------------------
(***************************************************************************)
(* What an install promises: its files, its settings and its registration. *)
(***************************************************************************)

\* What a package names, and what it holds under a name.
NamesOf(h) == {h.inputs[k].name : k \in DOMAIN h.inputs}

Bytes(h, name, release) ==
    [file |-> (CHOOSE e \in {h.inputs[k] : k \in DOMAIN h.inputs} : e.name = name).file,
     release |-> release]

\* These names are staged whole.
StagedWhole(names, dir, release) ==
    \A name \in names : staged[dir][name] = Bytes(host, name, release)

\* Where a run has staged its release, and goes on to use it.
Staged ==
    \/ pc \in {"finalize", "decide", "register", "activate", "record"}
    \/ pc = "persist" /\ job.face # "wizard"
    \/ pc \in {"deregister", "unlink", "done"} /\ job.cmd = "install"

\* What a run has staged is whole, what setup stands in stays whole, and no
\* registration is left without its executable.
FilesInv ==
    /\ host \in Hosts
    /\ staged \in [Dirs -> [Names -> Contents]]
    /\ job.release \in Releases
    /\ host.here # Nowhere =>
          StagedWhole(NamesOf(host), host.here, Oldest) /\ job.release = Oldest
    /\ pc \in {"stop", "stage", "persist"} =>
          StagedWhole(NamesOf(host) \ job.left, job.dir, job.release)
    /\ Staged => /\ StagedWhole(NamesOf(host), job.dir, job.release)
                 /\ staged[job.dir][Worker] # Absent
    /\ unit.file # "none" => unit.dir \in Dirs
    /\ NeverRegisteredWithoutFiles
    /\ pc = "remove" => unit.file = "none"

\* Where a run has saved the settings, or decided to keep them.
Saved ==
    \/ pc \in {"register", "activate", "record"}
    \/ pc \in {"deregister", "unlink", "done"} /\ job.cmd = "install"
    \/ pc \in {"stop", "stage", "finalize"} /\ job.face = "wizard"
    \/ pc = "persist" /\ job.face # "wizard" /\ job.keep

\* There are credentials to start with, and what is registered is what the run
\* registered.
SavedInv ==
    /\ minted \in 0..MaxIds /\ cred \in NoCreds..MaxIds
    /\ Saved => cred # NoCreds
    /\ pc = "activate" => unit.dir = job.dir /\ unit.file \in {"whole", "half"}
    /\ pc = "record" \/ (pc = "done" /\ job.cmd = "install") =>
          unit = Points /\ manager.enabled

\* An install that nothing stands in the way of, and in which no call failed.
Clean == job.cmd = "install" /\ job.sound /\ ~job.fault

\* Such a run finds what it has not stopped yet as it was, what it has stopped
\* still stopped, and no registration after it took one away.
CleanInv ==
    Clean =>
        /\ pc = "stop" \/ (pc = "persist" /\ job.face = "wizard") => Sound
        /\ (Staged \/ pc = "stage") /\ pc \notin {"record", "done"} =>
               ~Alive /\ unit.file # "marked"
        /\ pc \in {"stop", "stage", "finalize", "decide", "persist"} => ~job.again
        /\ pc = "register" /\ job.again => unit.file = "none"
        /\ pc = "failed" => Worker \notin NamesOf(host)

SetupInv == InstallInv /\ FilesInv /\ SavedInv /\ CleanInv

-----------------------------------------------------------------------------
\* A set of numbers that is not empty has a first one.
LEMMA FirstIsLeast ==
    ASSUME NEW S \in SUBSET Nat, S # {}
    PROVE  First(S) \in S /\ \A j \in S : First(S) <= j
BY LeastNumber DEF First

\* There is an oldest release.
LEMMA OldestIsOne == Oldest \in Releases
BY FirstIsLeast, ReleasesAssumption DEF Oldest

\* The names and contents of a release, from the package.
LEMMA WholeIsWhole ==
    /\ ReleaseNames = NamesOf(host)
    /\ \A name, release : ReleaseBytes(name, release) = Bytes(host, name, release)
    /\ \A dir, release : Whole(dir, release) <=> StagedWhole(NamesOf(host), dir, release)
BY Zenon DEF ReleaseNames, NamesOf, ReleaseBytes, Bytes, Whole, StagedWhole

\* Every entry of a package that was accepted names one file, which is there.
LEMMA Entry ==
    ASSUME NEW h \in Hosts, NEW k \in DOMAIN h.inputs, NEW release \in Releases
    PROVE  /\ h.inputs[k].name \in NamesOf(h) /\ h.inputs[k].name \in Names
           /\ Bytes(h, h.inputs[k].name, release) =
                  [file |-> h.inputs[k].file, release |-> release]
           /\ Bytes(h, h.inputs[k].name, release) \in Contents \ {Absent}
<1>1. h.inputs \in Inputs /\ Packable(h.inputs)
  BY DEF Hosts
<1>2. h.inputs[k].name \in NamesOf(h)
  BY DEF NamesOf
<1>3. h.inputs[k].name \in Names /\ h.inputs[k].file \in Files
  BY <1>1 DEF Names, Files
<1>4. h.inputs[k].file # Missing
  BY <1>1 DEF Packable
<1> DEFINE E == {h.inputs[i] : i \in DOMAIN h.inputs}
           e == CHOOSE x \in E : x.name = h.inputs[k].name
<1>5. e = h.inputs[k]
  <2>1. h.inputs[k] \in E
    OBVIOUS
  <2>2. e \in E /\ e.name = h.inputs[k].name
    BY <2>1
  <2>3. PICK i \in DOMAIN h.inputs : e = h.inputs[i]
    BY <2>2
  <2>4. i = k
    BY <1>1, <2>2, <2>3 DEF Packable
  <2> QED BY <2>3, <2>4
<1>6. Bytes(h, h.inputs[k].name, release) = [file |-> h.inputs[k].file, release |-> release]
  BY <1>5 DEF Bytes
<1> QED BY <1>2, <1>3, <1>4, <1>6 DEF Contents, Absent

\* The same, for a name of the package.
LEMMA Named ==
    ASSUME NEW h \in Hosts, NEW name \in NamesOf(h), NEW release \in Releases
    PROVE  name \in Names /\ Bytes(h, name, release) \in Contents \ {Absent}
<1>1. PICK k \in DOMAIN h.inputs : name = h.inputs[k].name
  BY DEF NamesOf
<1> QED BY <1>1, Entry

\* The kinds of content are contents.
LEMMA Kinds == Absent \in Contents /\ Torn \in Contents /\ Torn # Absent
BY DEF Contents, Torn, Absent, Half, Missing

\* Writing one file leaves the others.
LEMMA WriteOne ==
    ASSUME staged \in [Dirs -> [Names -> Contents]], NEW dir \in Dirs, NEW name \in Names,
           NEW bytes \in Contents, staged' = [staged EXCEPT ![dir][name] = bytes]
    PROVE  /\ staged' \in [Dirs -> [Names -> Contents]]
           /\ \A d \in Dirs, n \in Names :
                  staged'[d][n] = IF d = dir /\ n = name THEN bytes ELSE staged[d][n]
<1>1. staged[dir] \in [Names -> Contents]
  OBVIOUS
<1>2. [staged[dir] EXCEPT ![name] = bytes] \in [Names -> Contents]
  BY <1>1
<1>3. staged' = [staged EXCEPT ![dir] = [staged[dir] EXCEPT ![name] = bytes]]
  OBVIOUS
<1>4. staged' \in [Dirs -> [Names -> Contents]]
  BY <1>2, <1>3
<1> QED BY <1>1, <1>2, <1>3, <1>4

-----------------------------------------------------------------------------
(***************************************************************************)
(* What each group of steps does to the state these promises are about.    *)
(***************************************************************************)

\* A step of a run does not change what was asked, and does not mend a fault.
SameRequest ==
    /\ job'.cmd = job.cmd /\ job'.face = job.face /\ job'.dir = job.dir
    /\ job'.release = job.release /\ job'.sound = job.sound
    /\ ~job'.fault => ~job.fault

SameRun ==
    SameRequest /\ job'.left = job.left /\ job'.keep = job.keep /\ job'.again = job.again

\* A fault ends the run, and sets its flag.
LEMMA FaultShape ==
    ASSUME job \in Jobs, Fault
    PROVE  pc' = "failed" /\ job'.fault /\ SameRun
BY DEF Fault, Jobs, SameRun, SameRequest

\* A run that is refused says no more.
LEMMA RefusedShape ==
    ASSUME Refused
    PROVE  pc' = "failed" /\ SameRun
BY DEF Refused, SameRun, SameRequest

\* The operator asks for a run with all its files to stage, or leaves the form.
LEMMA OperatorShape ==
    ASSUME InstallInv, FilesInv, Operator
    PROVE  /\ UNCHANGED <<host, staged, service, data, minted>>
           /\ job'.release \in Releases /\ (host.here # Nowhere => job'.release = Oldest)
           /\ \/ pc' \in {"form", "idle", "elevate"}
              \/ pc' = "failed" /\ job'.fault
              \/ job'.cmd = "remove" /\ pc' = "deregister"
              \/ /\ job'.left = ReleaseNames /\ job'.sound = Sound /\ ~job'.again
                 /\ \/ pc' = "persist" /\ job'.face = "wizard"
                    \/ pc' = "stop" /\ job'.face # "wizard"
<1>1. UNCHANGED <<host, staged, service, data, minted>>
  BY DEF Operator, Launch, Submit, LaunchWithoutRights, UsageError, OpenWizard,
     BackToForm, EditForm, ElevationDeclined, RunAsRoot, counts
<1>2. job \in Jobs /\ job.release \in Releases /\ (host.here # Nowhere => job.release = Oldest)
  BY DEF InstallInv, InstallTypes, FilesInv
<1> DEFINE Fresh(j) == j.release \in Releases /\ (host.here # Nowhere => j.release = Oldest)
<1>3. \A dir, token : /\ Fresh([NoJob EXCEPT !.face = "wizard", !.dir = dir, !.token = token])
                      /\ Fresh([job EXCEPT !.dir = dir, !.token = token])
  BY <1>2, OldestIsOne DEF NoJob, Jobs
<1>4. Fresh(NoJob) /\ Fresh([job EXCEPT !.fault = TRUE])
  BY <1>2, OldestIsOne DEF NoJob, Jobs
<1>5. \A cmd : LET j == [NoJob EXCEPT !.cmd = cmd, !.fault = TRUE]  IN  Fresh(j) /\ j.fault
  BY OldestIsOne DEF NoJob
<1>6. LET j == [NoJob EXCEPT !.fault = TRUE]  IN  Fresh(j) /\ j.fault
  BY OldestIsOne DEF NoJob
<1>7. ASSUME NEW cmd \in {"install", "remove"}, NEW face, NEW token, NEW dir,
             NEW release \in Releases, host.here # Nowhere => release = Oldest,
             job' = Asked(cmd, face, token, dir, release),
             pc' = FirstStep(cmd, face) \/ pc' = "elevate"
      PROVE  /\ Fresh(job')
             /\ \/ pc' = "elevate"
                \/ job'.cmd = "remove" /\ pc' = "deregister"
                \/ /\ job'.left = ReleaseNames /\ job'.sound = Sound /\ ~job'.again
                   /\ \/ pc' = "persist" /\ job'.face = "wizard"
                      \/ pc' = "stop" /\ job'.face # "wizard"
  <2>1. /\ job'.cmd = cmd /\ job'.face = face /\ job'.release = release
        /\ job'.left = ReleaseNames /\ job'.sound = Sound /\ ~job'.again
    BY <1>7 DEF Asked, NoJob
  <2>2. pc' = "elevate" \/ pc' = IF cmd = "install"
                                  THEN IF face = "wizard" THEN "persist" ELSE "stop"
                                  ELSE "deregister"
    BY <1>7, Steps DEF FirstStep
  <2> QED BY <1>7, <2>1, <2>2
<1>8. CASE \E cmd \in {"install", "remove"}, token \in BOOLEAN, dir \in Dirs,
              release \in Releases : Launch(cmd, token, dir, release)
  BY <1>1, <1>7, <1>8 DEF Launch
<1>9. CASE \E cmd \in {"install", "remove"}, root \in BOOLEAN, release \in Releases :
              Submit(cmd, release, root)
  <2>1. PICK cmd \in {"install", "remove"}, root \in BOOLEAN, release \in Releases :
            Submit(cmd, release, root)
    BY <1>9
  <2>2. /\ host.here # Nowhere => release = Oldest
        /\ job' = Asked(cmd, "wizard", job.token, job.dir, release)
        /\ pc' = FirstStep(cmd, "wizard") \/ pc' = "elevate"
    BY <2>1 DEF Submit
  <2> QED BY <1>1, <1>7, <2>2
<1>10. CASE \E cmd \in {"install", "remove"} : LaunchWithoutRights(cmd)
  BY <1>1, <1>5, <1>10 DEF LaunchWithoutRights
<1>11. CASE UsageError
  BY <1>1, <1>6, <1>11 DEF UsageError
<1>12. CASE OpenWizard \/ BackToForm
  <2>1. PICK dir, token :
            job' = [NoJob EXCEPT !.face = "wizard", !.dir = dir, !.token = token]
    BY <1>12 DEF OpenWizard, BackToForm
  <2>2. Fresh(job')
    BY <1>3, <2>1
  <2> QED BY <1>1, <1>12, <2>2 DEF OpenWizard, BackToForm
<1>13. CASE \E dir \in Dirs, token \in BOOLEAN : EditForm(dir, token)
  <2>1. PICK dir \in Dirs, token \in BOOLEAN : EditForm(dir, token)
    BY <1>13
  <2>2. Fresh([job EXCEPT !.dir = dir, !.token = token])
    BY <1>3
  <2>3. \/ job' = [job EXCEPT !.dir = dir, !.token = token] /\ pc' = "form"
        \/ job' = NoJob /\ pc' = "idle"
    BY <2>1 DEF EditForm
  <2>4. Fresh(job') /\ pc' \in {"form", "idle"}
    <3>1. CASE job' = [job EXCEPT !.dir = dir, !.token = token] /\ pc' = "form"
      BY <2>2, <3>1
    <3>2. CASE job' = NoJob /\ pc' = "idle"
      BY <1>4, <3>2
    <3> QED BY <2>3, <3>1, <3>2
  <2> QED BY <1>1, <2>4
<1>14. CASE ElevationDeclined
  BY <1>1, <1>2, <1>14 DEF ElevationDeclined
<1>15. CASE RunAsRoot
  <2>1. CASE Fault
    <3>1. pc' = "failed" /\ job' = [job EXCEPT !.fault = TRUE] /\ job'.fault
      BY <2>1, <1>2 DEF Fault, Jobs
    <3> QED BY <1>1, <1>4, <3>1
  <2>2. CASE job' = Asked(job.cmd, "child", job.token, job.dir, job.release)
             /\ pc' = FirstStep(job.cmd, "child")
    <3>1. job.cmd \in {"install", "remove"}
      BY <1>15 DEF RunAsRoot, InstallInv, StepsOfCommands
    <3> QED BY <1>1, <1>2, <1>7, <2>2, <3>1
  <2> QED BY <1>15, <2>1, <2>2 DEF RunAsRoot
<1> QED BY <1>8, <1>9, <1>10, <1>11, <1>12, <1>13, <1>14, <1>15 DEF Operator

\* The stop fails, or nothing is alive after it that was alive for a reason.
LEMMA StopShape ==
    ASSUME InstallInv, Stop
    PROVE  /\ UNCHANGED <<host, staged, data, unit, minted>> /\ pc = "stop" /\ SameRun
           /\ \/ pc' = "failed" /\ (job'.fault \/ (unit.file = "half"
                                                     /\ host.platform = "systemd"))
              \/ pc' = "stage" /\ (\/ job'.fault \/ ~Alive'
                                   \/ unit.file = "none" /\ UNCHANGED service)
<1>1. (host.platform = "systemd" /\ SystemdStop) \/ LaunchdStop \/ ScmStop
  BY DEF Stop, InstallInv, InstallTypes
<1>2. UNCHANGED <<host, staged, data, unit, minted>> /\ pc = "stop" /\ job \in Jobs
  BY <1>1 DEF Stop, SystemdStop, LaunchdStop, ScmStop, service, counts, InstallInv,
     InstallTypes
<1>3. \/ Fault
      \/ Refused /\ unit.file = "half" /\ host.platform = "systemd"
      \/ /\ pc' = After(job.face, "stop")
         /\ \/ job' = [job EXCEPT !.beside = Alive'] /\ (Stopped
                          \/ (unit.file = "none" /\ UNCHANGED service))
            \/ job' = [job EXCEPT !.beside = Alive, !.fault = TRUE]
  <2>1. GoOnBeside => pc' = After(job.face, "stop") /\ job' = [job EXCEPT !.beside = Alive']
    BY DEF GoOnBeside, Advance
  <2>2. CASE host.platform = "systemd" /\ SystemdStop
    BY <2>1, <2>2 DEF SystemdStop
  <2>3. CASE LaunchdStop
    BY <2>1, <2>3 DEF LaunchdStop, Advance
  <2>4. CASE ScmStop
    BY <2>1, <2>4 DEF ScmStop
  <2> QED BY <1>1, <2>2, <2>3, <2>4
<1>4. CASE Fault
  BY <1>2, <1>4, FaultShape
<1>5. CASE Refused /\ unit.file = "half" /\ host.platform = "systemd"
  BY <1>2, <1>5, RefusedShape
<1>6. CASE /\ pc' = After(job.face, "stop")
           /\ \/ job' = [job EXCEPT !.beside = Alive'] /\ (Stopped
                            \/ (unit.file = "none" /\ UNCHANGED service))
              \/ job' = [job EXCEPT !.beside = Alive, !.fault = TRUE]
  <2>1. pc' = "stage"
    BY <1>6, Steps
  <2>2. CASE job' = [job EXCEPT !.beside = Alive, !.fault = TRUE]
    BY <1>2, <2>1, <2>2 DEF Jobs, SameRun, SameRequest
  <2>3. CASE job' = [job EXCEPT !.beside = Alive'] /\ (Stopped
                        \/ (unit.file = "none" /\ UNCHANGED service))
    <3>1. SameRun
      BY <1>2, <2>3 DEF Jobs, SameRun, SameRequest
    <3>2. Stopped => ~Alive'
      BY DEF Stopped, Alive, InstallInv, InstallTypes
    <3> QED BY <1>2, <2>1, <2>3, <3>1, <3>2
  <2> QED BY <1>6, <2>2, <2>3
<1> QED BY <1>3, <1>4, <1>5, <1>6

\* An entry that is an alias is copied from a file that is staged, and holds what
\* its own record would: it follows its target in the package, and entries are
\* extracted in the order of the package.
LEMMA AliasIsStaged ==
    ASSUME InstallInv, FilesInv, pc = "stage", job.left # {}
    PROVE  LET entries == Payload(host.inputs)
               k == First({i \in DOMAIN entries : entries[i].name \in job.left})
               e == entries[k]
           IN  /\ e.name \in job.left
               /\ e.alias # Missing =>
                      staged[job.dir][e.alias] = Bytes(host, e.name, job.release)
<1> DEFINE list == host.inputs
           S == {i \in DOMAIN list : list[i].name \in job.left}
           k == First(S)
           A == AliasOf(list, k)
           j == First(A)
<1>1. /\ host \in Hosts /\ job.release \in Releases /\ job.left \subseteq NamesOf(host)
      /\ StagedWhole(NamesOf(host) \ job.left, job.dir, job.release)
  BY Zenon, WholeIsWhole DEF InstallInv, InstallTypes, FilesInv, Jobs
<1>2. list \in Seq([name : Names, file : Files])
  BY <1>1, InputsAssumption DEF Hosts
<1>3. DOMAIN list = 1..Len(list) /\ Len(list) \in Nat
  BY <1>2
<1>4. S \subseteq Nat /\ S # {}
  BY <1>1, <1>3 DEF NamesOf
<1>5. k \in S /\ \A i \in S : k <= i
  <2> HIDE DEF S
  <2> QED BY <1>4, FirstIsLeast
<1>6. k \in DOMAIN list /\ k \in Nat /\ list[k].name \in job.left
  BY <1>3, <1>5
<1>7. A # {} => /\ j \in DOMAIN list /\ list[j].file = list[k].file
                /\ list[j].name \notin job.left
  <2> SUFFICES ASSUME A # {}
               PROVE  /\ j \in DOMAIN list /\ list[j].file = list[k].file
                      /\ list[j].name \notin job.left
    OBVIOUS
  <2> HIDE DEF k
  <2>1. A \subseteq Nat
    BY <1>6 DEF AliasOf
  <2>2. j \in A
    <3> HIDE DEF A
    <3> QED BY <2>1, FirstIsLeast
  <2>3. j \in 1..(k - 1) /\ list[j].file = list[k].file
    BY <2>2 DEF AliasOf
  <2>4. j \in DOMAIN list /\ ~(k <= j)
    BY <1>3, <1>6, <2>3
  <2> HIDE DEF j
  <2> QED BY <1>5, <2>3, <2>4
<1>8. A # {} => staged[job.dir][list[j].name] = Bytes(host, list[k].name, job.release)
  <2> HIDE DEF j, k, A
  <2> SUFFICES ASSUME A # {}
               PROVE  staged[job.dir][list[j].name] = Bytes(host, list[k].name, job.release)
    OBVIOUS
  <2>1. j \in DOMAIN host.inputs /\ k \in DOMAIN host.inputs /\ list[j].file = list[k].file
    BY <1>6, <1>7
  <2>2. /\ list[j].name \in NamesOf(host)
        /\ Bytes(host, list[j].name, job.release) = Bytes(host, list[k].name, job.release)
    <3>1. /\ list[j].name \in NamesOf(host)
          /\ Bytes(host, list[j].name, job.release) =
                 [file |-> list[j].file, release |-> job.release]
      BY <1>1, <2>1, Entry
    <3>2. Bytes(host, list[k].name, job.release) =
              [file |-> list[k].file, release |-> job.release]
      BY <1>1, <2>1, Entry
    <3> QED BY <2>1, <3>1, <3>2
  <2> QED BY <1>1, <1>7, <2>2 DEF StagedWhole
<1>9. /\ DOMAIN Payload(list) = DOMAIN list
      /\ \A i \in DOMAIN list :
            /\ Payload(list)[i].name = list[i].name
            /\ Payload(list)[i].alias = IF AliasOf(list, i) = {} THEN Missing
                                        ELSE list[First(AliasOf(list, i))].name
  BY Zenon DEF Payload
<1>10. {i \in DOMAIN Payload(list) : Payload(list)[i].name \in job.left} = S
  BY <1>9
<1>11. /\ Payload(list)[k].name = list[k].name
       /\ Payload(list)[k].alias = IF A = {} THEN Missing ELSE list[j].name
  BY <1>6, <1>9
<1> HIDE DEF S, A, j
<1> QED BY <1>6, <1>8, <1>10, <1>11

\* Staging writes the right bytes under one name, or tears one file and fails, or
\* is refused: a worker in use, or none in the package.
LEMMA StagingShape ==
    ASSUME InstallInv, FilesInv, Staging
    PROVE  /\ UNCHANGED <<host, service, data, minted>> /\ pc = "stage" /\ SameRequest
           /\ job'.keep = job.keep /\ job'.again = job.again
           /\ \/ /\ pc' = "failed" /\ UNCHANGED staged
                 /\ \/ job'.fault \/ Alive
                    \/ job.left = {} /\ staged[job.dir][Worker] = Absent
              \/ /\ pc' = "failed" /\ job'.fault /\ ~InPlace
                 /\ \E name \in job.left : staged' = [staged EXCEPT ![job.dir][name] = Torn]
              \/ /\ pc' = "stage" /\ ~InPlace
                 /\ \E name \in job.left :
                        /\ job'.left = job.left \ {name}
                        /\ staged' = [staged EXCEPT ![job.dir][name] =
                                          Bytes(host, name, job.release)]
              \/ /\ pc' = "finalize" /\ UNCHANGED staged /\ job'.left = job.left
                 /\ InPlace \/ (job.left = {} /\ staged[job.dir][Worker] # Absent)
<1>1. UNCHANGED <<host, service, data, minted>> /\ pc = "stage"
  BY DEF Staging, StageInPlace, StageDirFails, StagePacked, StageDone, StageSibling, counts
<1>2. /\ job \in Jobs /\ job.dir \in Dirs /\ (running = job.dir => Alive)
      /\ host \in Hosts
  BY <1>1, DirsAssumption DEF InstallInv, InstallTypes, StepsOfCommands, Alive, FilesInv
<1>3. CASE StageInPlace
  BY <1>1, <1>3, Steps DEF StageInPlace, Advance, SameRequest
<1>4. CASE StageDirFails
  <2>1. SameRun /\ pc' = "failed" /\ job'.fault
    BY <1>2, <1>4, FaultShape DEF StageDirFails
  <2> QED BY <1>1, <1>4, <2>1 DEF StageDirFails, SameRun
<1>5. CASE StageDone
  <2>1. CASE Refused /\ staged[job.dir][Worker] = Absent
    BY <1>1, <1>5, <2>1, RefusedShape DEF StageDone, SameRun
  <2>2. CASE Advance("stage") /\ UNCHANGED job /\ staged[job.dir][Worker] # Absent
    BY <1>1, <1>5, <2>2, Steps DEF StageDone, SameRequest, Advance
  <2> QED BY <1>5, <2>1, <2>2 DEF StageDone
<1>6. ASSUME NEW name \in job.left, ~InPlace,
             StageBytes(name, Bytes(host, name, job.release))
      PROVE  /\ SameRequest /\ job'.keep = job.keep /\ job'.again = job.again
             /\ \/ /\ pc' = "failed" /\ UNCHANGED staged
                   /\ job'.fault \/ Alive
                \/ /\ pc' = "failed" /\ job'.fault
                   /\ staged' = [staged EXCEPT ![job.dir][name] = Torn]
                \/ /\ pc' = "stage"
                   /\ job'.left = job.left \ {name}
                   /\ staged' = [staged EXCEPT ![job.dir][name] =
                                     Bytes(host, name, job.release)]
  <2>1. CASE /\ staged' = [staged EXCEPT ![job.dir][name] = Bytes(host, name, job.release)]
             /\ job' = [job EXCEPT !.left = @ \ {name}] /\ UNCHANGED pc
    BY <1>1, <1>2, <2>1 DEF Jobs, SameRequest
  <2>2. CASE staged' = [staged EXCEPT ![job.dir][name] = Torn] /\ Fault
    BY <1>2, <2>2, FaultShape DEF SameRun
  <2>3. CASE UNCHANGED staged /\ Fault
    BY <1>2, <2>3, FaultShape DEF SameRun
  <2>4. CASE UNCHANGED staged /\ Refused /\ Busy(name)
    BY <1>2, <2>4, RefusedShape DEF SameRun, Busy
  <2> QED BY <1>6, <2>1, <2>2, <2>3, <2>4 DEF StageBytes
<1>7. CASE StagePacked
  <2> DEFINE entries == Payload(host.inputs)
             e == entries[First({i \in DOMAIN entries : entries[i].name \in job.left})]
  <2>1. /\ e.name \in job.left
        /\ e.alias # Missing => staged[job.dir][e.alias] = Bytes(host, e.name, job.release)
    BY <1>1, <1>7, AliasIsStaged DEF StagePacked
  <2>2. IF e.alias = Missing
        THEN StageBytes(e.name, ReleaseBytes(e.name, job.release))
        ELSE IF staged[job.dir][e.alias] = Absent
             THEN Refused /\ UNCHANGED staged
             ELSE StageBytes(e.name, staged[job.dir][e.alias])
    BY <1>7 DEF StagePacked
  <2> HIDE DEF e
  <2>3. Bytes(host, e.name, job.release) # Absent
    <3>1. e.name \in NamesOf(host) /\ job.release \in Releases
      BY <1>2, <2>1, WholeIsWhole, Zenon DEF Jobs, FilesInv
    <3> QED BY <1>2, <3>1, Named
  <2>4. StageBytes(e.name, Bytes(host, e.name, job.release))
    <3>1. ReleaseBytes(e.name, job.release) = Bytes(host, e.name, job.release)
      BY WholeIsWhole
    <3> QED BY <2>1, <2>2, <2>3, <3>1
  <2>5. ~InPlace
    BY <1>7 DEF StagePacked, InPlace
  <2> QED BY <1>1, <1>6, <2>1, <2>4, <2>5
<1>8. CASE \E name \in Names : StageSibling(name)
  <2>1. PICK name \in Names : StageSibling(name)
    BY <1>8
  <2>2. name \in job.left /\ ~InPlace /\ StageBytes(name, Bytes(host, name, job.release))
    <3>1. ReleaseBytes(name, job.release) = Bytes(host, name, job.release)
      BY WholeIsWhole
    <3> QED BY <2>1, <3>1 DEF StageSibling
  <2> QED BY <1>1, <1>6, <2>2
<1> QED BY <1>3, <1>4, <1>5, <1>7, <1>8 DEF Staging

\* The settings are saved, or kept by a run that found an identity.
LEMMA SettingsShape ==
    ASSUME InstallInv, FinalizePaths \/ Decide \/ PersistSettings \/ SaveAll
    PROVE  /\ UNCHANGED <<host, staged, service, record, minted>> /\ SameRequest
           /\ job'.left = job.left /\ job'.again = job.again
           /\ \/ pc' = "failed" /\ job'.fault /\ UNCHANGED cred
                    /\ pc \in {"finalize", "persist"}
              \/ pc = "finalize" /\ UNCHANGED <<cred, job>>
                    /\ pc' = IF job.face = "wizard" THEN "register" ELSE "decide"
              \/ pc = "decide" /\ pc' = "persist" /\ UNCHANGED cred /\ job.face # "wizard"
                    /\ (job'.keep => Enrolled)
              \/ pc = "persist" /\ job.face # "wizard" /\ pc' = "register" /\ UNCHANGED job
                    /\ cred' = IF job.keep THEN cred ELSE Seeded
              \/ pc = "persist" /\ job.face = "wizard" /\ pc' = "stop" /\ UNCHANGED job
                    /\ cred' = Seeded
<1>1. /\ UNCHANGED <<host, staged, service, record, minted>> /\ job \in Jobs
      /\ pc = "decide" => job.face # "wizard"
  BY DEF FinalizePaths, Decide, PersistSettings, SaveAll, counts, data, InstallInv,
     InstallTypes, StepsOfCommands
<1>2. CASE FinalizePaths
  <2>1. CASE Fault
    BY <1>1, <1>2, <2>1, FaultShape DEF FinalizePaths, data, SameRun
  <2>2. CASE Advance("finalize") /\ UNCHANGED job
    BY <1>1, <1>2, <2>2, Steps DEF FinalizePaths, data, SameRequest, Advance
  <2> QED BY <1>2, <2>1, <2>2 DEF FinalizePaths
<1>3. CASE Decide
  <2>1. Enrolled \in BOOLEAN /\ (~job.token /\ Enrolled) \in BOOLEAN
    BY DEF Enrolled
  <2>2. SameRequest /\ job'.left = job.left /\ job'.again = job.again
           /\ job'.keep = (~job.token /\ Enrolled)
    BY <1>1, <1>3, <2>1 DEF Decide, Jobs, SameRequest
  <2> QED BY <1>1, <1>3, <2>1, <2>2, Steps DEF Decide, data, Advance
<1>4. CASE PersistSettings
  <2>1. CASE Fault /\ UNCHANGED cred
    BY <1>1, <1>4, <2>1, FaultShape DEF PersistSettings, SameRun
  <2>2. CASE cred' = (IF job.keep THEN cred ELSE Seeded) /\ Advance("persist")
             /\ UNCHANGED job
    BY <1>1, <1>4, <2>2, Steps DEF PersistSettings, SameRequest, Advance
  <2> QED BY <1>4, <2>1, <2>2 DEF PersistSettings
<1>5. CASE SaveAll
  <2>1. CASE Fault /\ UNCHANGED cred
    BY <1>1, <1>5, <2>1, FaultShape DEF SaveAll, SameRun
  <2>2. CASE cred' = Seeded /\ Advance("persist") /\ UNCHANGED job
    BY <1>1, <1>5, <2>2, Steps DEF SaveAll, SameRequest, Advance
  <2> QED BY <1>5, <2>1, <2>2 DEF SaveAll
<1> QED BY <1>2, <1>3, <1>4, <1>5

\* A registration names the directory of the run, is replaced once, and is taken
\* back or left behind by a run that fails.
LEMMA RegisterShape ==
    ASSUME InstallInv, Register
    PROVE  /\ UNCHANGED <<host, staged, manager, running, cred, minted>> /\ pc = "register"
           /\ SameRequest /\ job'.left = job.left
           /\ \/ pc' = "activate" /\ unit'.dir = job.dir /\ unit'.file \in {"whole", "half"}
              \/ pc' = "deregister" /\ UNCHANGED unit
              \/ /\ pc' = "failed"
                 /\ unit' = unit \/ (unit'.file = "half" /\ unit'.dir = job.dir)
                 /\ job'.fault \/ unit.file = "marked" \/ (job.again /\ unit.file # "none")
<1>1. (host.platform # "scm" /\ SystemdRegister) \/ (host.platform = "scm" /\ ScmRegister)
  BY DEF Register, LaunchdRegister, InstallInv, InstallTypes
<1>2. /\ UNCHANGED <<host, staged, manager, running, cred, minted>> /\ pc = "register"
      /\ job \in Jobs
      /\ host.platform = "scm" => unit.file \in {"none", "marked", "whole"}
  BY DEF Register, counts, data, InstallInv, InstallTypes, UnitFits
<1>3. \/ Fault /\ unit' = unit
      \/ Refused /\ unit' = unit /\ (unit.file = "marked" \/ (job.again /\ unit.file # "none"))
      \/ job' = [job EXCEPT !.again = TRUE] /\ pc' = "deregister" /\ unit' = unit
      \/ job' = job /\ pc' = "activate" /\ unit' = Points
      \/ /\ job' = [job EXCEPT !.fault = TRUE] /\ pc' \in {"activate", "failed"}
         /\ unit' = [Points EXCEPT !.file = "half"]
  BY <1>1, <1>2 DEF SystemdRegister, ScmRegister, Replace
<1>4. CASE Fault /\ unit' = unit
  BY <1>2, <1>4, FaultShape DEF SameRun
<1>5. CASE Refused /\ unit' = unit
           /\ (unit.file = "marked" \/ (job.again /\ unit.file # "none"))
  BY <1>2, <1>5, RefusedShape DEF SameRun
<1>6. CASE job' = [job EXCEPT !.again = TRUE] /\ pc' = "deregister" /\ unit' = unit
  BY <1>2, <1>6 DEF Jobs, SameRequest
<1>7. CASE job' = job /\ pc' = "activate" /\ unit' = Points
  BY <1>2, <1>7 DEF Points, SameRequest
<1>8. CASE /\ job' = [job EXCEPT !.fault = TRUE] /\ pc' \in {"activate", "failed"}
           /\ unit' = [Points EXCEPT !.file = "half"]
  <2>1. SameRequest /\ job'.left = job.left /\ job'.fault
    BY <1>2, <1>8 DEF Jobs, SameRequest
  <2>2. unit'.file = "half" /\ unit'.dir = job.dir
    BY <1>8 DEF Points
  <2> QED BY <1>2, <1>8, <2>1, <2>2
<1> QED BY <1>3, <1>4, <1>5, <1>6, <1>7, <1>8

\* What is activated is registered whole and comes back at the next boot; what is
\* not, is taken back or left.
LEMMA ActivateShape ==
    ASSUME InstallInv, Activate
    PROVE  /\ UNCHANGED <<host, staged, running, cred, minted>> /\ pc = "activate" /\ SameRun
           /\ \/ pc' = "record" /\ UNCHANGED unit /\ manager'.enabled
                    /\ unit.file # "half"
              \/ pc' = "failed" /\ unit' \in {unit, NoUnit}
                    /\ (job'.fault \/ manager.active)
<1>1. \/ host.platform = "systemd" /\ SystemdActivate
      \/ host.platform = "launchd" /\ LaunchdActivate
      \/ host.platform = "scm" /\ ScmActivate
  BY DEF Activate, InstallInv, InstallTypes
<1>2. /\ UNCHANGED <<host, staged, running, cred, minted>> /\ pc = "activate"
      /\ job \in Jobs /\ (host.platform = "scm" => unit.file # "half")
  BY DEF Activate, counts, data, InstallInv, InstallTypes, UnitFits
<1>3. \/ Fault /\ unit' \in {unit, NoUnit}
      \/ Refused /\ unit' = NoUnit /\ manager.active
      \/ pc' = "record" /\ job' = job /\ unit' = unit /\ manager'.enabled
            /\ unit.file # "half"
  BY <1>1, <1>2 DEF SystemdActivate, LaunchdActivate, ScmActivate, Activated
<1>4. CASE Fault /\ unit' \in {unit, NoUnit}
  BY <1>2, <1>4, FaultShape
<1>5. CASE Refused /\ unit' = NoUnit /\ manager.active
  BY <1>2, <1>5, RefusedShape
<1>6. CASE pc' = "record" /\ job' = job /\ unit' = unit /\ manager'.enabled
              /\ unit.file # "half"
  BY <1>2, <1>6 DEF SameRun, SameRequest
<1> QED BY <1>3, <1>4, <1>5, <1>6

\* A removal takes the registration first, and then what lies in the directory of
\* the run; the registration it cannot take stays where it points.
LEMMA RemoveShape ==
    ASSUME InstallInv, FilesInv, Remove
    PROVE  /\ UNCHANGED <<host, minted>> /\ SameRun /\ (Alive' => Alive)
           /\ \/ /\ pc = "deregister" /\ UNCHANGED <<staged, cred>>
                 /\ \/ pc' = "unlink" /\ UNCHANGED unit
                    \/ pc' = "failed" /\ job'.fault
                          /\ (unit'.dir = unit.dir /\ unit.file # "none")
                    \/ unit'.file = "none" /\ Deregistered
              \/ /\ pc = "unlink" /\ UNCHANGED <<staged, cred>>
                 /\ \/ pc' = "failed" /\ job'.fault /\ UNCHANGED unit
                    \/ unit'.file = "none" /\ Deregistered
              \/ /\ pc = "remove" /\ UNCHANGED unit
                 /\ cred' \in {cred, NoCreds}
                 /\ pc' = "forget" \/ (pc' = "failed" /\ job'.fault)
                 /\ \/ UNCHANGED staged
                    \/ /\ host.here # job.dir
                       /\ staged' \in [Dirs -> [Names -> Contents]]
                       /\ \A dir \in Dirs : dir # job.dir => staged'[dir] = staged[dir]
              \/ pc = "forget" /\ pc' = "done" /\ job.cmd = "remove"
                    /\ UNCHANGED <<staged, unit, cred>>
<1>1. /\ UNCHANGED <<host, minted>> /\ job \in Jobs /\ (UNCHANGED job => SameRun)
      /\ manager \in [enabled : BOOLEAN, active : BOOLEAN]
      /\ unit \in [file : {"none", "half", "whole", "marked"}, dir : Dirs \cup {Nowhere}]
  BY DEF Remove, NothingRegistered, Disable, UnlinkFails, SystemdUnlink, LaunchdUnlink,
     ScmDelete, RemoveFiles, ForgetRecord, counts, InstallInv, InstallTypes, SameRun,
     SameRequest
<1>2. CASE NothingRegistered
  BY <1>1, <1>2 DEF NothingRegistered, service, data, Alive
<1>3. CASE Disable
  <2>1. CASE /\ manager' = [enabled |-> FALSE, active |-> FALSE] /\ running' = Nowhere
             /\ UNCHANGED job
    <3>1. ~Alive'
      BY <2>1 DEF Alive
    <3> QED BY <1>1, <1>3, <2>1, <3>1 DEF Disable, data
  <2>2. CASE /\ job' = [job EXCEPT !.beside = @ \/ Alive, !.fault = TRUE]
             /\ UNCHANGED <<manager, running>>
    <3>1. SameRun
      BY <1>1, <2>2 DEF Jobs, SameRun, SameRequest
    <3> QED BY <1>1, <1>3, <2>2, <3>1 DEF Disable, data, Alive
  <2> QED BY <1>3, <2>1, <2>2 DEF Disable
<1>4. CASE UnlinkFails
  BY <1>1, <1>4, FaultShape DEF UnlinkFails, service, data, Alive
<1>5. CASE SystemdUnlink \/ LaunchdUnlink
  <2>1. /\ manager'.active => manager.active
        /\ unit'.file = "none" /\ UNCHANGED <<staged, running, data, job>>
        /\ Deregistered /\ pc = "unlink"
    <3>1. CASE manager' = [enabled |-> FALSE, active |-> FALSE]
      BY <1>5, <3>1 DEF SystemdUnlink, LaunchdUnlink, NoUnit
    <3>2. CASE manager' = [manager EXCEPT !.enabled = FALSE] /\ LaunchdUnlink
      BY <1>1, <3>2 DEF LaunchdUnlink, NoUnit
    <3> QED BY <1>5, <3>1, <3>2 DEF SystemdUnlink, LaunchdUnlink
  <2> QED BY <1>1, <2>1 DEF Alive, data
<1>6. CASE ScmDelete
  <2>1. Alive' => Alive
    BY <1>1, <1>6 DEF ScmDelete, Alive
  <2>2. CASE unit' = NoUnit /\ Deregistered /\ UNCHANGED job
    BY <1>1, <1>6, <2>1, <2>2 DEF ScmDelete, NoUnit, data
  <2>3. CASE unit' \in {unit, [unit EXCEPT !.file = "marked"]} /\ Fault
    <3>1. unit'.dir = unit.dir
      BY <1>1, <2>3
    <3> QED BY <1>1, <1>6, <2>1, <2>3, <3>1, FaultShape DEF ScmDelete, data
  <2> QED BY <1>6, <2>2, <2>3 DEF ScmDelete
<1>7. CASE RemoveFiles
  <2>1. UNCHANGED service /\ pc = "remove" /\ Alive' = Alive
    BY <1>7 DEF RemoveFiles, service, Alive
  <2>2. CASE /\ host.here = job.dir /\ pc' = "forget" /\ UNCHANGED <<staged, data, job>>
    BY <1>1, <2>1, <2>2 DEF data, service
  <2> DEFINE Clears(gone) == [staged EXCEPT ![job.dir] =
                                 [n \in Names |-> IF n \in gone THEN Absent ELSE @[n]]]
  <2>3. ASSUME NEW gone \in SUBSET Names
        PROVE  /\ Clears(gone) \in [Dirs -> [Names -> Contents]]
               /\ \A dir \in Dirs : dir # job.dir => Clears(gone)[dir] = staged[dir]
    <3>1. staged \in [Dirs -> [Names -> Contents]] /\ job.dir \in Dirs
      BY <2>1 DEF FilesInv, InstallInv, StepsOfCommands
    <3>2. [n \in Names |-> IF n \in gone THEN Absent ELSE staged[job.dir][n]]
              \in [Names -> Contents]
      BY <3>1, Kinds
    <3> QED BY <3>1, <3>2
  <2>4. CASE /\ host.here # job.dir
             /\ staged' = [staged EXCEPT ![job.dir] = [n \in Names |-> Absent]]
             /\ cred' = IF DataInside(job.dir) THEN NoCreds ELSE cred
             /\ pc' = "forget" /\ UNCHANGED job
    <3>1. staged \in [Dirs -> [Names -> Contents]] /\ job.dir \in Dirs
      BY <2>1 DEF FilesInv, InstallInv, StepsOfCommands
    <3>2. [n \in Names |-> Absent] \in [Names -> Contents]
      BY Kinds
    <3>3. /\ staged' \in [Dirs -> [Names -> Contents]]
          /\ \A dir \in Dirs : dir # job.dir => staged'[dir] = staged[dir]
      BY <2>4, <3>1, <3>2
    <3> QED BY <1>1, <2>1, <2>4, <3>3 DEF service
  <2>5. CASE /\ host.here # job.dir
             /\ \E gone \in SUBSET Names : staged' = Clears(gone)
             /\ cred' \in {cred} \cup (IF DataInside(job.dir) THEN {NoCreds} ELSE {})
             /\ Fault
    <3>1. /\ staged' \in [Dirs -> [Names -> Contents]]
          /\ \A dir \in Dirs : dir # job.dir => staged'[dir] = staged[dir]
      <4> HIDE DEF Clears
      <4> QED BY <2>3, <2>5
    <3>2. cred' \in {cred, NoCreds}
      BY <2>5
    <3> QED BY <1>1, <2>1, <2>5, <3>1, <3>2, FaultShape DEF service
  <2> QED BY <1>7, <2>2, <2>4, <2>5 DEF RemoveFiles
<1>8. CASE ForgetRecord
  BY <1>1, <1>8 DEF ForgetRecord, service, Alive, InstallInv, StepsOfCommands
<1> QED BY <1>2, <1>3, <1>4, <1>5, <1>6, <1>7, <1>8 DEF Remove

\* Beside the installer a run is only killed, a registration only goes that was
\* marked, and between two steps of a run nothing comes to life.
LEMMA AroundShape ==
    ASSUME InstallInv, Around, minted \in 0..MaxIds
    PROVE  /\ UNCHANGED <<host, staged>> /\ minted' \in 0..MaxIds
           /\ unit' = unit \/ (unit' = NoUnit /\ unit.file = "marked")
           /\ cred' = cred \/ cred' \in 1..MaxIds
           /\ unit.file = "whole" => manager'.enabled = manager.enabled
           /\ \/ UNCHANGED <<pc, job>> /\ (Between \/ (Alive' => Alive))
              \/ pc' = "failed" /\ job'.fault /\ SameRun
<1>1. /\ job \in Jobs /\ manager \in [enabled : BOOLEAN, active : BOOLEAN]
      /\ unit \in [file : {"none", "half", "whole", "marked"}, dir : Dirs \cup {Nowhere}]
      /\ host.platform \in {"systemd", "launchd", "scm"}
  BY DEF InstallInv, InstallTypes
<1>2. CASE InstallerKilled
  BY <1>1, <1>2, FaultShape DEF InstallerKilled, service, data, counts
<1>3. CASE Reboot
  <2>1. /\ unit.file = "whole" => manager'.enabled = manager.enabled
        /\ unit' = unit \/ (unit' = NoUnit /\ unit.file = "marked")
        /\ UNCHANGED <<host, staged, minted, cred>>
    BY <1>1, <1>3 DEF Reboot, data
  <2>2. CASE Between /\ UNCHANGED <<pc, job>>
    BY <2>1, <2>2
  <2>3. CASE Fault
    BY <1>1, <2>1, <2>3, FaultShape
  <2> QED BY <1>3, <2>2, <2>3 DEF Reboot
<1>4. CASE WorkerStarts
  BY <1>4 DEF WorkerStarts, data, counts, Alive
<1>5. ASSUME NEW exit, WorkerExits(exit)
      PROVE  /\ UNCHANGED <<host, staged, minted, unit, cred, pc, job>>
             /\ manager'.enabled = manager.enabled /\ (Alive' => Alive)
  <2>1. running # Nowhere /\ Alive
    BY <1>5 DEF WorkerExits, Alive
  <2>2. PICK again : manager' = [manager EXCEPT !.active = @ /\ again]
    BY <1>5 DEF WorkerExits
  <2> QED BY <1>1, <1>5, <2>1, <2>2 DEF WorkerExits, data, counts
<1>6. CASE WorkerEnrolls
  <2>1. /\ UNCHANGED <<host, staged, service, pc, job>> /\ minted < MaxIds
        /\ minted' = minted + 1 /\ cred' = minted'
    BY <1>6 DEF WorkerEnrolls
  <2>2. minted' \in 1..MaxIds
    BY <2>1, BoundsAssumption
  <2> QED BY <2>1, <2>2 DEF service, Alive
<1>7. CASE MarkedEntryGoes
  BY <1>7 DEF MarkedEntryGoes, data, counts, Alive
<1> QED BY <1>2, <1>3, <1>4, <1>5, <1>6, <1>7 DEF Around

-----------------------------------------------------------------------------
(***************************************************************************)
(* The files.                                                              *)
(***************************************************************************)

\* A step that writes no file and goes on with its request keeps what is staged.
LEMMA FilesKept ==
    ASSUME InstallInv, FilesInv, UNCHANGED <<host, staged>>, SameRequest, job'.left = job.left,
           pc' \in {"stop", "stage", "persist"} => pc \in {"stop", "stage", "persist"} \/ Staged,
           Staged' => Staged,
           unit'.file # "none" => \/ unit.file # "none" /\ unit'.dir = unit.dir
                                  \/ Staged /\ unit'.dir = job.dir,
           pc' = "remove" => unit'.file = "none"
    PROVE  FilesInv'
<1>1. Staged => job.dir \in Dirs
  BY DEF InstallInv, StepsOfCommands, Staged
<1> QED BY <1>1 DEF FilesInv, StagedWhole, SameRequest, NeverRegisteredWithoutFiles

\* A new request has staged nothing.
LEMMA OperatorFiles ==
    ASSUME SetupInv, Operator
    PROVE  FilesInv'
<1>1. /\ UNCHANGED <<host, staged, unit>>
      /\ job'.release \in Releases /\ (host.here # Nowhere => job'.release = Oldest)
      /\ \/ pc' \in {"form", "idle", "elevate", "failed"}
         \/ job'.cmd = "remove" /\ pc' = "deregister"
         \/ job'.left = NamesOf(host)
               /\ (pc' = "stop" \/ (pc' = "persist" /\ job'.face = "wizard"))
  BY OperatorShape, WholeIsWhole DEF SetupInv, service
<1>2. ~Staged'
  BY <1>1 DEF Staged
<1>3. pc' \in {"stop", "stage", "persist"} => NamesOf(host) \ job'.left = {}
  BY <1>1
<1> QED BY <1>1, <1>2, <1>3 DEF SetupInv, FilesInv, StagedWhole, NeverRegisteredWithoutFiles

\* What is written is what the package holds, and it is written once per name.
LEMMA StagingFiles ==
    ASSUME SetupInv, Staging
    PROVE  FilesInv'
<1>1. /\ UNCHANGED <<host, unit>> /\ pc = "stage" /\ SameRequest /\ FilesInv
      /\ InstallInv /\ job.dir \in Dirs /\ job.left \subseteq NamesOf(host)
  BY StagingShape, WholeIsWhole, Zenon
     DEF SetupInv, service, InstallInv, StepsOfCommands, InstallTypes, Jobs
<1>2. \A name \in NamesOf(host) : name \in Names
         /\ Bytes(host, name, job.release) \in Contents \ {Absent}
  BY <1>1, Named DEF FilesInv
<1>3. CASE pc' = "failed" /\ UNCHANGED staged
  BY <1>1, <1>3 DEF FilesInv, Staged, StagedWhole, SameRequest, NeverRegisteredWithoutFiles
<1>4. host.here = job.dir => InPlace
  BY <1>1, DirsAssumption DEF InPlace, FilesInv, Hosts
<1>5. ASSUME NEW name \in job.left, NEW bytes \in Contents \ {Absent}, ~InPlace,
             staged' = [staged EXCEPT ![job.dir][name] = bytes]
      PROVE  /\ staged' \in [Dirs -> [Names -> Contents]]
             /\ \A d \in Dirs, n \in Names :
                    staged'[d][n] = IF d = job.dir /\ n = name THEN bytes ELSE staged[d][n]
             /\ host.here # Nowhere => StagedWhole(NamesOf(host), host.here, Oldest)'
             /\ NeverRegisteredWithoutFiles'
  <2>1. name \in Names
    BY <1>1, <1>2
  <2>2. /\ staged' \in [Dirs -> [Names -> Contents]]
        /\ \A d \in Dirs, n \in Names :
               staged'[d][n] = IF d = job.dir /\ n = name THEN bytes ELSE staged[d][n]
    BY <1>1, <1>5, <2>1, WriteOne DEF FilesInv
  <2>3. host.here # Nowhere => StagedWhole(NamesOf(host), host.here, Oldest)'
    <3> SUFFICES ASSUME host.here # Nowhere, NEW n \in NamesOf(host)
                 PROVE  staged'[host.here][n] = Bytes(host, n, Oldest)
      BY <1>1 DEF StagedWhole
    <3>1. host.here \in Dirs /\ host.here # job.dir /\ n \in Names
      BY <1>1, <1>2, <1>4, <1>5 DEF FilesInv, Hosts
    <3>2. staged'[host.here][n] = staged[host.here][n]
      BY <2>2, <3>1
    <3> QED BY <1>1, <3>2 DEF FilesInv, StagedWhole
  <2>4. NeverRegisteredWithoutFiles'
    <3> SUFFICES ASSUME unit.file # "none"
                 PROVE  staged'[unit.dir][Worker] # Absent
      BY <1>1 DEF NeverRegisteredWithoutFiles
    <3>1. unit.dir \in Dirs /\ staged[unit.dir][Worker] # Absent
      BY <1>1 DEF FilesInv, NeverRegisteredWithoutFiles
    <3> QED BY <1>1, <2>2, <3>1, InputsAssumption
  <2> QED BY <2>2, <2>3, <2>4
<1>6. CASE /\ pc' = "failed" /\ ~InPlace
           /\ \E name \in job.left : staged' = [staged EXCEPT ![job.dir][name] = Torn]
  <2>1. PICK name \in job.left : staged' = [staged EXCEPT ![job.dir][name] = Torn]
    BY <1>6
  <2>2. /\ staged' \in [Dirs -> [Names -> Contents]]
        /\ host.here # Nowhere => StagedWhole(NamesOf(host), host.here, Oldest)'
        /\ NeverRegisteredWithoutFiles'
    <3>1. Torn \in Contents \ {Absent}
      BY Kinds
    <3> QED BY <1>5, <1>6, <2>1, <3>1
  <2> QED BY <1>1, <1>6, <2>2 DEF FilesInv, Staged, SameRequest
<1>7. CASE /\ pc' = "stage" /\ ~InPlace
           /\ \E name \in job.left :
                  /\ job'.left = job.left \ {name}
                  /\ staged' = [staged EXCEPT ![job.dir][name] =
                                    Bytes(host, name, job.release)]
  <2>1. PICK name \in job.left :
            /\ job'.left = job.left \ {name}
            /\ staged' = [staged EXCEPT ![job.dir][name] = Bytes(host, name, job.release)]
    BY <1>7
  <2>2. Bytes(host, name, job.release) \in Contents \ {Absent}
    BY <1>1, <1>2
  <2>3. /\ staged' \in [Dirs -> [Names -> Contents]]
        /\ \A d \in Dirs, n \in Names :
               staged'[d][n] = IF d = job.dir /\ n = name
                               THEN Bytes(host, name, job.release) ELSE staged[d][n]
        /\ host.here # Nowhere => StagedWhole(NamesOf(host), host.here, Oldest)'
        /\ NeverRegisteredWithoutFiles'
    BY <1>5, <1>7, <2>1, <2>2
  <2>4. StagedWhole(NamesOf(host) \ job.left, job.dir, job.release)'
    <3> SUFFICES ASSUME NEW n \in NamesOf(host) \ job'.left
                 PROVE  staged'[job.dir][n] = Bytes(host, n, job.release)
      BY <1>1 DEF StagedWhole, SameRequest
    <3>1. n \in Names /\ (n = name \/ n \in NamesOf(host) \ job.left)
      BY <1>2, <2>1
    <3> QED BY <1>1, <2>3, <3>1 DEF FilesInv, StagedWhole
  <2> QED BY <1>1, <1>7, <2>3, <2>4 DEF FilesInv, Staged, SameRequest
<1>8. CASE /\ pc' = "finalize" /\ UNCHANGED staged /\ job'.left = job.left
           /\ InPlace \/ (job.left = {} /\ staged[job.dir][Worker] # Absent)
  <2>1. /\ StagedWhole(NamesOf(host), job.dir, job.release)
        /\ staged[job.dir][Worker] # Absent
    <3>1. CASE InPlace
      <4>1. /\ host.here = job.dir /\ host.here # Nowhere /\ job.release = Oldest
            /\ StagedWhole(NamesOf(host), host.here, Oldest)
        BY <1>1, <3>1, DirsAssumption DEF InPlace, FilesInv
      <4>2. Worker \in NamesOf(host)
        BY <1>1, <3>1 DEF InPlace, FilesInv, Hosts, NamesOf
      <4>3. Bytes(host, Worker, job.release) # Absent
        BY <1>2, <4>2
      <4> QED BY <4>1, <4>2, <4>3 DEF StagedWhole
    <3>2. CASE job.left = {} /\ staged[job.dir][Worker] # Absent
      BY <1>1, <3>2 DEF FilesInv, StagedWhole
    <3> QED BY <1>8, <3>1, <3>2
  <2> QED BY <1>1, <1>8, <2>1
        DEF FilesInv, StagedWhole, SameRequest, NeverRegisteredWithoutFiles
<1> QED BY <1>3, <1>6, <1>7, <1>8, StagingShape DEF SetupInv

\* Registering follows staging, so what it points at is there.
LEMMA InstallFiles ==
    ASSUME SetupInv, Install
    PROVE  FilesInv'
<1> USE DEF SetupInv
<1>1. CASE Stop
  <2>1. /\ UNCHANGED <<host, staged, unit>> /\ SameRun /\ pc = "stop"
        /\ pc' \in {"failed", "stage"}
    BY <1>1, StopShape
  <2>2. ~Staged'
    BY <2>1 DEF Staged
  <2> QED BY <2>1, <2>2, FilesKept DEF SameRun
<1>2. CASE Staging
  BY <1>2, StagingFiles
<1>3. CASE FinalizePaths \/ Decide \/ PersistSettings \/ SaveAll
  <2>1. /\ UNCHANGED <<host, staged, unit>> /\ SameRequest /\ job'.left = job.left
        /\ \/ pc' = "failed"
           \/ pc = "finalize" /\ pc' \in {"register", "decide"}
           \/ pc = "decide" /\ pc' = "persist"
           \/ pc = "persist" /\ job.face # "wizard" /\ pc' = "register"
           \/ pc = "persist" /\ job.face = "wizard" /\ pc' = "stop"
    BY <1>3, SettingsShape DEF service
  <2>2. /\ Staged' => Staged
        /\ pc' \in {"stop", "stage", "persist"} => pc \in {"stop", "stage", "persist"} \/ Staged
        /\ pc' # "remove"
    BY <2>1 DEF Staged
  <2> QED BY <2>1, <2>2, FilesKept
<1>4. CASE Register
  <2>1. /\ UNCHANGED <<host, staged>> /\ SameRequest /\ job'.left = job.left
        /\ pc = "register" /\ pc' \in {"activate", "deregister", "failed"}
        /\ unit' = unit \/ unit'.dir = job.dir
    BY <1>4, RegisterShape
  <2>2. Staged
    BY <2>1 DEF Staged
  <2> QED BY <2>1, <2>2, FilesKept
<1>5. CASE Activate
  <2>1. /\ UNCHANGED <<host, staged>> /\ SameRun /\ pc = "activate"
        /\ pc' \in {"record", "failed"} /\ unit' \in {unit, NoUnit}
    BY <1>5, ActivateShape
  <2>2. Staged /\ (unit' = unit \/ unit'.file = "none")
    BY <2>1 DEF Staged, NoUnit
  <2> QED BY <2>1, <2>2, FilesKept DEF SameRun
<1>6. CASE SaveRecord
  <2>1. UNCHANGED <<host, staged, unit, job>> /\ pc = "record" /\ pc' = "done"
    BY <1>6 DEF SaveRecord, service, counts
  <2>2. Staged /\ SameRequest
    BY <2>1 DEF Staged, SameRequest
  <2> QED BY <2>1, <2>2, FilesKept
<1> QED BY <1>1, <1>2, <1>3, <1>4, <1>5, <1>6 DEF Install, Staging

\* Files go only when no registration is left, and never those setup stands in.
LEMMA RemoveFilesKept ==
    ASSUME SetupInv, Remove
    PROVE  FilesInv'
<1>1. /\ InstallInv /\ FilesInv /\ UNCHANGED host /\ SameRun
      /\ job.cmd \in {"install", "remove"}
  <2>1. pc \in {"deregister", "unlink", "remove", "forget"}
    BY RemoveShape DEF SetupInv
  <2> QED BY <2>1, RemoveShape DEF SetupInv, InstallInv, StepsOfCommands
<1>2. CASE UNCHANGED staged
  <2>1. /\ pc' \in {"failed", "unlink", "register", "remove", "forget", "done"}
        /\ pc' = "done" => job.cmd = "remove"
        /\ pc' = "unlink" => pc = "deregister"
        /\ pc' = "register" => job.cmd = "install" /\ pc \in {"deregister", "unlink"}
        /\ pc' = "remove" => unit'.file = "none"
        /\ \/ unit' = unit \/ unit'.file = "none"
           \/ unit.file # "none" /\ unit'.dir = unit.dir
    BY RemoveShape DEF SetupInv, Deregistered
  <2>2. Staged' => Staged
    BY <1>1, <2>1 DEF Staged, SameRun, SameRequest
  <2> QED BY <1>1, <1>2, <2>1, <2>2, FilesKept DEF SameRun
<1>3. CASE ~UNCHANGED staged
  <2>1. /\ pc = "remove" /\ UNCHANGED unit /\ pc' \in {"forget", "failed"}
        /\ host.here # job.dir
        /\ staged' \in [Dirs -> [Names -> Contents]]
        /\ \A dir \in Dirs : dir # job.dir => staged'[dir] = staged[dir]
    BY <1>3, RemoveShape DEF SetupInv
  <2>2. unit.file = "none" /\ ~Staged'
    BY <1>1, <2>1 DEF FilesInv, Staged
  <2>3. host.here # Nowhere => host.here \in Dirs
    BY <1>1 DEF FilesInv, Hosts
  <2> QED BY <1>1, <2>1, <2>2, <2>3
          DEF FilesInv, StagedWhole, SameRun, SameRequest, NeverRegisteredWithoutFiles
<1> QED BY <1>2, <1>3

\* Nothing beside the installer writes a file of the release.
LEMMA AroundFiles ==
    ASSUME SetupInv, Around
    PROVE  FilesInv'
<1>1. /\ InstallInv /\ FilesInv /\ UNCHANGED <<host, staged>>
      /\ unit' = unit \/ unit'.file = "none"
      /\ UNCHANGED <<pc, job>> \/ (pc' = "failed" /\ SameRun)
  BY AroundShape DEF SetupInv, SavedInv, NoUnit
<1>2. CASE UNCHANGED <<pc, job>>
  <2>1. (Staged' => Staged) /\ SameRequest
    BY <1>2 DEF Staged, SameRequest
  <2>2. pc = "remove" => unit'.file = "none"
    BY <1>1 DEF FilesInv
  <2> QED BY <1>1, <1>2, <2>1, <2>2, FilesKept
<1>3. CASE pc' = "failed" /\ SameRun
  <2>1. ~Staged'
    BY <1>3 DEF Staged
  <2> QED BY <1>1, <1>3, <2>1, FilesKept DEF SameRun
<1> QED BY <1>1, <1>2, <1>3

-----------------------------------------------------------------------------
(***************************************************************************)
(* The settings and the registration.                                      *)
(***************************************************************************)

\* A step that leaves credentials and registration alone, or one that ends the run.
LEMMA SavedKept ==
    ASSUME SavedInv, minted' \in 0..MaxIds, cred' = cred \/ cred' \in 1..MaxIds,
           Saved' => Saved \/ cred' # NoCreds,
           pc' \notin {"activate", "record", "done"} \/ (pc' = "done" /\ job'.cmd # "install")
    PROVE  SavedInv'
<1>1. cred' \in NoCreds..MaxIds /\ (cred # NoCreds => cred' # NoCreds)
  BY DEF SavedInv, NoCreds
<1> QED BY <1>1 DEF SavedInv

LEMMA OperatorSaved ==
    ASSUME SetupInv, Operator
    PROVE  SavedInv'
<1>1. /\ UNCHANGED <<data, minted>>
      /\ \/ pc' \in {"form", "idle", "elevate", "failed"}
         \/ job'.cmd = "remove" /\ pc' = "deregister"
         \/ pc' = "persist" /\ job'.face = "wizard"
         \/ pc' = "stop" /\ job'.face # "wizard"
  BY OperatorShape DEF SetupInv
<1>2. ~Saved' /\ pc' \notin {"activate", "record", "done"}
  BY <1>1 DEF Saved
<1> QED BY <1>1, <1>2, SavedKept DEF SetupInv, SavedInv, data

\* An install without credentials writes some, and what it activates it has
\* registered.
LEMMA InstallSaved ==
    ASSUME SetupInv, Install
    PROVE  SavedInv'
<1> USE DEF SetupInv
<1>0. minted \in 0..MaxIds /\ cred \in NoCreds..MaxIds /\ MaxIds \in Nat
  BY BoundsAssumption DEF SavedInv
<1>1. CASE Stop
  <2>1. /\ UNCHANGED <<data, minted>> /\ SameRun /\ pc = "stop" /\ pc' \in {"failed", "stage"}
    BY <1>1, StopShape
  <2>2. Saved' => Saved
    BY <2>1 DEF Saved, SameRun, SameRequest
  <2> QED BY <1>0, <2>1, <2>2, SavedKept DEF data
<1>2. CASE Staging
  <2>1. /\ UNCHANGED <<data, minted>> /\ SameRequest /\ pc = "stage"
        /\ pc' \in {"failed", "stage", "finalize"}
    BY <1>2, StagingShape
  <2>2. Saved' => Saved
    BY <2>1 DEF Saved, SameRequest
  <2> QED BY <1>0, <2>1, <2>2, SavedKept DEF data
<1>3. CASE FinalizePaths \/ Decide \/ PersistSettings \/ SaveAll
  <2>1. /\ UNCHANGED minted /\ SameRequest
        /\ pc' \in {"failed", "register", "decide", "persist", "stop"}
        /\ \/ pc' = "failed" /\ UNCHANGED cred
           \/ pc = "finalize" /\ UNCHANGED <<cred, job>>
                 /\ pc' = IF job.face = "wizard" THEN "register" ELSE "decide"
           \/ pc = "decide" /\ pc' = "persist" /\ UNCHANGED cred /\ (job'.keep => Enrolled)
           \/ pc = "persist" /\ job.face # "wizard" /\ pc' = "register" /\ UNCHANGED job
                 /\ cred' = IF job.keep THEN cred ELSE Seeded
           \/ pc = "persist" /\ job.face = "wizard" /\ pc' = "stop" /\ UNCHANGED job
                 /\ cred' = Seeded
    BY <1>3, SettingsShape
  <2>2. cred' \in NoCreds..MaxIds
    BY <1>0, <2>1 DEF NoCreds, Seeded
  <2>3. Saved' => cred' # NoCreds
    <3>1. CASE pc' = "failed"
      BY <3>1 DEF Saved
    <3>2. CASE pc = "finalize" /\ UNCHANGED <<cred, job>>
                  /\ pc' = IF job.face = "wizard" THEN "register" ELSE "decide"
      BY <3>2 DEF Saved, SavedInv
    <3>3. CASE pc = "decide" /\ pc' = "persist" /\ UNCHANGED cred /\ (job'.keep => Enrolled)
      BY <1>0, <3>3 DEF Saved, Enrolled, NoCreds, Seeded
    <3>4. CASE /\ pc = "persist" /\ job.face # "wizard" /\ pc' = "register" /\ UNCHANGED job
               /\ cred' = IF job.keep THEN cred ELSE Seeded
      BY <3>4 DEF Saved, SavedInv, NoCreds, Seeded
    <3>5. CASE cred' = Seeded
      BY <3>5 DEF NoCreds, Seeded
    <3> QED BY <2>1, <3>1, <3>2, <3>3, <3>4, <3>5
  <2> QED BY <1>0, <2>1, <2>2, <2>3 DEF SavedInv
<1>4. CASE Register
  <2>1. /\ UNCHANGED <<cred, minted>> /\ pc = "register" /\ SameRequest
        /\ pc' \in {"activate", "deregister", "failed"}
        /\ pc' = "activate" => unit'.dir = job.dir /\ unit'.file \in {"whole", "half"}
    BY <1>4, RegisterShape
  <2>2. Saved
    BY <2>1 DEF Saved
  <2> QED BY <1>0, <2>1, <2>2 DEF SavedInv, SameRequest
<1>5. CASE Activate
  <2>1. /\ UNCHANGED <<cred, minted>> /\ pc = "activate" /\ SameRun
        /\ \/ pc' = "failed"
           \/ pc' = "record" /\ UNCHANGED unit /\ manager'.enabled /\ unit.file # "half"
    BY <1>5, ActivateShape
  <2>2. Saved
    BY <2>1 DEF Saved
  <2>3. pc' = "record" => unit' = Points'
    <3>1. unit \in [file : {"none", "half", "whole", "marked"}, dir : Dirs \cup {Nowhere}]
      BY DEF InstallInv, InstallTypes
    <3> QED BY <2>1, <3>1 DEF SavedInv, Points, SameRun, SameRequest
  <2> QED BY <1>0, <2>1, <2>2, <2>3 DEF SavedInv
<1>6. CASE SaveRecord
  <2>1. UNCHANGED <<unit, manager, cred, minted, job>> /\ pc = "record" /\ pc' = "done"
    BY <1>6 DEF SaveRecord, service, counts
  <2>2. Saved
    BY <2>1 DEF Saved
  <2> QED BY <1>0, <2>1, <2>2 DEF SavedInv, Points
<1> QED BY <1>1, <1>2, <1>3, <1>4, <1>5, <1>6 DEF Install, Staging

\* A removal may take the credentials, but no install removes files.
LEMMA RemoveSaved ==
    ASSUME SetupInv, Remove
    PROVE  SavedInv'
<1> USE DEF SetupInv
<1>1. /\ UNCHANGED minted /\ SameRun
      /\ pc' \in {"failed", "unlink", "register", "remove", "forget", "done"}
      /\ pc' = "done" => job.cmd = "remove"
      /\ pc' = "unlink" => pc = "deregister"
      /\ pc' = "register" => job.cmd = "install" /\ pc \in {"deregister", "unlink"}
      /\ cred' = cred \/ (pc = "remove" /\ cred' = NoCreds)
      /\ pc = "remove" => pc' \in {"forget", "failed"}
      /\ job.cmd \in {"install", "remove"}
  <2>1. pc \in {"deregister", "unlink", "remove", "forget"}
    BY RemoveShape
  <2>2. job.cmd \in {"install", "remove"}
    BY <2>1 DEF InstallInv, StepsOfCommands
  <2> QED BY <2>2, RemoveShape DEF Deregistered
<1>2. Saved' => Saved
  BY <1>1 DEF Saved, SameRun, SameRequest
<1>3. CASE cred' = cred
  BY <1>1, <1>2, <1>3, SavedKept DEF SavedInv, SameRun, SameRequest
<1>4. CASE pc = "remove" /\ cred' = NoCreds
  <2>1. NoCreds \in NoCreds..MaxIds
    BY BoundsAssumption DEF NoCreds
  <2>2. ~Saved'
    BY <1>1, <1>4 DEF Saved
  <2> QED BY <1>1, <1>4, <2>1, <2>2 DEF SavedInv
<1> QED BY <1>1, <1>3, <1>4

\* A worker that enrols replaces credentials by better ones, and a reboot leaves
\* what was registered whole.
LEMMA AroundSaved ==
    ASSUME SetupInv, Around
    PROVE  SavedInv'
<1>1. /\ SavedInv /\ minted' \in 0..MaxIds
      /\ unit' = unit \/ (unit' = NoUnit /\ unit.file = "marked")
      /\ cred' = cred \/ cred' \in 1..MaxIds
      /\ unit.file = "whole" => manager'.enabled = manager.enabled
      /\ UNCHANGED <<pc, job>> \/ pc' = "failed"
  BY AroundShape DEF SetupInv, SavedInv
<1>2. CASE pc' = "failed"
  <2>1. ~Saved'
    BY <1>2 DEF Saved
  <2> QED BY <1>1, <1>2, <2>1, SavedKept
<1>3. CASE UNCHANGED <<pc, job>>
  <2>1. Saved' => Saved
    BY <1>3 DEF Saved
  <2>2. cred' \in NoCreds..MaxIds /\ (cred # NoCreds => cred' # NoCreds)
    BY <1>1, BoundsAssumption DEF SavedInv, NoCreds
  <2>3. pc = "record" \/ (pc = "done" /\ job.cmd = "install") => unit.file = "whole"
    BY <1>1 DEF SavedInv, Points
  <2> QED BY <1>1, <1>3, <2>1, <2>2, <2>3 DEF SavedInv, Points
<1> QED BY <1>1, <1>2, <1>3

-----------------------------------------------------------------------------
(***************************************************************************)
(* A clean run.                                                            *)
(***************************************************************************)

\* A request notes whether the machine is sound.
LEMMA OperatorClean ==
    ASSUME SetupInv, Operator
    PROVE  CleanInv'
<1>1. /\ UNCHANGED <<host, service>>
      /\ \/ pc' \in {"form", "idle", "elevate"}
         \/ pc' = "failed" /\ job'.fault
         \/ job'.cmd = "remove" /\ pc' = "deregister"
         \/ job'.sound = Sound /\ ~job'.again
               /\ (pc' = "stop" \/ (pc' = "persist" /\ job'.face = "wizard"))
  BY OperatorShape DEF SetupInv
<1>2. ~Staged' \/ job'.cmd # "install"
  BY <1>1 DEF Staged
<1>3. Sound' = Sound
  BY <1>1 DEF Sound, Alive, service
<1> QED BY <1>1, <1>2, <1>3 DEF CleanInv, Clean

\* A clean run gets through every step: the stop leaves nothing running, so that no
\* file is in use, and the registration in its way is taken away once.
LEMMA InstallClean ==
    ASSUME SetupInv, Install
    PROVE  CleanInv'
<1> USE DEF SetupInv
<1>0. SUFFICES ASSUME Clean' PROVE CleanInv'
  BY DEF CleanInv
<1>1. CASE Stop
  <2>1. /\ UNCHANGED <<host, unit>> /\ pc = "stop" /\ SameRun
        /\ \/ pc' = "failed" /\ (job'.fault \/ (unit.file = "half"
                                                  /\ host.platform = "systemd"))
           \/ pc' = "stage" /\ (\/ job'.fault \/ ~Alive'
                                \/ unit.file = "none" /\ UNCHANGED service)
    BY <1>1, StopShape
  <2>2. Clean /\ Sound /\ ~job.again
    BY <1>0, <2>1 DEF Clean, CleanInv, SameRun, SameRequest
  <2>3. pc' = "stage" /\ ~Alive' /\ unit'.file # "marked"
    BY <1>0, <2>1, <2>2 DEF Clean, Sound, Alive, service
  <2> QED BY <2>1, <2>2, <2>3 DEF CleanInv, SameRun
<1>2. CASE Staging
  <2>1. /\ UNCHANGED <<host, service>> /\ pc = "stage" /\ SameRequest /\ job'.again = job.again
        /\ pc' \in {"failed", "stage", "finalize"}
        /\ pc' = "failed" => \/ job'.fault \/ Alive
                             \/ job.left = {} /\ staged[job.dir][Worker] = Absent
    BY <1>2, StagingShape
  <2>2. Clean /\ ~Alive /\ unit.file # "marked" /\ ~job.again
    BY <1>0, <2>1 DEF Clean, CleanInv, SameRequest
  <2>3. ~Alive' /\ unit'.file # "marked"
    BY <2>1, <2>2 DEF Alive, service
  <2>4. job.left = {} /\ Worker \in NamesOf(host) => staged[job.dir][Worker] # Absent
    BY <2>1, Named DEF FilesInv, StagedWhole
  <2>5. pc' = "failed" => Worker \notin NamesOf(host)'
    BY <1>0, <2>1, <2>2, <2>4 DEF Clean
  <2> QED BY <2>1, <2>2, <2>3, <2>5 DEF CleanInv
<1>3. CASE FinalizePaths \/ Decide \/ PersistSettings \/ SaveAll
  <2>1. /\ UNCHANGED <<host, service>> /\ SameRequest /\ job'.again = job.again
        /\ \/ pc' = "failed" /\ job'.fault
           \/ pc = "finalize" /\ pc' = (IF job.face = "wizard" THEN "register" ELSE "decide")
           \/ pc = "decide" /\ pc' = "persist" /\ job.face # "wizard"
           \/ pc = "persist" /\ job.face # "wizard" /\ pc' = "register"
           \/ pc = "persist" /\ job.face = "wizard" /\ pc' = "stop"
    BY <1>3, SettingsShape
  <2>2. Clean /\ pc \in {"finalize", "decide", "persist"} /\ ~job.again
    BY <1>0, <2>1 DEF Clean, CleanInv, SameRequest
  <2>3. Sound' = Sound /\ Alive' = Alive /\ unit' = unit
    BY <2>1 DEF Sound, Alive, service
  <2>4. CASE pc = "persist" /\ job.face = "wizard" /\ pc' = "stop"
    <3>1. ~Staged'
      BY <2>4 DEF Staged
    <3> QED BY <2>1, <2>2, <2>3, <2>4, <3>1 DEF CleanInv
  <2>5. CASE pc' \in {"register", "decide", "persist"}
             /\ ~(pc = "persist" /\ job.face = "wizard")
    <3>1. Staged /\ ~(pc' = "persist" /\ job'.face = "wizard")
      BY <2>1, <2>2, <2>5 DEF Staged, SameRequest
    <3> QED BY <2>1, <2>2, <2>3, <2>5, <3>1 DEF CleanInv
  <2> QED BY <1>0, <2>1, <2>4, <2>5 DEF Clean
<1>4. CASE Register
  <2>1. /\ UNCHANGED <<host, manager, running>> /\ pc = "register" /\ SameRequest
        /\ \/ pc' = "activate" /\ unit'.file \in {"whole", "half"}
           \/ pc' = "deregister" /\ UNCHANGED unit
           \/ /\ pc' = "failed"
              /\ job'.fault \/ unit.file = "marked" \/ (job.again /\ unit.file # "none")
    BY <1>4, RegisterShape
  <2>2. Clean /\ Staged
    BY <1>0, <2>1 DEF Clean, SameRequest, Staged
  <2>3. /\ ~Alive' /\ unit.file # "marked" /\ (job.again => unit.file = "none")
        /\ pc' \in {"activate", "deregister"}
    BY <1>0, <2>1, <2>2 DEF Clean, CleanInv, Alive
  <2> QED BY <2>1, <2>3 DEF CleanInv
<1>5. CASE Activate
  <2>1. /\ SameRun /\ pc = "activate" /\ (pc' = "record" \/ (pc' = "failed" /\ (job'.fault \/ manager.active)))
    BY <1>5, ActivateShape
  <2>2. Clean /\ Staged
    BY <1>0, <2>1 DEF Clean, SameRun, SameRequest, Staged
  <2>3. pc' = "record"
    BY <1>0, <2>1, <2>2 DEF Clean, CleanInv, Alive
  <2> QED BY <2>3 DEF CleanInv
<1>6. CASE SaveRecord
  BY <1>6 DEF SaveRecord, CleanInv
<1> QED BY <1>1, <1>2, <1>3, <1>4, <1>5, <1>6 DEF Install, Staging

\* A registration that an install takes away is gone before it registers again.
LEMMA RemoveClean ==
    ASSUME SetupInv, Remove
    PROVE  CleanInv'
<1> USE DEF SetupInv
<1>0. SUFFICES ASSUME Clean' PROVE CleanInv'
  BY DEF CleanInv
<1>1. /\ SameRun /\ (Alive' => Alive)
      /\ pc \in {"deregister", "unlink", "remove", "forget"}
      /\ pc' # "failed"
      /\ pc \in {"deregister", "unlink"} =>
            \/ pc' = "unlink" /\ UNCHANGED unit
            \/ unit'.file = "none" /\ Deregistered
  BY <1>0, RemoveShape DEF Clean, Deregistered
<1>2. Clean /\ pc \in {"deregister", "unlink"}
  BY <1>0, <1>1 DEF Clean, SameRun, SameRequest, InstallInv, StepsOfCommands
<1>3. Staged
  BY <1>2 DEF Clean, Staged
<1>4. ~Alive' /\ unit'.file # "marked"
  BY <1>1, <1>2, <1>3 DEF CleanInv
<1>5. pc' = "unlink" \/ (pc' = "register" /\ unit'.file = "none")
  BY <1>1, <1>2 DEF Deregistered, Clean
<1> QED BY <1>4, <1>5 DEF CleanInv

\* Nothing comes to life or loses its registration beside a clean run.
LEMMA AroundClean ==
    ASSUME SetupInv, Around
    PROVE  CleanInv'
<1> USE DEF SetupInv
<1>0. SUFFICES ASSUME Clean' PROVE CleanInv'
  BY DEF CleanInv
<1>1. /\ UNCHANGED host
      /\ unit' = unit \/ unit.file = "marked"
      /\ \/ UNCHANGED <<pc, job>> /\ (Between \/ (Alive' => Alive))
         \/ pc' = "failed" /\ job'.fault
  BY AroundShape DEF SavedInv
<1>2. UNCHANGED <<pc, job>> /\ Clean
  BY <1>0, <1>1 DEF Clean
<1>3. CASE pc \in {"idle", "done", "failed"}
  BY <1>1, <1>2, <1>3 DEF CleanInv, Staged
<1>4. CASE pc \notin {"idle", "done", "failed"}
  <2>1. Alive' => Alive
    BY <1>1, <1>2, <1>4 DEF Between
  <2>2. Staged' = Staged
    BY <1>2 DEF Staged
  <2>3. CASE pc = "stop" \/ (pc = "persist" /\ job.face = "wizard")
    <3>1. Sound /\ ~Staged
      BY <1>2, <2>3 DEF CleanInv, Staged
    <3>2. Sound'
      BY <1>1, <2>1, <3>1 DEF Sound
    <3> QED BY <1>2, <2>2, <2>3, <3>1, <3>2 DEF CleanInv
  <2>4. CASE (Staged \/ pc = "stage") /\ pc # "record"
    <3>1. ~Alive' /\ unit' = unit
      BY <1>1, <1>2, <1>4, <2>1, <2>4 DEF CleanInv
    <3>2. ~(pc = "stop" \/ (pc = "persist" /\ job.face = "wizard"))
      BY <2>4 DEF Staged
    <3> QED BY <1>2, <1>4, <2>2, <2>4, <3>1, <3>2 DEF CleanInv
  <2>5. CASE ~(Staged \/ pc = "stage") /\ ~(pc = "stop" \/ (pc = "persist" /\ job.face = "wizard"))
    <3>1. pc # "register"
      BY <2>5 DEF Staged
    <3> QED BY <1>2, <1>4, <2>2, <2>5, <3>1 DEF CleanInv
  <2>6. CASE pc = "record"
    BY <1>2, <2>6 DEF CleanInv
  <2> QED BY <2>3, <2>4, <2>5, <2>6
<1> QED BY <1>3, <1>4

-----------------------------------------------------------------------------
\* Initially nothing is staged but what setup stands in, and nothing is saved.
LEMMA SetupInit == Init => SetupInv
<1> SUFFICES ASSUME Init PROVE SetupInv
  OBVIOUS
<1>1. InstallInv
  BY InstallInit
<1>2. FilesInv
  <2>1. host \in Hosts /\ Oldest \in Releases /\ job.release = Oldest /\ pc = "idle"
           /\ unit.file = "none"
    BY OldestIsOne DEF Init, NoJob, NoUnit
  <2>2. \A d \in Dirs, n \in Names :
            (IF d = host.here /\ n \in ReleaseNames THEN ReleaseBytes(n, Oldest) ELSE Absent)
                \in Contents
    BY <2>1, Named, Kinds, WholeIsWhole
  <2>3. staged = [d \in Dirs |-> [n \in Names |->
                     IF d = host.here /\ n \in ReleaseNames
                     THEN ReleaseBytes(n, Oldest) ELSE Absent]]
    BY DEF Init
  <2>4. staged \in [Dirs -> [Names -> Contents]]
    BY <2>2, <2>3
  <2>5. host.here # Nowhere => StagedWhole(NamesOf(host), host.here, Oldest)
    <3> SUFFICES ASSUME host.here # Nowhere, NEW n \in NamesOf(host)
                 PROVE  staged[host.here][n] = Bytes(host, n, Oldest)
      BY DEF StagedWhole
    <3>1. host.here \in Dirs /\ n \in Names /\ n \in ReleaseNames
      BY <2>1, Named, WholeIsWhole DEF Hosts
    <3>2. staged[host.here][n] = ReleaseBytes(n, Oldest)
      BY <2>3, <3>1
    <3> QED BY <3>2, WholeIsWhole
  <2>6. ~Staged
    BY <2>1 DEF Staged
  <2> QED BY <2>1, <2>4, <2>5, <2>6 DEF FilesInv, NeverRegisteredWithoutFiles
<1>3. SavedInv /\ CleanInv
  BY BoundsAssumption DEF Init, SavedInv, Saved, CleanInv, Clean, NoJob, NoCreds
<1> QED BY <1>1, <1>2, <1>3 DEF SetupInv

\* Every step keeps all of it.
LEMMA SetupStep == SetupInv /\ [Next]_vars => SetupInv'
<1> SUFFICES ASSUME SetupInv, [Next]_vars PROVE SetupInv'
  OBVIOUS
<1>1. InstallInv'
  BY InstallStep DEF Safe, SetupInv
<1>2. CASE Operator
  BY <1>1, <1>2, OperatorFiles, OperatorSaved, OperatorClean DEF SetupInv
<1>3. CASE Install
  BY <1>1, <1>3, InstallFiles, InstallSaved, InstallClean DEF SetupInv
<1>4. CASE Remove
  BY <1>1, <1>4, RemoveFilesKept, RemoveSaved, RemoveClean DEF SetupInv
<1>5. CASE Around
  BY <1>1, <1>5, AroundFiles, AroundSaved, AroundClean DEF SetupInv
<1>6. CASE UNCHANGED vars
  <2>1. UNCHANGED <<host, staged, unit, manager, running, cred, pc, job, minted>>
    BY <1>6 DEF vars
  <2>2. FilesInv'
    BY <2>1 DEF SetupInv, FilesInv, Staged, StagedWhole, NeverRegisteredWithoutFiles
  <2>3. SavedInv'
    BY <2>1 DEF SetupInv, SavedInv, Saved, Points
  <2>4. CleanInv'
    BY <2>1 DEF SetupInv, CleanInv, Clean, Sound, Alive, Staged
  <2> QED BY <1>1, <2>2, <2>3, <2>4 DEF SetupInv
<1> QED BY <1>2, <1>3, <1>4, <1>5, <1>6 DEF Next

\* What is staged is whole, what is saved is there, and a clean run finds nothing
\* in its way, at every step of every run.
THEOREM SetupInvariant == Spec => []SetupInv
<1> QED BY SetupInit, SetupStep, PTL DEF Spec

\* An install that reports success (install_service, setup_install.cpp) has
\* registered what it staged, whole and under every name, with credentials to start
\* with and a service that is enabled.
THEOREM SuccessIsInstalled == Spec => []SuccessMeansInstalled
<1>1. SetupInv => SuccessMeansInstalled
  BY WholeIsWhole DEF SetupInv, FilesInv, SavedInv, SuccessMeansInstalled, Staged, Saved
<1> QED BY SetupInvariant, <1>1, PTL

\* Installing again repairs whatever an earlier run left at any step: a run of a
\* complete package in which no call fails succeeds, unless the machine was not
\* sound when it began.
THEOREM CleanRunsSucceed == Spec => []CleanRunSucceeds
<1>1. SetupInv => CleanRunSucceeds
  BY WholeIsWhole DEF SetupInv, CleanInv, Clean, CleanRunSucceeds
<1> QED BY SetupInvariant, <1>1, PTL

\* No registration points at a directory without the worker: files go only after
\* the registration, and it comes only after the files.
THEOREM RegisteredHasFiles == Spec => []NeverRegisteredWithoutFiles
<1>1. SetupInv => NeverRegisteredWithoutFiles
  BY DEF SetupInv, FilesInv
<1> QED BY SetupInvariant, <1>1, PTL

-----------------------------------------------------------------------------
\* The counts stay in their bounds, and a run is at one of its steps.
CountsInv ==
    /\ runs \in 0..MaxRuns /\ reboots \in 0..MaxReboots
    /\ pc \in {"idle", "done", "failed", "elevate", "stop", "stage", "finalize",
               "decide", "persist", "register", "activate", "record", "form",
               "deregister", "unlink", "remove", "forget"}

LEMMA CountsStep == SetupInv /\ CountsInv /\ [Next]_vars => CountsInv'
<1> SUFFICES ASSUME SetupInv, CountsInv, [Next]_vars PROVE CountsInv'
  OBVIOUS
<1> USE DEF SetupInv
<1>1. runs' = runs => runs' \in 0..MaxRuns
  BY DEF CountsInv
<1>2. runs < MaxRuns /\ runs' = runs + 1 => runs' \in 0..MaxRuns
  BY BoundsAssumption DEF CountsInv
<1>3. reboots < MaxReboots /\ reboots' = reboots + 1 => reboots' \in 0..MaxReboots
  BY BoundsAssumption DEF CountsInv
<1>4. CASE Operator
  <2>1. reboots' = reboots /\ (runs' = runs \/ (runs < MaxRuns /\ runs' = runs + 1))
    BY <1>4 DEF Operator, Launch, Submit, LaunchWithoutRights, UsageError, OpenWizard,
       BackToForm, EditForm, ElevationDeclined, RunAsRoot, counts, AnotherRun
  <2> QED BY <1>1, <1>2, <1>4, <2>1, OperatorShape DEF CountsInv
<1>5. CASE Install
  <2>1. runs' = runs /\ reboots' = reboots
    BY <1>5 DEF Install, Stop, StageInPlace, StageDirFails, StagePacked, StageDone,
       StageSibling, FinalizePaths, Decide, PersistSettings, SaveAll, Register, Activate,
       SaveRecord, counts
  <2>2. SaveRecord => pc' = "done"
    BY DEF SaveRecord
  <2>3. FinalizePaths \/ Decide \/ PersistSettings \/ SaveAll =>
            pc' \in {"failed", "register", "decide", "persist", "stop"}
    BY SettingsShape
  <2> QED BY <1>1, <1>5, <2>1, <2>2, <2>3, StopShape, StagingShape, RegisterShape,
          ActivateShape DEF Install, Staging, CountsInv
<1>6. CASE Remove
  <2>1. runs' = runs /\ reboots' = reboots
    BY <1>6 DEF Remove, NothingRegistered, Disable, UnlinkFails, SystemdUnlink, LaunchdUnlink,
       ScmDelete, RemoveFiles, ForgetRecord, counts
  <2> QED BY <1>1, <1>6, <2>1, RemoveShape DEF CountsInv, Deregistered
<1>7. CASE Around
  <2>1. runs' = runs /\ (reboots' = reboots \/ (reboots < MaxReboots /\ reboots' = reboots + 1))
    BY <1>7 DEF Around, WorkerStarts, WorkerEnrolls, WorkerExits, MarkedEntryGoes,
       InstallerKilled, Reboot, counts
  <2> QED BY <1>1, <1>3, <1>7, <2>1, AroundShape DEF CountsInv, SavedInv
<1>8. CASE UNCHANGED vars
  BY <1>8 DEF vars, CountsInv
<1> QED BY <1>4, <1>5, <1>6, <1>7, <1>8 DEF Next

\* Every variable keeps its type.
THEOREM InstallTypeOK == Spec => []TypeOK
<1>1. Init => CountsInv
  BY BoundsAssumption DEF Init, CountsInv
<1>2. SetupInv /\ CountsInv => TypeOK
  <2> SUFFICES ASSUME SetupInv, CountsInv PROVE TypeOK
    OBVIOUS
  <2>1. NamesOf(host) \subseteq Names
    BY Named, OldestIsOne DEF SetupInv, FilesInv
  <2>2. /\ job \in Jobs /\ job.release \in Releases
        /\ job.left \subseteq Names
    BY <2>1, WholeIsWhole, Zenon DEF SetupInv, FilesInv, InstallInv, InstallTypes, Jobs
  <2> QED
    BY <2>2 DEF TypeOK, CountsInv, SetupInv, FilesInv, SavedInv, InstallInv, InstallTypes, Jobs,
       Commands, Faces
<1> QED BY <1>1, <1>2, SetupInvariant, CountsStep, PTL DEF Spec
=============================================================================
