------------------------------ MODULE Install ------------------------------
(***************************************************************************)
(* Setup: stopping, staging, registering and removing the worker service,  *)
(* by the command line and by the wizard, on systemd, launchd and the SCM. *)
(*                                                                         *)
(* One installer runs at a time.  Any of its steps may fail, it may be     *)
(* killed between two steps and the host may restart; beside it the        *)
(* service manager restarts the worker, and the worker enrols and rewrites *)
(* the credentials the installer reads.  The state left by one run is what *)
(* the next one finds.                                                     *)
(***************************************************************************)
EXTENDS Integers, Sequences, FiniteSets

CONSTANTS
    Inputs,      \* lists of [name, file] records a release may be packed from
    Releases,    \* releases of the worker: numbers
    Dirs,        \* install directories
    DefaultDir,  \* the one used when --install-dir is not given
    MaxIds,      \* bound: identities the hub mints
    MaxRuns,     \* bound: runs of the installer
    MaxReboots   \* bound: restarts of the host

Worker == "worker"    \* the name the service executes
Missing == "missing"  \* no such file
Half == "half"        \* a file truncated and not written to its end
Nowhere == "nowhere"  \* no directory
NoCreds == -1         \* no credentials file
Seeded == 0           \* a credentials file without an identity; n > 0 is identity n

ASSUME DirsAssumption == DefaultDir \in Dirs /\ Nowhere \notin Dirs
ASSUME ReleasesAssumption == Releases \subseteq Nat /\ Releases # {}
ASSUME BoundsAssumption == MaxIds \in Nat /\ MaxRuns \in Nat /\ MaxReboots \in Nat

VARIABLES
    host,     \* platform, scope, and what the setup program is and is run from
    staged,   \* directory -> name -> what the file holds
    unit,     \* the registration: unit file, plist or SCM entry, and its target
    manager,  \* the service manager: enabled at boot, wants it running
    running,  \* directory the worker process runs from, or Nowhere
    cred,     \* credentials file: NoCreds, Seeded or an identity
    record,   \* install record: a directory or Nowhere
    pc,       \* the installer's next step; "idle", "done" or "failed" between runs
    job,      \* what the installer was asked to do and how far it is
    minted,   \* identities minted so far
    runs, reboots

vars == <<host, staged, unit, manager, running, cred, record, pc, job, minted,
          runs, reboots>>
service == <<unit, manager, running>>
data == <<cred, record>>
counts == <<host, minted, runs, reboots>>

(***************************************************************************)
(* The package.  Inputs that are one file on disk become one record and    *)
(* aliases of it; a name twice or a missing file refuses the package.      *)
(***************************************************************************)

\* Earlier entries that are the same file; the first of them is no alias itself.
AliasOf(list, k) == {j \in 1..(k - 1) : list[j].file = list[k].file}

Packable(list) ==
    /\ list # <<>>
    /\ \A k \in DOMAIN list : list[k].file # Missing
    /\ \A j, k \in DOMAIN list : list[j].name = list[k].name => j = k

First(S) == CHOOSE k \in S : \A j \in S : k <= j

Payload(list) ==
    [k \in DOMAIN list |->
        [name  |-> list[k].name,
         alias |-> IF AliasOf(list, k) = {} THEN Missing
                   ELSE list[First(AliasOf(list, k))].name]]

Names == UNION {{list[k].name : k \in DOMAIN list} : list \in Inputs}
Files == UNION {{list[k].file : k \in DOMAIN list} : list \in Inputs}

\* The worker is in some package, or there is nothing to install.
ASSUME InputsAssumption ==
    Inputs \subseteq Seq([name : Names, file : Files]) /\ Worker \in Names

ReleaseNames == {host.inputs[k].name : k \in DOMAIN host.inputs}

\* What a release holds under a name.
ReleaseBytes(name, release) ==
    [file |-> (CHOOSE e \in {host.inputs[k] : k \in DOMAIN host.inputs} :
                   e.name = name).file,
     release |-> release]

\* A content is always a record, so that contents can be compared.
Absent == [file |-> Missing, release |-> 0]
Torn == [file |-> Half, release |-> 0]
Contents == {Absent, Torn} \cup [file : Files, release : Releases]

Whole(dir, release) ==
    \A name \in ReleaseNames : staged[dir][name] = ReleaseBytes(name, release)

(***************************************************************************)
(* The machine and the steps of one run.                                   *)
(***************************************************************************)

Oldest == First(Releases)

\* A packed setup program carries the release; an unpacked one stages the files
\* beside it, the worker among them, or finds them in place when it stands in the
\* install directory.
Hosts ==
    {h \in [platform : {"systemd", "launchd", "scm"}, scope : {"system", "user"},
            packed : BOOLEAN, here : Dirs \cup {Nowhere}, inputs : Inputs] :
        /\ h.platform = "scm" => h.scope = "system"
        /\ h.packed => h.here = Nowhere
        /\ ~h.packed => \E k \in DOMAIN h.inputs : h.inputs[k].name = Worker
        /\ Packable(h.inputs)}

NoUnit == [file |-> "none", dir |-> Nowhere]
NoJob == [cmd |-> "none", face |-> "cli", token |-> FALSE, dir |-> Nowhere,
          release |-> Oldest, left |-> {}, keep |-> FALSE, again |-> FALSE,
          beside |-> FALSE, sound |-> TRUE, fault |-> FALSE]

Init ==
    /\ host \in Hosts
    /\ staged = [d \in Dirs |-> [n \in Names |->
                    IF d = host.here /\ n \in ReleaseNames
                    THEN ReleaseBytes(n, Oldest) ELSE Absent]]
    /\ unit = NoUnit
    /\ manager = [enabled |-> FALSE, active |-> FALSE]
    /\ running = Nowhere
    /\ cred = NoCreds
    /\ record = Nowhere
    /\ pc = "idle"
    /\ job = NoJob
    /\ minted = 0 /\ runs = 0 /\ reboots = 0

Between == pc \in {"idle", "done", "failed"}

\* Mutant: the running service is not stopped before its files are replaced.
StageFirst(step) ==
    CASE step = "start"    -> "stage"
      [] step = "stage"    -> "finalize"
      [] step = "finalize" -> "decide"
      [] step = "decide"   -> "persist"
      [] step = "persist"  -> "register"

\* Mutant: what to do with the credentials is decided before the service stops.
DecideFirst(step) ==
    CASE step = "start"    -> "decide"
      [] step = "decide"   -> "stop"
      [] step = "stop"     -> "stage"
      [] step = "stage"    -> "finalize"
      [] step = "finalize" -> "persist"
      [] step = "persist"  -> "register"

\* The command line saves the settings after the files are staged ...
CliAfter(step) ==
    CASE step = "start"    -> "stop"
      [] step = "stop"     -> "stage"
      [] step = "stage"    -> "finalize"
      [] step = "finalize" -> "decide"
      [] step = "decide"   -> "persist"
      [] step = "persist"  -> "register"

\* ... and the wizard before it stops the service.
WizardAfter(step) ==
    CASE step = "start"    -> "persist"
      [] step = "persist"  -> "stop"
      [] step = "stop"     -> "stage"
      [] step = "stage"    -> "finalize"
      [] step = "finalize" -> "register"

After(face, step) == IF face = "wizard" THEN WizardAfter(step) ELSE CliAfter(step)

Advance(step) == pc' = After(job.face, step)

\* The run ends because a call failed, and because it found something in its way.
Fault == pc' = "failed" /\ job' = [job EXCEPT !.fault = TRUE]
Refused == pc' = "failed" /\ UNCHANGED job

(***************************************************************************)
(* Starting: the chosen action, and the rights it needs.                   *)
(***************************************************************************)

FirstStep(cmd, face) == IF cmd = "install" THEN After(face, "start") ELSE "deregister"

\* The worker runs, or the service manager would start it.
Alive == running # Nowhere \/ manager.active

\* Nothing stands in the way of a run: no worker without its registration, no
\* registration the service manager cannot read or will not let go.
Sound ==
    /\ unit.file = "none" => ~Alive
    /\ unit.file # "marked"
    /\ ~(unit.file = "half" /\ host.platform = "systemd")

Asked(cmd, face, token, dir, release) ==
    [NoJob EXCEPT !.cmd = cmd, !.face = face, !.token = token, !.dir = dir,
                  !.release = release, !.left = ReleaseNames, !.sound = Sound]

AnotherRun == Between /\ runs < MaxRuns /\ runs' = runs + 1

\* A command line: its token may come from the environment, its directory is the
\* default one when it names none.
Launch(cmd, token, dir, release) ==
    /\ AnotherRun
    /\ host.here # Nowhere => release = Oldest
    /\ job' = Asked(cmd, "cli", token, dir, release)
    /\ pc' = FirstStep(cmd, "cli")
    /\ UNCHANGED <<host, staged, service, data, minted, reboots>>

\* A command line that is refused: a user service on Windows, an unattended run
\* without the server or together with a removal.
UsageError ==
    /\ AnotherRun
    /\ job' = [NoJob EXCEPT !.fault = TRUE] /\ pc' = "failed"
    /\ UNCHANGED <<host, staged, service, data, minted, reboots>>

\* The wizard opens on the directory the record names and on the saved token, of
\* which an enrolled worker has none.
SeededDir == IF record = Nowhere THEN DefaultDir ELSE record
SeededTokens == IF cred = Seeded THEN BOOLEAN ELSE {FALSE}

OpenWizard ==
    /\ AnotherRun
    /\ \E token \in SeededTokens :
           job' = [NoJob EXCEPT !.face = "wizard", !.dir = SeededDir, !.token = token]
    /\ pc' = "form"
    /\ UNCHANGED <<host, staged, service, data, minted, reboots>>

\* The operator edits a field, or cancels: nothing is written.  What the form was
\* seeded with is not read again.
EditForm(dir, token) ==
    /\ pc = "form"
    /\ \/ job' = [job EXCEPT !.dir = dir, !.token = token] /\ UNCHANGED pc
       \/ job' = NoJob /\ pc' = "idle"
    /\ UNCHANGED <<staged, service, data, counts>>

\* The chosen action, first with the rights it needs.
Submit(cmd, release, root) ==
    /\ pc = "form"
    /\ host.here # Nowhere => release = Oldest
    /\ job' = Asked(cmd, "wizard", job.token, job.dir, release)
    /\ host.scope = "user" => root
    /\ pc' = IF root THEN FirstStep(cmd, "wizard") ELSE "elevate"
    /\ UNCHANGED <<staged, service, data, counts>>

\* After a success the operator may go back to the form as it was filled in.
BackToForm ==
    /\ pc = "done" /\ job.face # "cli" /\ AnotherRun
    /\ job' = [NoJob EXCEPT !.face = "wizard", !.dir = job.dir, !.token = job.token]
    /\ pc' = "form"
    /\ UNCHANGED <<host, staged, service, data, minted, reboots>>

\* A command line without the rights stops at its first service call.
LaunchWithoutRights(cmd) ==
    /\ AnotherRun
    /\ host.scope = "system"
    /\ job' = [NoJob EXCEPT !.cmd = cmd, !.fault = TRUE]
    /\ pc' = "failed"
    /\ UNCHANGED <<host, staged, service, data, minted, reboots>>

\* The operator does not want to raise the rights, or goes back from the error
\* that they were not given: to the form, as it was filled in.
ElevationDeclined ==
    /\ pc = "elevate"
    /\ pc' = "form"
    /\ UNCHANGED <<staged, service, data, job, counts>>

\* The password is asked first, so that a failure before the installer runs as
\* root is told from a failure of the installer, which gets every choice as flags.
RunAsRoot ==
    /\ pc = "elevate"
    /\ \/ Fault
       \/ /\ job' = Asked(job.cmd, "child", job.token, job.dir, job.release)
          /\ pc' = FirstStep(job.cmd, "child")
    /\ UNCHANGED <<staged, service, data, counts>>

(***************************************************************************)
(* Stopping the service before its files are replaced.                     *)
(***************************************************************************)

Stopped == manager' = [manager EXCEPT !.active = FALSE] /\ running' = Nowhere

\* The next step, noting a worker that survived the stop.
GoOnBeside ==
    /\ job' = [job EXCEPT !.beside = Alive']
    /\ Advance("stop")

\* systemctl stop fails on a unit systemd could not parse.
SystemdStop ==
    \/ unit.file = "none" /\ UNCHANGED service /\ GoOnBeside
    \/ unit.file # "none" /\ Stopped /\ UNCHANGED unit /\ GoOnBeside
    \/ /\ unit.file # "none"
       /\ UNCHANGED service
       /\ IF unit.file = "half" THEN Refused ELSE Fault

\* A bootout that fails is ignored.
LaunchdStop ==
    \/ unit.file = "none" /\ UNCHANGED service /\ GoOnBeside
    \/ unit.file # "none" /\ Stopped /\ UNCHANGED unit /\ GoOnBeside
    \/ /\ unit.file # "none" /\ UNCHANGED service
       /\ job' = [job EXCEPT !.beside = Alive, !.fault = TRUE]
       /\ Advance("stop")

\* The stop is asynchronous and waited for; after thirty seconds it is an error,
\* though the process may still exit.
ScmStop ==
    \/ unit.file = "none" /\ UNCHANGED service /\ GoOnBeside
    \/ unit.file # "none" /\ Stopped /\ UNCHANGED unit /\ GoOnBeside
    \/ /\ unit.file # "none" /\ running # Nowhere
       /\ manager' = [manager EXCEPT !.active = FALSE]
       /\ UNCHANGED <<unit, running>>
       /\ Fault

Stop ==
    /\ pc = "stop"
    /\ CASE host.platform = "systemd" -> SystemdStop
         [] host.platform = "launchd" -> LaunchdStop
         [] host.platform = "scm"     -> ScmStop
    /\ UNCHANGED <<staged, data, counts>>

(***************************************************************************)
(* Staging, entry by entry.                                                *)
(***************************************************************************)

\* An unpacked setup run from the install directory has nothing to copy, and
\* does not look for the worker either.
InPlace == ~host.packed /\ host.here = job.dir

StageInPlace ==
    /\ pc = "stage" /\ InPlace
    /\ Advance("stage")
    /\ UNCHANGED <<staged, service, data, job, counts>>

StageDirFails ==
    /\ pc = "stage" /\ ~InPlace /\ job.left = ReleaseNames
    /\ Fault
    /\ UNCHANGED <<staged, service, data, counts>>

\* A running executable cannot be opened for writing, except on macOS.
Busy(name) == name = Worker /\ running = job.dir /\ host.platform # "launchd"

\* Mutant: a file that is there is not written again.
StageMissing(name, bytes) ==
    /\ staged' = IF staged[job.dir][name] = Absent
                 THEN [staged EXCEPT ![job.dir][name] = bytes] ELSE staged
    /\ job' = [job EXCEPT !.left = @ \ {name}]
    /\ UNCHANGED pc

\* A record is opened, which truncates the file, and written.
StageBytes(name, bytes) ==
    \/ /\ ~Busy(name)
       /\ \/ /\ staged' = [staged EXCEPT ![job.dir][name] = bytes]
             /\ job' = [job EXCEPT !.left = @ \ {name}]
             /\ UNCHANGED pc
          \/ /\ staged' = [staged EXCEPT ![job.dir][name] = Torn]
             /\ Fault
    \/ /\ IF Busy(name) THEN Refused ELSE Fault
       /\ UNCHANGED staged

\* Extraction follows the package: a record is decompressed, an alias is a copy
\* of the file its target was just extracted to.
StagePacked ==
    /\ pc = "stage" /\ host.packed /\ job.left # {}
    /\ LET entries == Payload(host.inputs)
           k == First({i \in DOMAIN entries : entries[i].name \in job.left})
           e == entries[k]
       IN  IF e.alias = Missing
           THEN StageBytes(e.name, ReleaseBytes(e.name, job.release))
           ELSE IF staged[job.dir][e.alias] = Absent
                THEN Refused /\ UNCHANGED staged
                ELSE StageBytes(e.name, staged[job.dir][e.alias])
    /\ UNCHANGED <<service, data, counts>>

\* Copying siblings: the worker and the libraries, in directory order.
StageSibling(name) ==
    /\ pc = "stage" /\ ~host.packed /\ ~InPlace
    /\ name \in job.left
    /\ StageBytes(name, ReleaseBytes(name, job.release))
    /\ UNCHANGED <<service, data, counts>>

\* Provisioned: the worker must be there.
StageDone ==
    /\ pc = "stage" /\ ~InPlace /\ job.left = {}
    /\ IF staged[job.dir][Worker] = Absent THEN Refused
       ELSE Advance("stage") /\ UNCHANGED job
    /\ UNCHANGED <<staged, service, data, counts>>

(***************************************************************************)
(* Settings: the data directory, the decision, the files.                  *)
(***************************************************************************)

FinalizePaths ==
    /\ pc = "finalize"
    /\ \/ Advance("finalize") /\ UNCHANGED job
       \/ Fault
    /\ UNCHANGED <<staged, service, data, counts>>

Enrolled == cred > Seeded

\* An enrolled worker keeps its credentials when no join token is given.
Decide ==
    /\ pc = "decide"
    /\ job' = [job EXCEPT !.keep = ~job.token /\ Enrolled]
    /\ Advance("decide")
    /\ UNCHANGED <<staged, service, data, counts>>

\* The command line writes the configuration, and the credentials unless kept.
PersistSettings ==
    /\ pc = "persist" /\ job.face # "wizard"
    /\ \/ cred' = (IF job.keep THEN cred ELSE Seeded) /\ Advance("persist") /\ UNCHANGED job
       \/ Fault /\ UNCHANGED cred
    /\ UNCHANGED <<staged, service, record, counts>>

\* The wizard always writes both.
SaveAll ==
    /\ pc = "persist" /\ job.face = "wizard"
    /\ \/ cred' = Seeded /\ Advance("persist") /\ UNCHANGED job
       \/ Fault /\ UNCHANGED cred
    /\ UNCHANGED <<staged, service, record, counts>>

(***************************************************************************)
(* Registering.                                                            *)
(***************************************************************************)

Points == [file |-> "whole", dir |-> job.dir]

\* Mutant: a registration that exists is refused.
Refuse == Refused /\ UNCHANGED unit

\* A registration that exists is removed once and written again.
Replace ==
    /\ UNCHANGED unit
    /\ IF job.again THEN Refused
       ELSE job' = [job EXCEPT !.again = TRUE] /\ pc' = "deregister"

\* The file is opened and filled; an error at its close is not seen.
SystemdRegister ==
    IF unit.file # "none" THEN Replace
    ELSE \/ unit' = Points /\ pc' = "activate" /\ UNCHANGED job
         \/ /\ unit' = [Points EXCEPT !.file = "half"]
            /\ job' = [job EXCEPT !.fault = TRUE]
            /\ pc' \in {"activate", "failed"}
         \/ Fault /\ UNCHANGED unit

LaunchdRegister == SystemdRegister

\* A name that is still marked for deletion cannot be created.
ScmRegister ==
    CASE unit.file = "none"   -> \/ unit' = Points /\ pc' = "activate" /\ UNCHANGED job
                                 \/ Fault /\ UNCHANGED unit
      [] unit.file = "marked" -> Refused /\ UNCHANGED unit
      [] unit.file = "whole"  -> Replace

Register ==
    /\ pc = "register"
    /\ CASE host.platform = "systemd" -> SystemdRegister
         [] host.platform = "launchd" -> LaunchdRegister
         [] host.platform = "scm"     -> ScmRegister
    /\ UNCHANGED <<staged, manager, running, data, counts>>

Activated == manager' = [enabled |-> TRUE, active |-> TRUE] /\ pc' = "record"

\* A failed reload takes the unit back, a failed enable leaves it.
SystemdActivate ==
    \/ unit.file = "whole" /\ Activated /\ UNCHANGED <<unit, job>>
    \/ unit' = NoUnit /\ UNCHANGED manager /\ Fault
    \/ /\ manager' \in {[enabled |-> e, active |-> FALSE] : e \in BOOLEAN}
       /\ Fault
       /\ UNCHANGED unit

\* launchd refuses a job that is still loaded, and the plist is taken back.
LaunchdActivate ==
    \/ /\ unit.file = "whole" /\ ~manager.active
       /\ Activated /\ UNCHANGED <<unit, job>>
    \/ /\ unit' = NoUnit
       /\ IF manager.active THEN Refused ELSE Fault
       /\ UNCHANGED manager

\* An entry that does not start now starts at the next boot.
ScmActivate ==
    /\ manager' \in {[enabled |-> TRUE, active |-> a] : a \in BOOLEAN}
    /\ pc' = "record"
    /\ UNCHANGED <<unit, job>>

Activate ==
    /\ pc = "activate"
    /\ CASE host.platform = "systemd" -> SystemdActivate
         [] host.platform = "launchd" -> LaunchdActivate
         [] host.platform = "scm"     -> ScmActivate
    /\ UNCHANGED <<staged, running, data, counts>>

\* The record is for the next run's prompts; a failure to write it is no error.
SaveRecord ==
    /\ pc = "record"
    /\ record' \in {job.dir, record}
    /\ pc' = "done"
    /\ UNCHANGED <<staged, service, cred, job, counts>>

(***************************************************************************)
(* Deregistering and removing.                                             *)
(***************************************************************************)

\* What comes after a deregistration, which the reconfigure also uses.
Deregistered == pc' = IF job.cmd = "install" THEN "register" ELSE "remove"

NothingRegistered ==
    /\ pc = "deregister" /\ unit.file = "none"
    /\ Deregistered
    /\ UNCHANGED <<staged, service, data, job, counts>>

\* disable --now and bootout: their failure is ignored.
Disable ==
    /\ pc = "deregister" /\ unit.file # "none" /\ host.platform # "scm"
    /\ \/ /\ manager' = [enabled |-> FALSE, active |-> FALSE] /\ running' = Nowhere
          /\ UNCHANGED job
       \/ /\ job' = [job EXCEPT !.beside = @ \/ Alive, !.fault = TRUE]
          /\ UNCHANGED <<manager, running>>
    /\ pc' = "unlink"
    /\ UNCHANGED <<staged, unit, data, counts>>

UnlinkFails ==
    /\ pc = "unlink"
    /\ Fault
    /\ UNCHANGED <<staged, service, data, counts>>

\* Without its file, and reloaded, systemd forgets the service.
SystemdUnlink ==
    /\ pc = "unlink" /\ host.platform = "systemd"
    /\ unit' = NoUnit
    /\ manager' = [enabled |-> FALSE, active |-> FALSE]
    /\ Deregistered
    /\ UNCHANGED <<staged, running, data, job, counts>>

\* A job launchd still has loaded stays loaded until the next boot.
LaunchdUnlink ==
    /\ pc = "unlink" /\ host.platform = "launchd"
    /\ unit' = NoUnit
    /\ manager' = [manager EXCEPT !.enabled = FALSE]
    /\ Deregistered
    /\ UNCHANGED <<staged, running, data, job, counts>>

\* The SCM entry of a process that did not stop, or that someone holds open, is
\* only marked, and the installer waits ten seconds for it to go.
ScmDelete ==
    /\ pc = "deregister" /\ unit.file # "none" /\ host.platform = "scm"
    /\ manager' = [manager EXCEPT !.active = FALSE]
    /\ running' \in {running, Nowhere}
    /\ \/ /\ running' = Nowhere
          /\ unit' = NoUnit /\ Deregistered /\ UNCHANGED job
       \/ unit' = [unit EXCEPT !.file = "marked"] /\ Fault
       \/ Fault /\ UNCHANGED unit
    /\ UNCHANGED <<staged, data, counts>>

\* The data directory of a macOS user install lies in its install directory.
DataInside(dir) ==
    host.platform = "launchd" /\ host.scope = "user" /\ dir = DefaultDir

\* Everything goes, or an error leaves the rest; never the directory the setup
\* program runs from.
RemoveFiles ==
    /\ pc = "remove"
    /\ IF host.here = job.dir
       THEN pc' = "forget" /\ UNCHANGED <<staged, data, job>>
       ELSE \/ /\ staged' = [staged EXCEPT ![job.dir] = [n \in Names |-> Absent]]
               /\ cred' = IF DataInside(job.dir) THEN NoCreds ELSE cred
               /\ record' = IF DataInside(job.dir) THEN Nowhere ELSE record
               /\ pc' = "forget" /\ UNCHANGED job
            \/ /\ \E gone \in SUBSET Names :
                      staged' = [staged EXCEPT ![job.dir] =
                                     [n \in Names |-> IF n \in gone THEN Absent ELSE @[n]]]
               /\ cred' \in {cred} \cup (IF DataInside(job.dir) THEN {NoCreds} ELSE {})
               /\ Fault /\ UNCHANGED record
    /\ UNCHANGED <<service, counts>>

ForgetRecord ==
    /\ pc = "forget"
    /\ record' \in {Nowhere, record}
    /\ pc' = "done"
    /\ UNCHANGED <<staged, service, cred, job, counts>>

(***************************************************************************)
(* Beside the installer.                                                   *)
(***************************************************************************)

\* The service manager starts the worker it wants running.
WorkerStarts ==
    /\ manager.active /\ running = Nowhere
    /\ unit.dir # Nowhere
    /\ \A n \in ReleaseNames : staged[unit.dir][n] \notin {Absent, Torn}
    /\ running' = unit.dir
    /\ UNCHANGED <<staged, unit, manager, data, pc, job, counts>>

\* Exits after which the service manager starts the worker again: only systemd is
\* told of the exit that an operator must repair.
SystemdRestarts(exit) == exit = "failure"
LaunchdRestarts(exit) == exit # "ok"
ScmRestarts(exit) == exit # "ok"

WorkerExits(exit) ==
    /\ running # Nowhere
    /\ running' = Nowhere
    /\ LET again == CASE host.platform = "systemd" -> SystemdRestarts(exit)
                      [] host.platform = "launchd" -> LaunchdRestarts(exit)
                      [] host.platform = "scm"     -> ScmRestarts(exit)
       IN  manager' = [manager EXCEPT !.active = @ /\ again]
    /\ UNCHANGED <<staged, unit, data, pc, job, counts>>

\* The worker enrols and stores the identity the hub minted.
WorkerEnrolls ==
    /\ running # Nowhere
    /\ cred = Seeded
    /\ minted < MaxIds
    /\ minted' = minted + 1
    /\ cred' = minted'
    /\ UNCHANGED <<host, staged, service, record, pc, job, runs, reboots>>

\* A marked entry goes with the last handle to it.
MarkedEntryGoes ==
    /\ unit.file = "marked" /\ running = Nowhere
    /\ unit' = NoUnit
    /\ manager' = [enabled |-> FALSE, active |-> FALSE]
    /\ UNCHANGED <<staged, running, data, pc, job, counts>>

InstallerKilled ==
    /\ ~Between
    /\ Fault
    /\ UNCHANGED <<staged, service, data, counts>>

Reboot ==
    /\ reboots < MaxReboots
    /\ reboots' = reboots + 1
    /\ running' = Nowhere
    /\ unit' = IF unit.file = "marked" THEN NoUnit ELSE unit
    /\ manager' = LET up == manager.enabled /\ unit.file = "whole"
                  IN  [enabled |-> up, active |-> up]
    /\ IF Between THEN UNCHANGED <<pc, job>> ELSE Fault
    /\ UNCHANGED <<host, staged, data, minted, runs>>

Install ==
    \/ Stop
    \/ StageInPlace \/ StageDirFails \/ StagePacked \/ StageDone
    \/ \E name \in Names : StageSibling(name)
    \/ FinalizePaths \/ Decide \/ PersistSettings \/ SaveAll
    \/ Register \/ Activate \/ SaveRecord

Remove ==
    \/ NothingRegistered \/ Disable \/ UnlinkFails \/ SystemdUnlink
    \/ LaunchdUnlink \/ ScmDelete
    \/ RemoveFiles \/ ForgetRecord

Operator ==
    \/ \E cmd \in {"install", "remove"} :
          \/ \E token \in BOOLEAN, dir \in Dirs, release \in Releases :
                Launch(cmd, token, dir, release)
          \/ \E root \in BOOLEAN, release \in Releases : Submit(cmd, release, root)
          \/ LaunchWithoutRights(cmd)
    \/ UsageError \/ OpenWizard \/ BackToForm
    \/ \E dir \in Dirs, token \in BOOLEAN : EditForm(dir, token)
    \/ ElevationDeclined \/ RunAsRoot

Around ==
    \/ WorkerStarts \/ WorkerEnrolls
    \/ \E exit \in {"ok", "failure", "fatal"} : WorkerExits(exit)
    \/ MarkedEntryGoes \/ InstallerKilled \/ Reboot

Next == Operator \/ Install \/ Remove \/ Around

Spec == Init /\ [][Next]_vars

(***************************************************************************)
(* Properties.                                                             *)
(***************************************************************************)

\* Every variable keeps its type.
TypeOK ==
    /\ host \in Hosts
    /\ staged \in [Dirs -> [Names -> Contents]]
    /\ unit \in [file : {"none", "half", "whole", "marked"}, dir : Dirs \cup {Nowhere}]
    /\ manager \in [enabled : BOOLEAN, active : BOOLEAN]
    /\ running \in Dirs \cup {Nowhere}
    /\ cred \in NoCreds..MaxIds
    /\ record \in Dirs \cup {Nowhere}
    /\ pc \in {"idle", "done", "failed", "elevate", "stop", "stage", "finalize",
               "decide", "persist", "register", "activate", "record", "form",
               "deregister", "unlink", "remove", "forget"}
    /\ job \in [cmd : {"none", "install", "remove"}, face : {"cli", "wizard", "child"},
                token : BOOLEAN, dir : Dirs \cup {Nowhere}, release : Releases,
                left : SUBSET Names, keep : BOOLEAN, again : BOOLEAN,
                beside : BOOLEAN, sound : BOOLEAN, fault : BOOLEAN]
    /\ minted \in 0..MaxIds /\ runs \in 0..MaxRuns /\ reboots \in 0..MaxReboots

\* An identity the hub minted is given up only when the operator brings a token,
\* uses the wizard, or removes a macOS user install; a command-line install
\* without a token keeps it, whenever the worker enrolled and whatever failed
\* or was killed in between.  Only a worker that survived the stop can enrol
\* behind the decision.
IdentityKept ==
    [][Enrolled /\ cred' # cred =>
           \/ job.cmd = "install" /\ (job.token \/ job.face = "wizard" \/ job.beside)
           \/ job.cmd = "remove" /\ DataInside(job.dir)]_vars

\* No file is replaced or removed under a running worker, unless the service
\* manager was told to stop it, failed, and the installer went on regardless, in
\* this run or in an earlier one that took the registration away.
NoWriteUnderRunningWorker ==
    [][running # Nowhere /\ staged'[running] # staged[running] =>
           job.beside \/ ~job.sound]_vars

\* An install that reports success has registered the directory it staged, every
\* file of the release is whole in it under its own name, the worker has
\* credentials to start with, and it comes back after a reboot.
SuccessMeansInstalled ==
    pc = "done" /\ job.cmd = "install" =>
        /\ unit = Points
        /\ Whole(job.dir, job.release)
        /\ cred # NoCreds
        /\ manager.enabled

\* A registered service always has its executable: neither an install that fails
\* half way nor a removal leaves "service present, files gone".
NeverRegisteredWithoutFiles ==
    unit.file # "none" => staged[unit.dir][Worker] # Absent

\* Running the install again repairs whatever an earlier run left half staged,
\* half registered, killed or rebooted at any step: a complete package installed
\* by a run in which no call fails succeeds, unless it started over a worker
\* without a registration or a registration the service manager cannot read or
\* still holds.
CleanRunSucceeds ==
    pc = "failed" /\ job.cmd = "install" /\ ~job.fault /\ Worker \in ReleaseNames =>
        ~job.sound

\* The prompt of the wizard: a blank token keeps an enrollment.
BlankTokenKeepsEnrollment ==
    [][Enrolled /\ cred' # cred /\ job.cmd = "install" => job.token \/ job.beside]_vars
=============================================================================
