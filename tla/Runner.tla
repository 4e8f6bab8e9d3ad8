------------------------------- MODULE Runner -------------------------------
(***************************************************************************)
(* The life of the worker process around its sessions: the loop of         *)
(* Runner::run, the enrollment handshake of Runner::run_one_session        *)
(* (src/runner.cpp), the credentials file it leaves on disk                *)
(* (src/credentials.cpp, src/fsutil.cpp), what main() loads at a start     *)
(* (src/main.cpp), and the service supervisor that acts on the exit code   *)
(* (include/mass_worker/exit_codes.hpp).  A working session is one state   *)
(* here; module Session is what happens inside it.                         *)
(*                                                                         *)
(* The process may die at any step; its memory goes and the files stay.    *)
(***************************************************************************)
EXTENDS Integers

CONSTANTS
    Ids,          \* identities the hub can mint
    NoId,         \* worker_id and worker_secret empty
    Half,         \* a file whose content is not all there
    Nothing,      \* no temporary file
    Supervisor,   \* who restarts the process: "systemd", "scm" or "launchd"
    Base, Cap,    \* reconnect_backoff and reconnect_backoff_cap
    TopRung,      \* bound: failure streaks from here on are one
    MaxDeaths     \* bound: crashes, lost devices and starts by the operator

\* The credentials file as load_credentials reads it.  No file at all reads
\* like one with neither an identity nor a token.
Credentials == [id : Ids \cup {NoId}, token : BOOLEAN]

ASSUME IdsAssumption == NoId \notin Ids
ASSUME FileAssumption == Half # Nothing /\ {Half, Nothing} \cap Credentials = {}
ASSUME SupervisorAssumption == Supervisor \in {"systemd", "scm", "launchd"}
ASSUME BackoffAssumption ==
    /\ Base \in Nat \ {0} /\ Cap \in Nat /\ Base <= Cap
    /\ TopRung \in Nat \ {0} /\ MaxDeaths \in Nat

Fresh(token) == [id |-> NoId, token |-> token]
Enrolled(i) == [id |-> i, token |-> FALSE]

VARIABLES
    \* the disk
    cred,      \* the credentials file
    tmp,       \* its sibling .tmp
    unsynced,  \* cred was renamed into place and the system has not flushed it
    \* the process
    pc,        \* where run() is, or "down"
    mem,       \* worker_id_ and worker_secret_ (id), join_token_ (token)
    streak,    \* consecutive_failures
    delay,     \* the delay of the current wait
    stopping,  \* stopping_
    session,   \* the SessionResult being built
    code,      \* how the last process ended
    \* the hub
    reply,     \* identity minted for the pending handshake and not yet read
    minted,    \* identities the hub has minted
    revoked,   \* the operator told the hub to refuse this worker
    \* history and bounds
    unworked,  \* sessions in a row that did not work
    deaths     \* crashes, lost devices and operator starts so far

diskVars == <<cred, tmp, unsynced>>
procVars == <<mem, streak, delay, stopping, session>>
hubVars == <<reply, minted, revoked>>
boundVars == <<unworked, deaths>>
vars == <<diskVars, pc, procVars, code, hubVars, boundVars>>

Handshake == {"shaking", "creating", "writing", "renaming"}
Up == {"head", "registering", "adopting", "working", "ended", "waiting"} \cup Handshake
Codes == {"never", "ok", "failure", "fatal", "crash"}

SessionResults == [retryable : BOOLEAN, reached : BOOLEAN, worked : BOOLEAN]
NewSession == [retryable |-> TRUE, reached |-> FALSE, worked |-> FALSE]

Least(a, b) == IF a < b THEN a ELSE b

Init ==
    /\ cred \in {Fresh(TRUE), Fresh(FALSE)}   \* the installer's, with its join token or none
    /\ tmp = Nothing /\ unsynced = FALSE
    /\ pc = "down" /\ code = "never"
    /\ mem = Fresh(FALSE) /\ streak = 0 /\ delay = 0 /\ stopping = FALSE
    /\ session = NewSession
    /\ reply = NoId /\ minted = {} /\ revoked = FALSE
    /\ unworked = 0 /\ deaths = 0

-----------------------------------------------------------------------------
(* The supervisor, the operator and the process's end.                     *)

\* Mutant: restart=on-abnormal: an exit code is not a reason to restart.
RespawnedOnAbnormal == {"crash"}

\* What each supervisor restarts.  systemd: Restart=on-failure and
\* RestartPreventExitStatus=3.  The SCM and launchd restart any failure; when
\* it runs out of configured actions the SCM repeats the last, a restart.
Respawned == IF Supervisor = "systemd" THEN {"failure", "crash"}
                                       ELSE {"failure", "crash", "fatal"}

\* main(): the saved identity, and --token before the saved token.
Boot ==
    /\ pc = "down" /\ pc' = "head"
    /\ \E cli \in BOOLEAN :
          mem' = IF cred = Half THEN Fresh(cli)
                 ELSE [id |-> cred.id, token |-> cli \/ cred.token]
    /\ streak' = 0 /\ delay' = 0 /\ stopping' = FALSE /\ session' = NewSession
    /\ unworked' = 0
    /\ UNCHANGED <<diskVars, code, hubVars>>

Respawn ==
    /\ code \in Respawned
    /\ Boot /\ UNCHANGED deaths

OperatorStarts ==
    /\ deaths < MaxDeaths
    /\ deaths' = deaths + 1
    /\ Boot

Exit(c) ==
    /\ pc' = "down" /\ code' = c /\ reply' = NoId
    /\ UNCHANGED <<diskVars, procVars, minted, revoked, unworked>>

\* The process is killed or aborts, anywhere.
Crash ==
    /\ pc \in Up /\ deaths < MaxDeaths /\ deaths' = deaths + 1
    /\ Exit("crash")

\* exit_if_device_lost, inside a session.
DeviceLost ==
    /\ pc = "working" /\ deaths < MaxDeaths /\ deaths' = deaths + 1
    /\ Exit("failure")

\* Runner::stop, from a signal or the SCM's handler.
Stop ==
    /\ pc \in Up /\ ~stopping /\ stopping' = TRUE
    /\ UNCHANGED <<diskVars, pc, mem, streak, delay, session, code, hubVars, boundVars>>

\* The operator revokes the worker at the hub.
Revoke ==
    /\ ~revoked /\ revoked' = TRUE
    /\ UNCHANGED <<diskVars, pc, procVars, code, reply, minted, boundVars>>

\* The system writes back what it holds in its cache.
SystemFlushes ==
    /\ unsynced /\ unsynced' = FALSE
    /\ UNCHANGED <<cred, tmp, pc, procVars, code, hubVars, boundVars>>

-----------------------------------------------------------------------------
(* Runner::run.                                                            *)

\* Mutant: each attempt starts with the stop flag cleared.
LoopHeadForgetsStop ==
    /\ pc = "head" /\ pc' = "registering" /\ session' = NewSession /\ stopping' = FALSE
    /\ UNCHANGED <<diskVars, mem, streak, delay, code, hubVars, boundVars>>

LoopHead ==
    /\ pc = "head"
    /\ \/ stopping /\ Exit("ok") /\ UNCHANGED deaths
       \/ /\ ~stopping /\ pc' = "registering" /\ session' = NewSession
          /\ UNCHANGED <<diskVars, mem, streak, delay, stopping, code, hubVars, boundVars>>

\* reconnect_delay without its jitter, and with one of 25 per cent either way.
Raw(n) == Least(Base * 2^(n - 1), Cap)
Delay(n, quarter) == (Raw(n) * (4 + quarter)) \div 4

Worked == session.reached /\ session.worked

\* Mutant: the ladder starts over once the Register frame reached the wire.
NextStreakIfReached == IF session.reached THEN 1 ELSE Least(streak + 1, TopRung)

\* next_failure_streak; the exponent is clamped, and so is the model's streak.
NextStreak == IF Worked THEN 1 ELSE Least(streak + 1, TopRung)

\* After run_one_session: stopped, fatal, or wait and try again.
StopAfterSession ==
    /\ pc = "ended" /\ stopping
    /\ Exit("ok") /\ UNCHANGED deaths

GiveUp ==
    /\ pc = "ended" /\ ~stopping /\ ~session.retryable
    /\ Exit("fatal") /\ UNCHANGED deaths

Retry ==
    /\ pc = "ended" /\ ~stopping /\ session.retryable
    /\ pc' = "waiting"
    /\ streak' = NextStreak
    /\ \E quarter \in -1 .. 1 : delay' = Delay(streak', quarter)
    /\ unworked' = IF Worked THEN 0 ELSE Least(unworked + 1, TopRung)
    /\ UNCHANGED <<diskVars, mem, stopping, session, code, hubVars, deaths>>

\* wait_or_stop returns: the delay elapsed, or a stop was seen between two slices.
WaitEnds ==
    /\ pc = "waiting" /\ pc' = "head"
    /\ UNCHANGED <<diskVars, procVars, code, hubVars, boundVars>>

-----------------------------------------------------------------------------
(* Runner::run_one_session up to begin_session.                            *)

\* The session is over with this result.
EndWith(retryable) ==
    /\ pc' = "ended"
    /\ session' = [session EXCEPT !.retryable = retryable]
    /\ reply' = NoId
    /\ UNCHANGED <<mem, streak, delay, stopping, code, minted, revoked, boundVars>>

Serve ==
    /\ pc' = "working"
    /\ session' = [session EXCEPT !.reached = TRUE]

RegisterFails ==
    /\ pc = "registering" /\ EndWith(TRUE) /\ UNCHANGED diskVars

\* Mutant: a worker without a token does not enroll.
EnrollingByToken == mem.id = NoId /\ mem.token

\* Whether this connect enrolls is decided by the stored secret alone.
Enrolling == mem.id = NoId

RegisterSent ==
    /\ pc = "registering"
    /\ \/ Enrolling /\ pc' = "shaking" /\ UNCHANGED session
       \/ ~Enrolling /\ Serve
    /\ UNCHANGED <<diskVars, mem, streak, delay, stopping, code, hubVars, boundVars>>

\* The hub enrolls the worker and answers.
HubMints ==
    /\ pc = "shaking" /\ reply = NoId /\ ~revoked
    /\ \E i \in Ids \ minted : reply' = i /\ minted' = minted \cup {i}
    /\ UNCHANGED <<diskVars, pc, procVars, code, revoked, boundVars>>

ReadEnrolled ==
    /\ pc = "shaking" /\ reply # NoId /\ pc' = "creating"
    /\ UNCHANGED <<diskVars, procVars, code, hubVars, boundVars>>

\* The first message is something else or lacks an id or a secret, or the read
\* fails with a status only an operator can clear (connect_error_is_fatal).
HandshakeRefused ==
    /\ pc = "shaking" /\ reply = NoId /\ EndWith(FALSE) /\ UNCHANGED diskVars

\* The read fails with any other status.
HandshakeBreaks ==
    /\ pc = "shaking" /\ EndWith(TRUE) /\ UNCHANGED diskVars

-----------------------------------------------------------------------------
(* persist_enrollment: write_private_file of the enrolled record.          *)

PersistFails == EndWith(FALSE)

\* Mutant: the file is opened in place, without its sibling.
CreateInPlace ==
    /\ pc = "creating" /\ pc' = "writing"
    /\ cred' = Half
    /\ UNCHANGED <<tmp, unsynced, procVars, code, hubVars, boundVars>>

CreateTmp ==
    /\ pc = "creating"
    /\ \/ /\ tmp' = Half /\ pc' = "writing"
          /\ UNCHANGED <<procVars, code, hubVars, boundVars>>
       \/ UNCHANGED tmp /\ PersistFails
    /\ UNCHANGED <<cred, unsynced>>

WriteTmp ==
    /\ pc = "writing"
    /\ \/ /\ tmp' = Enrolled(reply) /\ pc' = "renaming"
          /\ UNCHANGED <<procVars, code, hubVars, boundVars>>
       \/ UNCHANGED tmp /\ PersistFails
    /\ UNCHANGED <<cred, unsynced>>

RenameTmp ==
    /\ pc = "renaming"
    /\ tmp' = Nothing
    /\ \/ /\ cred' = tmp /\ unsynced' = TRUE /\ pc' = "adopting"
          /\ UNCHANGED <<procVars, code, hubVars, boundVars>>
       \/ UNCHANGED <<cred, unsynced>> /\ PersistFails

Adopt ==
    /\ pc = "adopting" /\ Serve
    /\ mem' = Enrolled(reply) /\ reply' = NoId
    /\ UNCHANGED <<diskVars, streak, delay, stopping, code, minted, revoked, boundVars>>

-----------------------------------------------------------------------------
(* The working session, from outside.                                      *)

\* It has lived kWorkedSessionMinAge, or a hub message came in.
SessionWorks ==
    /\ pc = "working" /\ ~session.worked
    /\ session' = [session EXCEPT !.worked = TRUE]
    /\ UNCHANGED <<diskVars, pc, mem, streak, delay, stopping, code, hubVars, boundVars>>

\* Mutant: a refusal that ends a working session is retried.
SessionRejectedRetries == pc = "working" /\ EndWith(TRUE) /\ UNCHANGED diskVars

\* The stream ends, and Finish returns a status that is fatal or is not.
SessionRejected ==
    /\ pc = "working" /\ EndWith(FALSE) /\ UNCHANGED diskVars

SessionBreaks ==
    /\ pc = "working" /\ EndWith(TRUE) /\ UNCHANGED diskVars

-----------------------------------------------------------------------------
ProcessStep ==
    \/ LoopHead \/ StopAfterSession \/ GiveUp \/ Retry \/ WaitEnds
    \/ RegisterFails \/ RegisterSent \/ ReadEnrolled
    \/ CreateTmp \/ WriteTmp \/ RenameTmp \/ Adopt

HandshakeEnds == HandshakeRefused \/ HandshakeBreaks
SessionEnds == SessionRejected \/ SessionBreaks

Next ==
    \/ Respawn \/ OperatorStarts \/ Crash \/ DeviceLost \/ Stop \/ Revoke \/ SystemFlushes
    \/ HubMints \/ ProcessStep \/ HandshakeEnds \/ SessionWorks \/ SessionEnds

Spec == Init /\ [][Next]_vars

-----------------------------------------------------------------------------
(* The power fails: what was renamed into place and not flushed may be     *)
(* without its content at the next start (the file is closed, never        *)
(* synced), and the process starts again with the system.                  *)
HostCrash ==
    /\ pc \in Up /\ deaths < MaxDeaths /\ deaths' = deaths + 1
    /\ pc' = "down" /\ code' = "crash" /\ reply' = NoId
    /\ cred' \in IF unsynced THEN {cred, Half} ELSE {cred}
    /\ unsynced' = FALSE
    /\ UNCHANGED <<tmp, procVars, minted, revoked, unworked>>

PowerSpec == Init /\ [][Next \/ HostCrash]_vars

-----------------------------------------------------------------------------
(* Fairness.  The process runs; a restart that is due happens; a stopped   *)
(* session ends (Session's StopEndsSession).                               *)
ProcessRuns ==
    /\ WF_vars(ProcessStep)
    /\ WF_vars(Respawn)
    /\ WF_vars(stopping /\ SessionBreaks)

\* The hub answers or drops a handshake, registering succeeds again and
\* again, and a hub that refuses the worker gets to say so again and again.
HubResponds ==
    /\ WF_vars(HandshakeEnds)
    /\ SF_vars(RegisterSent)
    /\ SF_vars(revoked /\ HandshakeRefused)
    /\ SF_vars(revoked /\ SessionRejected)

LiveSpec == Spec /\ ProcessRuns /\ HubResponds

\* A hub that keeps the connection alive and says nothing is still a hub.
SilentHubSpec == Spec /\ ProcessRuns

-----------------------------------------------------------------------------
(* Properties.                                                             *)

\* The variables' types; in particular no wait is longer than the cap and a
\* quarter, whatever the streak (reconnect_delay).
TypeOK ==
    /\ cred \in Credentials /\ tmp \in Credentials \cup {Half, Nothing}
    /\ unsynced \in BOOLEAN
    /\ pc \in Up \cup {"down"} /\ code \in Codes
    /\ mem \in Credentials /\ streak \in 0 .. TopRung
    /\ delay \in Int /\ 4 * delay <= 5 * Cap
    /\ stopping \in BOOLEAN /\ session \in SessionResults
    /\ reply \in Ids \cup {NoId} /\ minted \subseteq Ids /\ revoked \in BOOLEAN
    /\ unworked \in 0 .. TopRung /\ deaths \in 0 .. MaxDeaths

\* At every moment, and so after a crash at any step, the credentials file is
\* the installer's or a whole enrolled record without its token, never a half
\* (write_private_file, write_credentials).
CredentialsOldOrNew ==
    cred \in {Fresh(TRUE), Fresh(FALSE)} \cup {Enrolled(i) : i \in minted}

\* The worker serves only under an identity, and one it would find again if it
\* died now: persist_enrollment comes before begin_session, and there is no
\* anonymous mode (runner.cpp:187-198, 225-229).
ServesStoredIdentity ==
    pc = "working" => mem.id # NoId /\ cred = Enrolled(mem.id)

\* Once an identity is stored it is never replaced and the hub is never asked
\* for another, through every reconnect, crash, restart and --token
\* (runner.cpp:280-282, "never re-enrolls").
IdentityIsPermanent ==
    [][cred.id # NoId => cred' = cred /\ minted' = minted]_vars

\* A wait follows what the sessions before it did: after n in a row that did
\* not work it is that of rung n at least, and after one that did it is the
\* first rung's, give or take the jitter (next_failure_streak).
LadderFollowsWork ==
    pc = "waiting" =>
        IF unworked = 0 THEN 4 * delay <= 5 * Base
                        ELSE 4 * delay + 3 >= 3 * Raw(unworked)

\* A stop ends the process ("the flag alone is enough to wake everything",
\* runner.cpp:163-170).
StopIsHonoured == stopping ~> pc = "down"

\* A worker its hub refuses for good comes to rest: no supervisor, backoff or
\* crash keeps it dialing (RestartPreventExitStatus, service_linux.cpp:121-128).
RefusedWorkerRests == <>[]revoked => <>[](pc = "down")

\* An enrolled worker that is up, or died without being asked to, serves again
\* unless it is stopped or refused.
AtRest == pc = "down" /\ code \in {"ok", "fatal"}
ReturnsToWork ==
    cred.id # NoId /\ (pc \in Up \/ code \in {"failure", "crash"})
        ~> (pc = "working" \/ AtRest)
=============================================================================
