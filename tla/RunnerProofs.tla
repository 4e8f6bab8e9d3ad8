---------------------------- MODULE RunnerProofs ----------------------------
(***************************************************************************)
(* The identity of the worker, for any set of identities and any number of *)
(* crashes, restarts, refusals and failed writes: it is stored before it   *)
(* serves, it is never replaced, and the file that holds it is whole.      *)
(***************************************************************************)
EXTENDS Runner, FiniteSetTheorems, TLAPS

\* The types the argument needs.
IdentityTypes ==
    /\ cred \in Credentials
    /\ tmp \in Credentials \cup {Half, Nothing}
    /\ mem \in Credentials
    /\ reply \in Ids \cup {NoId}
    /\ minted \subseteq Ids
    /\ pc \in Up \cup {"down"}

\* What the process remembers is what the file says, except between the rename
\* and the adoption; a handshake runs only while neither holds an identity.
MemoryMatchesFile ==
    /\ pc \in {"head", "registering", "working", "ended", "waiting"} => mem.id = cred.id
    /\ pc \in Handshake => mem.id = NoId /\ cred.id = NoId
    /\ pc = "adopting" => mem.id = NoId /\ cred = Enrolled(reply)
    /\ pc = "working" => mem.id # NoId

\* The reply in hand is an identity the hub minted, and it is what is written.
ReplyInHand ==
    /\ reply # NoId => reply \in minted
    /\ pc \in {"creating", "writing", "renaming", "adopting"} => reply # NoId
    /\ pc = "renaming" => tmp = Enrolled(reply)

IdentityInv == IdentityTypes /\ CredentialsOldOrNew /\ MemoryMatchesFile /\ ReplyInHand

\* A file that names no identity is the installer's, and an enrolled record
\* names its own.
LEMMA Records ==
    /\ \A i : Enrolled(i).id = i /\ Enrolled(i).token = FALSE
    /\ \A i \in Ids \cup {NoId} : Enrolled(i) \in Credentials
    /\ \A t \in BOOLEAN : Fresh(t).id = NoId /\ Fresh(t) \in Credentials
BY DEF Enrolled, Fresh, Credentials

\* Initially there is no identity and no process.
LEMMA IdentityInit == Init => IdentityInv
BY IdsAssumption, Records DEF Init, IdentityInv, IdentityTypes, CredentialsOldOrNew,
   MemoryMatchesFile, ReplyInHand, Up, Handshake

\* Every step keeps the invariant, and no step touches an identity that is
\* stored or mints another (one step of the proof per action).
LEMMA IdentityStep ==
    ASSUME IdentityInv, [Next]_vars
    PROVE  IdentityInv' /\ (cred.id # NoId => cred' = cred /\ minted' = minted)
<1> USE IdsAssumption, FileAssumption, Records
    DEF IdentityInv, IdentityTypes, CredentialsOldOrNew, MemoryMatchesFile, ReplyInHand,
        Up, Handshake, diskVars, procVars, hubVars, boundVars
<1>1. CASE UNCHANGED vars BY <1>1 DEF vars
<1>2. CASE Respawn \/ OperatorStarts
  <2>1. cred # Half OBVIOUS
  <2>2. \E cli \in BOOLEAN : mem' = [id |-> cred.id, token |-> cli \/ cred.token]
    BY <1>2, <2>1 DEF Respawn, OperatorStarts, Boot
  <2>3. mem' \in Credentials /\ mem'.id = cred.id BY <2>2 DEF Credentials
  <2> QED BY <1>2, <2>3 DEF Respawn, OperatorStarts, Boot
<1>3. CASE Crash \/ DeviceLost BY <1>3 DEF Crash, DeviceLost, Exit
<1>4. CASE Stop \/ Revoke \/ SystemFlushes BY <1>4 DEF Stop, Revoke, SystemFlushes
<1>5. CASE HubMints BY <1>5 DEF HubMints
<1>6. CASE LoopHead \/ StopAfterSession \/ GiveUp
  BY <1>6 DEF LoopHead, StopAfterSession, GiveUp, Exit
<1>7. CASE Retry \/ WaitEnds BY <1>7 DEF Retry, WaitEnds
<1>8. CASE RegisterFails \/ RegisterSent
  BY <1>8 DEF RegisterFails, RegisterSent, EndWith, Serve, Enrolling
<1>9. CASE ReadEnrolled BY <1>9 DEF ReadEnrolled
<1>10. CASE CreateTmp BY <1>10 DEF CreateTmp, PersistFails, EndWith
<1>11. CASE WriteTmp BY <1>11 DEF WriteTmp, PersistFails, EndWith
<1>12. CASE RenameTmp BY <1>12 DEF RenameTmp, PersistFails, EndWith
<1>13. CASE Adopt BY <1>13 DEF Adopt, Serve
<1>14. CASE HandshakeEnds
  BY <1>14 DEF HandshakeEnds, HandshakeRefused, HandshakeBreaks, EndWith
<1>15. CASE SessionWorks \/ SessionEnds
  BY <1>15 DEF SessionWorks, SessionEnds, SessionRejected, SessionBreaks, EndWith
<1> QED
  BY <1>1, <1>2, <1>3, <1>4, <1>5, <1>6, <1>7, <1>8, <1>9, <1>10, <1>11, <1>12, <1>13,
     <1>14, <1>15 DEF Next, ProcessStep

\* The inductive invariant, of every behaviour of the process and its hub.
THEOREM IdentityInvariant == Spec => []IdentityInv
<1>1. IdentityInv /\ [Next]_vars => IdentityInv' BY IdentityStep
<1> QED BY <1>1, IdentityInit, PTL DEF Spec

\* The credentials file is the installer's or a whole enrolled record at every
\* moment, whatever dies between two steps of write_private_file.
THEOREM FileIsWhole == Spec => []CredentialsOldOrNew
<1>1. IdentityInv => CredentialsOldOrNew BY DEF IdentityInv
<1> QED BY <1>1, IdentityInvariant, PTL

\* The worker serves only under the identity its file holds.
THEOREM ServesWhatItStored == Spec => []ServesStoredIdentity
<1>1. IdentityInv => ServesStoredIdentity
  <2> SUFFICES ASSUME IdentityInv, pc = "working"
               PROVE  mem.id # NoId /\ cred = Enrolled(mem.id)
    BY DEF ServesStoredIdentity
  <2>1. mem.id # NoId /\ mem.id = cred.id BY DEF IdentityInv, MemoryMatchesFile
  <2>2. PICK i \in minted : cred = Enrolled(i)
    BY <2>1, Records DEF IdentityInv, CredentialsOldOrNew
  <2> QED BY <2>1, <2>2, Records
<1> QED BY <1>1, IdentityInvariant, PTL

\* A stored identity is never replaced, and no other is ever minted for it.
THEOREM IdentityStays == Spec => IdentityIsPermanent
<1>1. IdentityInv /\ [Next]_vars => [cred.id # NoId => cred' = cred /\ minted' = minted]_vars
  BY IdentityStep
<1> QED BY <1>1, IdentityInvariant, PTL DEF Spec, IdentityIsPermanent

-----------------------------------------------------------------------------
(* The rest of the types, and the bound of every wait.                     *)

\* A wait is the cap and a quarter at the most, however long the streak
\* (reconnect_delay).
LEMMA DelayBound ==
    ASSUME NEW n \in 1 .. TopRung, NEW q \in -1 .. 1
    PROVE  Delay(n, q) \in Int /\ 4 * Delay(n, q) <= 5 * Cap
<1> USE BackoffAssumption
<1>1. Base * 2^(n - 1) \in Int OBVIOUS
<1>2. Raw(n) \in Int /\ Raw(n) <= Cap BY <1>1 DEF Raw, Least
<1>3. PICK r \in Int : r = Raw(n) /\ r <= Cap BY <1>2
<1>4. Delay(n, q) = (r * (4 + q)) \div 4 BY <1>3 DEF Delay
<1>5. q \in {-1, 0, 1} OBVIOUS
<1>6. CASE q = -1
  <2>1. Delay(n, q) = (r * 3) \div 4 BY <1>4, <1>6
  <2> QED BY <2>1, <1>3
<1>7. CASE q = 0
  <2>1. Delay(n, q) = (r * 4) \div 4 BY <1>4, <1>7
  <2> QED BY <2>1, <1>3
<1>8. CASE q = 1
  <2>1. Delay(n, q) = (r * 5) \div 4 BY <1>4, <1>8
  <2> QED BY <2>1, <1>3
<1> QED BY <1>5, <1>6, <1>7, <1>8

RunnerInv == TypeOK /\ IdentityInv

\* Initially every variable has its type.
LEMMA RunnerInit == Init => RunnerInv
<1> SUFFICES ASSUME Init PROVE RunnerInv OBVIOUS
<1>1. IdentityInv BY IdentityInit
<1>2. /\ unsynced \in BOOLEAN /\ code \in Codes /\ session \in SessionResults
      /\ stopping \in BOOLEAN /\ revoked \in BOOLEAN
  BY DEF Init, Codes, NewSession, SessionResults
<1>3. /\ streak \in 0 .. TopRung /\ delay \in Int /\ 4 * delay <= 5 * Cap
      /\ unworked \in 0 .. TopRung /\ deaths \in 0 .. MaxDeaths
  BY BackoffAssumption DEF Init
<1> QED BY <1>1, <1>2, <1>3 DEF RunnerInv, IdentityInv, IdentityTypes, TypeOK

\* Every step keeps the types (one step of the proof per action; those of the
\* files and the identity are IdentityStep's).
LEMMA RunnerStep == ASSUME RunnerInv, [Next]_vars PROVE TypeOK'
<1> USE BackoffAssumption
    DEF RunnerInv, TypeOK, Codes, NewSession, SessionResults, diskVars, procVars, hubVars,
        boundVars, Least
<1>0. IdentityTypes' BY IdentityStep DEF IdentityInv
<1>1. /\ cred' \in Credentials /\ tmp' \in Credentials \cup {Half, Nothing}
      /\ mem' \in Credentials /\ reply' \in Ids \cup {NoId} /\ minted' \subseteq Ids
      /\ pc' \in Up \cup {"down"}
  BY <1>0 DEF IdentityTypes
<1> DEFINE Rest ==
      /\ unsynced \in BOOLEAN /\ code \in Codes /\ streak \in 0 .. TopRung
      /\ delay \in Int /\ 4 * delay <= 5 * Cap
      /\ stopping \in BOOLEAN /\ session \in SessionResults
      /\ revoked \in BOOLEAN /\ unworked \in 0 .. TopRung /\ deaths \in 0 .. MaxDeaths
<1> SUFFICES Rest' BY <1>1
<1>2. CASE UNCHANGED vars BY <1>2 DEF vars
<1>3. CASE Respawn \/ OperatorStarts
  <2>1. streak' = 0 /\ delay' = 0 /\ unworked' = 0 BY <1>3 DEF Respawn, OperatorStarts, Boot
  <2>2. stopping' = FALSE /\ session' = NewSession /\ code' = code /\ revoked' = revoked
        /\ unsynced' = unsynced
    BY <1>3 DEF Respawn, OperatorStarts, Boot
  <2>3. deaths' \in 0 .. MaxDeaths BY <1>3 DEF Respawn, OperatorStarts
  <2>4. /\ unsynced' \in BOOLEAN /\ code' \in Codes /\ session' \in SessionResults
        /\ stopping' \in BOOLEAN /\ revoked' \in BOOLEAN
    BY <2>2
  <2>5. /\ streak' \in 0 .. TopRung /\ delay' \in Int /\ 4 * delay' <= 5 * Cap
        /\ unworked' \in 0 .. TopRung
    BY <2>1
  <2> QED BY <2>3, <2>4, <2>5
<1>4. CASE Crash \/ DeviceLost BY <1>4 DEF Crash, DeviceLost, Exit
<1>5. CASE Stop \/ Revoke \/ SystemFlushes BY <1>5 DEF Stop, Revoke, SystemFlushes
<1>6. CASE HubMints BY <1>6 DEF HubMints
<1>7. CASE LoopHead \/ StopAfterSession \/ GiveUp
  <2>1. CASE LoopHead
    <3>1. CASE stopping /\ Exit("ok") /\ UNCHANGED deaths BY <3>1 DEF Exit
    <3>2. CASE /\ session' = NewSession
               /\ UNCHANGED <<diskVars, mem, streak, delay, stopping, code, hubVars, boundVars>>
      <4>1. session' \in SessionResults BY <3>2
      <4>2. UNCHANGED <<unsynced, code, streak, delay, stopping, revoked, unworked, deaths>>
        BY <3>2
      <4> QED BY <4>1, <4>2
    <3> QED BY <2>1, <3>1, <3>2 DEF LoopHead
  <2>2. CASE StopAfterSession BY <2>2 DEF StopAfterSession, Exit
  <2>3. CASE GiveUp BY <2>3 DEF GiveUp, Exit
  <2> QED BY <1>7, <2>1, <2>2, <2>3
<1>8. CASE Retry
  <2>1. streak' \in 1 .. TopRung BY <1>8 DEF Retry, NextStreak
  <2>2. PICK q \in -1 .. 1 : delay' = Delay(streak', q) BY <1>8 DEF Retry
  <2>3. delay' \in Int /\ 4 * delay' <= 5 * Cap BY <2>1, <2>2, DelayBound
  <2> QED BY <1>8, <2>1, <2>3 DEF Retry
<1>9. CASE WaitEnds BY <1>9 DEF WaitEnds
<1>10. CASE RegisterFails \/ RegisterSent
  BY <1>10 DEF RegisterFails, RegisterSent, EndWith, Serve
<1>11. CASE ReadEnrolled BY <1>11 DEF ReadEnrolled
<1>12. CASE CreateTmp \/ WriteTmp \/ RenameTmp
  BY <1>12 DEF CreateTmp, WriteTmp, RenameTmp, PersistFails, EndWith
<1>13. CASE Adopt BY <1>13 DEF Adopt, Serve
<1>14. CASE HandshakeEnds
  BY <1>14 DEF HandshakeEnds, HandshakeRefused, HandshakeBreaks, EndWith
<1>15. CASE SessionWorks \/ SessionEnds
  BY <1>15 DEF SessionWorks, SessionEnds, SessionRejected, SessionBreaks, EndWith
<1> QED
  BY <1>2, <1>3, <1>4, <1>5, <1>6, <1>7, <1>8, <1>9, <1>10, <1>11, <1>12, <1>13, <1>14,
     <1>15 DEF Next, ProcessStep

\* Every variable keeps its type; no wait between two attempts is longer than the
\* cap and a quarter of it, however many failures came before.
THEOREM RunnerTypeOK == Spec => []TypeOK
<1>1. RunnerInv /\ [Next]_vars => RunnerInv' BY RunnerStep, IdentityStep DEF RunnerInv
<1>2. RunnerInv => TypeOK BY DEF RunnerInv
<1> QED BY <1>1, <1>2, RunnerInit, PTL DEF Spec

-----------------------------------------------------------------------------
(* The ladder: the rung a wait stands on is at least the number of sessions *)
(* in a row that did not work, and a higher rung is never a shorter wait.   *)

\* Powers of two grow.  (A set of n elements has 2^n subsets, and 1..n is
\* within 1..m.)
LEMMA PowersGrow ==
    ASSUME NEW m \in Nat, NEW n \in Nat, n <= m
    PROVE  2^n \in Nat /\ 2^m \in Nat /\ 2^n <= 2^m
<1> DEFINE S == 1 .. m
           T == 1 .. n
<1>1. /\ IsFiniteSet(S) /\ Cardinality(S) = m
      /\ IsFiniteSet(T) /\ Cardinality(T) = n
  <2>1. 1 \in Int /\ m \in Int /\ n \in Int OBVIOUS
  <2>2. \A k \in Nat : IF 1 > k THEN k = 0 ELSE k - 1 + 1 = k OBVIOUS
  <2> QED BY <2>1, <2>2, FS_Interval
<1>2. /\ IsFiniteSet(SUBSET S) /\ Cardinality(SUBSET S) = 2^m
      /\ IsFiniteSet(SUBSET T) /\ Cardinality(SUBSET T) = 2^n
  BY <1>1, FS_SUBSET, Zenon
<1>3. SUBSET T \subseteq SUBSET S OBVIOUS
<1>4. Cardinality(SUBSET T) <= Cardinality(SUBSET S)
  BY <1>2, <1>3, FS_Subset, Zenon
<1>5. Cardinality(SUBSET T) \in Nat /\ Cardinality(SUBSET S) \in Nat
  BY <1>2, FS_CardinalityType, Zenon
<1> QED BY <1>2, <1>4, <1>5, Zenon

LEMMA FirstPower == 2^0 = 1
<1> DEFINE none == {}
<1>1. IsFiniteSet(none) /\ Cardinality(none) = 0 BY FS_EmptySet
<1>2. Cardinality(SUBSET none) = 2^0 BY <1>1, FS_SUBSET, Zenon
<1>3. SUBSET none = {none} OBVIOUS
<1> HIDE DEF none
<1>4. Cardinality({none}) = 1 BY FS_Singleton
<1> QED BY <1>2, <1>3, <1>4, Zenon

\* A higher rung waits no less, and the first waits Base at the most.
LEMMA RungsGrow ==
    /\ \A m \in Nat \ {0} : Raw(m) \in Nat
    /\ \A m, n \in Nat \ {0} : n <= m => Raw(n) <= Raw(m)
    /\ Raw(1) <= Base
<1> USE BackoffAssumption
<1>1. ASSUME NEW m \in Nat \ {0}, NEW n \in Nat \ {0}, n <= m
      PROVE  Raw(n) \in Nat /\ Raw(n) <= Raw(m)
  <2>1. m - 1 \in Nat /\ n - 1 \in Nat /\ n - 1 <= m - 1 BY <1>1
  <2>2. PICK p \in Nat, q \in Nat : p = 2^(n - 1) /\ q = 2^(m - 1) /\ p <= q
    BY <2>1, PowersGrow, Zenon
  <2>3. Raw(n) = Least(Base * p, Cap) /\ Raw(m) = Least(Base * q, Cap)
    BY <2>2, Zenon DEF Raw
  <2>4. Base * p \in Nat /\ Base * q \in Nat /\ Base * p <= Base * q
    <3>1. PICK d \in Nat : q = p + d BY <2>2
    <3>2. Base * q = Base * p + Base * d BY <3>1
    <3>3. Base * d \in Nat /\ Base * p \in Nat BY <3>1
    <3> QED BY <3>2, <3>3
  <2> QED BY <2>3, <2>4 DEF Least
<1>2. Raw(1) <= Base
  <2>1. 1 - 1 = 0 OBVIOUS
  <2>2. Raw(1) = Least(Base * 1, Cap) BY <2>1, FirstPower, Zenon DEF Raw
  <2> QED BY <2>2 DEF Least
<1> QED BY <1>1, <1>2

\* The jitter is a quarter either way.
LEMMA DelayRange ==
    ASSUME NEW n \in Nat \ {0}, NEW q \in -1 .. 1
    PROVE  4 * Delay(n, q) <= 5 * Raw(n) /\ 4 * Delay(n, q) + 3 >= 3 * Raw(n)
           /\ Delay(n, q) \in Int
<1>1. PICK r \in Nat : r = Raw(n) BY RungsGrow
<1>2. Delay(n, q) = (r * (4 + q)) \div 4 BY <1>1 DEF Delay
<1>3. q \in {-1, 0, 1} OBVIOUS
<1>4. CASE q = -1
  <2>1. Delay(n, q) = (r * 3) \div 4 BY <1>2, <1>4
  <2> QED BY <2>1, <1>1
<1>5. CASE q = 0
  <2>1. Delay(n, q) = (r * 4) \div 4 BY <1>2, <1>5
  <2> QED BY <2>1, <1>1
<1>6. CASE q = 1
  <2>1. Delay(n, q) = (r * 5) \div 4 BY <1>2, <1>6
  <2> QED BY <2>1, <1>1
<1> QED BY <1>3, <1>4, <1>5, <1>6

\* The first rung waits Base and a quarter at the most.
LEMMA FirstRung == \A q \in -1 .. 1 : 4 * Delay(1, q) <= 5 * Base
<1> TAKE q \in -1 .. 1
<1>1. PICK r \in Nat : r = Raw(1) /\ r <= Base BY RungsGrow
<1>2. PICK d \in Int : d = Delay(1, q) /\ 4 * d <= 5 * r BY <1>1, DelayRange
<1>3. Base \in Int BY BackoffAssumption
<1> QED BY <1>1, <1>2, <1>3

LadderInv ==
    /\ TypeOK
    /\ unworked <= streak
    /\ LadderFollowsWork

\* A step other than Retry leaves a wait as it found it.
LEMMA OnlyRetryWaits ==
    ASSUME [Next]_vars, ~Retry
    PROVE  /\ UNCHANGED <<streak, unworked>> \/ (streak' = 0 /\ unworked' = 0)
           /\ pc' = "waiting" => pc = "waiting" /\ UNCHANGED <<delay, unworked>>
<1> USE DEF diskVars, procVars, hubVars, boundVars
<1>1. CASE UNCHANGED vars BY <1>1 DEF vars
<1>2. CASE Respawn \/ OperatorStarts BY <1>2 DEF Respawn, OperatorStarts, Boot
<1>3. CASE Crash \/ DeviceLost BY <1>3 DEF Crash, DeviceLost, Exit
<1>4. CASE Stop \/ Revoke \/ SystemFlushes \/ HubMints
  BY <1>4 DEF Stop, Revoke, SystemFlushes, HubMints
<1>5. CASE LoopHead \/ StopAfterSession \/ GiveUp
  BY <1>5 DEF LoopHead, StopAfterSession, GiveUp, Exit
<1>6. CASE WaitEnds BY <1>6 DEF WaitEnds
<1>7. CASE RegisterFails \/ RegisterSent BY <1>7 DEF RegisterFails, RegisterSent, EndWith, Serve
<1>8. CASE ReadEnrolled BY <1>8 DEF ReadEnrolled
<1>9. CASE CreateTmp \/ WriteTmp \/ RenameTmp
  BY <1>9 DEF CreateTmp, WriteTmp, RenameTmp, PersistFails, EndWith
<1>10. CASE Adopt BY <1>10 DEF Adopt, Serve
<1>11. CASE HandshakeEnds
  BY <1>11 DEF HandshakeEnds, HandshakeRefused, HandshakeBreaks, EndWith
<1>12. CASE SessionWorks \/ SessionEnds
  BY <1>12 DEF SessionWorks, SessionEnds, SessionRejected, SessionBreaks, EndWith
<1> QED
  BY <1>1, <1>2, <1>3, <1>4, <1>5, <1>6, <1>7, <1>8, <1>9, <1>10, <1>11, <1>12
     DEF Next, ProcessStep

LEMMA LadderStep ==
    ASSUME LadderInv, [Next]_vars
    PROVE  (unworked <= streak)' /\ LadderFollowsWork'
<1> USE BackoffAssumption DEF LadderInv
<1>1. CASE ~Retry
  BY <1>1, OnlyRetryWaits DEF LadderFollowsWork, TypeOK
<1>2. CASE Retry
  <2>1. streak \in Nat /\ unworked \in Nat BY DEF TypeOK
  <2>2. PICK q \in -1 .. 1 : delay' = Delay(streak', q) BY <1>2 DEF Retry
  <2>3. CASE Worked
    <3>1. streak' = 1 /\ unworked' = 0 BY <1>2, <2>3 DEF Retry, NextStreak
    <3>2. 4 * delay' <= 5 * Base BY <2>2, <3>1, FirstRung
    <3> QED BY <3>1, <3>2 DEF LadderFollowsWork
  <2>4. CASE ~Worked
    <3>1. streak' = Least(streak + 1, TopRung) /\ unworked' = Least(unworked + 1, TopRung)
      BY <1>2, <2>4 DEF Retry, NextStreak
    <3>2. streak' \in Nat \ {0} /\ unworked' \in Nat \ {0} /\ unworked' <= streak'
      BY <2>1, <3>1 DEF Least
    <3>3. 4 * delay' + 3 >= 3 * Raw(streak') /\ delay' \in Int
      BY <2>2, <3>2, DelayRange
    <3>4. Raw(unworked') <= Raw(streak') /\ Raw(unworked') \in Nat /\ Raw(streak') \in Nat
      BY <3>2, RungsGrow
    <3>5. 4 * delay' + 3 >= 3 * Raw(unworked') BY <3>3, <3>4
    <3>6. Raw(unworked)' = Raw(unworked') BY DEF Raw
    <3> QED BY <3>2, <3>5, <3>6 DEF LadderFollowsWork
  <2> QED BY <2>3, <2>4
<1> QED BY <1>1, <1>2

\* The wait before the next attempt never falls below the rung that the
\* sessions before it earned, and starts over after one that worked, for
\* every base, cap and length of the streak.
THEOREM WaitsFollowWork == Spec => []LadderFollowsWork
<1>1. Init => LadderInv
  <2>1. Init => TypeOK BY RunnerInit DEF RunnerInv
  <2>2. Init => pc = "down" /\ streak = 0 /\ unworked = 0 BY DEF Init
  <2> QED BY <2>1, <2>2 DEF LadderInv, LadderFollowsWork
<1>2. RunnerInv /\ LadderInv /\ [Next]_vars => RunnerInv' /\ LadderInv'
  BY RunnerStep, IdentityStep, LadderStep DEF RunnerInv, LadderInv
<1>3. LadderInv => LadderFollowsWork BY DEF LadderInv
<1> QED BY <1>1, <1>2, <1>3, RunnerInit, PTL DEF Spec
=============================================================================
