-------------------------- MODULE ModelStoreProofs --------------------------
(***************************************************************************)
(* What may stand under the final names of the models directory and in the *)
(* registry, for any models, files, URLs and objects: whole objects, bytes *)
(* of the digest asked for, and, for a loaded model, what it was loaded    *)
(* from.                                                                   *)
(***************************************************************************)
EXTENDS ModelStore, SequenceTheorems, TLAPS

\* A temporary file holds a beginning of what its URL serves or, once that was
\* replaced, of what it served or of both.
PartialsHonest ==
    \A f \in Files, u \in Urls : LET c == partial[<<f, u>>] IN
        c # Absent =>
            /\ c.len > 0
            /\ c.mark \in Versions => c.len <= Size[c.mark] /\ (c.mark # object[u] => u \in replaced)
            /\ c.mark \notin Versions => c.mark = Mixed /\ u \in replaced

\* The open transfer continues the file up to the length of what it delivers.
TransferHonest ==
    pc = "receiving" =>
        /\ serving # object[Part.url] => Part.url \in replaced
        /\ Offset <= Size[serving]
        /\ Offset = Size[serving] => partial[Key(Part)].mark \in {serving, Mixed}

\* What is about to be placed is complete.
Complete(c) == c # Absent /\ (c.mark \in Versions => Matches(c, c.mark))
DownloadComplete == pc \in {"placing", "copying"} => Complete(partial[Key(Part)])

WholeInv == PartialsHonest /\ TransferHonest /\ DownloadComplete /\ FinalIsWhole

\* The files of the load before the current one, and all of them once fetched,
\* have the digest asked for or are gone.
Asked(p, c) == c = Absent \/ p.want = NoDigest \/ Matches(c, p.want)
PartsReady ==
    /\ pc \notin {"idle", "fetched", "loading"} =>
          \A j \in 1 .. idx - 1 : Parts[cur][j].file # Part.file =>
              Asked(Parts[cur][j], final[Parts[cur][j].file])
    /\ pc = "fetched" =>
          \A j \in DOMAIN Parts[cur] : Asked(Parts[cur][j], final[Parts[cur][j].file])

\* What was opened has every file of the model, with its digest.
OfModel(m, contents) ==
    /\ DOMAIN contents = DOMAIN Parts[m]
    /\ \A i \in DOMAIN contents :
          contents[i] # Absent /\ Asked(Parts[m][i], contents[i])
OpenedOfModel == pc = "loading" => OfModel(cur, opened)
LoadedOfModel == \A m \in Models : loaded[m] # <<>> => OfModel(m, loaded[m])

DigestInv == PartsReady /\ OpenedOfModel /\ LoadedOfModel

\* A delete under way names no file of a model that is loaded and not exposed,
\* nor of the current load unless that counts as overlapped.
DeletesSpare ==
    /\ \A m \in Models \ exposed : loaded[m] # <<>> => deleting \cap FilesOf(m) = {}
    /\ pc # "idle" /\ ~overlapped => deleting \cap FilesOf(cur) = {}

\* While a file is downloaded no loaded model relies on its name.
Downloading == {"attempt", "receiving", "placing", "copying", "verify"}
DownloadsAlone ==
    pc \in Downloading =>
        \A m \in Models : loaded[m] # <<>> /\ Part.file \in FilesOf(m) => m \in exposed

\* What was opened is still there.
OpenedStays ==
    pc = "loading" /\ ~overlapped =>
        \A i \in DOMAIN opened : final[Parts[cur][i].file] = opened[i]

StayInv == DeletesSpare /\ DownloadsAlone /\ OpenedStays /\ LoadedFilesStay

StoreInv == TypeOK /\ WholeInv /\ DigestInv /\ StayInv

-----------------------------------------------------------------------------
(* The file the load is at.                                                *)

LEMMA SeqFacts ==
    ASSUME NEW S, NEW s \in Seq(S)
    PROVE  Len(s) \in Nat /\ DOMAIN s = 1 .. Len(s) /\ \A i \in DOMAIN s : s[i] \in S
  BY LenProperties, ElementOfSeq

PartType == [file : Files, url : Urls, want : Versions \cup {NoDigest}]

LEMMA PartFacts ==
    ASSUME TypeOK, pc # "idle"
    PROVE  /\ cur \in Models /\ idx \in DOMAIN Parts[cur] /\ idx \in Nat
           /\ Len(Parts[cur]) \in Nat /\ DOMAIN Parts[cur] = 1 .. Len(Parts[cur])
           /\ Part \in PartType
           /\ Part \in AllParts /\ Part.file \in Files /\ Part.url \in Urls
           /\ Part.file \in FilesOf(cur) /\ Key(Part) \in Files \X Urls
           /\ partial[Key(Part)] \in Contents /\ Offset \in Nat
           /\ final[Part.file] \in Contents
           /\ object[Part.url] \in Versions /\ Size[object[Part.url]] \in Nat \ {0}
  <1>1. cur \in Models /\ idx \in DOMAIN Parts[cur]
    BY DEF TypeOK
  <1>2. Parts[cur] \in Seq(PartType)
    BY <1>1, PartsAssumption DEF PartType
  <1>3. Len(Parts[cur]) \in Nat /\ DOMAIN Parts[cur] = 1 .. Len(Parts[cur]) /\ Part \in PartType
    BY <1>1, <1>2, SeqFacts DEF Part
  <1>4. Part \in Range(Parts[cur])
    BY <1>1 DEF Part, Range
  <1>5. Part \in AllParts /\ Part.file \in FilesOf(cur)
    BY <1>1, <1>4 DEF AllParts, FilesOf
  <1>6. Part.file \in Files /\ Part.url \in Urls /\ Key(Part) \in Files \X Urls
    BY <1>3 DEF Key, PartType
  <1>7. partial[Key(Part)] \in Contents /\ final[Part.file] \in Contents
        /\ object[Part.url] \in Versions
    BY <1>6 DEF TypeOK
  <1>8. Offset \in Nat
    BY <1>7 DEF Offset, Contents
  <1>9. Size[object[Part.url]] \in Nat \ {0}
    BY <1>7, SizeAssumption
  <1> QED
    BY <1>1, <1>3, <1>5, <1>6, <1>7, <1>8, <1>9

LEMMA AbsentType == Absent \in Contents
  BY DEF Absent, Contents

\* Every file name of a model is one of the names.
LEMMA FilesOfType == ASSUME NEW m \in Models PROVE FilesOf(m) \subseteq Files
  <1>1. Parts[m] \in Seq(PartType)
    BY PartsAssumption DEF PartType
  <1>2. \A i \in DOMAIN Parts[m] : Parts[m][i] \in PartType
    BY <1>1, SeqFacts
  <1> QED
    BY <1>2 DEF FilesOf, Range, PartType

-----------------------------------------------------------------------------
(* Types.                                                                  *)

\* The disk and the registry, apart from the load.
StoreTypes ==
    /\ final \in [Files -> Contents] /\ partial \in [Files \X Urls -> Contents]
    /\ loaded \in [Models -> Seq(Contents)] /\ deleting \subseteq Files
    /\ object \in [Urls -> Versions]
    /\ replaced \subseteq Urls /\ cut \subseteq Files /\ exposed \subseteq Models

LoadTypes ==
    /\ pc \in Places /\ (pc = "idle") = (cur = NoModel)
    /\ pc # "idle" => cur \in Models /\ idx \in DOMAIN Parts[cur]
    /\ pass \in 0 .. DigestAttempts - 1 /\ attempt \in 0 .. MaxRetries - 1
    /\ serving \in Versions \cup {NoVersion} /\ (pc = "receiving" => serving \in Versions)
    /\ opened \in Seq(Contents) /\ halt \in {"no", "cancel", "abandon"}
    /\ overlapped \in BOOLEAN

LEMMA TypesAre == (TypeOK <=> StoreTypes /\ LoadTypes) /\ (TypeOK' <=> StoreTypes' /\ LoadTypes')
  BY DEF TypeOK, StoreTypes, LoadTypes

LEMMA EndLoadTypes == EndLoad => LoadTypes'
  <1> HAVE EndLoad
  <1>1. <<>> \in Seq(Contents)
    BY EmptySeq
  <1>2. pc' \in Places /\ (pc' = "idle") = (cur' = NoModel) /\ pc' # "receiving"
    BY DEF EndLoad, Places
  <1>3. pass' \in 0 .. DigestAttempts - 1 /\ attempt' \in 0 .. MaxRetries - 1
    BY DEF EndLoad, DigestAttempts, MaxRetries
  <1>4. serving' \in Versions \cup {NoVersion} /\ halt' \in {"no", "cancel", "abandon"}
    BY DEF EndLoad
  <1>5. opened' \in Seq(Contents) /\ overlapped' \in BOOLEAN
    BY <1>1 DEF EndLoad
  <1> QED
    BY <1>2, <1>3, <1>4, <1>5 DEF EndLoad, LoadTypes

LEMMA AttemptFailsTypes ==
    ASSUME TypeOK, pc # "idle", NEW discard \in BOOLEAN, NEW terminal \in BOOLEAN,
           AttemptFails(discard, terminal)
    PROVE  TypeOK'
  <1>1. StoreTypes'
    BY PartFacts, AbsentType, TypesAre DEF AttemptFails, StoreTypes
  <1>2. LoadTypes'
    <2>1. CASE EndLoad
      BY <2>1, EndLoadTypes
    <2>2. CASE ~EndLoad
      BY <2>2, TypesAre DEF AttemptFails, GoTo, LoadTypes, Places, MaxRetries
    <2> QED
      BY <2>1, <2>2
  <1> QED
    BY <1>1, <1>2, TypesAre

LEMMA PartReadyTypes == ASSUME TypeOK, pc # "idle", PartReady PROVE LoadTypes'
  BY PartFacts, TypesAre DEF PartReady, GoTo, LoadTypes, Places, DigestAttempts, MaxRetries

LEMMA TypeInit == Init => TypeOK
  <1> HAVE Init
  <1>1. <<>> \in Seq(Contents)
    BY EmptySeq
  <1>2. final \in [Files -> Contents] /\ partial \in [Files \X Urls -> Contents]
    BY AbsentType DEF Init
  <1>3. pc \in Places /\ (pc = "idle") = (cur = NoModel) /\ pc # "receiving" /\ pc = "idle"
    BY DEF Init, Places
  <1>4. pass \in 0 .. DigestAttempts - 1 /\ attempt \in 0 .. MaxRetries - 1
    BY DEF Init, DigestAttempts, MaxRetries
  <1>5. /\ serving \in Versions \cup {NoVersion} /\ halt \in {"no", "cancel", "abandon"}
        /\ replaced \subseteq Urls /\ cut \subseteq Files
        /\ overlapped \in BOOLEAN /\ exposed \subseteq Models /\ deleting \subseteq Files
    BY DEF Init
  <1>6. opened \in Seq(Contents) /\ loaded \in [Models -> Seq(Contents)]
    BY <1>1 DEF Init
  <1>7. object \in [Urls -> Versions]
    BY DEF Init
  <1> QED
    BY <1>2, <1>3, <1>4, <1>5, <1>6, <1>7 DEF TypeOK

LEMMA LoadStepTypes == ASSUME TypeOK, PartialsHonest, DownloadComplete, LoadStep PROVE TypeOK'
  <1>1. pc # "idle"
    BY DEF LoadStep, Reuse, Fetch, LookupFails, RequestFails, TransferBegins, RangeRefused,
           Unconfirmed, Chunk, TransferFails, TransferEnds, Rename, CopyBegins, CopyEnds,
           CopyFails, Verified, Mismatch, VerifyFails, NothingToLoad, OpenModel, LoadFails,
           Register
  <1> USE <1>1, TypesAre
  <1>2. CASE Reuse \/ Verified
    BY <1>2, PartReadyTypes DEF Reuse, Verified, StoreTypes, diskVars
  <1>3. CASE Fetch \/ Mismatch
    <2>1. StoreTypes'
      BY <1>3, PartFacts, AbsentType DEF Fetch, Mismatch, RemoveFinal, StoreTypes
    <2>2. LoadTypes'
      <3>1. CASE Fetch
        BY <3>1 DEF Fetch, GoTo, LoadTypes, Places
      <3>2. CASE Mismatch /\ EndLoad
        BY <3>2, EndLoadTypes
      <3>3. CASE Mismatch /\ ~EndLoad
        BY <3>3 DEF Mismatch, GoTo, LoadTypes, Places, DigestAttempts, MaxRetries
      <3> QED
        BY <1>3, <3>1, <3>2, <3>3
    <2> QED
      BY <2>1, <2>2
  <1>4. CASE LookupFails \/ VerifyFails \/ NothingToLoad \/ LoadFails
    BY <1>4, EndLoadTypes
       DEF LookupFails, VerifyFails, NothingToLoad, LoadFails, StoreTypes, diskVars
  <1>5. CASE RequestFails \/ RangeRefused \/ Unconfirmed \/ TransferFails
    BY <1>5, AttemptFailsTypes DEF RequestFails, RangeRefused, Unconfirmed, TransferFails
  <1>6. CASE TransferBegins \/ TransferEnds
    BY <1>6, PartFacts
       DEF TransferBegins, TransferEnds, GoTo, StoreTypes, LoadTypes, Places, MaxRetries, diskVars
  <1>7. CASE Chunk
    <2>1. serving \in Versions
      BY <1>7 DEF Chunk, LoadTypes
    <2>2. Extended(partial[Key(Part)], serving) \in Contents
      BY <2>1, PartFacts DEF Extended, Contents
    <2> QED
      BY <1>7, <2>2, PartFacts DEF Chunk, StoreTypes, LoadTypes, loadVars, historyVars
  <1>8. CASE Rename \/ CopyBegins \/ CopyEnds
    <2>1. CopyBegins => [mark |-> partial[Key(Part)].mark, len |-> Offset - 1] \in Contents
      <3>1. CopyBegins => partial[<<Part.file, Part.url>>] # Absent
        BY DEF CopyBegins, DownloadComplete, Complete, Key
      <3>2. CopyBegins => Offset > 0
        BY <3>1, PartFacts DEF PartialsHonest, Offset, Key
      <3> QED
        BY PartFacts, <3>2 DEF Contents
    <2> QED
      BY <1>8, <2>1, PartFacts, AbsentType
         DEF Rename, CopyBegins, CopyEnds, GoTo, StoreTypes, LoadTypes, Places
  <1>9. CASE CopyFails
    BY <1>9, EndLoadTypes, PartFacts, AbsentType DEF CopyFails, StoreTypes
  <1>10. CASE OpenModel
    <2>1. \A i \in DOMAIN Parts[cur] : final[Parts[cur][i].file] \in Contents
      <3>1. \A i \in DOMAIN Parts[cur] : Parts[cur][i].file \in FilesOf(cur)
        BY DEF FilesOf, Range
      <3> QED
        BY <3>1, PartFacts, FilesOfType DEF StoreTypes
    <2>2. opened' \in [1 .. Len(Parts[cur]) -> Contents]
      BY <1>10, <2>1, PartFacts DEF OpenModel
    <2>3. opened' \in Seq(Contents)
      BY <2>2, PartFacts, SeqDef
    <2> QED
      BY <1>10, <2>3 DEF OpenModel, StoreTypes, LoadTypes, Places, diskVars, historyVars
  <1>11. CASE Register
    BY <1>11, EndLoadTypes, PartFacts DEF Register, StoreTypes, LoadTypes, diskVars
  <1> QED
    BY <1>2, <1>3, <1>4, <1>5, <1>6, <1>7, <1>8, <1>9, <1>10, <1>11 DEF LoadStep

LEMMA TypeStep == ASSUME TypeOK, PartialsHonest, DownloadComplete, [Next]_vars PROVE TypeOK'
  <1> USE TypesAre
  <1>1. CASE LoadStep
    BY <1>1, LoadStepTypes
  <1>2. ASSUME NEW m \in Models, StartLoad(m) PROVE TypeOK'
    <2>1. 1 \in DOMAIN Parts[m]
      <3>1. Parts[m] \in Seq(PartType) /\ Parts[m] # <<>>
        BY PartsAssumption DEF PartType
      <3> QED
        BY <3>1, EmptySeq, SeqFacts
    <2>2. m # NoModel
      BY MarkAssumption
    <2> QED
      BY <1>2, <2>1, <2>2 DEF StartLoad, StoreTypes, LoadTypes, Places, diskVars
  <1>3. ASSUME NEW m \in Models, Unload(m) PROVE TypeOK'
    <2>1. <<>> \in Seq(Contents)
      BY EmptySeq
    <2> QED
      BY <1>3, <2>1 DEF Unload, StoreTypes, LoadTypes, diskVars, loadVars
  <1>4. ASSUME NEW names \in SUBSET Files, DeleteCacheFiles(names) PROVE TypeOK'
    BY <1>4 DEF DeleteCacheFiles, StoreTypes, LoadTypes, diskVars, loadVars
  <1>5. ASSUME NEW f \in Files, DeleteOne(f) PROVE TypeOK'
    BY <1>5, AbsentType DEF DeleteOne, StoreTypes, LoadTypes, loadVars
  <1>6. CASE Crash
    <2>1. <<>> \in Seq(Contents)
      BY EmptySeq
    <2> QED
      BY <1>6, <2>1, EndLoadTypes, AbsentType DEF Crash, Swept, StoreTypes
  <1>7. ASSUME NEW why \in {"cancel", "abandon"}, Halt(why) PROVE TypeOK'
    BY <1>7 DEF Halt, StoreTypes, LoadTypes, diskVars, historyVars
  <1>8. ASSUME NEW u \in Urls, Replace(u) PROVE TypeOK'
    BY <1>8, SizeAssumption DEF Replace, StoreTypes, LoadTypes, diskVars, loadVars
  <1>9. CASE UNCHANGED vars
    BY <1>9 DEF vars, diskVars, loadVars, historyVars, StoreTypes, LoadTypes
  <1> QED
    BY <1>1, <1>2, <1>3, <1>4, <1>5, <1>6, <1>7, <1>8, <1>9 DEF Next, ReceiveStep

-----------------------------------------------------------------------------
(* Whole files.                                                            *)

OriginsStay == object' = object /\ replaced' = replaced

\* The only steps that touch an origin or a temporary file.
LEMMA PartialSteps ==
    ASSUME [Next]_vars
    PROVE  \/ OriginsStay /\ partial' = partial
           \/ OriginsStay /\ pc # "idle" /\ partial' = [partial EXCEPT ![Key(Part)] = Absent]
           \/ Chunk
           \/ OriginsStay /\ partial' = Swept
           \/ \E u \in Urls : Replace(u)
  <1>1. CASE LoadStep
    BY <1>1
    DEF LoadStep, Reuse, Fetch, LookupFails, RequestFails, TransferBegins, RangeRefused,
        Unconfirmed, TransferFails, TransferEnds, Rename, CopyBegins, CopyEnds, CopyFails,
        Verified, Mismatch, VerifyFails, NothingToLoad, OpenModel, LoadFails, Register,
        AttemptFails, OriginsStay, diskVars, historyVars
  <1>2. CASE ~LoadStep
    BY <1>2 DEF Next, ReceiveStep, StartLoad, Unload, DeleteCacheFiles, DeleteOne, Halt, Crash,
        OriginsStay, vars, diskVars, historyVars
  <1> QED
    BY <1>1, <1>2

LEMMA PartialsStep ==
    ASSUME TypeOK, PartialsHonest, TransferHonest, [Next]_vars
    PROVE  PartialsHonest'
  <1>1. CASE OriginsStay /\ partial' = partial
    BY <1>1 DEF OriginsStay, PartialsHonest
  <1>2. CASE /\ OriginsStay /\ pc # "idle" /\ partial' = [partial EXCEPT ![Key(Part)] = Absent]
    BY <1>2, PartFacts DEF OriginsStay, PartialsHonest, TypeOK
  <1>3. CASE Chunk
    <2> DEFINE k == Key(Part)  c == partial[k]  url == Part.url
    <2>1. /\ k = <<Part.file, url>> /\ k \in Files \X Urls /\ Part.file \in Files /\ url \in Urls
          /\ c \in Contents /\ c.len \in Nat /\ c.len < Size[serving]
          /\ serving \in Versions /\ Size[serving] \in Nat
          /\ serving # object[url] => url \in replaced
      BY <1>3, PartFacts, SizeAssumption DEF Chunk, Key, Offset, Contents, TypeOK, TransferHonest
    <2>2. c # Absent => /\ c.mark \in Versions => (c.mark # object[url] => url \in replaced)
                        /\ c.mark \notin Versions => url \in replaced
      BY <2>1 DEF PartialsHonest
    <2>3. partial'[k] = Extended(c, serving) /\ partial' = [partial EXCEPT ![k] = Extended(c, serving)]
      BY <1>3, <2>1 DEF Chunk, TypeOK
    <2>4. OriginsStay
      BY <1>3 DEF Chunk, OriginsStay, historyVars
    <2>5. /\ Extended(c, serving).len = c.len + 1
          /\ \/ Extended(c, serving).mark = serving
             \/ Extended(c, serving).mark = Mixed /\ url \in replaced
      BY <2>1, <2>2 DEF Extended
    <2>6. Mixed \notin Versions
      BY MarkAssumption
    <2> HIDE DEF k, c, url
    <2> QED
      BY <2>1, <2>3, <2>4, <2>5, <2>6 DEF PartialsHonest, OriginsStay, TypeOK
  <1>4. CASE OriginsStay /\ partial' = Swept
    BY <1>4 DEF Swept, PartialsHonest
  <1>5. ASSUME NEW v \in Urls, Replace(v) PROVE PartialsHonest'
    BY <1>5 DEF Replace, PartialsHonest, TypeOK, diskVars
  <1> QED
    BY <1>1, <1>2, <1>3, <1>4, <1>5, PartialSteps

\* The load does not move.
LoadStays == UNCHANGED <<pc, cur, idx, serving, opened>>

\* Where the load is after a step, and what it did to get there.
LEMMA PlaceSteps ==
    ASSUME [Next]_vars
    PROVE  \/ LoadStays /\ partial' = partial
           \/ LoadStays /\ Chunk
           \/ pc' \in {"idle", "lookup", "attempt", "verify", "fetched", "loading"}
           \/ TransferBegins \/ TransferEnds \/ CopyBegins
  <1>1. CASE LoadStep
    BY <1>1
    DEF LoadStep, Reuse, Fetch, LookupFails, RequestFails, RangeRefused, Unconfirmed, Chunk,
        TransferFails, Rename, CopyEnds, CopyFails, Verified, Mismatch, VerifyFails,
        NothingToLoad, OpenModel, LoadFails, Register, AttemptFails, PartReady, EndLoad, GoTo,
        LoadStays, loadVars
  <1>2. CASE ~LoadStep
    BY <1>2 DEF Next, ReceiveStep, StartLoad, Unload, DeleteCacheFiles, DeleteOne, Halt, Crash,
        Replace, EndLoad, LoadStays, vars, diskVars, loadVars
  <1> QED
    BY <1>1, <1>2

LEMMA TransferStep ==
    ASSUME TypeOK, TransferHonest, [Next]_vars
    PROVE  TransferHonest'
  <1>1. CASE LoadStays /\ partial' = partial /\ pc = "receiving"
    <2>1. UNCHANGED <<Part, Offset, partial>> /\ Key(Part)' = Key(Part)
      BY <1>1 DEF LoadStays, Part, Offset, Key
    <2>2. \/ OriginsStay
          \/ \E u \in Urls : Replace(u)
      BY PartialSteps DEF Chunk, OriginsStay, historyVars
    <2>3. CASE OriginsStay
      BY <1>1, <2>1, <2>3 DEF LoadStays, OriginsStay, TransferHonest
    <2>4. ASSUME NEW u \in Urls, Replace(u) PROVE TransferHonest'
      <3>1. Part.url \in Urls
        BY <1>1, PartFacts
      <3> QED
        BY <1>1, <2>1, <2>4, <3>1 DEF LoadStays, Replace, TransferHonest, TypeOK
    <2> QED
      BY <2>2, <2>3, <2>4
  <1>2. CASE LoadStays /\ Chunk
    <2> DEFINE k == Key(Part)  c == partial[k]
    <2>1. /\ pc = "receiving" /\ k \in Files \X Urls /\ c.len \in Nat /\ c.len < Size[serving]
          /\ Size[serving] \in Nat
      BY <1>2, PartFacts, SizeAssumption DEF Chunk, Offset, TypeOK
    <2>2. partial'[k] = Extended(c, serving)
      BY <1>2, <2>1 DEF Chunk, TypeOK
    <2>4. k' = k /\ UNCHANGED <<Part, object, replaced, serving, pc>>
      BY <1>2 DEF LoadStays, Part, Key, Chunk, historyVars
    <2>5. Offset' = c.len + 1 /\ partial'[k].mark \in {serving, Mixed}
      BY <2>2, <2>4 DEF Offset, Extended
    <2> QED
      BY <2>1, <2>4, <2>5 DEF TransferHonest
  <1>3. CASE pc' # "receiving"
    BY <1>3 DEF TransferHonest
  <1>4. CASE TransferBegins
    <2>1. /\ UNCHANGED <<Part, object, partial, Offset>> /\ Key(Part)' = Key(Part)
      BY <1>4 DEF TransferBegins, GoTo, Part, Offset, Key, diskVars
    <2>2. serving' = object[Part.url] /\ Offset < Size[serving'] /\ Offset \in Nat /\ Size[serving'] \in Nat
      BY <1>4, PartFacts DEF TransferBegins
    <2> QED
      BY <2>1, <2>2 DEF TransferHonest
  <1> QED
    BY <1>1, <1>2, <1>3, <1>4, PlaceSteps DEF LoadStays, TransferEnds, CopyBegins, GoTo

LEMMA DownloadStep ==
    ASSUME TypeOK, PartialsHonest, TransferHonest, DownloadComplete, [Next]_vars
    PROVE  DownloadComplete'
  <1>1. CASE pc' \notin {"placing", "copying"}
    BY <1>1 DEF DownloadComplete
  <1>2. CASE LoadStays /\ partial' = partial
    BY <1>2 DEF LoadStays, DownloadComplete, Part, Key
  <1>3. CASE TransferEnds
    <2> DEFINE k == Key(Part)  c == partial[k]
    <2>1. /\ k = <<Part.file, Part.url>> /\ Part.file \in Files /\ Part.url \in Urls
          /\ c \in Contents /\ serving \in Versions /\ c.len = Size[serving]
          /\ c.mark \in {serving, Mixed}
      BY <1>3, PartFacts DEF TransferEnds, TransferHonest, Offset, TypeOK, Key
    <2>2. Complete(c)
      BY <2>1, MarkAssumption DEF Complete, Matches, Absent
    <2>3. Key(Part)' = k /\ partial' = partial
      BY <1>3 DEF TransferEnds, GoTo, Part, Key, diskVars
    <2> QED
      BY <2>2, <2>3 DEF DownloadComplete
  <1>4. CASE CopyBegins
    BY <1>4 DEF CopyBegins, GoTo, DownloadComplete, Part, Key
  <1> QED
    BY <1>1, <1>2, <1>3, <1>4, PlaceSteps DEF Chunk, LoadStays, TransferBegins, GoTo

\* The only steps that touch a final name.
LEMMA FinalSteps ==
    ASSUME TypeOK, [Next]_vars
    PROVE  \/ final' = final /\ cut' = cut
           \/ \E f \in Files : final' = [final EXCEPT ![f] = Absent] /\ cut' = cut \ {f}
           \/ Rename \/ CopyBegins \/ CopyEnds
  <1>1. CASE LoadStep
    BY <1>1, PartFacts
    DEF LoadStep, Reuse, Fetch, LookupFails, RequestFails, TransferBegins, RangeRefused,
        Unconfirmed, Chunk, TransferFails, TransferEnds, CopyFails, Verified, Mismatch,
        VerifyFails, NothingToLoad, OpenModel, LoadFails, Register, AttemptFails, RemoveFinal,
        diskVars, historyVars
  <1>2. CASE ~LoadStep
    BY <1>2 DEF Next, ReceiveStep, StartLoad, Unload, DeleteCacheFiles, DeleteOne, Halt, Crash,
        Replace, vars, diskVars, historyVars
  <1> QED
    BY <1>1, <1>2

LEMMA FinalStep ==
    ASSUME TypeOK, PartialsHonest, DownloadComplete, FinalIsWhole, [Next]_vars
    PROVE  FinalIsWhole'
  <1>1. replaced \subseteq replaced'
    BY PartialSteps DEF OriginsStay, Chunk, Replace, historyVars
  <1>2. CASE final' = final /\ cut' = cut
    BY <1>1, <1>2 DEF FinalIsWhole
  <1>3. ASSUME NEW f \in Files, final' = [final EXCEPT ![f] = Absent], cut' = cut \ {f}
        PROVE  FinalIsWhole'
    BY <1>1, <1>3 DEF FinalIsWhole, TypeOK
  <1>4. CASE Rename \/ CopyBegins \/ CopyEnds
    <2> DEFINE c == partial[Key(Part)]
    <2>1. /\ pc \in {"placing", "copying"} /\ Key(Part) = <<Part.file, Part.url>>
          /\ Part \in AllParts /\ Part.file \in Files /\ Part.url \in Urls
      BY <1>4, PartFacts DEF Rename, CopyBegins, CopyEnds, Key
    <2>2. Complete(c)
      BY <2>1 DEF DownloadComplete
    <2>3. c.mark \notin Versions => c.mark = Mixed /\ Part.url \in replaced
      BY <2>1, <2>2 DEF PartialsHonest, Complete
    <2>4. c.mark = Mixed => Part.url \in replaced'
      BY <1>1, <2>3, MarkAssumption
    <2>5. c.mark # Mixed => Matches(c, c.mark)
      BY <2>2, <2>3 DEF Complete
    <2>6. \A f \in Files : f \notin cut' =>
              \/ f \notin cut /\ final'[f] = final[f]
              \/ f = Part.file /\ final'[f] \in {c, Absent}
      BY <1>4, <2>1 DEF Rename, CopyBegins, CopyEnds, TypeOK
    <2> HIDE DEF c
    <2> QED
      BY <1>1, <2>1, <2>4, <2>5, <2>6 DEF FinalIsWhole
  <1> QED
    BY <1>2, <1>3, <1>4, FinalSteps

-----------------------------------------------------------------------------
(* Digests.                                                                *)

\* A name is left alone, removed, or is the one being downloaded.
FinalKept == \A f \in Files : final'[f] \in {final[f], Absent}
FinalKeptButPart == \A f \in Files : f # Part.file => final'[f] \in {final[f], Absent}

LEMMA FinalsKept ==
    ASSUME TypeOK, [Next]_vars
    PROVE  FinalKept \/ Rename \/ CopyBegins \/ CopyEnds
  BY FinalSteps DEF FinalKept, TypeOK

\* The files of a model, and that a digest asked for and gone is still asked for.
LEMMA AskedKept ==
    ASSUME NEW m \in Models, NEW j \in DOMAIN Parts[m], NEW c, NEW d \in {c, Absent},
           Asked(Parts[m][j], c)
    PROVE  Asked(Parts[m][j], d)
  BY DEF Asked

LEMMA PartFile == ASSUME NEW m \in Models, NEW j \in DOMAIN Parts[m]
                  PROVE  Parts[m][j].file \in Files /\ Parts[m][j].file \in FilesOf(m)
  BY FilesOfType DEF FilesOf, Range

\* When the file at hand is as asked, so are all up to it: one digest a name.
LEMMA ReadyUpTo ==
    ASSUME TypeOK, PartsReady, pc \in {"lookup", "verify"}, Asked(Part, final[Part.file])
    PROVE  \A j \in 1 .. idx : Asked(Parts[cur][j], final[Parts[cur][j].file])
  <1> SUFFICES ASSUME NEW j \in 1 .. idx
               PROVE  Asked(Parts[cur][j], final[Parts[cur][j].file])
    OBVIOUS
  <1>1. cur \in Models /\ idx \in DOMAIN Parts[cur] /\ idx \in Nat /\ j \in DOMAIN Parts[cur]
    BY PartFacts
  <1>2. CASE Parts[cur][j].file = Part.file
    <2>1. Parts[cur][j].want = Part.want
      BY <1>1, <1>2, NamesAssumption DEF Part
    <2> QED
      BY <1>2, <2>1 DEF Asked
  <1>3. CASE Parts[cur][j].file # Part.file
    <2>1. j # idx
      BY <1>3 DEF Part
    <2> QED
      BY <1>1, <1>3, <2>1 DEF PartsReady
  <1> QED
    BY <1>2, <1>3

\* How a load goes on: in place, with the next file, or not at all.
LEMMA LoadMoves ==
    ASSUME [Next]_vars
    PROVE  \/ pc' = "idle"
           \/ \E m \in Models : StartLoad(m)
           \/ Reuse \/ Verified
           \/ OpenModel
           \/ /\ pc \notin {"idle", "fetched", "loading"}
              /\ pc' \notin {"idle", "fetched", "loading"}
              /\ UNCHANGED <<cur, idx>>
           \/ pc \in {"fetched", "loading"} /\ UNCHANGED <<pc, cur, idx, opened>>
  <1>1. CASE LoadStep
    BY <1>1
    DEF LoadStep, Fetch, LookupFails, RequestFails, TransferBegins, RangeRefused, Unconfirmed,
        Chunk, TransferFails, TransferEnds, Rename, CopyBegins, CopyEnds, CopyFails, Mismatch,
        VerifyFails, NothingToLoad, LoadFails, Register, AttemptFails, EndLoad, GoTo, loadVars
  <1>2. CASE ~LoadStep
    BY <1>2 DEF Next, ReceiveStep, Unload, DeleteCacheFiles, DeleteOne, Halt, Crash, Replace,
        EndLoad, vars, loadVars
  <1> QED
    BY <1>1, <1>2

LEMMA ReadyStep ==
    ASSUME TypeOK, PartsReady, [Next]_vars
    PROVE  PartsReady'
  <1>1. CASE pc' = "idle" \/ OpenModel
    BY <1>1 DEF PartsReady, OpenModel
  <1>2. ASSUME NEW m \in Models, StartLoad(m) PROVE PartsReady'
    <2>1. idx' = 1 /\ pc' = "lookup"
      BY <1>2 DEF StartLoad
    <2> QED
      BY <2>1 DEF PartsReady
  <1>3. CASE Reuse \/ Verified
    <2>1. /\ pc \in {"lookup", "verify"} /\ Asked(Part, final[Part.file]) /\ PartReady
          /\ final' = final
      BY <1>3 DEF Reuse, Verified, Asked, diskVars
    <2>2. /\ cur' = cur /\ idx \in Nat /\ DOMAIN Parts[cur] = 1 .. Len(Parts[cur])
          /\ Len(Parts[cur]) \in Nat /\ idx \in DOMAIN Parts[cur]
          /\ \/ pc' = "lookup" /\ idx' = idx + 1
             \/ pc' = "fetched" /\ idx' = idx /\ idx = Len(Parts[cur])
      BY <2>1, PartFacts DEF PartReady, GoTo
    <2>3. \A j \in 1 .. idx : Asked(Parts[cur][j], final[Parts[cur][j].file])
      BY <2>1, ReadyUpTo
    <2>4. /\ pc' = "lookup" => \A j \in 1 .. idx' - 1 : Asked(Parts[cur][j], final[Parts[cur][j].file])
          /\ pc' = "fetched" => \A j \in DOMAIN Parts[cur] : Asked(Parts[cur][j], final[Parts[cur][j].file])
      BY <2>2, <2>3
    <2> QED
      BY <2>1, <2>2, <2>4 DEF PartsReady
  <1>4. CASE /\ pc \notin {"idle", "fetched", "loading"} /\ pc' \notin {"idle", "fetched", "loading"}
             /\ UNCHANGED <<cur, idx>>
    <2>1. Part' = Part
      BY <1>4 DEF Part
    <2>2. FinalKeptButPart
      BY FinalsKept DEF FinalKept, FinalKeptButPart, Rename, CopyBegins, CopyEnds, TypeOK
    <2>3. ASSUME NEW j \in 1 .. idx - 1, Parts[cur][j].file # Part.file
          PROVE  Asked(Parts[cur][j], final'[Parts[cur][j].file])
      <3>1. cur \in Models /\ j \in DOMAIN Parts[cur]
        BY <1>4, PartFacts
      <3>2. final'[Parts[cur][j].file] \in {final[Parts[cur][j].file], Absent}
        BY <2>2, <2>3, <3>1, PartFile DEF FinalKeptButPart
      <3>3. Asked(Parts[cur][j], final[Parts[cur][j].file])
        BY <1>4, <2>3 DEF PartsReady
      <3> QED
        BY <3>1, <3>2, <3>3, AskedKept
    <2> QED
      BY <1>4, <2>1, <2>3 DEF PartsReady
  <1>5. CASE pc \in {"fetched", "loading"} /\ UNCHANGED <<pc, cur, idx, opened>>
    <2>1. FinalKept
      BY <1>5, FinalsKept DEF Rename, CopyBegins, CopyEnds
    <2>2. ASSUME pc = "fetched", NEW j \in DOMAIN Parts[cur]
          PROVE  Asked(Parts[cur][j], final'[Parts[cur][j].file])
      <3>1. cur \in Models
        BY <1>5, PartFacts
      <3> QED
        BY <2>1, <2>2, <3>1, PartFile, AskedKept DEF FinalKept, PartsReady
    <2> QED
      BY <1>5, <2>2 DEF PartsReady
  <1> QED
    BY <1>1, <1>2, <1>3, <1>4, <1>5, LoadMoves

LEMMA OpenedFiles ==
    ASSUME TypeOK, PartsReady, OpenModel
    PROVE  /\ pc' = "loading" /\ UNCHANGED <<cur, final, loaded, deleting, overlapped, exposed>>
           /\ DOMAIN opened' = DOMAIN Parts[cur]
           /\ \A i \in DOMAIN opened' : opened'[i] = final[Parts[cur][i].file]
           /\ OfModel(cur, opened')
  <1>1. \A i \in DOMAIN Parts[cur] : final[Parts[cur][i].file] # Absent
    BY DEF OpenModel, Range
  <1>2. \A i \in DOMAIN Parts[cur] : Asked(Parts[cur][i], final[Parts[cur][i].file])
    BY DEF OpenModel, PartsReady
  <1> QED
    BY <1>1, <1>2 DEF OpenModel, OfModel, diskVars, historyVars

LEMMA OpenedStep ==
    ASSUME TypeOK, PartsReady, OpenedOfModel, [Next]_vars
    PROVE  OpenedOfModel'
  <1>1. CASE OpenModel
    BY <1>1, OpenedFiles DEF OpenedOfModel
  <1>2. CASE pc \in {"fetched", "loading"} /\ UNCHANGED <<pc, cur, idx, opened>>
    BY <1>2 DEF OpenedOfModel
  <1>3. CASE pc' # "loading"
    BY <1>3 DEF OpenedOfModel
  <1> QED
    BY <1>1, <1>2, <1>3, LoadMoves DEF StartLoad, Reuse, Verified, PartReady, GoTo

\* The only steps that change the registry.
LEMMA LoadedSteps ==
    ASSUME [Next]_vars
    PROVE  \/ loaded' = loaded
           \/ Register
           \/ \E m \in Models : Unload(m)
           \/ Crash
  <1>1. CASE LoadStep
    BY <1>1
    DEF LoadStep, Reuse, Fetch, LookupFails, RequestFails, TransferBegins, RangeRefused,
        Unconfirmed, Chunk, TransferFails, TransferEnds, Rename, CopyBegins, CopyEnds, CopyFails,
        Verified, Mismatch, VerifyFails, NothingToLoad, OpenModel, LoadFails, AttemptFails
  <1>2. CASE ~LoadStep
    BY <1>2 DEF Next, ReceiveStep, StartLoad, DeleteCacheFiles, DeleteOne, Halt, Replace, vars
  <1> QED
    BY <1>1, <1>2

LEMMA LoadedStep ==
    ASSUME TypeOK, OpenedOfModel, LoadedOfModel, [Next]_vars
    PROVE  LoadedOfModel'
  <1>1. CASE loaded' = loaded
    BY <1>1 DEF LoadedOfModel
  <1>2. CASE Register
    BY <1>2 DEF Register, OpenedOfModel, LoadedOfModel, TypeOK
  <1>3. ASSUME NEW m \in Models, Unload(m) PROVE LoadedOfModel'
    BY <1>3 DEF Unload, LoadedOfModel, TypeOK
  <1>4. CASE Crash
    BY <1>4 DEF Crash, LoadedOfModel
  <1> QED
    BY <1>1, <1>2, <1>3, <1>4, LoadedSteps

-----------------------------------------------------------------------------
(* Files of loaded models.                                                 *)

\* The only steps that change what deletes, exposure and overlap say.
LEMMA DeleteSteps ==
    ASSUME [Next]_vars
    PROVE  \/ \E names \in SUBSET Files : DeleteCacheFiles(names)
           \/ \E m \in Models : Unload(m)
           \/ Crash
           \/ Register
           \/ \E m \in Models : StartLoad(m)
           \/ /\ deleting' \subseteq deleting /\ loaded' = loaded /\ exposed \subseteq exposed'
              /\ \/ pc' = "idle"
                 \/ pc # "idle" /\ UNCHANGED <<cur, overlapped>>
  <1>1. CASE LoadStep
    BY <1>1
    DEF LoadStep, Reuse, Fetch, LookupFails, RequestFails, TransferBegins, RangeRefused,
        Unconfirmed, Chunk, TransferFails, TransferEnds, Rename, CopyBegins, CopyEnds, CopyFails,
        Verified, Mismatch, VerifyFails, NothingToLoad, OpenModel, LoadFails, AttemptFails,
        RemoveFinal, PartReady, EndLoad, GoTo, loadVars, historyVars
  <1>2. CASE ~LoadStep
    BY <1>2 DEF Next, ReceiveStep, DeleteOne, Halt, Replace, vars, loadVars, historyVars
  <1> QED
    BY <1>1, <1>2

LEMMA DeletesStep ==
    ASSUME TypeOK, DeletesSpare, [Next]_vars
    PROVE  DeletesSpare'
  <1>1. ASSUME NEW names \in SUBSET Files, DeleteCacheFiles(names) PROVE DeletesSpare'
    <2>1. \A m \in Models : loaded[m] # <<>> => deleting' \cap FilesOf(m) = {}
      BY <1>1 DEF DeleteCacheFiles, Backing
    <2>2. pc # "idle" /\ ~overlapped' => deleting' \cap FilesOf(cur) = {}
      BY <1>1 DEF DeleteCacheFiles
    <2>3. UNCHANGED <<pc, cur, loaded, exposed>>
      BY <1>1 DEF DeleteCacheFiles, loadVars
    <2> QED
      BY <2>1, <2>2, <2>3 DEF DeletesSpare
  <1>2. ASSUME NEW m \in Models, Unload(m) PROVE DeletesSpare'
    BY <1>2 DEF Unload, DeletesSpare, loadVars, TypeOK
  <1>3. CASE Crash
    BY <1>3 DEF Crash, EndLoad, DeletesSpare
  <1>4. CASE Register
    BY <1>4 DEF Register, EndLoad, DeletesSpare, TypeOK
  <1>5. ASSUME NEW m \in Models, StartLoad(m) PROVE DeletesSpare'
    BY <1>5 DEF StartLoad, DeletesSpare
  <1>6. CASE /\ deleting' \subseteq deleting /\ loaded' = loaded /\ exposed \subseteq exposed'
             /\ \/ pc' = "idle"
                \/ pc # "idle" /\ UNCHANGED <<cur, overlapped>>
    BY <1>6 DEF DeletesSpare
  <1> QED
    BY <1>1, <1>2, <1>3, <1>4, <1>5, <1>6, DeleteSteps

\* The only steps that change a final name or the registry.
LEMMA StaySteps ==
    ASSUME [Next]_vars
    PROVE  \/ final' = final /\ loaded' = loaded /\ exposed \subseteq exposed'
           \/ pc = "lookup" /\ Fetch
           \/ pc = "verify" /\ RemoveFinal /\ loaded' = loaded
           \/ \E f \in Files : DeleteOne(f)
           \/ Rename \/ CopyBegins \/ CopyEnds
           \/ Register
           \/ \E m \in Models : Unload(m)
           \/ Crash
  <1>1. CASE LoadStep
    BY <1>1
    DEF LoadStep, Reuse, Fetch, LookupFails, RequestFails, TransferBegins, RangeRefused,
        Unconfirmed, Chunk, TransferFails, TransferEnds, CopyFails, Verified, Mismatch,
        VerifyFails, NothingToLoad, OpenModel, LoadFails, AttemptFails, diskVars, historyVars
  <1>2. CASE ~LoadStep
    BY <1>2 DEF Next, ReceiveStep, StartLoad, DeleteCacheFiles, Halt, Replace, vars, diskVars,
        historyVars
  <1> QED
    BY <1>1, <1>2

LEMMA DownloadMoves ==
    ASSUME [Next]_vars
    PROVE  \/ pc' \notin Downloading
           \/ Fetch
           \/ pc \in Downloading /\ UNCHANGED <<cur, idx>>
  <1>1. CASE LoadStep
    BY <1>1
    DEF LoadStep, Reuse, LookupFails, RequestFails, TransferBegins, RangeRefused, Unconfirmed,
        Chunk, TransferFails, TransferEnds, Rename, CopyBegins, CopyEnds, CopyFails, Verified,
        Mismatch, VerifyFails, NothingToLoad, OpenModel, LoadFails, Register, AttemptFails,
        PartReady, EndLoad, GoTo, loadVars, Downloading
  <1>2. CASE ~LoadStep
    BY <1>2 DEF Next, ReceiveStep, StartLoad, Unload, DeleteCacheFiles, DeleteOne, Halt, Crash,
        Replace, EndLoad, vars, loadVars, Downloading
  <1> QED
    BY <1>1, <1>2

\* A model that is loaded and not exposed has every file under its name.
LEMMA LoadedPresent ==
    ASSUME LoadedOfModel, LoadedFilesStay, NEW m \in Models, loaded[m] # <<>>,
           m \notin exposed, NEW f \in FilesOf(m)
    PROVE  final[f] # Absent
  <1>1. PICK i \in DOMAIN Parts[m] : Parts[m][i].file = f
    BY DEF FilesOf, Range
  <1>2. i \in DOMAIN loaded[m] /\ loaded[m][i] # Absent
    BY DEF LoadedOfModel, OfModel
  <1> QED
    BY <1>1, <1>2 DEF LoadedFilesStay

LEMMA AloneStep ==
    ASSUME TypeOK, LoadedOfModel, DownloadsAlone, LoadedFilesStay, [Next]_vars
    PROVE  DownloadsAlone'
  <1>1. CASE Fetch
    <2>1. Part' = Part /\ loaded' = loaded
      BY <1>1 DEF Fetch, GoTo, Part
    <2>2. CASE RemoveFinal
      BY <2>1, <2>2 DEF RemoveFinal, DownloadsAlone
    <2>3. CASE final[Part.file] = Absent /\ exposed' = exposed
      BY <2>1, <2>3, LoadedPresent DEF DownloadsAlone
    <2> QED
      BY <1>1, <2>2, <2>3 DEF Fetch
  <1>2. CASE pc \in Downloading /\ UNCHANGED <<cur, idx>> /\ pc' \in Downloading
    <2>1. Part' = Part
      BY <1>2 DEF Part
    <2>2. \A m \in Models : loaded'[m] # <<>> /\ m \notin exposed' => loaded[m] # <<>> /\ m \notin exposed
      <3>1. CASE loaded' = loaded /\ exposed \subseteq exposed'
        BY <3>1
      <3>2. ASSUME NEW m \in Models, Unload(m)
            PROVE  \A n \in Models : loaded'[n] # <<>> /\ n \notin exposed'
                                        => loaded[n] # <<>> /\ n \notin exposed
        BY <3>2 DEF Unload, TypeOK
      <3>3. ~Register /\ ~Crash
        BY <1>2 DEF Register, Crash, EndLoad, Downloading
      <3> QED
        BY <3>1, <3>2, <3>3, StaySteps, <1>2
        DEF Fetch, RemoveFinal, DeleteOne, Rename, CopyBegins, CopyEnds, Downloading
    <2> QED
      BY <1>2, <2>1, <2>2 DEF DownloadsAlone
  <1>3. CASE pc' \notin Downloading
    BY <1>3 DEF DownloadsAlone
  <1> QED
    BY <1>1, <1>2, <1>3, DownloadMoves

LEMMA OpenedStayStep ==
    ASSUME TypeOK, PartsReady, OpenedOfModel, DeletesSpare, OpenedStays, [Next]_vars
    PROVE  OpenedStays'
  <1>1. CASE OpenModel
    BY <1>1, OpenedFiles DEF OpenedStays
  <1>2. CASE pc = "loading" /\ UNCHANGED <<pc, cur, idx, opened>> /\ ~overlapped'
    <2>1. ~overlapped
      BY <1>2, DeleteSteps DEF DeleteCacheFiles, Unload, Crash, Register, EndLoad, StartLoad, loadVars
    <2>2. \A i \in DOMAIN opened : final[Parts[cur][i].file] = opened[i]
      BY <1>2, <2>1 DEF OpenedStays
    <2>3. \A i \in DOMAIN opened : Parts[cur][i].file \in FilesOf(cur) /\ Parts[cur][i].file \in Files
      BY <1>2, PartFile DEF OpenedOfModel, OfModel, TypeOK
    <2>4. \/ final' = final
          \/ \E f \in Files : DeleteOne(f)
      BY <1>2, StaySteps DEF Fetch, Rename, CopyBegins, CopyEnds, Register, EndLoad, Unload, Crash, diskVars
    <2>5. ASSUME NEW f \in Files, DeleteOne(f)
          PROVE  \A i \in DOMAIN opened : final'[Parts[cur][i].file] = opened[i]
      <3>1. f \notin FilesOf(cur)
        BY <1>2, <2>1, <2>5 DEF DeleteOne, DeletesSpare
      <3> QED
        BY <2>2, <2>3, <2>5, <3>1 DEF DeleteOne, TypeOK
    <2> QED
      BY <1>2, <2>2, <2>4, <2>5 DEF OpenedStays
  <1>3. CASE pc' # "loading" \/ overlapped'
    BY <1>3 DEF OpenedStays
  <1> QED
    BY <1>1, <1>2, <1>3, LoadMoves DEF StartLoad, Reuse, Verified, PartReady, GoTo

LEMMA LoadedStayStep ==
    ASSUME TypeOK, LoadedOfModel, DeletesSpare, DownloadsAlone, OpenedStays, LoadedFilesStay,
           [Next]_vars
    PROVE  LoadedFilesStay'
  <1>1. CASE final' = final /\ loaded' = loaded /\ exposed \subseteq exposed'
    BY <1>1 DEF LoadedFilesStay
  <1> DEFINE LoadedFile(m, i) == m \in Models \ exposed /\ i \in DOMAIN loaded[m]
  <1>2. \A m, i : LoadedFile(m, i) =>
            /\ loaded[m] # <<>> /\ i \in DOMAIN Parts[m] /\ Parts[m][i].file \in Files
            /\ Parts[m][i].file \in FilesOf(m) /\ final[Parts[m][i].file] = loaded[m][i]
    BY PartFile DEF LoadedFilesStay, LoadedOfModel, OfModel
  <1>3. CASE \/ pc = "lookup" /\ Fetch
             \/ pc = "verify" /\ RemoveFinal /\ loaded' = loaded
    <2>1. Part.file \in Files /\ loaded' = loaded
      BY <1>3, PartFacts DEF Fetch
    <2>2. CASE RemoveFinal
      BY <1>2, <2>1, <2>2 DEF RemoveFinal, LoadedFilesStay, TypeOK
    <2>3. CASE final' = final /\ exposed' = exposed
      BY <2>1, <2>3 DEF LoadedFilesStay
    <2> QED
      BY <1>3, <2>2, <2>3 DEF Fetch
  <1>4. ASSUME NEW f \in Files, DeleteOne(f) PROVE LoadedFilesStay'
    <2>1. \A m, i : LoadedFile(m, i) => Parts[m][i].file # f
      BY <1>2, <1>4 DEF DeleteOne, DeletesSpare
    <2> QED
      BY <1>2, <1>4, <2>1 DEF DeleteOne, LoadedFilesStay, TypeOK
  <1>5. CASE Rename \/ CopyBegins \/ CopyEnds
    <2>1. /\ pc \in Downloading /\ Part.file \in Files /\ loaded' = loaded /\ exposed' = exposed
          /\ \A f \in Files : f # Part.file => final'[f] = final[f]
      BY <1>5, PartFacts DEF Rename, CopyBegins, CopyEnds, Downloading, TypeOK
    <2>2. \A m, i : LoadedFile(m, i) => Parts[m][i].file # Part.file
      BY <1>2, <2>1 DEF DownloadsAlone
    <2> QED
      BY <1>2, <2>1, <2>2 DEF LoadedFilesStay
  <1>6. CASE Register
    BY <1>6 DEF Register, OpenedStays, LoadedFilesStay, TypeOK, diskVars
  <1>7. ASSUME NEW m \in Models, Unload(m) PROVE LoadedFilesStay'
    BY <1>7 DEF Unload, LoadedFilesStay, TypeOK, diskVars
  <1>8. CASE Crash
    BY <1>8 DEF Crash, LoadedFilesStay
  <1> HIDE DEF LoadedFile
  <1> QED
    BY <1>1, <1>3, <1>4, <1>5, <1>6, <1>7, <1>8, StaySteps, Zenon

-----------------------------------------------------------------------------
(* The theorems.                                                           *)

LEMMA StoreInit == Init => StoreInv
  <1> HAVE Init
  <1>1. TypeOK
    BY TypeInit
  <1>2. WholeInv
    BY DEF Init, WholeInv, PartialsHonest, TransferHonest, DownloadComplete, FinalIsWhole
  <1>3. DigestInv
    BY DEF Init, DigestInv, PartsReady, OpenedOfModel, LoadedOfModel
  <1>4. StayInv
    BY DEF Init, StayInv, DeletesSpare, DownloadsAlone, Downloading, OpenedStays, LoadedFilesStay
  <1> QED
    BY <1>1, <1>2, <1>3, <1>4 DEF StoreInv

LEMMA StoreStep == StoreInv /\ [Next]_vars => StoreInv'
  <1> SUFFICES ASSUME TypeOK, WholeInv, DigestInv, StayInv, [Next]_vars PROVE StoreInv'
    BY DEF StoreInv
  <1>1. TypeOK'
    BY TypeStep DEF WholeInv
  <1>2. WholeInv'
    BY PartialsStep, TransferStep, DownloadStep, FinalStep DEF WholeInv
  <1>3. DigestInv'
    BY ReadyStep, OpenedStep, LoadedStep DEF DigestInv
  <1>4. StayInv'
    BY DeletesStep, AloneStep, OpenedStayStep, LoadedStayStep DEF StayInv, DigestInv
  <1> QED
    BY <1>1, <1>2, <1>3, <1>4 DEF StoreInv

LEMMA StoreInvHolds == Spec => []StoreInv
  BY StoreInit, StoreStep, PTL DEF Spec

\* Whatever models, files, URLs and objects there are, what stands under a
\* final name is one whole object but after a replacement or a cut copy
\* (fetch_one and download_and_place, src/src/fetch.cpp).
THEOREM FilesAreWhole == Spec => []FinalIsWhole
  <1>1. StoreInv => FinalIsWhole
    BY DEF StoreInv, WholeInv
  <1> QED
    BY <1>1, StoreInvHolds, PTL

\* Nothing is registered from bytes of another digest than the load asked for
\* (fetch_one and LoadModel, src/src/worker_service.cpp).
THEOREM DigestsAreServed == Spec => []DigestIsServed
  <1>1. StoreInv => DigestIsServed
    <2> SUFFICES ASSUME LoadedOfModel, NEW m \in Models, NEW i \in DOMAIN loaded[m],
                        Parts[m][i].want # NoDigest
                 PROVE  Matches(loaded[m][i], Parts[m][i].want)
      BY DEF StoreInv, DigestInv, DigestIsServed
    <2>1. loaded[m] # <<>>
      OBVIOUS
    <2> QED
      BY <2>1 DEF LoadedOfModel, OfModel, Asked
  <1> QED
    BY <1>1, StoreInvHolds, PTL

\* The files of a loaded model stay under their names, but for the two races
\* that expose it (delete_cache_files and fetch_one).
THEOREM LoadedFilesAreKept == Spec => []LoadedFilesStay
  <1>1. StoreInv => LoadedFilesStay
    BY DEF StoreInv, StayInv
  <1> QED
    BY <1>1, StoreInvHolds, PTL

\* The retry ladders stay within their bounds, whatever the origins answer.
THEOREM StoreTypeCorrect == Spec => []TypeOK
  <1>1. StoreInv => TypeOK
    BY DEF StoreInv
  <1> QED
    BY <1>1, StoreInvHolds, PTL
=============================================================================
