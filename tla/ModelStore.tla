----------------------------- MODULE ModelStore -----------------------------
(***************************************************************************)
(* How a model gets from its URL into the registry, and what may happen to *)
(* its files meanwhile: the fetch of a load (src/fetch.cpp), the load and  *)
(* the registry (LoadModel, UnloadModel and delete_cache_files in          *)
(* src/worker_service.cpp), and the deletion of cache files                *)
(* (src/cache.cpp).  Loads run on the control thread, one at a time;       *)
(* unloads and deletes on the receive loop, beside it.  The process may    *)
(* die at any step; its partial downloads are swept at the next start.     *)
(*                                                                         *)
(* A file is a version of an object and how many of its chunks are there.  *)
(***************************************************************************)
EXTENDS Integers, Sequences, FiniteSets, Functions

CONSTANTS
    Models,       \* model ids, each with the files of its LoadModel
    Parts,        \* the files of each: sequences of [file, url, want]
    Files, Urls,  \* names relative to models_dir, and where they come from
    Versions,     \* what an object may be
    Size,         \* chunks of each
    Serves,       \* versions each URL may come to serve
    NoDigest,     \* sha256 empty
    NoVersion,    \* nothing
    Mixed,        \* chunks of two versions
    NoModel,
    MaxReplaced   \* bound: URLs whose object is replaced, once each

ASSUME MarkAssumption ==
    /\ {NoDigest, NoVersion, Mixed} \cap Versions = {}
    /\ NoVersion # Mixed /\ NoModel \notin Models /\ MaxReplaced \in Nat
ASSUME SizeAssumption == Size \in [Versions -> Nat \ {0}] /\ Serves \in [Urls -> SUBSET Versions]
ASSUME PartsAssumption ==
    /\ Parts \in [Models -> Seq([file : Files, url : Urls, want : Versions \cup {NoDigest}])]
    /\ \A m \in Models : Parts[m] # <<>>
\* A request asks for one digest per name.
ASSUME NamesAssumption ==
    \A m \in Models : \A i, j \in DOMAIN Parts[m] :
        Parts[m][i].file = Parts[m][j].file => Parts[m][i].want = Parts[m][j].want

MaxRetries == 3      \* kMaxRetries
DigestAttempts == 2  \* kDigestAttempts

VARIABLES
    \* the disk
    final,      \* what each name under models_dir holds
    partial,    \* what each .downloading sibling holds
    \* the control thread's load
    pc, cur,    \* where it is and which model it loads
    idx,        \* the file it is at
    pass, attempt,
    serving,    \* the version the open transfer delivers
    opened,     \* what the model loader read
    halt,       \* "cancel": a CancelJob names the load; "abandon": abandoned()
    \* the rest of the service
    loaded,     \* the registry: what each loaded model was loaded from
    deleting,   \* names delete_cache_files has still to remove
    \* the origins
    object,     \* the version each URL serves
    \* history
    replaced,   \* URLs whose object was replaced
    cut,        \* names left by a copy that did not finish
    overlapped, \* a delete of one of the load's files ran during the load
    exposed     \* loaded models that lost a file to such a delete or to a refetch

diskVars == <<final, partial>>
loadVars == <<pc, cur, idx, pass, attempt, serving, opened, halt>>
historyVars == <<replaced, cut, overlapped, exposed>>
vars == <<diskVars, loadVars, loaded, deleting, object, historyVars>>

FilesOf(m) == {p.file : p \in Range(Parts[m])}
AllParts == UNION {Range(Parts[m]) : m \in Models}

\* A file that is not there; an empty partial reads like none.
Absent == [mark |-> NoVersion, len |-> 0]
Contents == [mark : Versions \cup {NoVersion, Mixed}, len : Nat]

Matches(c, version) == c.mark = version /\ c.len = Size[version]

\* temp_sibling: named after the destination and the URL.
Key(p) == <<p.file, p.url>>

Part == Parts[cur][idx]
Offset == partial[Key(Part)].len

Init ==
    /\ final = [f \in Files |-> Absent] /\ partial = [k \in Files \X Urls |-> Absent]
    /\ pc = "idle" /\ cur = NoModel /\ idx = 0 /\ pass = 0 /\ attempt = 0
    /\ serving = NoVersion /\ opened = <<>> /\ halt = "no"
    /\ loaded = [m \in Models |-> <<>>] /\ deleting = {}
    /\ object \in {o \in [Urls -> Versions] : \A u \in Urls : o[u] \in Serves[u]}
    /\ replaced = {} /\ cut = {} /\ overlapped = FALSE /\ exposed = {}

-----------------------------------------------------------------------------
(* A load begins and ends.                                                 *)

StartLoad(m) ==
    /\ pc = "idle" /\ pc' = "lookup" /\ cur' = m /\ idx' = 1
    /\ overlapped' = (deleting \cap FilesOf(m) # {})
    /\ UNCHANGED <<diskVars, pass, attempt, serving, opened, halt, loaded, deleting, object,
                   replaced, cut, exposed>>

\* execute() returns, with a result or an error or, abandoned, with nothing.
EndLoad ==
    /\ pc' = "idle" /\ cur' = NoModel /\ idx' = 0 /\ pass' = 0 /\ attempt' = 0
    /\ serving' = NoVersion /\ opened' = <<>> /\ halt' = "no" /\ overlapped' = FALSE

GoTo(place) ==
    /\ pc' = place /\ UNCHANGED <<cur, halt, opened, overlapped>>

\* fetch_one returned a path: the next file, or the load.
PartReady ==
    /\ pass' = 0 /\ attempt' = 0 /\ serving' = NoVersion
    /\ IF idx < Len(Parts[cur]) THEN GoTo("lookup") /\ idx' = idx + 1
                                ELSE GoTo("fetched") /\ UNCHANGED idx

\* The file of this part goes, if the system lets it: the error is not looked
\* at.  A model loaded from it keeps its mapping only.
RemoveFinal ==
    /\ \/ final' = [final EXCEPT ![Part.file] = Absent] /\ cut' = cut \ {Part.file}
       \/ UNCHANGED <<final, cut>>
    /\ exposed' = exposed \cup {m \in Models : loaded[m] # <<>> /\ Part.file \in FilesOf(m)}

-----------------------------------------------------------------------------
(* fetch_one: reuse what is there.                                         *)

\* Mutant: what is present is reused without looking at the digest.
ReusePresent ==
    /\ pc = "lookup" /\ final[Part.file] # Absent
    /\ PartReady
    /\ UNCHANGED <<diskVars, loaded, deleting, object, replaced, cut, exposed>>

Reuse ==
    /\ pc = "lookup" /\ final[Part.file] # Absent
    /\ Part.want = NoDigest \/ Matches(final[Part.file], Part.want)
    /\ PartReady
    /\ UNCHANGED <<diskVars, loaded, deleting, object, replaced, cut, exposed>>

\* Nothing there, or a file of another digest, which is deleted first.
Fetch ==
    /\ pc = "lookup"
    /\ \/ final[Part.file] = Absent /\ UNCHANGED <<final, cut, exposed>>
       \/ /\ final[Part.file] # Absent /\ Part.want # NoDigest
          /\ ~Matches(final[Part.file], Part.want)
          /\ RemoveFinal
    /\ GoTo("attempt")
    /\ UNCHANGED <<partial, idx, pass, attempt, serving, loaded, deleting, object, replaced>>

\* No URL, an unreadable file, a directory that cannot be created.
LookupFails ==
    /\ pc = "lookup" /\ EndLoad
    /\ UNCHANGED <<diskVars, loaded, deleting, object, replaced, cut, exposed>>

-----------------------------------------------------------------------------
(* download_and_place: attempts that resume what the last one left.        *)

\* Mutant: attempts are not counted.
AttemptFailsUncounted(discard, terminal) ==
    /\ partial' = IF discard /\ halt = "no"
                  THEN [partial EXCEPT ![Key(Part)] = Absent] ELSE partial
    /\ IF halt # "no" \/ terminal
         THEN EndLoad
         ELSE /\ GoTo("attempt") /\ serving' = NoVersion
              /\ UNCHANGED <<idx, pass, attempt>>
    /\ UNCHANGED <<final, loaded, deleting, object, replaced, cut, exposed>>

\* An attempt returned an error: what it left is kept or discarded, and the
\* next attempt or the end of the load.
AttemptFails(discard, terminal) ==
    /\ partial' = IF discard /\ halt = "no"
                  THEN [partial EXCEPT ![Key(Part)] = Absent] ELSE partial
    /\ IF halt # "no" \/ terminal \/ attempt + 1 = MaxRetries
         THEN EndLoad
         ELSE /\ GoTo("attempt") /\ attempt' = attempt + 1 /\ serving' = NoVersion
              /\ UNCHANGED <<idx, pass>>
    /\ UNCHANGED <<final, loaded, deleting, object, replaced, cut, exposed>>

\* A refusal, an error status or no answer; 4xx but 408 and 429 are terminal,
\* and so is a temporary file that cannot be opened.
RequestFails ==
    /\ pc = "attempt"
    /\ \E terminal \in BOOLEAN : AttemptFails(FALSE, terminal)

\* The origin sends the object, or the rest of it from the offset on (206).
TransferBegins ==
    /\ pc = "attempt" /\ Offset < Size[object[Part.url]]
    /\ GoTo("receiving") /\ serving' = object[Part.url]
    /\ UNCHANGED <<diskVars, idx, pass, attempt, loaded, deleting, object, replaced, cut, exposed>>

\* The origin ignores the Range, with a 200 or a Content-Range and no 206.
RangeRefused ==
    /\ pc = "attempt" /\ Offset > 0
    /\ AttemptFails(TRUE, FALSE)

\* Mutant: libcurl's success is believed.
UnconfirmedAccepted ==
    /\ pc = "attempt" /\ Offset > 0 /\ Offset >= Size[object[Part.url]]
    /\ GoTo("placing")
    /\ UNCHANGED <<diskVars, idx, pass, attempt, serving, loaded, deleting, object, replaced,
                   cut, exposed>>

\* A 416, which libcurl reports as success with nothing transferred.
Unconfirmed ==
    /\ pc = "attempt" /\ Offset > 0 /\ Offset >= Size[object[Part.url]]
    /\ AttemptFails(TRUE, FALSE)

\* A chunk is appended to what is there, whatever that is.
Extended(c, version) ==
    [mark |-> IF c = Absent \/ c.mark = version THEN version ELSE Mixed, len |-> c.len + 1]

Chunk ==
    /\ pc = "receiving" /\ halt = "no" /\ Offset < Size[serving]
    /\ partial' = [partial EXCEPT ![Key(Part)] = Extended(@, serving)]
    /\ UNCHANGED <<final, loadVars, loaded, deleting, object, historyVars>>

\* The transfer breaks off, if only before its end is confirmed, the disk is full, or write_cb sees the halt.
TransferFails ==
    /\ pc = "receiving"
    /\ \E terminal \in BOOLEAN : AttemptFails(FALSE, terminal)

TransferEnds ==
    /\ pc = "receiving" /\ Offset = Size[serving]
    /\ GoTo("placing") /\ attempt' = 0 /\ serving' = NoVersion
    /\ UNCHANGED <<diskVars, idx, pass, loaded, deleting, object, replaced, cut, exposed>>

Rename ==
    /\ pc = "placing"
    /\ final' = [final EXCEPT ![Part.file] = partial[Key(Part)]]
    /\ partial' = [partial EXCEPT ![Key(Part)] = Absent]
    /\ cut' = cut \ {Part.file}
    /\ GoTo("verify")
    /\ UNCHANGED <<idx, pass, attempt, serving, loaded, deleting, object, replaced, exposed>>

\* The rename fails and the file is copied under the final name.
CopyBegins ==
    /\ pc = "placing"
    /\ final' = [final EXCEPT ![Part.file] =
                    [mark |-> partial[Key(Part)].mark, len |-> Offset - 1]]
    /\ cut' = cut \cup {Part.file}
    /\ GoTo("copying")
    /\ UNCHANGED <<partial, idx, pass, attempt, serving, loaded, deleting, object, replaced, exposed>>

\* A name deleted meanwhile stays deleted.
CopyEnds ==
    /\ pc = "copying"
    /\ final' = [final EXCEPT ![Part.file] = IF @ = Absent THEN @ ELSE partial[Key(Part)]]
    /\ partial' = [partial EXCEPT ![Key(Part)] = Absent]
    /\ cut' = cut \ {Part.file}
    /\ GoTo("verify")
    /\ UNCHANGED <<idx, pass, attempt, serving, loaded, deleting, object, replaced, exposed>>

\* It fails at once or half way.
CopyFails ==
    /\ pc \in {"placing", "copying"} /\ EndLoad
    /\ partial' = [partial EXCEPT ![Key(Part)] = Absent]
    /\ UNCHANGED <<final, loaded, deleting, object, replaced, cut, exposed>>

-----------------------------------------------------------------------------
(* fetch_one: the digest of what was downloaded.                           *)

Verified ==
    /\ pc = "verify"
    /\ Part.want = NoDigest \/ Matches(final[Part.file], Part.want)
    /\ PartReady
    /\ UNCHANGED <<diskVars, loaded, deleting, object, replaced, cut, exposed>>

\* The file is removed, and downloaded once more from zero.
Mismatch ==
    /\ pc = "verify" /\ Part.want # NoDigest
    /\ final[Part.file] # Absent /\ ~Matches(final[Part.file], Part.want)
    /\ RemoveFinal
    /\ IF pass + 1 = DigestAttempts
         THEN EndLoad
         ELSE /\ GoTo("attempt") /\ pass' = pass + 1 /\ attempt' = 0
              /\ serving' = NoVersion /\ UNCHANGED idx
    /\ UNCHANGED <<partial, loaded, deleting, object, replaced>>

\* Deleted before it was read, or unreadable.
VerifyFails ==
    /\ pc = "verify" /\ Part.want # NoDigest /\ EndLoad
    /\ UNCHANGED <<diskVars, loaded, deleting, object, replaced, cut, exposed>>

-----------------------------------------------------------------------------
(* LoadModel after the fetch.                                              *)

\* Abandoned, or loaded already.
NothingToLoad ==
    /\ pc = "fetched"
    /\ halt = "abandon" \/ loaded[cur] # <<>>
    /\ EndLoad
    /\ UNCHANGED <<diskVars, loaded, deleting, object, replaced, cut, exposed>>

OpenModel ==
    /\ pc = "fetched" /\ halt # "abandon" /\ loaded[cur] = <<>>
    /\ \A p \in Range(Parts[cur]) : final[p.file] # Absent
    /\ pc' = "loading" /\ halt' = "no"
    /\ opened' = [i \in DOMAIN Parts[cur] |-> final[Parts[cur][i].file]]
    /\ UNCHANGED <<diskVars, cur, idx, pass, attempt, serving, loaded, deleting, object,
                   historyVars>>

\* A file is missing, llama.cpp refuses it, or nothing fits.  A model benchmark
\* fetches and loads the same way and ends here too: it registers nothing.
LoadFails ==
    /\ pc \in {"fetched", "loading"} /\ EndLoad
    /\ UNCHANGED <<diskVars, loaded, deleting, object, replaced, cut, exposed>>

Register ==
    /\ pc = "loading" /\ EndLoad
    /\ loaded' = [loaded EXCEPT ![cur] = opened]
    /\ exposed' = IF overlapped THEN exposed \cup {cur} ELSE exposed
    /\ UNCHANGED <<diskVars, deleting, object, replaced, cut>>

-----------------------------------------------------------------------------
(* The receive loop, one frame at a time.                                  *)

Unload(m) ==
    /\ deleting = {} /\ loaded[m] # <<>>
    /\ loaded' = [loaded EXCEPT ![m] = <<>>]
    /\ exposed' = exposed \ {m}
    /\ UNCHANGED <<diskVars, loadVars, deleting, object, replaced, cut, overlapped>>

\* Mutant: no name is known to back a model.
BackingNothing == {}

\* backing_paths of the loaded models.
Backing == UNION {FilesOf(m) : m \in {k \in Models : loaded[k] # <<>>}}

\* delete_cache_files: what is loaded is looked up first, in one critical section.
DeleteCacheFiles(names) ==
    /\ deleting = {} /\ names \ Backing # {}
    /\ deleting' = names \ Backing
    /\ overlapped' = (overlapped \/ (pc # "idle" /\ names \cap FilesOf(cur) # {}))
    /\ UNCHANGED <<diskVars, loadVars, loaded, object, replaced, cut, exposed>>

\* Deleted, if the system lets it.
DeleteOne(f) ==
    /\ f \in deleting /\ deleting' = deleting \ {f}
    /\ \/ final' = [final EXCEPT ![f] = Absent] /\ cut' = cut \ {f}
       \/ UNCHANGED <<final, cut>>
    /\ UNCHANGED <<partial, loadVars, loaded, object, replaced, overlapped, exposed>>

\* A CancelJob of the load; the stream closes or the worker stops.  Nothing
\* looks for either once the model is being loaded.
Halt(why) ==
    /\ pc \notin {"idle", "loading"} /\ halt = "no"
    /\ halt' = why
    /\ UNCHANGED <<diskVars, pc, cur, idx, pass, attempt, serving, opened, loaded, deleting,
                   object, historyVars>>

-----------------------------------------------------------------------------
\* sweep_partials, at the start of a process.
Swept == [k \in Files \X Urls |-> Absent]

Crash ==
    /\ EndLoad
    /\ partial' = Swept
    /\ loaded' = [m \in Models |-> <<>>] /\ deleting' = {} /\ exposed' = {}
    /\ UNCHANGED <<final, object, replaced, cut>>

\* Someone uploads another object to a URL.
Replace(u) ==
    /\ u \notin replaced /\ Cardinality(replaced) < MaxReplaced
    /\ \E v \in Serves[u] \ {object[u]} : object' = [object EXCEPT ![u] = v]
    /\ replaced' = replaced \cup {u}
    /\ UNCHANGED <<diskVars, loadVars, loaded, deleting, cut, overlapped, exposed>>

-----------------------------------------------------------------------------
LoadStep ==
    \/ Reuse \/ Fetch \/ LookupFails
    \/ RequestFails \/ TransferBegins \/ RangeRefused \/ Unconfirmed
    \/ Chunk \/ TransferFails \/ TransferEnds
    \/ Rename \/ CopyBegins \/ CopyEnds \/ CopyFails
    \/ Verified \/ Mismatch \/ VerifyFails
    \/ NothingToLoad \/ OpenModel \/ LoadFails \/ Register

ReceiveStep ==
    \/ \E m \in Models : Unload(m)
    \/ \E names \in SUBSET Files : DeleteCacheFiles(names)
    \/ \E f \in Files : DeleteOne(f)

Next ==
    \/ \E m \in Models : StartLoad(m)
    \/ LoadStep \/ ReceiveStep \/ Crash
    \/ \E why \in {"cancel", "abandon"} : Halt(why)
    \/ \E u \in Urls : Replace(u)

Spec == Init /\ [][Next]_vars

\* The control thread runs, and a transfer that stalls is aborted (kStallSeconds).
LiveSpec == Spec /\ WF_vars(LoadStep)

-----------------------------------------------------------------------------
(* Properties.                                                             *)

Places == {"idle", "lookup", "attempt", "receiving", "placing", "copying", "verify",
           "fetched", "loading"}

\* The variables' types; in particular the bounds of the two retry ladders.
TypeOK ==
    /\ final \in [Files -> Contents] /\ partial \in [Files \X Urls -> Contents]
    /\ pc \in Places /\ (pc = "idle") = (cur = NoModel)
    /\ pc # "idle" => cur \in Models /\ idx \in DOMAIN Parts[cur]
    /\ pass \in 0 .. DigestAttempts - 1 /\ attempt \in 0 .. MaxRetries - 1
    /\ serving \in Versions \cup {NoVersion} /\ (pc = "receiving" => serving \in Versions)
    /\ opened \in Seq(Contents) /\ halt \in {"no", "cancel", "abandon"}
    /\ loaded \in [Models -> Seq(Contents)] /\ deleting \subseteq Files
    /\ object \in [Urls -> Versions]
    /\ replaced \subseteq Urls /\ cut \subseteq Files
    /\ overlapped \in BOOLEAN /\ exposed \subseteq Models

\* What stands under a final name is one whole object, never a beginning of one
\* and never bytes of two: through broken transfers, refused and unconfirmed
\* resumes, deletes and crashes, and although two loads may share a name, and
\* no digest need be there to catch it (tests/fetch_test.cpp:597-707).  Two
\* exceptions: an object replaced at its URL, which a resume cannot tell, and
\* a copy that was cut short after a failed rename.
FinalIsWhole ==
    \A f \in Files \ cut : final[f] # Absent =>
        IF final[f].mark = Mixed
          THEN \E p \in AllParts : p.file = f /\ p.url \in replaced
          ELSE Matches(final[f], final[f].mark)

\* A model whose files came with a digest was loaded from bytes of that digest,
\* whatever was cached, deleted or fetched for another model meanwhile.
DigestIsServed ==
    \A m \in Models : \A i \in DOMAIN loaded[m] :
        Parts[m][i].want # NoDigest => Matches(loaded[m][i], Parts[m][i].want)

\* The files of a loaded model stay as they were loaded (delete_files,
\* cache.hpp:24-27), unless a delete was under way while it was loaded or a
\* load of the same name under another digest refetched one.
LoadedFilesStay ==
    \A m \in Models \ exposed : \A i \in DOMAIN loaded[m] :
        final[Parts[m][i].file] = loaded[m][i]

\* Every load ends: the ladders are finite whatever the origin does
\* (kMaxRetries, kDigestAttempts, "a multi-GB download must not be immortal").
LoadsEnd == pc # "idle" ~> pc = "idle"
=============================================================================
