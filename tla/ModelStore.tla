----------------------------- MODULE ModelStore -----------------------------
(***************************************************************************)
(* The model store: crates/model-manager (install, delete, validation),    *)
(* the desktop commands that call it (install_model, cancel_model_install, *)
(* activate_model, delete_model) and the installed_models table.           *)
(*                                                                         *)
(* Disk and table survive a crash; the calls, the download map and the     *)
(* cancellation tokens do not.  A file is the sequence of its chunks, each *)
(* TRUE when it is the chunk the signed manifest describes: the file whose *)
(* size and SHA-256 match is Whole.  ETag and If-Range only influence the  *)
(* server's choice between 200 and 206, which is left open.  Retries by    *)
(* the user are unbounded; crashes, cancellations and failures share the   *)
(* budget MaxFaults, deletions MaxDeletes.                                 *)
(***************************************************************************)
EXTENDS Naturals, Sequences

CONSTANTS
    Models,       \* ids of the signed manifest
    Calls,        \* concurrent command invocations
    Size,         \* chunks of a model file
    MaxFaults,    \* crashes, cancellations and failures of a behaviour
    MaxDeletes,   \* deletions of a behaviour
    NoFile,       \* no file (for a model: a directory without its file)
    NoDir,        \* no model directory
    None,         \* nobody downloads the model
    Leaked        \* a download entry nobody will remove

Contents == UNION {[1..n -> BOOLEAN] : n \in 0..Size}

ASSUME StoreAssumption ==
    /\ Size \in Nat \ {0}
    /\ MaxFaults \in Nat /\ MaxDeletes \in Nat
    /\ NoFile \notin Contents /\ NoDir \notin Contents /\ NoFile # NoDir
    /\ None \notin Calls /\ Leaked \notin Calls /\ None # Leaked

VARIABLES
    dir,        \* root/<model>: NoDir, NoFile or the content of the file
    partial,    \* .downloads/<key>.partial
    resume,     \* .downloads/<key>.resume.json against the manifest entry
    legacy,     \* staging directories left by the alpha build
    row,        \* installed_models
    downloads,  \* DesktopState::downloads
    cancelled,  \* the token of the download entry
    pc, target, \* where a call stands and for which model
    got,        \* `downloaded` of an install call
    staged,     \* the file in the call's own staging directory
    faults, deletes

disk  == <<dir, partial, resume, legacy, row>>
vars  == <<disk, downloads, cancelled, pc, target, got, staged, faults, deletes>>

Whole == [i \in 1..Size |-> TRUE]

\* verify_file_hash, and validate_installed with its size check.
Verifies(content) == content = Whole

Downloading == {"check", "validate", "recover", "offset", "drop_other", "request",
                "drop_reset", "describe", "open", "stream", "verify", "place",
                "publish", "forget", "failed", "installed"}

PCs == Downloading \cup {"idle", "save", "rmdir", "rmrow", "activate"}

TypeOK ==
    /\ dir \in [Models -> Contents \cup {NoDir, NoFile}]
    /\ partial \in [Models -> Contents \cup {NoFile}]
    /\ resume \in [Models -> {"none", "match", "other", "torn"}]
    /\ legacy \in [Models -> 0..2]
    /\ row \in [Models -> {"none", "installed", "active"}]
    /\ downloads \in [Models -> Calls \cup {None, Leaked}]
    /\ cancelled \in [Models -> BOOLEAN]
    /\ pc \in [Calls -> PCs]
    /\ target \in [Calls -> Models]
    /\ got \in [Calls -> 0..Size]
    /\ staged \in [Calls -> Contents \cup {NoFile}]
    /\ faults \in 0..MaxFaults
    /\ deletes \in 0..MaxDeletes

\* A first start, with what an earlier version may have left behind: a partial
\* of an older manifest, or staging directories of the alpha build.
Init ==
    /\ dir = [m \in Models |-> NoDir]
    /\ \E left \in {[partial |-> NoFile, resume |-> "none", legacy |-> 0],
                    [partial |-> <<TRUE>>, resume |-> "other", legacy |-> 0]}
                   \cup {[partial |-> NoFile, resume |-> "match", legacy |-> n] : n \in 1..2} :
         /\ partial = [m \in Models |-> left.partial]
         /\ resume = [m \in Models |-> left.resume]
         /\ legacy = [m \in Models |-> left.legacy]
    /\ row = [m \in Models |-> "none"]
    /\ downloads = [m \in Models |-> None]
    /\ cancelled = [m \in Models |-> FALSE]
    /\ pc = [c \in Calls |-> "idle"]
    /\ target \in [Calls -> Models]
    /\ got = [c \in Calls |-> 0]
    /\ staged = [c \in Calls |-> NoFile]
    /\ faults = 0 /\ deletes = 0

-----------------------------------------------------------------------------
(* Control of a call                                                       *)

At(c, at)   == pc[c] = at
Goto(c, at) == pc' = [pc EXCEPT ![c] = at]
Fault       == faults < MaxFaults /\ faults' = faults + 1
NoFault     == UNCHANGED faults

\* Nothing but the control of a call changes.
KeepAllButControl == UNCHANGED <<disk, downloads, cancelled, target, got, staged, deletes>>

-----------------------------------------------------------------------------
(* install_model and ModelManager::install                                 *)

\* The map entry is made under its mutex; a second install of the model is
\* refused, which changes nothing.
InstallClaim(c, m) ==
    /\ At(c, "idle") /\ downloads[m] = None
    /\ downloads' = [downloads EXCEPT ![m] = c]
    /\ cancelled' = [cancelled EXCEPT ![m] = FALSE]
    /\ target' = [target EXCEPT ![c] = m]
    /\ got' = [got EXCEPT ![c] = 0]
    /\ Goto(c, "check") /\ NoFault
    /\ UNCHANGED <<disk, staged, deletes>>

\* ModelManager::new fails after the entry was made: `?` returns and leaves it.
InstallWithoutClient(c, m) ==
    /\ At(c, "idle") /\ downloads[m] = None
    /\ downloads' = [downloads EXCEPT ![m] = Leaked]
    /\ Fault
    /\ UNCHANGED <<disk, cancelled, pc, target, got, staged, deletes>>

\* destination.is_file()
InstallCheck(c) ==
    /\ At(c, "check")
    /\ Goto(c, IF dir[target[c]] \in Contents THEN "validate" ELSE "recover")
    /\ NoFault /\ KeepAllButControl

\* validate_installed: size and hash of the file that is in place, if it still is
\* and can be read.
InstallValidate(c) ==
    /\ At(c, "validate")
    /\ \/ Goto(c, IF Verifies(dir[target[c]]) THEN "installed" ELSE "failed") /\ NoFault
       \/ Goto(c, "failed") /\ Fault
    /\ KeepAllButControl

\* recover_legacy_staging_partial: one staged file is moved to the partial
\* path, two are ambiguous.
InstallRecover(c) == LET m == target[c] IN
    /\ At(c, "recover")
    /\ \/ /\ partial[m] # NoFile \/ resume[m] = "none" \/ legacy[m] = 0
          /\ Goto(c, "offset") /\ NoFault
          /\ UNCHANGED <<partial, legacy>>
       \/ /\ partial[m] = NoFile /\ resume[m] # "none"
          /\ legacy[m] = 1
          /\ \E content \in {Whole, [Whole EXCEPT ![Size] = FALSE]} :
               partial' = [partial EXCEPT ![m] = content]
          /\ legacy' = [legacy EXCEPT ![m] = 0]
          /\ Goto(c, "offset") /\ NoFault
       \/ /\ \/ partial[m] = NoFile /\ resume[m] # "none" /\ legacy[m] = 2 /\ NoFault
             \/ Fault
          /\ Goto(c, "failed")
          /\ UNCHANGED <<partial, legacy>>
    /\ UNCHANGED <<dir, resume, row, downloads, cancelled, target, got, staged, deletes>>

\* resume_offset, after the first look at the token.
InstallOffset(c) == LET m == target[c] IN
    /\ At(c, "offset")
    /\ \/ /\ \/ cancelled[m] /\ NoFault
             \/ ~cancelled[m] /\ partial[m] # NoFile /\ resume[m] = "torn" /\ NoFault
             \/ Fault
          /\ Goto(c, "failed")
          /\ UNCHANGED <<partial, got>>
       \/ /\ ~cancelled[m]
          /\ partial[m] = NoFile \/ resume[m] = "none"
          /\ got' = [got EXCEPT ![c] = 0]
          /\ Goto(c, "request") /\ NoFault
          /\ UNCHANGED partial
       \/ /\ ~cancelled[m]
          /\ partial[m] # NoFile /\ resume[m] = "other"
          /\ partial' = [partial EXCEPT ![m] = NoFile]
          /\ got' = [got EXCEPT ![c] = 0]
          /\ Goto(c, "drop_other") /\ NoFault
       \/ /\ ~cancelled[m]
          /\ partial[m] # NoFile /\ resume[m] = "match"
          /\ got' = [got EXCEPT ![c] = Len(partial[m])]
          /\ Goto(c, IF Len(partial[m]) = Size THEN "verify" ELSE "request") /\ NoFault
          /\ UNCHANGED partial
    /\ UNCHANGED <<dir, resume, legacy, row, downloads, cancelled, target, staged, deletes>>

\* The metadata goes after the partial it described: when the manifest entry
\* is another one, and when the server answers a range request with 200.
InstallDropResume(c) == LET m == target[c] IN
    /\ \/ At(c, "drop_other") /\ Goto(c, "request")
       \/ At(c, "drop_reset") /\ Goto(c, "describe")
    /\ resume' = [resume EXCEPT ![m] = "none"]
    /\ NoFault
    /\ UNCHANGED <<dir, partial, legacy, row, downloads, cancelled, target, got, staged, deletes>>

\* The request and its response: cancelled, failed or refused, the whole file
\* instead of the range asked for, or what was asked for.
InstallRequest(c) == LET m == target[c] IN
    /\ At(c, "request")
    /\ \/ /\ \/ cancelled[m] /\ NoFault
             \/ Fault
          /\ Goto(c, "failed")
          /\ UNCHANGED <<partial, got>>
       \/ /\ got[c] > 0
          /\ partial' = [partial EXCEPT ![m] = NoFile]
          /\ got' = [got EXCEPT ![c] = 0]
          /\ Goto(c, "drop_reset") /\ NoFault
       \/ /\ Goto(c, "describe") /\ NoFault
          /\ UNCHANGED <<partial, got>>
    /\ UNCHANGED <<dir, resume, legacy, row, downloads, cancelled, target, staged, deletes>>

\* write_resume_state; a write that fails may leave the file cut short (a crash
\* during the write is part of Crash).
InstallDescribe(c) ==
    /\ At(c, "describe")
    /\ \/ /\ resume' = [resume EXCEPT ![target[c]] = "match"]
          /\ Goto(c, "open") /\ NoFault
       \/ /\ \E left \in {"torn", resume[target[c]]} : resume' = [resume EXCEPT ![target[c]] = left]
          /\ Goto(c, "failed") /\ Fault
    /\ UNCHANGED <<dir, partial, legacy, row, downloads, cancelled, target, got, staged, deletes>>

\* File::create truncates, append does not.
InstallOpen(c) == LET m == target[c] IN
    /\ At(c, "open")
    /\ \/ /\ partial' = IF got[c] = 0 THEN [partial EXCEPT ![m] = <<>>] ELSE partial
          /\ Goto(c, "stream") /\ NoFault
       \/ Goto(c, "failed") /\ Fault /\ UNCHANGED partial
    /\ UNCHANGED <<dir, resume, legacy, row, downloads, cancelled, target, got, staged, deletes>>

\* One chunk is written; a wrong one is a fault of the server.
InstallChunk(c) == LET m == target[c] IN
    /\ At(c, "stream") /\ ~cancelled[m] /\ got[c] < Size
    /\ \E good \in BOOLEAN :
         /\ IF good THEN NoFault ELSE Fault
         /\ partial' = [partial EXCEPT ![m] = Append(@, good)]
    /\ got' = [got EXCEPT ![c] = @ + 1]
    /\ UNCHANGED <<dir, resume, legacy, row, downloads, cancelled, pc, target, staged, deletes>>

\* The stream ends: complete, or with an error that keeps the partial (the
\* token, a network or write error, too few bytes, too many bytes).
InstallStreamEnd(c) ==
    /\ At(c, "stream")
    /\ \/ got[c] = Size /\ Goto(c, "verify") /\ NoFault
       \/ cancelled[target[c]] /\ Goto(c, "failed") /\ NoFault
       \/ Goto(c, "failed") /\ Fault
    /\ KeepAllButControl

\* Mutant: a partial of the right size is taken as complete.
InstallVerifySize(c) ==
    /\ At(c, "verify")
    /\ Goto(c, "place")
    /\ NoFault /\ KeepAllButControl

InstallVerify(c) ==
    /\ At(c, "verify")
    /\ \/ Goto(c, IF Verifies(partial[target[c]]) THEN "place" ELSE "failed") /\ NoFault
       \/ Goto(c, "failed") /\ Fault
    /\ KeepAllButControl

\* Mutant: the metadata is removed before the file has reached its place.
InstallPlaceForgetting(c) == LET m == target[c] IN
    /\ At(c, "place") /\ dir[m] = NoDir
    /\ staged' = [staged EXCEPT ![c] = partial[m]]
    /\ partial' = [partial EXCEPT ![m] = NoFile]
    /\ resume' = [resume EXCEPT ![m] = "none"]
    /\ Goto(c, "publish") /\ NoFault
    /\ UNCHANGED <<dir, legacy, row, downloads, cancelled, target, got, deletes>>

\* activate, first half: the partial moves into the call's staging directory.
InstallPlace(c) == LET m == target[c] IN
    /\ At(c, "place")
    /\ \/ /\ \/ dir[m] # NoDir /\ NoFault
             \/ Fault
          /\ Goto(c, "failed")
          /\ UNCHANGED <<partial, staged>>
       \/ /\ dir[m] = NoDir
          /\ staged' = [staged EXCEPT ![c] = partial[m]]
          /\ partial' = [partial EXCEPT ![m] = NoFile]
          /\ Goto(c, "publish") /\ NoFault
    /\ UNCHANGED <<dir, resume, legacy, row, downloads, cancelled, target, got, deletes>>

\* activate, second half: the staging directory becomes the model directory,
\* or the partial is restored.
InstallPublish(c) == LET m == target[c] IN
    /\ At(c, "publish")
    /\ staged' = [staged EXCEPT ![c] = NoFile]
    /\ \/ /\ \/ dir[m] # NoDir /\ NoFault
             \/ Fault
          /\ partial' = [partial EXCEPT ![m] = staged[c]]
          /\ Goto(c, "failed")
          /\ UNCHANGED dir
       \/ /\ dir[m] = NoDir
          /\ dir' = [dir EXCEPT ![m] = staged[c]]
          /\ Goto(c, "forget") /\ NoFault
          /\ UNCHANGED partial
    /\ UNCHANGED <<resume, legacy, row, downloads, cancelled, target, got, deletes>>

\* remove_file_if_present(resume); its error fails an install that is in place.
InstallForget(c) ==
    /\ At(c, "forget")
    /\ \/ /\ resume' = [resume EXCEPT ![target[c]] = "none"]
          /\ Goto(c, "installed") /\ NoFault
       \/ /\ Goto(c, "failed") /\ Fault
          /\ UNCHANGED resume
    /\ UNCHANGED <<dir, partial, legacy, row, downloads, cancelled, target, got, staged, deletes>>

\* Mutant: the result is not looked at before the row is saved.
InstallReleaseUnjudged(c) ==
    /\ pc[c] \in {"failed", "installed"}
    /\ downloads' = [downloads EXCEPT ![target[c]] = None]
    /\ Goto(c, "save") /\ NoFault
    /\ UNCHANGED <<disk, cancelled, target, got, staged, deletes>>

\* Mutant: an error returns before the entry is removed.
InstallReleaseOnSuccess(c) ==
    /\ pc[c] \in {"failed", "installed"}
    /\ downloads' = IF At(c, "installed") THEN [downloads EXCEPT ![target[c]] = None] ELSE downloads
    /\ Goto(c, IF At(c, "installed") THEN "save" ELSE "idle") /\ NoFault
    /\ UNCHANGED <<disk, cancelled, target, got, staged, deletes>>

\* The entry leaves the download map whatever the result.
InstallRelease(c) ==
    /\ pc[c] \in {"failed", "installed"}
    /\ downloads' = [downloads EXCEPT ![target[c]] = None]
    /\ Goto(c, IF At(c, "installed") THEN "save" ELSE "idle") /\ NoFault
    /\ UNCHANGED <<disk, cancelled, target, got, staged, deletes>>

\* InstalledModelRepository::save with active = false, also over an active row.
InstallSave(c) ==
    /\ At(c, "save")
    /\ \/ row' = [row EXCEPT ![target[c]] = "installed"] /\ NoFault
       \/ UNCHANGED row /\ Fault
    /\ Goto(c, "idle")
    /\ UNCHANGED <<dir, partial, resume, legacy, downloads, cancelled, target, got, staged, deletes>>

CancelModelInstall(m) ==
    /\ downloads[m] # None /\ ~cancelled[m]
    /\ cancelled' = [cancelled EXCEPT ![m] = TRUE]
    /\ Fault
    /\ UNCHANGED <<disk, downloads, pc, target, got, staged, deletes>>

-----------------------------------------------------------------------------
(* activate_model and delete_model                                         *)

\* validate_installed_model.
ActivateValidate(c, m) ==
    /\ At(c, "idle") /\ Verifies(dir[m])
    /\ target' = [target EXCEPT ![c] = m]
    /\ Goto(c, "activate") /\ NoFault
    /\ UNCHANGED <<disk, downloads, cancelled, got, staged, deletes>>

\* activate_local_cpu: one transaction; without a row, or when it fails, it
\* changes nothing.
ActivateRow(c) == LET m == target[c] IN
    /\ At(c, "activate")
    /\ \/ /\ row' = IF row[m] = "none" THEN row
                    ELSE [n \in Models |-> IF n = m THEN "active"
                                           ELSE IF row[n] = "active" THEN "installed" ELSE row[n]]
          /\ NoFault
       \/ UNCHANGED row /\ Fault
    /\ Goto(c, "idle")
    /\ UNCHANGED <<dir, partial, resume, legacy, downloads, cancelled, target, got, staged, deletes>>

\* ModelManager::delete: remove_dir_all takes the file, then the directory.
DeleteFile(c, m) ==
    /\ At(c, "idle") /\ dir[m] # NoDir
    /\ deletes < MaxDeletes /\ deletes' = deletes + 1
    /\ dir' = [dir EXCEPT ![m] = NoFile]
    /\ target' = [target EXCEPT ![c] = m]
    /\ Goto(c, "rmdir") /\ NoFault
    /\ UNCHANGED <<partial, resume, legacy, row, downloads, cancelled, got, staged>>

\* Another deletion may have taken the directory, and an install may then have
\* put a new one there, which is not empty.
DeleteDirectory(c) == LET m == target[c] IN
    /\ At(c, "rmdir")
    /\ \/ /\ dir' = IF dir[m] = NoFile THEN [dir EXCEPT ![m] = NoDir] ELSE dir
          /\ \/ dir[m] \in {NoFile, NoDir} /\ Goto(c, "rmrow")
             \/ dir[m] # NoFile /\ Goto(c, "idle")
          /\ NoFault
       \/ Goto(c, "idle") /\ Fault /\ UNCHANGED dir
    /\ UNCHANGED <<partial, resume, legacy, row, downloads, cancelled, target, got, staged, deletes>>

\* InstalledModelRepository::delete.
DeleteRow(c) ==
    /\ At(c, "rmrow")
    /\ \/ row' = [row EXCEPT ![target[c]] = "none"] /\ NoFault
       \/ UNCHANGED row /\ Fault
    /\ Goto(c, "idle")
    /\ UNCHANGED <<dir, partial, resume, legacy, downloads, cancelled, target, got, staged, deletes>>

-----------------------------------------------------------------------------
\* The process dies and is started again: the calls, the download map and the
\* staging directories of the calls (nobody looks for them) are lost, and a
\* resume file that was being written may be cut short.
Crash ==
    /\ Fault
    /\ \E torn \in SUBSET {target[c] : c \in {d \in Calls : At(d, "describe")}} :
         resume' = [m \in Models |-> IF m \in torn THEN "torn" ELSE resume[m]]
    /\ pc' = [c \in Calls |-> "idle"]
    /\ staged' = [c \in Calls |-> NoFile]
    /\ downloads' = [m \in Models |-> None]
    /\ cancelled' = [m \in Models |-> FALSE]
    /\ UNCHANGED <<dir, partial, legacy, row, target, got, deletes>>

\* Every step of a call that is under way.
Step(c) ==
    \/ InstallCheck(c)      \/ InstallValidate(c)  \/ InstallRecover(c)
    \/ InstallOffset(c)     \/ InstallDropResume(c) \/ InstallRequest(c)
    \/ InstallDescribe(c)   \/ InstallOpen(c)      \/ InstallChunk(c)
    \/ InstallStreamEnd(c)  \/ InstallVerify(c)    \/ InstallPlace(c)
    \/ InstallPublish(c)    \/ InstallForget(c)    \/ InstallRelease(c)
    \/ InstallSave(c)       \/ ActivateRow(c)      \/ DeleteDirectory(c)
    \/ DeleteRow(c)

Next ==
    \/ \E c \in Calls : Step(c)
    \/ \E c \in Calls, m \in Models :
         \/ InstallClaim(c, m) \/ InstallWithoutClient(c, m)
         \/ ActivateValidate(c, m) \/ DeleteFile(c, m)
    \/ \E m \in Models : CancelModelInstall(m)
    \/ Crash

Spec == Init /\ [][Next]_vars

\* Calls make progress (the HTTP client has connect and total timeouts), and
\* the user tries an install again as long as the model is missing.
FairSpec ==
    /\ Spec
    /\ \A c \in Calls : WF_vars(Step(c))
    /\ \A m \in Models : SF_vars(\E c \in Calls : InstallClaim(c, m))

-----------------------------------------------------------------------------
(* Properties                                                              *)

\* "invalid downloads never become active" (docs/model-manifest.md:21): a model
\* file that is in place has the size and hash of the signed manifest, whatever
\* the server sent and however calls, cancellations and crashes interleave.
InstalledIsVerified ==
    \A m \in Models : dir[m] \in Contents => Verifies(dir[m])

\* resume_offset accepts the metadata beside the partial: it continues the
\* partial, or drops it for the new manifest entry.  Without metadata it would
\* begin again, and metadata that does not parse it refuses for ever.
Resumable(m) == partial[m] # NoFile => resume[m] \in {"match", "other"}

\* An install leaves write_resume_state without having written the metadata.
RewriteCutShort(m) ==
    \E c \in Calls : pc[c] = "describe" /\ target[c] = m /\ pc'[c] \in {"failed", "idle"}

\* A partial that can be resumed stays one through every step of every call, a
\* cancellation, a lost connection, a failed rename or a crash, with the one
\* exception of the step that cuts short the rewriting of the metadata: no other
\* write, and no removal, is made in an order that loses the partial.
PartialIsResumable ==
    [][\A m \in Models : Resumable(m) => Resumable(m)' \/ RewriteCutShort(m)]_vars

\* "Cancelled downloads remain resumable" (docs/model-manifest.md:21) as it is
\* written, without that exception.  It does not hold.
DownloadsStayResumable == \A m \in Models : Resumable(m)

\* The install calls at work on the files of a model.
Working(m) == {c \in Calls : pc[c] \in Downloading /\ target[c] = m}

\* The download entry of a model names the one install call that works on its
\* files.  Without an entry nobody does, and no two calls write the same
\* partial.  An entry nobody works behind is only left by an install that could
\* not build its HTTP client (InstallWithoutClient).
DownloadHasOwner ==
    \A m \in Models :
        Working(m) = IF downloads[m] \in {None, Leaked} THEN {} ELSE {downloads[m]}

\* "this model is already downloading" (apps/desktop/src-tauri/src/lib.rs:789),
\* the answer to an install that finds an entry, is true: some call downloads.
\* It does not hold after InstallWithoutClient.
RefusedOnlyWhileDownloading ==
    \A m \in Models : downloads[m] # None => Working(m) # {}

\* "persists only verified model metadata to SQLite" (docs/architecture.md:55-56):
\* before the first deletion a row of installed_models, and so the selected
\* model, always has its verified file on disk.
RowHasModel ==
    deletes = 0 => \A m \in Models : row[m] # "none" => Verifies(dir[m])

\* model_catalog merges "local installation state" (docs/desktop-command-contract.md:14),
\* a row, into the catalogue: when no call is at work, a model it calls installed
\* is on disk.  It does not hold once a deletion overlaps an install.
CatalogIsTrue ==
    (\A c \in Calls : pc[c] = "idle") => \A m \in Models : row[m] # "none" => Verifies(dir[m])

\* What no retry of the install gets past: two legacy staging directories, a
\* resume file cut short by a crash, a complete partial with the wrong hash,
\* the empty directory of an interrupted deletion, a leaked download entry.
NeedsHelp(m) ==
    \/ legacy[m] = 2 /\ partial[m] = NoFile
    \/ resume[m] = "torn" /\ partial[m] # NoFile
    \/ partial[m] \in [1..Size -> BOOLEAN] /\ ~Verifies(partial[m])
    \/ dir[m] = NoFile
    \/ downloads[m] = Leaked

\* Crashes, cancellations, lost connections and deletions come to an end: a
\* user who retries then gets the model installed and recorded, unless one of
\* the situations of NeedsHelp has come about.
InstallRecovers ==
    \A m \in Models : []<>((Verifies(dir[m]) /\ row[m] # "none") \/ NeedsHelp(m))

-----------------------------------------------------------------------------
(* What the safety properties rest on, the inductive strengthening.        *)

\* The offset an install asks for, and then counts on, is the length of the
\* partial file it appends to.
Counted(c) ==
    (\/ pc[c] = "stream"
     \/ pc[c] \in {"drop_other", "request", "drop_reset", "describe", "open"} /\ got[c] > 0)
    => partial[target[c]] \in Contents /\ got[c] = Len(partial[target[c]])

OffsetIsLength == \A c \in Calls : Counted(c)

\* The staging directories of the alpha build wait until recovery has run, and
\* nothing touches the metadata beside them.
LegacyIsUntouched ==
    \A m \in Models : legacy[m] > 0 => partial[m] = NoFile /\ resume[m] = "match"

PartialHasMetadata == \A m \in Models : partial[m] # NoFile => resume[m] # "none"

PastRecovery == Downloading \ {"check", "validate", "recover", "failed", "installed"}

\* What a call knows at a step about the files of its model.
StepFacts ==
    \A c \in Calls :
        /\ pc[c] \in {"drop_other", "drop_reset", "publish", "forget"} => partial[target[c]] = NoFile
        /\ pc[c] \in {"open", "stream", "verify", "place", "publish"} => resume[target[c]] = "match"
        /\ pc[c] \in PastRecovery => legacy[target[c]] = 0
        /\ pc[c] = "place" => Verifies(partial[target[c]])
        /\ pc[c] = "publish" => Verifies(staged[c])
        /\ pc[c] \in {"forget", "installed", "save"} /\ deletes = 0 => Verifies(dir[target[c]])
        /\ pc[c] = "rmdir" => deletes > 0

IInv ==
    /\ TypeOK /\ DownloadHasOwner /\ OffsetIsLength /\ StepFacts
    /\ InstalledIsVerified /\ PartialHasMetadata /\ LegacyIsUntouched /\ RowHasModel
=============================================================================
