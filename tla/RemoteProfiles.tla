--------------------------- MODULE RemoteProfiles ---------------------------
(***************************************************************************)
(* The profiles of personal remote workers: the provider_profiles table,   *)
(* the Windows Credential Manager, the setting that selects a profile, and *)
(* the commands that work on them.                                         *)
(*                                                                         *)
(* save_remote_provider is asynchronous and runs beside the commands of    *)
(* the main thread (activate, use local, delete) and beside the start of a *)
(* recording, which the hotkey or the tray may cause at any time.  Table   *)
(* and setting are guarded by the database mutex, the credentials by       *)
(* nothing.  A token is identified with the worker that accepts it, so the *)
(* pair (endpoint, token) that a probe accepted is (w, w).  Failures of    *)
(* the stores, crashes and removals of a credential from outside share the *)
(* budget MaxFaults.                                                       *)
(***************************************************************************)
EXTENDS Naturals

CONSTANTS
    Profiles,   \* profile ids
    Workers,    \* remote workers, each with its own endpoint and token
    MaxFaults,  \* failures, crashes and outside removals of a behaviour
    None        \* no row, no credential, no selection

ASSUME ProfilesAssumption ==
    /\ MaxFaults \in Nat
    /\ None \notin Workers /\ None \notin Profiles

VARIABLES
    endpoint,   \* provider_profiles.endpoint, None without a row
    enabled,    \* provider_profiles.enabled, FALSE without a row
    secret,     \* Credential Manager, under the reference of the profile
    active,     \* the setting ACTIVE_REMOTE_PROVIDER_SETTINGS_KEY
    save,       \* the save command in progress
    main,       \* the command on the main thread
    rec,        \* the start of a recording
    damaged,    \* history: profiles hit by a fault between two steps
    overlapped, \* history: profiles that were saved and deleted at once
    faults

stored  == <<endpoint, enabled, secret, active>>
history == <<damaged, overlapped>>
vars    == <<stored, save, main, rec, history, faults>>

NoSave == [pc |-> "idle", id |-> None, worker |-> None, enabled |-> FALSE,
           activate |-> FALSE, created |-> FALSE]
NoMain == [pc |-> "idle", id |-> None]
NoRec  == [pc |-> "idle", id |-> None, endpoint |-> None, token |-> None, disturbed |-> FALSE]

TypeOK ==
    /\ endpoint \in [Profiles -> Workers \cup {None}]
    /\ enabled \in [Profiles -> BOOLEAN]
    /\ secret \in [Profiles -> Workers \cup {None}]
    /\ active \in Profiles \cup {None}
    /\ save \in [pc : {"probed", "looked", "written", "activate"}, id : Profiles,
                 worker : Workers, enabled : BOOLEAN, activate : BOOLEAN,
                 created : BOOLEAN] \cup {NoSave}
    /\ main \in [pc : {"found", "forgotten", "reset"}, id : Profiles] \cup {NoMain}
    /\ \/ rec = NoRec
       \/ rec \in [pc : {"profile"}, id : Profiles, endpoint : Workers, token : {None},
                   disturbed : BOOLEAN]
       \/ rec \in [pc : {"connect"}, id : Profiles, endpoint : Workers, token : Workers,
                   disturbed : BOOLEAN]
    /\ damaged \subseteq Profiles /\ overlapped \subseteq Profiles
    /\ faults \in 0..MaxFaults

Init ==
    /\ endpoint = [p \in Profiles |-> None]
    /\ enabled = [p \in Profiles |-> FALSE]
    /\ secret = [p \in Profiles |-> None]
    /\ active = None
    /\ save = NoSave /\ main = NoMain /\ rec = NoRec
    /\ damaged = {} /\ overlapped = {}
    /\ faults = 0

Fault   == faults < MaxFaults /\ faults' = faults + 1
NoFault == UNCHANGED faults

\* delete_remote_provider holds the database mutex over its two last statements.
DatabaseFree == main.pc # "reset"

Saving(p)   == save.pc # "idle" /\ save.id = p
Deleting(p) == main.pc # "idle" /\ main.id = p

-----------------------------------------------------------------------------
(* save_remote_provider                                                    *)

\* probe_remote_provider accepted the entered endpoint, token and model; a
\* probe that fails returns without a trace.
SaveProbe(p, w) ==
    /\ save.pc = "idle"
    /\ \E e, a \in BOOLEAN :
         save' = [save EXCEPT !.pc = "probed", !.id = p, !.worker = w,
                              !.enabled = e, !.activate = a]
    /\ overlapped' = IF Deleting(p) THEN overlapped \cup {p} ELSE overlapped
    /\ NoFault
    /\ UNCHANGED <<stored, main, rec, damaged>>

\* The stored profile is looked up: it decides whether a credential is new.
SaveLook ==
    /\ save.pc = "probed" /\ DatabaseFree
    /\ save' = [save EXCEPT !.pc = "looked", !.created = (endpoint[save.id] = None)]
    /\ NoFault
    /\ UNCHANGED <<stored, main, rec, history>>

\* Mutant: a profile that has a credential keeps it.
SaveSecretOnce == LET p == save.id IN
    /\ save.pc = "looked"
    /\ secret' = IF save.created THEN [secret EXCEPT ![p] = save.worker] ELSE secret
    /\ save' = [save EXCEPT !.pc = "written"]
    /\ NoFault
    /\ UNCHANGED <<endpoint, enabled, active, main, rec, history>>

\* write_secret, over an older secret of the profile if there is one.
SaveSecret == LET p == save.id IN
    /\ save.pc = "looked"
    /\ \/ /\ secret' = [secret EXCEPT ![p] = save.worker]
          /\ save' = [save EXCEPT !.pc = "written"]
          /\ rec' = IF rec.pc = "profile" /\ rec.id = p
                    THEN [rec EXCEPT !.disturbed = TRUE] ELSE rec
          /\ NoFault
       \/ /\ save' = NoSave
          /\ Fault
          /\ UNCHANGED <<secret, rec>>
    /\ UNCHANGED <<endpoint, enabled, active, main, history>>

\* Mutant: a credential that was created stays when the row is not saved.
SaveRowNoCleanup == LET p == save.id IN
    /\ save.pc = "written" /\ DatabaseFree
    /\ save' = NoSave
    /\ \/ /\ endpoint' = [endpoint EXCEPT ![p] = save.worker]
          /\ enabled' = [enabled EXCEPT ![p] = save.enabled]
          /\ NoFault
       \/ Fault /\ UNCHANGED <<endpoint, enabled>>
    /\ UNCHANGED <<secret, active, main, rec, history>>

\* ProviderProfileRepository::save; when it fails a credential this call has
\* created is deleted again, one that it has overwritten stays.  (A deletion
\* that fails too leaves what a crash before this step leaves.)
SaveRow == LET p == save.id IN
    /\ save.pc = "written" /\ DatabaseFree
    /\ \/ /\ endpoint' = [endpoint EXCEPT ![p] = save.worker]
          /\ enabled' = [enabled EXCEPT ![p] = save.enabled]
          /\ save' = IF save.activate THEN [save EXCEPT !.pc = "activate"] ELSE NoSave
          /\ NoFault
          /\ UNCHANGED <<secret, damaged>>
       \/ /\ secret' = IF save.created THEN [secret EXCEPT ![p] = None] ELSE secret
          /\ damaged' = IF save.created THEN damaged ELSE damaged \cup {p}
          /\ save' = NoSave
          /\ Fault
          /\ UNCHANGED <<endpoint, enabled>>
    /\ UNCHANGED <<active, main, rec, overlapped>>

\* activate_remote_profile, all of it under the database mutex: a profile that
\* is missing, disabled or without its credential is refused.
Selectable(p) == endpoint[p] # None /\ enabled[p] /\ secret[p] # None

ActivateRemoteProfile(p) ==
    active' = IF Selectable(p) THEN p ELSE active

SaveActivate ==
    /\ save.pc = "activate" /\ DatabaseFree
    /\ ActivateRemoteProfile(save.id)
    /\ save' = NoSave
    /\ NoFault
    /\ UNCHANGED <<endpoint, enabled, secret, main, rec, history>>

-----------------------------------------------------------------------------
(* The commands of the main thread                                         *)

ActivateRemoteProvider(p) ==
    /\ main.pc = "idle"
    /\ Selectable(p) /\ ActivateRemoteProfile(p)
    /\ NoFault
    /\ UNCHANGED <<endpoint, enabled, secret, save, main, rec, history>>

UseLocalProvider ==
    /\ main.pc = "idle"
    /\ active' = None
    /\ NoFault
    /\ UNCHANGED <<endpoint, enabled, secret, save, main, rec, history>>

DeleteFind(p) ==
    /\ main.pc = "idle" /\ endpoint[p] # None
    /\ main' = [pc |-> "found", id |-> p]
    /\ overlapped' = IF Saving(p) THEN overlapped \cup {p} ELSE overlapped
    /\ NoFault
    /\ UNCHANGED <<stored, save, rec, damaged>>

\* The credential goes first; a credential that is missing is no error.
DeleteSecret == LET p == main.id IN
    /\ main.pc = "found"
    /\ \/ /\ secret' = [secret EXCEPT ![p] = None]
          /\ main' = [main EXCEPT !.pc = "forgotten"]
          /\ NoFault
       \/ /\ main' = NoMain
          /\ Fault
          /\ UNCHANGED secret
    /\ UNCHANGED <<endpoint, enabled, active, save, rec, history>>

\* ProviderProfileRepository::delete.
DeleteRow == LET p == main.id IN
    /\ main.pc = "forgotten"
    /\ \/ /\ endpoint' = [endpoint EXCEPT ![p] = None]
          /\ enabled' = [enabled EXCEPT ![p] = FALSE]
          /\ main' = [main EXCEPT !.pc = "reset"]
          /\ NoFault /\ UNCHANGED damaged
       \/ /\ main' = NoMain
          /\ Fault /\ damaged' = damaged \cup {p}
          /\ UNCHANGED <<endpoint, enabled>>
    /\ UNCHANGED <<secret, active, save, rec, overlapped>>

\* Mutant: the selection is not looked at.
DeleteNoReset ==
    /\ main.pc = "reset"
    /\ main' = NoMain
    /\ NoFault
    /\ UNCHANGED <<stored, save, rec, history>>

\* The selection is reset if it names the deleted profile.
DeleteReset == LET p == main.id IN
    /\ main.pc = "reset"
    /\ \/ /\ active' = IF active = p THEN None ELSE active
          /\ NoFault /\ UNCHANGED damaged
       \/ /\ Fault /\ damaged' = damaged \cup {p}
          /\ UNCHANGED active
    /\ main' = NoMain
    /\ UNCHANGED <<endpoint, enabled, secret, save, rec, overlapped>>

-----------------------------------------------------------------------------
(* recording_provider, the part that selects a remote worker               *)

\* active_remote_provider: without a selection the recording is local, and a
\* profile that is missing or disabled refuses it; both change nothing here.
RecordProfile ==
    /\ rec.pc = "idle" /\ DatabaseFree
    /\ active # None /\ endpoint[active] # None /\ enabled[active]
    /\ rec' = [rec EXCEPT !.pc = "profile", !.id = active, !.endpoint = endpoint[active],
                          !.disturbed = Saving(active)]
    /\ NoFault
    /\ UNCHANGED <<stored, save, main, history>>

\* read_secret, outside the database mutex.
RecordSecret ==
    /\ rec.pc = "profile"
    /\ rec' = IF secret[rec.id] = None THEN NoRec
              ELSE [rec EXCEPT !.pc = "connect", !.token = secret[rec.id]]
    /\ NoFault
    /\ UNCHANGED <<stored, save, main, history>>

\* health_check and refresh_capabilities, whatever they answer.
RecordConnect ==
    /\ rec.pc = "connect"
    /\ rec' = NoRec
    /\ NoFault
    /\ UNCHANGED <<stored, save, main, history>>

-----------------------------------------------------------------------------
\* The user removes a credential with the tools of Windows.
OutsideRemoval(p) ==
    /\ secret[p] # None
    /\ secret' = [secret EXCEPT ![p] = None]
    /\ damaged' = damaged \cup {p}
    /\ Fault
    /\ UNCHANGED <<endpoint, enabled, active, save, main, rec, overlapped>>

\* The process dies between two steps of its commands; the stores survive.
Crash ==
    /\ Fault
    /\ damaged' = damaged \cup {p \in Profiles :
                     (Saving(p) /\ save.pc = "written") \/ (Deleting(p) /\ main.pc # "found")}
    /\ save' = NoSave
    /\ main' = NoMain
    /\ rec' = NoRec
    /\ UNCHANGED <<stored, overlapped>>

Next ==
    \/ \E p \in Profiles, w \in Workers : SaveProbe(p, w)
    \/ SaveLook \/ SaveSecret \/ SaveRow \/ SaveActivate
    \/ \E p \in Profiles : ActivateRemoteProvider(p) \/ DeleteFind(p) \/ OutsideRemoval(p)
    \/ UseLocalProvider \/ DeleteSecret \/ DeleteRow \/ DeleteReset
    \/ RecordProfile \/ RecordSecret \/ RecordConnect
    \/ Crash

Spec == Init /\ [][Next]_vars

-----------------------------------------------------------------------------
(* Properties                                                              *)

\* "Ensure that a profile never looks active when a previous external
\* credential deletion left it incomplete" (activate_remote_profile): the
\* selected profile has its row and its credential, whatever saves, deletions
\* and selections interleave; the exceptions are a deletion of it in progress
\* and a fault between two steps.
ActiveIsUsable ==
    active # None =>
        \/ endpoint[active] # None /\ secret[active] # None
        \/ Deleting(active)
        \/ active \in damaged

\* "A remote profile must have been explicitly tested and activated"
\* (docs/desktop-command-contract.md:31): the worker a recording connects to
\* and the token it presents were accepted together by a probe; only a save of
\* the very profile, overlapping the start or cut short, can mix two pairs.
TestedPairIsUsed ==
    rec.pc = "connect" =>
        \/ rec.endpoint = rec.token
        \/ rec.disturbed
        \/ rec.id \in damaged

\* The same for every recording, with no save excused.  It does not hold: between
\* the two writes of a save a recording reads the endpoint of one pair and the
\* token of the other.
PairsAreTested == rec.pc = "connect" => rec.endpoint = rec.token

\* "remove a confirmed remote profile and its Windows credential"
\* (docs/desktop-command-contract.md:28): no credential is left without its
\* profile by a failed save or by a deletion; the exceptions are a save in
\* progress, a fault between two steps and a save that overlapped a deletion.
SecretHasProfile ==
    \A p \in Profiles : secret[p] # None =>
        \/ endpoint[p] # None
        \/ Saving(p) \/ Deleting(p)
        \/ p \in damaged \cup overlapped

-----------------------------------------------------------------------------
(* What the safety properties rest on, the inductive strengthening.        *)

\* A profile that is both saved and deleted is remembered as such.
OverlapNoted == \A p \in Profiles : Saving(p) /\ Deleting(p) => p \in overlapped

\* A save that found no row still finds none, and the credential it has
\* written is there unless somebody has deleted it.
SaveKnows ==
    /\ save.pc \in {"looked", "written"} /\ save.created => endpoint[save.id] = None
    /\ save.pc = "written" => secret[save.id] \in {save.worker, None}

\* A selected profile is unusable only after its deletion has taken the
\* credential, or after a fault.
SelectionUsable ==
    active # None =>
        \/ endpoint[active] # None /\ secret[active] # None
        \/ Deleting(active) /\ main.pc # "found"
        \/ active \in damaged

\* Row and credential belong to the same worker, except between the two steps
\* of a save.
PairMatches ==
    \A p \in Profiles : endpoint[p] # None /\ secret[p] # None =>
        \/ endpoint[p] = secret[p]
        \/ Saving(p) /\ save.pc = "written"
        \/ p \in damaged

\* What a recording will read still fits the endpoint it has read.
RecordedPairMatches ==
    rec.pc = "profile" =>
        secret[rec.id] \in {rec.endpoint, None} \/ rec.disturbed \/ rec.id \in damaged

\* A credential without a row is on its way in, or somebody was unlucky; a
\* deletion past its first step has left none.
SecretExplained ==
    \A p \in Profiles : secret[p] # None =>
        \/ endpoint[p] # None /\ ~(Deleting(p) /\ main.pc # "found")
        \/ Saving(p) /\ save.pc = "written"
        \/ p \in damaged \cup overlapped

IInv ==
    /\ TypeOK /\ OverlapNoted /\ SaveKnows /\ SelectionUsable
    /\ PairMatches /\ RecordedPairMatches /\ TestedPairIsUsed /\ SecretExplained
=============================================================================
