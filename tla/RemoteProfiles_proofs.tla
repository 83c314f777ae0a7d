------------------------ MODULE RemoteProfiles_proofs ------------------------
(***************************************************************************)
(* Safety of the remote profiles for any profiles, workers and number of   *)
(* faults.  Each lemma shows that one step keeps one part of the inductive *)
(* invariant IInv, action by action.                                       *)
(***************************************************************************)
EXTENDS RemoteProfiles, TLAPS

(* Without profiles, credentials and commands there is nothing to explain.     *)
LEMMA InitInv == Init => IInv
  BY ProfilesAssumption
  DEF Init, IInv, TypeOK, OverlapNoted, SaveKnows, SelectionUsable, PairMatches,
      RecordedPairMatches, TestedPairIsUsed, SecretExplained, Saving, Deleting,
      NoSave, NoMain, NoRec

(* Every command keeps the types of the stores and of its own state.           *)
LEMMA StepType == IInv /\ [Next]_vars => TypeOK'
<1> SUFFICES ASSUME IInv, [Next]_vars PROVE TypeOK'
  OBVIOUS
<1> USE ProfilesAssumption
    DEF IInv, TypeOK, Saving, Deleting, Fault, NoFault, stored, history, NoSave, NoMain, NoRec
<1>1. ASSUME NEW p \in Profiles, NEW w \in Workers, SaveProbe(p, w) PROVE TypeOK'
  <2>1. save = NoSave
    BY <1>1 DEF SaveProbe
  <2>2. PICK e \in BOOLEAN, a \in BOOLEAN :
          save' = [pc |-> "probed", id |-> p, worker |-> w, enabled |-> e,
                   activate |-> a, created |-> FALSE]
    BY <1>1, <2>1 DEF SaveProbe
  <2>3. overlapped' \subseteq Profiles
    BY <1>1 DEF SaveProbe
  <2> QED
    BY <1>1, <2>2, <2>3 DEF SaveProbe
<1>2. CASE SaveLook
  <2>1. save # NoSave
    BY <1>2 DEF SaveLook
  <2>2. PICK new \in BOOLEAN :
          save' = [pc |-> "looked", id |-> save.id, worker |-> save.worker, enabled |-> save.enabled,
                   activate |-> save.activate, created |-> new]
    BY <1>2, <2>1 DEF SaveLook
  <2> QED
    BY <1>2, <2>1, <2>2 DEF SaveLook
<1>3. CASE SaveSecret
  <2>1. save # NoSave
    BY <1>3 DEF SaveSecret
  <2>2. \/ save' = NoSave
        \/ save' = [pc |-> "written", id |-> save.id, worker |-> save.worker, enabled |-> save.enabled,
                    activate |-> save.activate, created |-> save.created]
    BY <1>3, <2>1 DEF SaveSecret
  <2>3. \/ rec' = rec
        \/ /\ rec.pc = "profile"
           /\ rec' = [pc |-> "profile", id |-> rec.id, endpoint |-> rec.endpoint, token |-> rec.token,
                      disturbed |-> TRUE]
    BY <1>3 DEF SaveSecret
  <2>4. secret' \in [Profiles -> Workers \cup {None}] /\ faults' \in 0..MaxFaults
    BY <1>3, <2>1 DEF SaveSecret
  <2>5. CASE rec' = rec
    BY <1>3, <2>1, <2>2, <2>4, <2>5 DEF SaveSecret
  <2>6. CASE rec' # rec
    <3>1. /\ rec.pc = "profile"
          /\ rec' = [pc |-> "profile", id |-> rec.id, endpoint |-> rec.endpoint, token |-> rec.token,
                     disturbed |-> TRUE]
      BY <2>3, <2>6
    <3>2. /\ rec.id \in Profiles /\ rec.endpoint \in Workers
          /\ rec.token = None
      BY <3>1
    <3>3. rec' \in [pc : {"profile"}, id : Profiles, endpoint : Workers, token : {None},
                    disturbed : BOOLEAN]
      BY <3>1, <3>2
    <3> QED
      BY <1>3, <2>1, <2>2, <2>4, <3>3 DEF SaveSecret
  <2> QED
    BY <2>5, <2>6
<1>4. CASE SaveRow
  BY <1>4 DEF SaveRow
<1>5. CASE SaveActivate
  BY <1>5 DEF SaveActivate, ActivateRemoteProfile, Selectable
<1>6. ASSUME NEW p \in Profiles, ActivateRemoteProvider(p) PROVE TypeOK'
  BY <1>6 DEF ActivateRemoteProvider, ActivateRemoteProfile, Selectable
<1>7. CASE UseLocalProvider
  BY <1>7 DEF UseLocalProvider
<1>8. ASSUME NEW p \in Profiles, DeleteFind(p) PROVE TypeOK'
  BY <1>8 DEF DeleteFind
<1>9. CASE DeleteSecret
  BY <1>9 DEF DeleteSecret
<1>10. CASE DeleteRow
  <2>1. main # NoMain
    BY <1>10 DEF DeleteRow
  <2>2. main' = NoMain \/ main' = [pc |-> "reset", id |-> main.id]
    BY <1>10, <2>1 DEF DeleteRow
  <2>3. main.id \in Profiles
    BY <2>1
  <2>4. main' \in [pc : {"found", "forgotten", "reset"}, id : Profiles] \cup {NoMain}
    BY <2>2, <2>3
  <2>5. /\ endpoint' \in [Profiles -> Workers \cup {None}]
        /\ enabled' \in [Profiles -> BOOLEAN]
    BY <1>10 DEF DeleteRow
  <2>6. damaged' \subseteq Profiles /\ faults' \in 0..MaxFaults
    BY <1>10, <2>3 DEF DeleteRow
  <2> QED
    BY <1>10, <2>4, <2>5, <2>6 DEF DeleteRow
<1>11. CASE DeleteReset
  BY <1>11 DEF DeleteReset
<1>12. CASE RecordProfile
  <2>1. rec = NoRec
    BY <1>12 DEF RecordProfile
  <2>2. PICK d \in BOOLEAN :
          rec' = [pc |-> "profile", id |-> active, endpoint |-> endpoint[active], token |-> None,
                  disturbed |-> d]
    BY <1>12, <2>1 DEF RecordProfile
  <2>3. active \in Profiles /\ endpoint[active] \in Workers
    BY <1>12 DEF RecordProfile
  <2>4. rec' \in [pc : {"profile"}, id : Profiles, endpoint : Workers, token : {None},
                  disturbed : BOOLEAN]
    BY <2>2, <2>3
  <2> QED
    BY <1>12, <2>4 DEF RecordProfile
<1>13. CASE RecordSecret
  <2>1. \/ rec' = NoRec
        \/ /\ secret[rec.id] # None
           /\ rec' = [pc |-> "connect", id |-> rec.id, endpoint |-> rec.endpoint,
                      token |-> secret[rec.id], disturbed |-> rec.disturbed]
    BY <1>13 DEF RecordSecret
  <2>2. rec # NoRec
    BY <1>13 DEF RecordSecret
  <2> QED
    BY <1>13, <2>1, <2>2 DEF RecordSecret
<1>14. CASE RecordConnect
  BY <1>14 DEF RecordConnect
<1>15. ASSUME NEW p \in Profiles, OutsideRemoval(p) PROVE TypeOK'
  BY <1>15 DEF OutsideRemoval
<1>16. CASE Crash
  BY <1>16 DEF Crash
<1>17. CASE UNCHANGED vars
  BY <1>17 DEF vars
<1> QED
  BY <1>1, <1>2, <1>3, <1>4, <1>5, <1>6, <1>7, <1>8, <1>9, <1>10, <1>11, <1>12, <1>13, <1>14,
     <1>15, <1>16, <1>17
  DEF Next

(* Whichever of save and delete comes second finds the other under way.        *)
LEMMA StepOverlap == IInv /\ [Next]_vars => OverlapNoted'
<1> SUFFICES ASSUME IInv, [Next]_vars PROVE OverlapNoted'
  OBVIOUS
<1> USE ProfilesAssumption
    DEF IInv, TypeOK, OverlapNoted, Saving, Deleting, Fault, NoFault, stored, history, NoSave,
        NoMain, NoRec
<1>1. ASSUME NEW p \in Profiles, NEW w \in Workers, SaveProbe(p, w) PROVE OverlapNoted'
  BY <1>1 DEF SaveProbe
<1>2. CASE SaveLook
  BY <1>2 DEF SaveLook
<1>3. CASE SaveSecret
  BY <1>3 DEF SaveSecret
<1>4. CASE SaveRow
  BY <1>4 DEF SaveRow
<1>5. CASE SaveActivate
  BY <1>5 DEF SaveActivate, ActivateRemoteProfile, Selectable
<1>6. ASSUME NEW p \in Profiles, ActivateRemoteProvider(p) PROVE OverlapNoted'
  BY <1>6 DEF ActivateRemoteProvider, ActivateRemoteProfile, Selectable
<1>7. CASE UseLocalProvider
  BY <1>7 DEF UseLocalProvider
<1>8. ASSUME NEW p \in Profiles, DeleteFind(p) PROVE OverlapNoted'
  BY <1>8 DEF DeleteFind
<1>9. CASE DeleteSecret
  BY <1>9 DEF DeleteSecret
<1>10. CASE DeleteRow
  BY <1>10 DEF DeleteRow
<1>11. CASE DeleteReset
  BY <1>11 DEF DeleteReset
<1>12. CASE RecordProfile
  BY <1>12 DEF RecordProfile
<1>13. CASE RecordSecret
  BY <1>13 DEF RecordSecret
<1>14. CASE RecordConnect
  BY <1>14 DEF RecordConnect
<1>15. ASSUME NEW p \in Profiles, OutsideRemoval(p) PROVE OverlapNoted'
  BY <1>15 DEF OutsideRemoval
<1>16. CASE Crash
  BY <1>16 DEF Crash
<1>17. CASE UNCHANGED vars
  BY <1>17 DEF vars
<1> QED
  BY <1>1, <1>2, <1>3, <1>4, <1>5, <1>6, <1>7, <1>8, <1>9, <1>10, <1>11, <1>12, <1>13, <1>14,
     <1>15, <1>16, <1>17
  DEF Next

(* Only a save writes rows and credentials, and there is one at a time.        *)
LEMMA StepSave == IInv /\ [Next]_vars => SaveKnows'
<1> SUFFICES ASSUME IInv, [Next]_vars PROVE SaveKnows'
  OBVIOUS
<1> USE ProfilesAssumption
    DEF IInv, TypeOK, SaveKnows, Saving, Deleting, Fault, NoFault, stored, history, NoSave,
        NoMain, NoRec
<1>1. ASSUME NEW p \in Profiles, NEW w \in Workers, SaveProbe(p, w) PROVE SaveKnows'
  BY <1>1 DEF SaveProbe
<1>2. CASE SaveLook
  BY <1>2 DEF SaveLook
<1>3. CASE SaveSecret
  BY <1>3 DEF SaveSecret
<1>4. CASE SaveRow
  BY <1>4 DEF SaveRow
<1>5. CASE SaveActivate
  BY <1>5 DEF SaveActivate, ActivateRemoteProfile, Selectable
<1>6. ASSUME NEW p \in Profiles, ActivateRemoteProvider(p) PROVE SaveKnows'
  BY <1>6 DEF ActivateRemoteProvider, ActivateRemoteProfile, Selectable
<1>7. CASE UseLocalProvider
  BY <1>7 DEF UseLocalProvider
<1>8. ASSUME NEW p \in Profiles, DeleteFind(p) PROVE SaveKnows'
  BY <1>8 DEF DeleteFind
<1>9. CASE DeleteSecret
  BY <1>9 DEF DeleteSecret
<1>10. CASE DeleteRow
  BY <1>10 DEF DeleteRow
<1>11. CASE DeleteReset
  BY <1>11 DEF DeleteReset
<1>12. CASE RecordProfile
  BY <1>12 DEF RecordProfile
<1>13. CASE RecordSecret
  BY <1>13 DEF RecordSecret
<1>14. CASE RecordConnect
  BY <1>14 DEF RecordConnect
<1>15. ASSUME NEW p \in Profiles, OutsideRemoval(p) PROVE SaveKnows'
  BY <1>15 DEF OutsideRemoval
<1>16. CASE Crash
  BY <1>16 DEF Crash
<1>17. CASE UNCHANGED vars
  BY <1>17 DEF vars
<1> QED
  BY <1>1, <1>2, <1>3, <1>4, <1>5, <1>6, <1>7, <1>8, <1>9, <1>10, <1>11, <1>12, <1>13, <1>14,
     <1>15, <1>16, <1>17
  DEF Next

(* A profile is selected only when row and credential are there, and only its  *)
(* deletion or a fault takes one of them away.                                 *)
LEMMA StepSelection == IInv /\ [Next]_vars => SelectionUsable'
<1> SUFFICES ASSUME IInv, [Next]_vars PROVE SelectionUsable'
  OBVIOUS
<1> USE ProfilesAssumption
    DEF IInv, TypeOK, SelectionUsable, SaveKnows, Saving, Deleting, Fault, NoFault, stored,
        history, NoSave, NoMain, NoRec
<1>1. ASSUME NEW p \in Profiles, NEW w \in Workers, SaveProbe(p, w) PROVE SelectionUsable'
  BY <1>1 DEF SaveProbe
<1>2. CASE SaveLook
  BY <1>2 DEF SaveLook
<1>3. CASE SaveSecret
  BY <1>3 DEF SaveSecret
<1>4. CASE SaveRow
  BY <1>4 DEF SaveRow
<1>5. CASE SaveActivate
  BY <1>5 DEF SaveActivate, ActivateRemoteProfile, Selectable
<1>6. ASSUME NEW p \in Profiles, ActivateRemoteProvider(p) PROVE SelectionUsable'
  BY <1>6 DEF ActivateRemoteProvider, ActivateRemoteProfile, Selectable
<1>7. CASE UseLocalProvider
  BY <1>7 DEF UseLocalProvider
<1>8. ASSUME NEW p \in Profiles, DeleteFind(p) PROVE SelectionUsable'
  BY <1>8 DEF DeleteFind
<1>9. CASE DeleteSecret
  BY <1>9 DEF DeleteSecret
<1>10. CASE DeleteRow
  BY <1>10 DEF DeleteRow
<1>11. CASE DeleteReset
  BY <1>11 DEF DeleteReset
<1>12. CASE RecordProfile
  BY <1>12 DEF RecordProfile
<1>13. CASE RecordSecret
  BY <1>13 DEF RecordSecret
<1>14. CASE RecordConnect
  BY <1>14 DEF RecordConnect
<1>15. ASSUME NEW p \in Profiles, OutsideRemoval(p) PROVE SelectionUsable'
  BY <1>15 DEF OutsideRemoval
<1>16. CASE Crash
  BY <1>16 DEF Crash
<1>17. CASE UNCHANGED vars
  BY <1>17 DEF vars
<1> QED
  BY <1>1, <1>2, <1>3, <1>4, <1>5, <1>6, <1>7, <1>8, <1>9, <1>10, <1>11, <1>12, <1>13, <1>14,
     <1>15, <1>16, <1>17
  DEF Next

(* A save writes the credential and then the row for the same worker.          *)
LEMMA StepPair == IInv /\ [Next]_vars => PairMatches'
<1> SUFFICES ASSUME IInv, [Next]_vars PROVE PairMatches'
  OBVIOUS
<1> USE ProfilesAssumption
    DEF IInv, TypeOK, PairMatches, SaveKnows, Saving, Deleting, Fault, NoFault, stored,
        history, NoSave, NoMain, NoRec
<1>1. ASSUME NEW p \in Profiles, NEW w \in Workers, SaveProbe(p, w) PROVE PairMatches'
  BY <1>1 DEF SaveProbe
<1>2. CASE SaveLook
  BY <1>2 DEF SaveLook
<1>3. CASE SaveSecret
  BY <1>3 DEF SaveSecret
<1>4. CASE SaveRow
  BY <1>4 DEF SaveRow
<1>5. CASE SaveActivate
  BY <1>5 DEF SaveActivate, ActivateRemoteProfile, Selectable
<1>6. ASSUME NEW p \in Profiles, ActivateRemoteProvider(p) PROVE PairMatches'
  BY <1>6 DEF ActivateRemoteProvider, ActivateRemoteProfile, Selectable
<1>7. CASE UseLocalProvider
  BY <1>7 DEF UseLocalProvider
<1>8. ASSUME NEW p \in Profiles, DeleteFind(p) PROVE PairMatches'
  BY <1>8 DEF DeleteFind
<1>9. CASE DeleteSecret
  BY <1>9 DEF DeleteSecret
<1>10. CASE DeleteRow
  BY <1>10 DEF DeleteRow
<1>11. CASE DeleteReset
  BY <1>11 DEF DeleteReset
<1>12. CASE RecordProfile
  BY <1>12 DEF RecordProfile
<1>13. CASE RecordSecret
  BY <1>13 DEF RecordSecret
<1>14. CASE RecordConnect
  BY <1>14 DEF RecordConnect
<1>15. ASSUME NEW p \in Profiles, OutsideRemoval(p) PROVE PairMatches'
  BY <1>15 DEF OutsideRemoval
<1>16. CASE Crash
  BY <1>16 DEF Crash
<1>17. CASE UNCHANGED vars
  BY <1>17 DEF vars
<1> QED
  BY <1>1, <1>2, <1>3, <1>4, <1>5, <1>6, <1>7, <1>8, <1>9, <1>10, <1>11, <1>12, <1>13, <1>14,
     <1>15, <1>16, <1>17
  DEF Next

(* A save that writes the credential between the two reads of a recording is   *)
(* seen by it.                                                                 *)
LEMMA StepRecorded == IInv /\ [Next]_vars => RecordedPairMatches'
<1> SUFFICES ASSUME IInv, [Next]_vars PROVE RecordedPairMatches'
  OBVIOUS
<1> USE ProfilesAssumption
    DEF IInv, TypeOK, RecordedPairMatches, PairMatches, Saving, Deleting, Fault, NoFault,
        stored, history, NoSave, NoMain, NoRec
<1>1. ASSUME NEW p \in Profiles, NEW w \in Workers, SaveProbe(p, w) PROVE RecordedPairMatches'
  BY <1>1 DEF SaveProbe
<1>2. CASE SaveLook
  BY <1>2 DEF SaveLook
<1>3. CASE SaveSecret
  BY <1>3 DEF SaveSecret
<1>4. CASE SaveRow
  BY <1>4 DEF SaveRow
<1>5. CASE SaveActivate
  BY <1>5 DEF SaveActivate, ActivateRemoteProfile, Selectable
<1>6. ASSUME NEW p \in Profiles, ActivateRemoteProvider(p) PROVE RecordedPairMatches'
  BY <1>6 DEF ActivateRemoteProvider, ActivateRemoteProfile, Selectable
<1>7. CASE UseLocalProvider
  BY <1>7 DEF UseLocalProvider
<1>8. ASSUME NEW p \in Profiles, DeleteFind(p) PROVE RecordedPairMatches'
  BY <1>8 DEF DeleteFind
<1>9. CASE DeleteSecret
  BY <1>9 DEF DeleteSecret
<1>10. CASE DeleteRow
  BY <1>10 DEF DeleteRow
<1>11. CASE DeleteReset
  BY <1>11 DEF DeleteReset
<1>12. CASE RecordProfile
  BY <1>12 DEF RecordProfile
<1>13. CASE RecordSecret
  BY <1>13 DEF RecordSecret
<1>14. CASE RecordConnect
  BY <1>14 DEF RecordConnect
<1>15. ASSUME NEW p \in Profiles, OutsideRemoval(p) PROVE RecordedPairMatches'
  BY <1>15 DEF OutsideRemoval
<1>16. CASE Crash
  BY <1>16 DEF Crash
<1>17. CASE UNCHANGED vars
  BY <1>17 DEF vars
<1> QED
  BY <1>1, <1>2, <1>3, <1>4, <1>5, <1>6, <1>7, <1>8, <1>9, <1>10, <1>11, <1>12, <1>13, <1>14,
     <1>15, <1>16, <1>17
  DEF Next

(* A recording connects with what it has read.                                 *)
LEMMA StepTested == IInv /\ [Next]_vars => TestedPairIsUsed'
<1> SUFFICES ASSUME IInv, [Next]_vars PROVE TestedPairIsUsed'
  OBVIOUS
<1> USE ProfilesAssumption
    DEF IInv, TypeOK, TestedPairIsUsed, RecordedPairMatches, Saving, Deleting, Fault, NoFault,
        stored, history, NoSave, NoMain, NoRec
<1>1. ASSUME NEW p \in Profiles, NEW w \in Workers, SaveProbe(p, w) PROVE TestedPairIsUsed'
  BY <1>1 DEF SaveProbe
<1>2. CASE SaveLook
  BY <1>2 DEF SaveLook
<1>3. CASE SaveSecret
  BY <1>3 DEF SaveSecret
<1>4. CASE SaveRow
  BY <1>4 DEF SaveRow
<1>5. CASE SaveActivate
  BY <1>5 DEF SaveActivate, ActivateRemoteProfile, Selectable
<1>6. ASSUME NEW p \in Profiles, ActivateRemoteProvider(p) PROVE TestedPairIsUsed'
  BY <1>6 DEF ActivateRemoteProvider, ActivateRemoteProfile, Selectable
<1>7. CASE UseLocalProvider
  BY <1>7 DEF UseLocalProvider
<1>8. ASSUME NEW p \in Profiles, DeleteFind(p) PROVE TestedPairIsUsed'
  BY <1>8 DEF DeleteFind
<1>9. CASE DeleteSecret
  BY <1>9 DEF DeleteSecret
<1>10. CASE DeleteRow
  BY <1>10 DEF DeleteRow
<1>11. CASE DeleteReset
  BY <1>11 DEF DeleteReset
<1>12. CASE RecordProfile
  BY <1>12 DEF RecordProfile
<1>13. CASE RecordSecret
  BY <1>13 DEF RecordSecret
<1>14. CASE RecordConnect
  BY <1>14 DEF RecordConnect
<1>15. ASSUME NEW p \in Profiles, OutsideRemoval(p) PROVE TestedPairIsUsed'
  BY <1>15 DEF OutsideRemoval
<1>16. CASE Crash
  BY <1>16 DEF Crash
<1>17. CASE UNCHANGED vars
  BY <1>17 DEF vars
<1> QED
  BY <1>1, <1>2, <1>3, <1>4, <1>5, <1>6, <1>7, <1>8, <1>9, <1>10, <1>11, <1>12, <1>13, <1>14,
     <1>15, <1>16, <1>17
  DEF Next

(* A row that cannot be saved takes the new credential with it, and a deletion *)
(* removes the credential before the row.                                      *)
LEMMA StepSecret == IInv /\ [Next]_vars => SecretExplained'
<1> SUFFICES ASSUME IInv, [Next]_vars PROVE SecretExplained'
  OBVIOUS
<1> USE ProfilesAssumption
    DEF IInv, TypeOK, SecretExplained, OverlapNoted, SaveKnows, Saving, Deleting, Fault,
        NoFault, stored, history, NoSave, NoMain, NoRec
<1>1. ASSUME NEW p \in Profiles, NEW w \in Workers, SaveProbe(p, w) PROVE SecretExplained'
  BY <1>1 DEF SaveProbe
<1>2. CASE SaveLook
  BY <1>2 DEF SaveLook
<1>3. CASE SaveSecret
  BY <1>3 DEF SaveSecret
<1>4. CASE SaveRow
  BY <1>4 DEF SaveRow
<1>5. CASE SaveActivate
  BY <1>5 DEF SaveActivate, ActivateRemoteProfile, Selectable
<1>6. ASSUME NEW p \in Profiles, ActivateRemoteProvider(p) PROVE SecretExplained'
  BY <1>6 DEF ActivateRemoteProvider, ActivateRemoteProfile, Selectable
<1>7. CASE UseLocalProvider
  BY <1>7 DEF UseLocalProvider
<1>8. ASSUME NEW p \in Profiles, DeleteFind(p) PROVE SecretExplained'
  BY <1>8 DEF DeleteFind
<1>9. CASE DeleteSecret
  BY <1>9 DEF DeleteSecret
<1>10. CASE DeleteRow
  BY <1>10 DEF DeleteRow
<1>11. CASE DeleteReset
  BY <1>11 DEF DeleteReset
<1>12. CASE RecordProfile
  BY <1>12 DEF RecordProfile
<1>13. CASE RecordSecret
  BY <1>13 DEF RecordSecret
<1>14. CASE RecordConnect
  BY <1>14 DEF RecordConnect
<1>15. ASSUME NEW p \in Profiles, OutsideRemoval(p) PROVE SecretExplained'
  BY <1>15 DEF OutsideRemoval
<1>16. CASE Crash
  BY <1>16 DEF Crash
<1>17. CASE UNCHANGED vars
  BY <1>17 DEF vars
<1> QED
  BY <1>1, <1>2, <1>3, <1>4, <1>5, <1>6, <1>7, <1>8, <1>9, <1>10, <1>11, <1>12, <1>13, <1>14,
     <1>15, <1>16, <1>17
  DEF Next

(* The strengthened invariant holds in every reachable state.                  *)
THEOREM ProfilesInvariance == Spec => []IInv
<1>1. Init => IInv
  BY InitInv
<1>2. IInv /\ [Next]_vars => IInv'
  BY StepType, StepOverlap, StepSave, StepSelection, StepPair, StepRecorded, StepTested,
     StepSecret DEF IInv
<1> QED
  BY <1>1, <1>2, PTL DEF Spec

(* The selected profile has its row and its credential, except while it is     *)
(* being deleted or after a fault between two steps.                           *)
THEOREM SelectionIsUsable == Spec => []ActiveIsUsable
<1>1. IInv => ActiveIsUsable
  BY DEF IInv, SelectionUsable, ActiveIsUsable
<1> QED
  BY <1>1, ProfilesInvariance, PTL

(* A recording presents to a worker the token that was tested with it, unless  *)
(* a save of the profile overlapped its start or was cut short.                *)
THEOREM OnlyTestedPairs == Spec => []TestedPairIsUsed
<1>1. IInv => TestedPairIsUsed
  BY DEF IInv
<1> QED
  BY <1>1, ProfilesInvariance, PTL

(* No credential is left behind by a failed save or a deletion, unless the two *)
(* overlapped or a fault cut one short.                                        *)
THEOREM NoOrphanSecret == Spec => []SecretHasProfile
<1>1. IInv => SecretHasProfile
  BY DEF IInv, SecretExplained, SecretHasProfile
<1> QED
  BY <1>1, ProfilesInvariance, PTL
==============================================================================
