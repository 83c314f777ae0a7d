-------------------------- MODULE ModelStore_proofs --------------------------
(***************************************************************************)
(* Safety of the model store for any models, calls, file size and number   *)
(* of faults and deletions.  Each lemma shows that one step keeps one part *)
(* of the inductive invariant IInv, action by action.                      *)
(***************************************************************************)
EXTENDS ModelStore, SequenceTheorems, TLAPS

(* A file content is a sequence of at most Size chunks.                        *)
LEMMA ContentIsSeq ==
  ASSUME NEW s \in Contents
  PROVE  s \in Seq(BOOLEAN) /\ Len(s) \in 0..Size
<1>1. PICK n \in 0..Size : s \in [1..n -> BOOLEAN]
  BY DEF Contents
<1> QED
  BY <1>1, StoreAssumption

(* InstallChunk: a chunk more is a content as long as the size allows it.      *)
LEMMA AppendChunk ==
  ASSUME NEW s \in Contents, NEW b \in BOOLEAN, Len(s) < Size
  PROVE  Append(s, b) \in Contents /\ Len(Append(s, b)) = Len(s) + 1
<1>1. s \in Seq(BOOLEAN) /\ Len(s) \in 0..Size
  BY ContentIsSeq
<1>2. Append(s, b) \in Seq(BOOLEAN) /\ Len(Append(s, b)) = Len(s) + 1
  BY <1>1
<1>3. Append(s, b) \in [1..(Len(s) + 1) -> BOOLEAN]
  BY <1>2, LenProperties
<1>4. Len(s) + 1 \in 0..Size
  BY <1>1, StoreAssumption
<1> QED
  BY <1>2, <1>3, <1>4 DEF Contents

(* The contents the code creates at once: an empty file, the whole file, and   *)
(* a whole file with a wrong chunk.                                            *)
LEMMA KnownContents ==
  /\ <<>> \in Contents /\ Len(<<>>) = 0
  /\ Whole \in Contents
  /\ [Whole EXCEPT ![Size] = FALSE] \in Contents
<1>1. <<>> \in [1..0 -> BOOLEAN]
  OBVIOUS
<1>2. 0 \in 0..Size /\ Size \in 0..Size
  BY StoreAssumption
<1>3. Whole \in [1..Size -> BOOLEAN] /\ [Whole EXCEPT ![Size] = FALSE] \in [1..Size -> BOOLEAN]
  BY DEF Whole
<1> QED
  BY <1>1, <1>2, <1>3 DEF Contents

(* A first start has no model, no row, no call and no download entry.          *)
LEMMA InitInv == Init => IInv
<1> SUFFICES ASSUME Init PROVE IInv
  OBVIOUS
<1>1. /\ partial \in [Models -> Contents \cup {NoFile}]
      /\ resume \in [Models -> {"none", "match", "other", "torn"}]
      /\ legacy \in [Models -> 0..2]
      /\ \A m \in Models : partial[m] # NoFile => resume[m] # "none"
      /\ \A m \in Models : legacy[m] > 0 => partial[m] = NoFile /\ resume[m] = "match"
  <2>1. <<TRUE>> \in Contents
    <3>1. <<TRUE>> \in Seq(BOOLEAN) /\ Len(<<TRUE>>) = 1
      OBVIOUS
    <3>2. <<TRUE>> \in [1..1 -> BOOLEAN]
      BY <3>1, LenProperties
    <3>3. 1 \in 0..Size
      BY StoreAssumption
    <3> QED
      BY <3>2, <3>3 DEF Contents
  <2>2. PICK left \in {[partial |-> NoFile, resume |-> "none", legacy |-> 0],
                       [partial |-> <<TRUE>>, resume |-> "other", legacy |-> 0]}
                      \cup {[partial |-> NoFile, resume |-> "match", legacy |-> n] : n \in 1..2} :
          /\ partial = [m \in Models |-> left.partial]
          /\ resume = [m \in Models |-> left.resume]
          /\ legacy = [m \in Models |-> left.legacy]
    BY DEF Init
  <2>3. /\ left.partial \in {NoFile, <<TRUE>>}
        /\ left.resume \in {"none", "match", "other"}
        /\ left.legacy \in 0..2
        /\ left.partial # NoFile => left.resume # "none"
        /\ left.legacy > 0 => left.partial = NoFile /\ left.resume = "match"
    <3>1. CASE left = [partial |-> NoFile, resume |-> "none", legacy |-> 0]
      BY <3>1
    <3>2. CASE left = [partial |-> <<TRUE>>, resume |-> "other", legacy |-> 0]
      BY <3>2
    <3>3. CASE \E n \in 1..2 : left = [partial |-> NoFile, resume |-> "match", legacy |-> n]
      BY <3>3
    <3> QED
      BY <2>2, <3>1, <3>2, <3>3
  <2> QED
    BY <2>1, <2>2, <2>3
<1>2. TypeOK
  BY <1>1, StoreAssumption DEF Init, TypeOK, PCs
<1>3. InstalledIsVerified
  BY StoreAssumption DEF Init, InstalledIsVerified
<1>4. DownloadHasOwner /\ OffsetIsLength /\ StepFacts /\ RowHasModel
  BY StoreAssumption DEF Init, DownloadHasOwner, Working, OffsetIsLength, Counted, StepFacts,
      RowHasModel, Downloading, PastRecovery
<1>5. PartialHasMetadata /\ LegacyIsUntouched
  BY <1>1 DEF PartialHasMetadata, LegacyIsUntouched
<1> QED
  BY <1>2, <1>3, <1>4, <1>5 DEF IInv

(* The download entry of a model changes hands only when it is claimed, given  *)
(* back or lost in a crash.                                                    *)
LEMMA StepOwner == IInv /\ [Next]_vars => DownloadHasOwner'
<1> SUFFICES ASSUME IInv, [Next]_vars PROVE DownloadHasOwner'
  OBVIOUS
<1> USE StoreAssumption
    DEF IInv, TypeOK, DownloadHasOwner, Working, Downloading, PCs, At, Goto, Fault, NoFault, disk
<1>1. ASSUME NEW c \in Calls, NEW m \in Models, InstallClaim(c, m) PROVE DownloadHasOwner'
  BY <1>1 DEF InstallClaim
<1>2. ASSUME NEW c \in Calls, NEW m \in Models, InstallWithoutClient(c, m) PROVE DownloadHasOwner'
  BY <1>2 DEF InstallWithoutClient
<1>3. ASSUME NEW c \in Calls, InstallCheck(c) PROVE DownloadHasOwner'
  BY <1>3 DEF InstallCheck, KeepAllButControl
<1>4. ASSUME NEW c \in Calls, InstallValidate(c) PROVE DownloadHasOwner'
  BY <1>4 DEF InstallValidate, KeepAllButControl
<1>5. ASSUME NEW c \in Calls, InstallRecover(c) PROVE DownloadHasOwner'
  BY <1>5 DEF InstallRecover
<1>6. ASSUME NEW c \in Calls, InstallOffset(c) PROVE DownloadHasOwner'
  BY <1>6 DEF InstallOffset
<1>7. ASSUME NEW c \in Calls, InstallDropResume(c) PROVE DownloadHasOwner'
  BY <1>7 DEF InstallDropResume
<1>8. ASSUME NEW c \in Calls, InstallRequest(c) PROVE DownloadHasOwner'
  BY <1>8 DEF InstallRequest
<1>9. ASSUME NEW c \in Calls, InstallDescribe(c) PROVE DownloadHasOwner'
  BY <1>9 DEF InstallDescribe
<1>10. ASSUME NEW c \in Calls, InstallOpen(c) PROVE DownloadHasOwner'
  BY <1>10 DEF InstallOpen
<1>11. ASSUME NEW c \in Calls, InstallChunk(c) PROVE DownloadHasOwner'
  BY <1>11 DEF InstallChunk
<1>12. ASSUME NEW c \in Calls, InstallStreamEnd(c) PROVE DownloadHasOwner'
  BY <1>12 DEF InstallStreamEnd, KeepAllButControl
<1>13. ASSUME NEW c \in Calls, InstallVerify(c) PROVE DownloadHasOwner'
  BY <1>13 DEF InstallVerify, KeepAllButControl
<1>14. ASSUME NEW c \in Calls, InstallPlace(c) PROVE DownloadHasOwner'
  BY <1>14 DEF InstallPlace
<1>15. ASSUME NEW c \in Calls, InstallPublish(c) PROVE DownloadHasOwner'
  BY <1>15 DEF InstallPublish
<1>16. ASSUME NEW c \in Calls, InstallForget(c) PROVE DownloadHasOwner'
  BY <1>16 DEF InstallForget
<1>17. ASSUME NEW c \in Calls, InstallRelease(c) PROVE DownloadHasOwner'
  BY <1>17 DEF InstallRelease
<1>18. ASSUME NEW c \in Calls, InstallSave(c) PROVE DownloadHasOwner'
  BY <1>18 DEF InstallSave
<1>19. ASSUME NEW m \in Models, CancelModelInstall(m) PROVE DownloadHasOwner'
  BY <1>19 DEF CancelModelInstall
<1>20. ASSUME NEW c \in Calls, NEW m \in Models, ActivateValidate(c, m) PROVE DownloadHasOwner'
  BY <1>20 DEF ActivateValidate
<1>21. ASSUME NEW c \in Calls, ActivateRow(c) PROVE DownloadHasOwner'
  BY <1>21 DEF ActivateRow
<1>22. ASSUME NEW c \in Calls, NEW m \in Models, DeleteFile(c, m) PROVE DownloadHasOwner'
  BY <1>22 DEF DeleteFile
<1>23. ASSUME NEW c \in Calls, DeleteDirectory(c) PROVE DownloadHasOwner'
  BY <1>23 DEF DeleteDirectory
<1>24. ASSUME NEW c \in Calls, DeleteRow(c) PROVE DownloadHasOwner'
  BY <1>24 DEF DeleteRow
<1>25. CASE Crash
  BY <1>25 DEF Crash
<1>26. CASE UNCHANGED vars
  BY <1>26 DEF vars
<1> QED
  BY <1>1, <1>2, <1>3, <1>4, <1>5, <1>6, <1>7, <1>8, <1>9, <1>10, <1>11, <1>12, <1>13, <1>14,
     <1>15, <1>16, <1>17, <1>18, <1>19, <1>20, <1>21, <1>22, <1>23, <1>24, <1>25, <1>26
  DEF Next, Step

(* Every step keeps the types; the partial never outgrows the manifest's size. *)
LEMMA StepType == IInv /\ [Next]_vars => TypeOK'
<1> SUFFICES ASSUME IInv, [Next]_vars PROVE TypeOK'
  OBVIOUS
<1> USE StoreAssumption
    DEF IInv, TypeOK, PCs, Downloading, At, Goto, Fault, NoFault, disk
<1>1. ASSUME NEW c \in Calls, NEW m \in Models, InstallClaim(c, m) PROVE TypeOK'
  BY <1>1 DEF InstallClaim
<1>2. ASSUME NEW c \in Calls, NEW m \in Models, InstallWithoutClient(c, m) PROVE TypeOK'
  BY <1>2 DEF InstallWithoutClient
<1>3. ASSUME NEW c \in Calls, InstallCheck(c) PROVE TypeOK'
  BY <1>3 DEF InstallCheck, KeepAllButControl
<1>4. ASSUME NEW c \in Calls, InstallValidate(c) PROVE TypeOK'
  BY <1>4 DEF InstallValidate, KeepAllButControl
<1>5. ASSUME NEW c \in Calls, InstallRecover(c) PROVE TypeOK'
  <2> DEFINE m == target[c]
  <2>1. m \in Models
    OBVIOUS
  <2>2. partial' \in [Models -> Contents \cup {NoFile}]
    <3>1. CASE UNCHANGED partial
      BY <3>1
    <3>2. CASE \E content \in {Whole, [Whole EXCEPT ![Size] = FALSE]} :
                 partial' = [partial EXCEPT ![m] = content]
      <4>1. PICK content \in Contents : partial' = [partial EXCEPT ![m] = content]
        BY <3>2, KnownContents
      <4> QED
        BY <2>1, <4>1
    <3> QED
      BY <1>5, <3>1, <3>2 DEF InstallRecover
  <2>3. legacy' \in [Models -> 0..2]
    BY <1>5 DEF InstallRecover
  <2>4. pc' \in [Calls -> PCs] /\ faults' \in 0..MaxFaults
    BY <1>5 DEF InstallRecover
  <2> QED
    BY <1>5, <2>2, <2>3, <2>4 DEF InstallRecover
<1>6. ASSUME NEW c \in Calls, InstallOffset(c) PROVE TypeOK'
  <2>1. partial[target[c]] # NoFile => Len(partial[target[c]]) \in 0..Size
    BY ContentIsSeq
  <2>2. partial' \in [Models -> Contents \cup {NoFile}]
    BY <1>6 DEF InstallOffset
  <2>3. got' \in [Calls -> 0..Size]
    <3>1. got' = got \/ \E n \in 0..Size : got' = [got EXCEPT ![c] = n]
      BY <1>6, <2>1 DEF InstallOffset
    <3> QED
      BY <3>1
  <2>4. pc' \in [Calls -> PCs]
    <3>1. \E at \in {"failed", "request", "drop_other", "verify"} : pc' = [pc EXCEPT ![c] = at]
      BY <1>6, Zenon DEF InstallOffset
    <3> QED
      BY <3>1
  <2>5. faults' \in 0..MaxFaults
    BY <1>6 DEF InstallOffset
  <2> QED
    BY <1>6, <2>2, <2>3, <2>4, <2>5 DEF InstallOffset
<1>7. ASSUME NEW c \in Calls, InstallDropResume(c) PROVE TypeOK'
  BY <1>7 DEF InstallDropResume
<1>8. ASSUME NEW c \in Calls, InstallRequest(c) PROVE TypeOK'
  BY <1>8 DEF InstallRequest
<1>9. ASSUME NEW c \in Calls, InstallDescribe(c) PROVE TypeOK'
  BY <1>9 DEF InstallDescribe
<1>10. ASSUME NEW c \in Calls, InstallOpen(c) PROVE TypeOK'
  <2>1. <<>> \in Contents
    BY KnownContents
  <2>2. partial' \in [Models -> Contents \cup {NoFile}]
    BY <1>10, <2>1 DEF InstallOpen
  <2>3. /\ \E at \in {"stream", "failed"} : pc' = [pc EXCEPT ![c] = at]
        /\ faults' = faults \/ (faults < MaxFaults /\ faults' = faults + 1)
        /\ UNCHANGED <<dir, resume, legacy, row, downloads, cancelled, target, got, staged,
                       deletes>>
    BY <1>10, Zenon DEF InstallOpen
  <2> QED
    BY <2>2, <2>3
<1>11. ASSUME NEW c \in Calls, InstallChunk(c) PROVE TypeOK'
  <2>1. PICK good \in BOOLEAN : partial' = [partial EXCEPT ![target[c]] = Append(@, good)]
    BY <1>11 DEF InstallChunk
  <2>2. Append(partial[target[c]], good) \in Contents
    BY <1>11, AppendChunk DEF InstallChunk, OffsetIsLength, Counted
  <2>3. partial' \in [Models -> Contents \cup {NoFile}]
    BY <2>1, <2>2
  <2>4. got' \in [Calls -> 0..Size] /\ faults' \in 0..MaxFaults
    BY <1>11 DEF InstallChunk
  <2> QED
    BY <1>11, <2>3, <2>4 DEF InstallChunk
<1>12. ASSUME NEW c \in Calls, InstallStreamEnd(c) PROVE TypeOK'
  BY <1>12 DEF InstallStreamEnd, KeepAllButControl
<1>13. ASSUME NEW c \in Calls, InstallVerify(c) PROVE TypeOK'
  BY <1>13 DEF InstallVerify, KeepAllButControl
<1>14. ASSUME NEW c \in Calls, InstallPlace(c) PROVE TypeOK'
  BY <1>14 DEF InstallPlace
<1>15. ASSUME NEW c \in Calls, InstallPublish(c) PROVE TypeOK'
  BY <1>15 DEF InstallPublish
<1>16. ASSUME NEW c \in Calls, InstallForget(c) PROVE TypeOK'
  BY <1>16 DEF InstallForget
<1>17. ASSUME NEW c \in Calls, InstallRelease(c) PROVE TypeOK'
  BY <1>17 DEF InstallRelease
<1>18. ASSUME NEW c \in Calls, InstallSave(c) PROVE TypeOK'
  BY <1>18 DEF InstallSave
<1>19. ASSUME NEW m \in Models, CancelModelInstall(m) PROVE TypeOK'
  BY <1>19 DEF CancelModelInstall
<1>20. ASSUME NEW c \in Calls, NEW m \in Models, ActivateValidate(c, m) PROVE TypeOK'
  BY <1>20 DEF ActivateValidate
<1>21. ASSUME NEW c \in Calls, ActivateRow(c) PROVE TypeOK'
  BY <1>21 DEF ActivateRow
<1>22. ASSUME NEW c \in Calls, NEW m \in Models, DeleteFile(c, m) PROVE TypeOK'
  BY <1>22 DEF DeleteFile
<1>23. ASSUME NEW c \in Calls, DeleteDirectory(c) PROVE TypeOK'
  BY <1>23 DEF DeleteDirectory
<1>24. ASSUME NEW c \in Calls, DeleteRow(c) PROVE TypeOK'
  BY <1>24 DEF DeleteRow
<1>25. CASE Crash
  BY <1>25 DEF Crash
<1>26. CASE UNCHANGED vars
  BY <1>26 DEF vars
<1> QED
  BY <1>1, <1>2, <1>3, <1>4, <1>5, <1>6, <1>7, <1>8, <1>9, <1>10, <1>11, <1>12, <1>13, <1>14,
     <1>15, <1>16, <1>17, <1>18, <1>19, <1>20, <1>21, <1>22, <1>23, <1>24, <1>25, <1>26
  DEF Next, Step

(* A call that works on the files of a model is the one its entry names.       *)
LEMMA EntryIsOfCall ==
  ASSUME TypeOK, DownloadHasOwner
  PROVE  \A d \in Calls : pc[d] \in Downloading => downloads[target[d]] = d
<1> SUFFICES ASSUME NEW d \in Calls, pc[d] \in Downloading PROVE downloads[target[d]] = d
  OBVIOUS
<1>1. target[d] \in Models
  BY DEF TypeOK, Downloading
<1>2. d \in Working(target[d])
  BY DEF Working
<1>3. Working(target[d]) = IF downloads[target[d]] \in {None, Leaked} THEN {}
                           ELSE {downloads[target[d]]}
  BY <1>1 DEF DownloadHasOwner
<1> QED
  BY <1>2, <1>3

(* Only the call that owns the download entry touches the partial of a model,  *)
(* so its count stays the file's length.                                       *)
LEMMA StepOffset == IInv /\ [Next]_vars => OffsetIsLength'
<1> SUFFICES ASSUME IInv, [Next]_vars PROVE OffsetIsLength'
  OBVIOUS
<1>0. \A d \in Calls : pc[d] \in Downloading => downloads[target[d]] = d
  BY EntryIsOfCall DEF IInv
<1> USE <1>0, StoreAssumption
    DEF IInv, TypeOK, OffsetIsLength, Counted, PCs, Downloading, At, Goto, Fault, NoFault, disk
<1>1. ASSUME NEW c \in Calls, NEW m \in Models, InstallClaim(c, m) PROVE OffsetIsLength'
  BY <1>1 DEF InstallClaim
<1>2. ASSUME NEW c \in Calls, NEW m \in Models, InstallWithoutClient(c, m) PROVE OffsetIsLength'
  BY <1>2 DEF InstallWithoutClient
<1>3. ASSUME NEW c \in Calls, InstallCheck(c) PROVE OffsetIsLength'
  BY <1>3 DEF InstallCheck, KeepAllButControl
<1>4. ASSUME NEW c \in Calls, InstallValidate(c) PROVE OffsetIsLength'
  BY <1>4 DEF InstallValidate, KeepAllButControl
<1>5. ASSUME NEW c \in Calls, InstallRecover(c) PROVE OffsetIsLength'
  BY <1>5 DEF InstallRecover
<1>6. ASSUME NEW c \in Calls, InstallOffset(c) PROVE OffsetIsLength'
  <2>1. \A d \in Calls \ {c} : pc[d] \in Downloading => target[d] # target[c]
    BY <1>6, <1>0 DEF InstallOffset
  <2>2. ASSUME NEW d \in Calls \ {c} PROVE Counted(d)'
    BY <1>6, <2>1 DEF InstallOffset
  <2>3. Counted(c)'
    BY <1>6 DEF InstallOffset
  <2> QED
    BY <2>2, <2>3
<1>7. ASSUME NEW c \in Calls, InstallDropResume(c) PROVE OffsetIsLength'
  BY <1>7 DEF InstallDropResume
<1>8. ASSUME NEW c \in Calls, InstallRequest(c) PROVE OffsetIsLength'
  <2>1. \A d \in Calls \ {c} : pc[d] \in Downloading => target[d] # target[c]
    BY <1>8, <1>0 DEF InstallRequest
  <2>2. ASSUME NEW d \in Calls \ {c} PROVE Counted(d)'
    BY <1>8, <2>1 DEF InstallRequest
  <2>3. Counted(c)'
    BY <1>8 DEF InstallRequest
  <2> QED
    BY <2>2, <2>3
<1>9. ASSUME NEW c \in Calls, InstallDescribe(c) PROVE OffsetIsLength'
  BY <1>9 DEF InstallDescribe
<1>10. ASSUME NEW c \in Calls, InstallOpen(c) PROVE OffsetIsLength'
  <2>1. <<>> \in Contents /\ Len(<<>>) = 0
    BY KnownContents
  <2> QED
    BY <1>10, <2>1 DEF InstallOpen
<1>11. ASSUME NEW c \in Calls, InstallChunk(c) PROVE OffsetIsLength'
  <2>1. PICK good \in BOOLEAN : partial' = [partial EXCEPT ![target[c]] = Append(@, good)]
    BY <1>11 DEF InstallChunk
  <2>2. /\ Append(partial[target[c]], good) \in Contents
        /\ Len(Append(partial[target[c]], good)) = got[c] + 1
    BY <1>11, AppendChunk DEF InstallChunk
  <2> QED
    BY <1>11, <2>1, <2>2 DEF InstallChunk
<1>12. ASSUME NEW c \in Calls, InstallStreamEnd(c) PROVE OffsetIsLength'
  BY <1>12 DEF InstallStreamEnd, KeepAllButControl
<1>13. ASSUME NEW c \in Calls, InstallVerify(c) PROVE OffsetIsLength'
  BY <1>13 DEF InstallVerify, KeepAllButControl
<1>14. ASSUME NEW c \in Calls, InstallPlace(c) PROVE OffsetIsLength'
  <2>1. \A d \in Calls \ {c} : pc[d] \in Downloading => target[d] # target[c]
    BY <1>14, <1>0 DEF InstallPlace
  <2>2. ASSUME NEW d \in Calls \ {c} PROVE Counted(d)'
    BY <1>14, <2>1 DEF InstallPlace
  <2>3. Counted(c)'
    BY <1>14 DEF InstallPlace
  <2> QED
    BY <2>2, <2>3
<1>15. ASSUME NEW c \in Calls, InstallPublish(c) PROVE OffsetIsLength'
  <2>1. \A d \in Calls \ {c} : pc[d] \in Downloading => target[d] # target[c]
    BY <1>15, <1>0 DEF InstallPublish
  <2>2. ASSUME NEW d \in Calls \ {c} PROVE Counted(d)'
    BY <1>15, <2>1 DEF InstallPublish
  <2>3. Counted(c)'
    BY <1>15 DEF InstallPublish
  <2> QED
    BY <2>2, <2>3
<1>16. ASSUME NEW c \in Calls, InstallForget(c) PROVE OffsetIsLength'
  BY <1>16 DEF InstallForget
<1>17. ASSUME NEW c \in Calls, InstallRelease(c) PROVE OffsetIsLength'
  BY <1>17 DEF InstallRelease
<1>18. ASSUME NEW c \in Calls, InstallSave(c) PROVE OffsetIsLength'
  BY <1>18 DEF InstallSave
<1>19. ASSUME NEW m \in Models, CancelModelInstall(m) PROVE OffsetIsLength'
  BY <1>19 DEF CancelModelInstall
<1>20. ASSUME NEW c \in Calls, NEW m \in Models, ActivateValidate(c, m) PROVE OffsetIsLength'
  BY <1>20 DEF ActivateValidate
<1>21. ASSUME NEW c \in Calls, ActivateRow(c) PROVE OffsetIsLength'
  BY <1>21 DEF ActivateRow
<1>22. ASSUME NEW c \in Calls, NEW m \in Models, DeleteFile(c, m) PROVE OffsetIsLength'
  BY <1>22 DEF DeleteFile
<1>23. ASSUME NEW c \in Calls, DeleteDirectory(c) PROVE OffsetIsLength'
  BY <1>23 DEF DeleteDirectory
<1>24. ASSUME NEW c \in Calls, DeleteRow(c) PROVE OffsetIsLength'
  BY <1>24 DEF DeleteRow
<1>25. CASE Crash
  BY <1>25 DEF Crash
<1>26. CASE UNCHANGED vars
  BY <1>26 DEF vars
<1> QED
  BY <1>1, <1>2, <1>3, <1>4, <1>5, <1>6, <1>7, <1>8, <1>9, <1>10, <1>11, <1>12, <1>13, <1>14,
     <1>15, <1>16, <1>17, <1>18, <1>19, <1>20, <1>21, <1>22, <1>23, <1>24, <1>25, <1>26
  DEF Next, Step

(* What a call found out about the files of its model stays true until it uses *)
(* it, because no other call may change those files.                           *)
LEMMA StepStages == IInv /\ [Next]_vars => StepFacts'
<1> SUFFICES ASSUME IInv, [Next]_vars PROVE StepFacts'
  OBVIOUS
<1> USE StoreAssumption
    DEF IInv, TypeOK, StepFacts, DownloadHasOwner, Working, LegacyIsUntouched, PCs, Downloading,
        PastRecovery, At, Goto, Fault, NoFault, disk
<1>1. ASSUME NEW c \in Calls, NEW m \in Models, InstallClaim(c, m) PROVE StepFacts'
  BY <1>1 DEF InstallClaim
<1>2. ASSUME NEW c \in Calls, NEW m \in Models, InstallWithoutClient(c, m) PROVE StepFacts'
  BY <1>2 DEF InstallWithoutClient
<1>3. ASSUME NEW c \in Calls, InstallCheck(c) PROVE StepFacts'
  BY <1>3 DEF InstallCheck, KeepAllButControl
<1>4. ASSUME NEW c \in Calls, InstallValidate(c) PROVE StepFacts'
  BY <1>4 DEF InstallValidate, KeepAllButControl
<1>5. ASSUME NEW c \in Calls, InstallRecover(c) PROVE StepFacts'
  BY <1>5 DEF InstallRecover
<1>6. ASSUME NEW c \in Calls, InstallOffset(c) PROVE StepFacts'
  BY <1>6 DEF InstallOffset
<1>7. ASSUME NEW c \in Calls, InstallDropResume(c) PROVE StepFacts'
  BY <1>7 DEF InstallDropResume
<1>8. ASSUME NEW c \in Calls, InstallRequest(c) PROVE StepFacts'
  BY <1>8 DEF InstallRequest
<1>9. ASSUME NEW c \in Calls, InstallDescribe(c) PROVE StepFacts'
  BY <1>9 DEF InstallDescribe
<1>10. ASSUME NEW c \in Calls, InstallOpen(c) PROVE StepFacts'
  BY <1>10 DEF InstallOpen
<1>11. ASSUME NEW c \in Calls, InstallChunk(c) PROVE StepFacts'
  BY <1>11 DEF InstallChunk
<1>12. ASSUME NEW c \in Calls, InstallStreamEnd(c) PROVE StepFacts'
  BY <1>12 DEF InstallStreamEnd, KeepAllButControl
<1>13. ASSUME NEW c \in Calls, InstallVerify(c) PROVE StepFacts'
  BY <1>13 DEF InstallVerify, KeepAllButControl
<1>14. ASSUME NEW c \in Calls, InstallPlace(c) PROVE StepFacts'
  BY <1>14 DEF InstallPlace
<1>15. ASSUME NEW c \in Calls, InstallPublish(c) PROVE StepFacts'
  BY <1>15 DEF InstallPublish
<1>16. ASSUME NEW c \in Calls, InstallForget(c) PROVE StepFacts'
  BY <1>16 DEF InstallForget
<1>17. ASSUME NEW c \in Calls, InstallRelease(c) PROVE StepFacts'
  BY <1>17 DEF InstallRelease
<1>18. ASSUME NEW c \in Calls, InstallSave(c) PROVE StepFacts'
  BY <1>18 DEF InstallSave
<1>19. ASSUME NEW m \in Models, CancelModelInstall(m) PROVE StepFacts'
  BY <1>19 DEF CancelModelInstall
<1>20. ASSUME NEW c \in Calls, NEW m \in Models, ActivateValidate(c, m) PROVE StepFacts'
  BY <1>20 DEF ActivateValidate
<1>21. ASSUME NEW c \in Calls, ActivateRow(c) PROVE StepFacts'
  BY <1>21 DEF ActivateRow
<1>22. ASSUME NEW c \in Calls, NEW m \in Models, DeleteFile(c, m) PROVE StepFacts'
  BY <1>22 DEF DeleteFile
<1>23. ASSUME NEW c \in Calls, DeleteDirectory(c) PROVE StepFacts'
  BY <1>23 DEF DeleteDirectory
<1>24. ASSUME NEW c \in Calls, DeleteRow(c) PROVE StepFacts'
  BY <1>24 DEF DeleteRow
<1>25. CASE Crash
  BY <1>25 DEF Crash
<1>26. CASE UNCHANGED vars
  BY <1>26 DEF vars
<1> QED
  BY <1>1, <1>2, <1>3, <1>4, <1>5, <1>6, <1>7, <1>8, <1>9, <1>10, <1>11, <1>12, <1>13, <1>14,
     <1>15, <1>16, <1>17, <1>18, <1>19, <1>20, <1>21, <1>22, <1>23, <1>24, <1>25, <1>26
  DEF Next, Step

(* A file gets into place only from a staging directory whose content has      *)
(* been verified.                                                              *)
LEMMA StepVerified == IInv /\ [Next]_vars => InstalledIsVerified'
<1> SUFFICES ASSUME IInv, [Next]_vars PROVE InstalledIsVerified'
  OBVIOUS
<1> USE StoreAssumption
    DEF IInv, TypeOK, StepFacts, InstalledIsVerified, PCs, Downloading, At, Goto, Fault,
        NoFault, disk
<1>1. ASSUME NEW c \in Calls, NEW m \in Models, InstallClaim(c, m) PROVE InstalledIsVerified'
  BY <1>1 DEF InstallClaim
<1>2. ASSUME NEW c \in Calls, NEW m \in Models, InstallWithoutClient(c, m)
      PROVE  InstalledIsVerified'
  BY <1>2 DEF InstallWithoutClient
<1>3. ASSUME NEW c \in Calls, InstallCheck(c) PROVE InstalledIsVerified'
  BY <1>3 DEF InstallCheck, KeepAllButControl
<1>4. ASSUME NEW c \in Calls, InstallValidate(c) PROVE InstalledIsVerified'
  BY <1>4 DEF InstallValidate, KeepAllButControl
<1>5. ASSUME NEW c \in Calls, InstallRecover(c) PROVE InstalledIsVerified'
  BY <1>5 DEF InstallRecover
<1>6. ASSUME NEW c \in Calls, InstallOffset(c) PROVE InstalledIsVerified'
  BY <1>6 DEF InstallOffset
<1>7. ASSUME NEW c \in Calls, InstallDropResume(c) PROVE InstalledIsVerified'
  BY <1>7 DEF InstallDropResume
<1>8. ASSUME NEW c \in Calls, InstallRequest(c) PROVE InstalledIsVerified'
  BY <1>8 DEF InstallRequest
<1>9. ASSUME NEW c \in Calls, InstallDescribe(c) PROVE InstalledIsVerified'
  BY <1>9 DEF InstallDescribe
<1>10. ASSUME NEW c \in Calls, InstallOpen(c) PROVE InstalledIsVerified'
  BY <1>10 DEF InstallOpen
<1>11. ASSUME NEW c \in Calls, InstallChunk(c) PROVE InstalledIsVerified'
  BY <1>11 DEF InstallChunk
<1>12. ASSUME NEW c \in Calls, InstallStreamEnd(c) PROVE InstalledIsVerified'
  BY <1>12 DEF InstallStreamEnd, KeepAllButControl
<1>13. ASSUME NEW c \in Calls, InstallVerify(c) PROVE InstalledIsVerified'
  BY <1>13 DEF InstallVerify, KeepAllButControl
<1>14. ASSUME NEW c \in Calls, InstallPlace(c) PROVE InstalledIsVerified'
  BY <1>14 DEF InstallPlace
<1>15. ASSUME NEW c \in Calls, InstallPublish(c) PROVE InstalledIsVerified'
  BY <1>15 DEF InstallPublish
<1>16. ASSUME NEW c \in Calls, InstallForget(c) PROVE InstalledIsVerified'
  BY <1>16 DEF InstallForget
<1>17. ASSUME NEW c \in Calls, InstallRelease(c) PROVE InstalledIsVerified'
  BY <1>17 DEF InstallRelease
<1>18. ASSUME NEW c \in Calls, InstallSave(c) PROVE InstalledIsVerified'
  BY <1>18 DEF InstallSave
<1>19. ASSUME NEW m \in Models, CancelModelInstall(m) PROVE InstalledIsVerified'
  BY <1>19 DEF CancelModelInstall
<1>20. ASSUME NEW c \in Calls, NEW m \in Models, ActivateValidate(c, m) PROVE InstalledIsVerified'
  BY <1>20 DEF ActivateValidate
<1>21. ASSUME NEW c \in Calls, ActivateRow(c) PROVE InstalledIsVerified'
  BY <1>21 DEF ActivateRow
<1>22. ASSUME NEW c \in Calls, NEW m \in Models, DeleteFile(c, m) PROVE InstalledIsVerified'
  BY <1>22 DEF DeleteFile
<1>23. ASSUME NEW c \in Calls, DeleteDirectory(c) PROVE InstalledIsVerified'
  BY <1>23 DEF DeleteDirectory
<1>24. ASSUME NEW c \in Calls, DeleteRow(c) PROVE InstalledIsVerified'
  BY <1>24 DEF DeleteRow
<1>25. CASE Crash
  BY <1>25 DEF Crash
<1>26. CASE UNCHANGED vars
  BY <1>26 DEF vars
<1> QED
  BY <1>1, <1>2, <1>3, <1>4, <1>5, <1>6, <1>7, <1>8, <1>9, <1>10, <1>11, <1>12, <1>13, <1>14,
     <1>15, <1>16, <1>17, <1>18, <1>19, <1>20, <1>21, <1>22, <1>23, <1>24, <1>25, <1>26
  DEF Next, Step

MetadataInv == PartialHasMetadata /\ LegacyIsUntouched

(* The metadata is removed only once the partial is gone, and written before a *)
(* partial is created; the metadata of a legacy download is not touched.       *)
LEMMA StepMetadata == IInv /\ [Next]_vars => MetadataInv'
<1> SUFFICES ASSUME IInv, [Next]_vars PROVE MetadataInv'
  OBVIOUS
<1> USE StoreAssumption
    DEF IInv, TypeOK, StepFacts, MetadataInv, PartialHasMetadata, LegacyIsUntouched,
        DownloadHasOwner, Working, PCs, Downloading, PastRecovery, At, Goto, Fault, NoFault, disk
<1>1. ASSUME NEW c \in Calls, NEW m \in Models, InstallClaim(c, m) PROVE MetadataInv'
  BY <1>1 DEF InstallClaim
<1>2. ASSUME NEW c \in Calls, NEW m \in Models, InstallWithoutClient(c, m) PROVE MetadataInv'
  BY <1>2 DEF InstallWithoutClient
<1>3. ASSUME NEW c \in Calls, InstallCheck(c) PROVE MetadataInv'
  BY <1>3 DEF InstallCheck, KeepAllButControl
<1>4. ASSUME NEW c \in Calls, InstallValidate(c) PROVE MetadataInv'
  BY <1>4 DEF InstallValidate, KeepAllButControl
<1>5. ASSUME NEW c \in Calls, InstallRecover(c) PROVE MetadataInv'
  BY <1>5 DEF InstallRecover
<1>6. ASSUME NEW c \in Calls, InstallOffset(c) PROVE MetadataInv'
  BY <1>6 DEF InstallOffset
<1>7. ASSUME NEW c \in Calls, InstallDropResume(c) PROVE MetadataInv'
  BY <1>7 DEF InstallDropResume
<1>8. ASSUME NEW c \in Calls, InstallRequest(c) PROVE MetadataInv'
  BY <1>8 DEF InstallRequest
<1>9. ASSUME NEW c \in Calls, InstallDescribe(c) PROVE MetadataInv'
  BY <1>9 DEF InstallDescribe
<1>10. ASSUME NEW c \in Calls, InstallOpen(c) PROVE MetadataInv'
  <2>1. legacy[target[c]] = 0 /\ resume[target[c]] = "match"
    BY <1>10 DEF InstallOpen
  <2>2. \A m \in Models \ {target[c]} : partial'[m] = partial[m]
    BY <1>10, Zenon DEF InstallOpen
  <2>3. UNCHANGED <<resume, legacy>>
    BY <1>10 DEF InstallOpen
  <2> QED
    BY <2>1, <2>2, <2>3
<1>11. ASSUME NEW c \in Calls, InstallChunk(c) PROVE MetadataInv'
  <2>1. legacy[target[c]] = 0 /\ resume[target[c]] = "match"
    BY <1>11 DEF InstallChunk
  <2>2. \A m \in Models \ {target[c]} : partial'[m] = partial[m]
    BY <1>11 DEF InstallChunk
  <2>3. UNCHANGED <<resume, legacy>>
    BY <1>11 DEF InstallChunk
  <2> QED
    BY <2>1, <2>2, <2>3
<1>12. ASSUME NEW c \in Calls, InstallStreamEnd(c) PROVE MetadataInv'
  BY <1>12 DEF InstallStreamEnd, KeepAllButControl
<1>13. ASSUME NEW c \in Calls, InstallVerify(c) PROVE MetadataInv'
  BY <1>13 DEF InstallVerify, KeepAllButControl
<1>14. ASSUME NEW c \in Calls, InstallPlace(c) PROVE MetadataInv'
  BY <1>14 DEF InstallPlace
<1>15. ASSUME NEW c \in Calls, InstallPublish(c) PROVE MetadataInv'
  BY <1>15 DEF InstallPublish
<1>16. ASSUME NEW c \in Calls, InstallForget(c) PROVE MetadataInv'
  BY <1>16 DEF InstallForget
<1>17. ASSUME NEW c \in Calls, InstallRelease(c) PROVE MetadataInv'
  BY <1>17 DEF InstallRelease
<1>18. ASSUME NEW c \in Calls, InstallSave(c) PROVE MetadataInv'
  BY <1>18 DEF InstallSave
<1>19. ASSUME NEW m \in Models, CancelModelInstall(m) PROVE MetadataInv'
  BY <1>19 DEF CancelModelInstall
<1>20. ASSUME NEW c \in Calls, NEW m \in Models, ActivateValidate(c, m) PROVE MetadataInv'
  BY <1>20 DEF ActivateValidate
<1>21. ASSUME NEW c \in Calls, ActivateRow(c) PROVE MetadataInv'
  BY <1>21 DEF ActivateRow
<1>22. ASSUME NEW c \in Calls, NEW m \in Models, DeleteFile(c, m) PROVE MetadataInv'
  BY <1>22 DEF DeleteFile
<1>23. ASSUME NEW c \in Calls, DeleteDirectory(c) PROVE MetadataInv'
  BY <1>23 DEF DeleteDirectory
<1>24. ASSUME NEW c \in Calls, DeleteRow(c) PROVE MetadataInv'
  BY <1>24 DEF DeleteRow
<1>25. CASE Crash
  BY <1>25 DEF Crash
<1>26. CASE UNCHANGED vars
  BY <1>26 DEF vars
<1> QED
  BY <1>1, <1>2, <1>3, <1>4, <1>5, <1>6, <1>7, <1>8, <1>9, <1>10, <1>11, <1>12, <1>13, <1>14,
     <1>15, <1>16, <1>17, <1>18, <1>19, <1>20, <1>21, <1>22, <1>23, <1>24, <1>25, <1>26
  DEF Next, Step

(* What PartialIsResumable says of one step.                                   *)
StaysResumable == \A m \in Models : Resumable(m) => Resumable(m)' \/ RewriteCutShort(m)

(* A partial is created or restored only beside metadata that matches, and     *)
(* matching metadata is overwritten only by the step that rewrites it.         *)
LEMMA StepResumable == IInv /\ [Next]_vars => StaysResumable
<1> SUFFICES ASSUME IInv, [Next]_vars PROVE StaysResumable
  OBVIOUS
<1> USE StoreAssumption
    DEF IInv, TypeOK, StepFacts, StaysResumable, Resumable, RewriteCutShort, LegacyIsUntouched,
        DownloadHasOwner, Working, PCs, Downloading, PastRecovery, At, Goto, Fault, NoFault, disk
<1>1. ASSUME NEW c \in Calls, NEW m \in Models, InstallClaim(c, m) PROVE StaysResumable
  BY <1>1 DEF InstallClaim
<1>2. ASSUME NEW c \in Calls, NEW m \in Models, InstallWithoutClient(c, m) PROVE StaysResumable
  BY <1>2 DEF InstallWithoutClient
<1>3. ASSUME NEW c \in Calls, InstallCheck(c) PROVE StaysResumable
  BY <1>3 DEF InstallCheck, KeepAllButControl
<1>4. ASSUME NEW c \in Calls, InstallValidate(c) PROVE StaysResumable
  BY <1>4 DEF InstallValidate, KeepAllButControl
<1>5. ASSUME NEW c \in Calls, InstallRecover(c) PROVE StaysResumable
  BY <1>5 DEF InstallRecover
<1>6. ASSUME NEW c \in Calls, InstallOffset(c) PROVE StaysResumable
  BY <1>6 DEF InstallOffset
<1>7. ASSUME NEW c \in Calls, InstallDropResume(c) PROVE StaysResumable
  BY <1>7 DEF InstallDropResume
<1>8. ASSUME NEW c \in Calls, InstallRequest(c) PROVE StaysResumable
  BY <1>8 DEF InstallRequest
<1>9. ASSUME NEW c \in Calls, InstallDescribe(c) PROVE StaysResumable
  BY <1>9 DEF InstallDescribe
<1>10. ASSUME NEW c \in Calls, InstallOpen(c) PROVE StaysResumable
  BY <1>10 DEF InstallOpen
<1>11. ASSUME NEW c \in Calls, InstallChunk(c) PROVE StaysResumable
  BY <1>11 DEF InstallChunk
<1>12. ASSUME NEW c \in Calls, InstallStreamEnd(c) PROVE StaysResumable
  BY <1>12 DEF InstallStreamEnd, KeepAllButControl
<1>13. ASSUME NEW c \in Calls, InstallVerify(c) PROVE StaysResumable
  BY <1>13 DEF InstallVerify, KeepAllButControl
<1>14. ASSUME NEW c \in Calls, InstallPlace(c) PROVE StaysResumable
  BY <1>14 DEF InstallPlace
<1>15. ASSUME NEW c \in Calls, InstallPublish(c) PROVE StaysResumable
  BY <1>15 DEF InstallPublish
<1>16. ASSUME NEW c \in Calls, InstallForget(c) PROVE StaysResumable
  BY <1>16 DEF InstallForget
<1>17. ASSUME NEW c \in Calls, InstallRelease(c) PROVE StaysResumable
  BY <1>17 DEF InstallRelease
<1>18. ASSUME NEW c \in Calls, InstallSave(c) PROVE StaysResumable
  BY <1>18 DEF InstallSave
<1>19. ASSUME NEW m \in Models, CancelModelInstall(m) PROVE StaysResumable
  BY <1>19 DEF CancelModelInstall
<1>20. ASSUME NEW c \in Calls, NEW m \in Models, ActivateValidate(c, m) PROVE StaysResumable
  BY <1>20 DEF ActivateValidate
<1>21. ASSUME NEW c \in Calls, ActivateRow(c) PROVE StaysResumable
  BY <1>21 DEF ActivateRow
<1>22. ASSUME NEW c \in Calls, NEW m \in Models, DeleteFile(c, m) PROVE StaysResumable
  BY <1>22 DEF DeleteFile
<1>23. ASSUME NEW c \in Calls, DeleteDirectory(c) PROVE StaysResumable
  BY <1>23 DEF DeleteDirectory
<1>24. ASSUME NEW c \in Calls, DeleteRow(c) PROVE StaysResumable
  BY <1>24 DEF DeleteRow
<1>25. CASE Crash
  BY <1>25 DEF Crash
<1>26. CASE UNCHANGED vars
  BY <1>26 DEF vars
<1> QED
  BY <1>1, <1>2, <1>3, <1>4, <1>5, <1>6, <1>7, <1>8, <1>9, <1>10, <1>11, <1>12, <1>13, <1>14,
     <1>15, <1>16, <1>17, <1>18, <1>19, <1>20, <1>21, <1>22, <1>23, <1>24, <1>25, <1>26
  DEF Next, Step

(* A row is saved for a file that is in place, and only a deletion removes it. *)
LEMMA StepRow == IInv /\ [Next]_vars => RowHasModel'
<1> SUFFICES ASSUME IInv, [Next]_vars PROVE RowHasModel'
  OBVIOUS
<1> USE StoreAssumption
    DEF IInv, TypeOK, StepFacts, RowHasModel, PCs, Downloading, At, Goto, Fault, NoFault, disk
<1>1. ASSUME NEW c \in Calls, NEW m \in Models, InstallClaim(c, m) PROVE RowHasModel'
  BY <1>1 DEF InstallClaim
<1>2. ASSUME NEW c \in Calls, NEW m \in Models, InstallWithoutClient(c, m) PROVE RowHasModel'
  BY <1>2 DEF InstallWithoutClient
<1>3. ASSUME NEW c \in Calls, InstallCheck(c) PROVE RowHasModel'
  BY <1>3 DEF InstallCheck, KeepAllButControl
<1>4. ASSUME NEW c \in Calls, InstallValidate(c) PROVE RowHasModel'
  BY <1>4 DEF InstallValidate, KeepAllButControl
<1>5. ASSUME NEW c \in Calls, InstallRecover(c) PROVE RowHasModel'
  BY <1>5 DEF InstallRecover
<1>6. ASSUME NEW c \in Calls, InstallOffset(c) PROVE RowHasModel'
  BY <1>6 DEF InstallOffset
<1>7. ASSUME NEW c \in Calls, InstallDropResume(c) PROVE RowHasModel'
  BY <1>7 DEF InstallDropResume
<1>8. ASSUME NEW c \in Calls, InstallRequest(c) PROVE RowHasModel'
  BY <1>8 DEF InstallRequest
<1>9. ASSUME NEW c \in Calls, InstallDescribe(c) PROVE RowHasModel'
  BY <1>9 DEF InstallDescribe
<1>10. ASSUME NEW c \in Calls, InstallOpen(c) PROVE RowHasModel'
  BY <1>10 DEF InstallOpen
<1>11. ASSUME NEW c \in Calls, InstallChunk(c) PROVE RowHasModel'
  BY <1>11 DEF InstallChunk
<1>12. ASSUME NEW c \in Calls, InstallStreamEnd(c) PROVE RowHasModel'
  BY <1>12 DEF InstallStreamEnd, KeepAllButControl
<1>13. ASSUME NEW c \in Calls, InstallVerify(c) PROVE RowHasModel'
  BY <1>13 DEF InstallVerify, KeepAllButControl
<1>14. ASSUME NEW c \in Calls, InstallPlace(c) PROVE RowHasModel'
  BY <1>14 DEF InstallPlace
<1>15. ASSUME NEW c \in Calls, InstallPublish(c) PROVE RowHasModel'
  BY <1>15 DEF InstallPublish
<1>16. ASSUME NEW c \in Calls, InstallForget(c) PROVE RowHasModel'
  BY <1>16 DEF InstallForget
<1>17. ASSUME NEW c \in Calls, InstallRelease(c) PROVE RowHasModel'
  BY <1>17 DEF InstallRelease
<1>18. ASSUME NEW c \in Calls, InstallSave(c) PROVE RowHasModel'
  BY <1>18 DEF InstallSave
<1>19. ASSUME NEW m \in Models, CancelModelInstall(m) PROVE RowHasModel'
  BY <1>19 DEF CancelModelInstall
<1>20. ASSUME NEW c \in Calls, NEW m \in Models, ActivateValidate(c, m) PROVE RowHasModel'
  BY <1>20 DEF ActivateValidate
<1>21. ASSUME NEW c \in Calls, ActivateRow(c) PROVE RowHasModel'
  BY <1>21 DEF ActivateRow
<1>22. ASSUME NEW c \in Calls, NEW m \in Models, DeleteFile(c, m) PROVE RowHasModel'
  BY <1>22 DEF DeleteFile
<1>23. ASSUME NEW c \in Calls, DeleteDirectory(c) PROVE RowHasModel'
  BY <1>23 DEF DeleteDirectory
<1>24. ASSUME NEW c \in Calls, DeleteRow(c) PROVE RowHasModel'
  BY <1>24 DEF DeleteRow
<1>25. CASE Crash
  BY <1>25 DEF Crash
<1>26. CASE UNCHANGED vars
  BY <1>26 DEF vars
<1> QED
  BY <1>1, <1>2, <1>3, <1>4, <1>5, <1>6, <1>7, <1>8, <1>9, <1>10, <1>11, <1>12, <1>13, <1>14,
     <1>15, <1>16, <1>17, <1>18, <1>19, <1>20, <1>21, <1>22, <1>23, <1>24, <1>25, <1>26
  DEF Next, Step

(* The strengthened invariant holds in every reachable state.                  *)
THEOREM StoreInvariance == Spec => []IInv
<1>1. Init => IInv
  BY InitInv
<1>2. IInv /\ [Next]_vars => IInv'
  BY StepType, StepOwner, StepOffset, StepStages, StepVerified, StepMetadata, StepRow
  DEF IInv, MetadataInv
<1> QED
  BY <1>1, <1>2, PTL DEF Spec

(* Whatever install, activate and delete calls overlap, fail or are cut off by *)
(* a crash, a model file that is in place is the one of the signed manifest.   *)
THEOREM OnlyVerifiedModels == Spec => []InstalledIsVerified
<1>1. IInv => InstalledIsVerified
  BY DEF IInv
<1> QED
  BY <1>1, StoreInvariance, PTL

(* A partial that resume_offset can continue stays one, whatever step of       *)
(* whichever call comes, unless the rewriting of its metadata is cut short.    *)
THEOREM PartialsStayResumable == Spec => PartialIsResumable
<1>1. IInv /\ [Next]_vars => [StaysResumable]_vars
  BY StepResumable
<1> QED
  BY <1>1, StoreInvariance, PTL DEF Spec, PartialIsResumable, StaysResumable

(* The call named by a download entry is the only one at work on the model; an *)
(* entry that names nobody, or no entry, has no call at work.                  *)
THEOREM DownloadOwnership == Spec => []DownloadHasOwner
<1>1. IInv => DownloadHasOwner
  BY DEF IInv
<1> QED
  BY <1>1, StoreInvariance, PTL

(* Until the first deletion every row of installed_models has its file.        *)
THEOREM RowsHaveModels == Spec => []RowHasModel
<1>1. IInv => RowHasModel
  BY DEF IInv
<1> QED
  BY <1>1, StoreInvariance, PTL
==============================================================================
