------------------------- MODULE DesktopJobs_proofs -------------------------
(* Safety of the desktop job controller for any set of jobs, local or remote, *)
(* any number of overlapping cancellations and any set of faults.             *)
(*                                                                            *)
(* IInv is the inductive invariant.  Every part of it is shown to be kept by  *)
(* the steps of each of the three commands, one case per action; the last     *)
(* section draws the theorems from it.                                        *)
EXTENDS DesktopJobs, TLAPS

USE NoJobAssumption

USE DEF Phase, Idle, Preparing, Recording, Finalizing, CapturePhase, MaybeJob

USE DEF Advance, StartAt, StopAt, CancelAt, StartOnly, StopOnly,
        CancelOnly, Spawned, slotVars, taskVars, envVars

(* The inductive invariant: the properties together with the facts they need  *)
(* about the order of commands, the takers of the handle, the targets of      *)
(* cancellations and the local state machines.                                *)
IInv ==
  /\ TypeOK
  /\ HandleFollowsCapture
  /\ OneTaker
  /\ CommandOrder
  /\ TargetIsJob
  /\ MicrophoneHasOwner
  /\ QueueEntryHasOwner
  /\ SlotHasOwner
  /\ SidecarHasOwner
  /\ MachineFollowsCommands

-----------------------------------------------------------------------------
(* What each command leaves alone.                                            *)

(* No step of start_recording touches the inference slot, the other commands  *)
(* or the stored transcripts.                                                 *)
LEMMA StartFrame ==
  ASSUME NEW j \in Jobs, StartStep(j)
  PROVE  UNCHANGED <<slotVars, stop, cancel, target, acked, stored>>
  BY DEF StartStep, StartReadProcessing, StartReadQueued, StartReserve,
         StartPrepare, StartEnsureModelReady, StartOpenMicrophone,
         StartCommit, StartAnnounce, StartAbandon, StartFail, StartDiscard,
         StartDiscarded

(* No step of stop_recording touches a start or a cancellation. *)
LEMMA StopFrame ==
  ASSUME NEW j \in Jobs, StopBegin(j) \/ StopStep(j)
  PROVE  UNCHANGED <<start, cancel, target, acked>>
  BY DEF StopBegin, StopStep, StopFinishAudio, StopSilent, StopSnapshot,
         StopTrySlot, StopEnqueue, StopAwait, StopCheckToken, StopUnqueue,
         StopRequest, InferenceCompletes, StopReceive, StopReceiveError,
         StopCorrectAndSave, StopShutdown, StopClear, StopNotify, StopInject,
         StopFail

(* No step of cancel_current_job touches the commands of a job, its machine   *)
(* or the stored transcripts.                                                 *)
LEMMA CancelFrame ==
  ASSUME NEW c \in Cancels, CancelBegin(c) \/ CancelStep(c)
  PROVE  UNCHANGED <<start, stop, stored, machine>>
  BY DEF CancelBegin, CancelStep, CancelPreparing, CancelTake,
         CancelStopProvider, CancelReadProcessing, CancelQueued, CancelAsk,
         CancelShutdown, CancelClear, CancelNotify

(* An event may name any job, also one that is no longer active. *)
LEMMA EmitType ==
  ASSUME shown \in [Jobs -> AppState], NEW j, NEW s \in AppState, Emit(j, s)
  PROVE  shown' \in [Jobs -> AppState]
  BY DEF Emit

(* Stopping a provider forgets the request of its job or changes nothing. *)
LEMMA StopProviderType ==
  ASSUME request \in [Jobs -> RequestState], NEW j, StopProvider(j)
  PROVE  request' \in [Jobs -> RequestState]
  BY DEF StopProvider, RequestState

(* notify_one wakes a registered waiter or stores a permit, nothing else. *)
LEMMA NotifyType ==
  ASSUME NEW W \in SUBSET Jobs, permit \in BOOLEAN, NotifyOneAmong(W)
  PROVE  notified' \subseteq W /\ permit' \in BOOLEAN
<1>1. notified' \subseteq W
  BY DEF NotifyOneAmong
<1>2. permit' \in BOOLEAN
  BY DEF NotifyOneAmong
<1> QED  BY <1>1, <1>2

-----------------------------------------------------------------------------
(* Type correctness *)

(* start_recording keeps every variable in its type. *)
LEMMA StartTypes ==
  ASSUME TypeOK,
         NEW j \in Jobs, StartStep(j)
  PROVE  TypeOK'
<1> USE DEF TypeOK, StartPC, StopPC, CancelPC, AppState, RequestState
<1>1. CASE StartReadProcessing(j)
  BY <1>1 DEF StartReadProcessing
<1>2. CASE StartReadQueued(j)
  BY <1>2 DEF StartReadQueued
<1>3. CASE StartReserve(j)
  BY <1>3 DEF StartReserve, ReserveStart
<1>4. CASE StartPrepare(j)
  BY <1>4 DEF StartPrepare, Emit, AbandonPreparation
<1>5. CASE StartEnsureModelReady(j)
  BY <1>5 DEF StartEnsureModelReady
<1>6. CASE StartOpenMicrophone(j)
  BY <1>6 DEF StartOpenMicrophone
<1>7. CASE StartCommit(j)
  BY <1>7 DEF StartCommit, CommitPreparation
<1>8. CASE StartAnnounce(j)
  BY <1>8 DEF StartAnnounce, Emit
<1>9. CASE StartAbandon(j)
  BY <1>9 DEF StartAbandon, AbandonPreparation
<1>10. CASE StartFail(j)
  BY <1>10 DEF StartFail, StopProvider, Emit
<1>11. CASE StartDiscard(j)
  BY <1>11 DEF StartDiscard, StopProvider, Emit
<1>12. CASE StartDiscarded(j)
  BY <1>12 DEF StartDiscarded, Emit
<1> QED
  BY <1>1, <1>2, <1>3, <1>4, <1>5, <1>6, <1>7, <1>8, <1>9, <1>10, <1>11, <1>12
     DEF StartStep

(* stop_recording keeps every variable in its type. *)
LEMMA StopTypes ==
  ASSUME TypeOK,
         NEW j \in Jobs, StopBegin(j) \/ StopStep(j)
  PROVE  TypeOK'
<1> USE DEF TypeOK, StartPC, StopPC, CancelPC, AppState, RequestState
<1>1. CASE StopBegin(j)
  BY <1>1 DEF StopBegin, BeginFinalization, Emit
<1>2. CASE StopFinishAudio(j)
  BY <1>2 DEF StopFinishAudio, ReleaseFinalization, Emit
<1>3. CASE StopSilent(j)
  BY <1>3 DEF StopSilent, Emit, StopProvider
<1>4. CASE StopSnapshot(j)
  BY <1>4 DEF StopSnapshot
<1>5. CASE StopTrySlot(j)
  BY <1>5 DEF StopTrySlot, TakeSlot, Emit
<1>6. CASE StopEnqueue(j)
  BY <1>6 DEF StopEnqueue, Enqueue
<1>7. CASE StopAwait(j)
  <2>1. parked' \subseteq Jobs /\ notified' \subseteq Jobs /\ permit' \in BOOLEAN
    <3>1. CASE PollPermit(j)
      <4>1. permit' = FALSE /\ parked' = parked /\ notified' = notified
        BY <3>1 DEF PollPermit
      <4>2. permit' \in BOOLEAN
        BY <4>1
      <4> QED  BY <4>1, <4>2
    <3>2. CASE PollToken(j) \/ Park(j)
      BY <3>2 DEF PollToken, Park
    <3>3. CASE WakeNotified(j)
      BY <3>3 DEF WakeNotified
    <3>4. CASE WakeCancelled(j)
      <4>1. CASE NotifyOneAmong(parked \ {j})
        BY <3>4, <4>1, NotifyType DEF WakeCancelled
      <4> QED  BY <3>4, <4>1 DEF WakeCancelled
    <3> QED  BY <1>7, <3>1, <3>2, <3>3, <3>4 DEF StopAwait
  <2> QED  BY <1>7, <2>1 DEF StopAwait
<1>8. CASE StopCheckToken(j)
  BY <1>8 DEF StopCheckToken, ClearQueuedJob
<1>9. CASE StopUnqueue(j)
  BY <1>9 DEF StopUnqueue, ClearQueuedJob, Emit
<1>10. CASE StopRequest(j)
  BY <1>10 DEF StopRequest, Emit
<1>11. CASE InferenceCompletes(j)
  BY <1>11 DEF InferenceCompletes
<1>12. CASE StopReceive(j)
  BY <1>12 DEF StopReceive, Emit
<1>13. CASE StopReceiveError(j)
  BY <1>13 DEF StopReceiveError
<1>14. CASE StopCorrectAndSave(j)
  BY <1>14 DEF StopCorrectAndSave
<1>15. CASE StopShutdown(j)
  BY <1>15 DEF StopShutdown, StopProvider
<1>16. CASE StopClear(j)
  BY <1>16 DEF StopClear, ClearProcessing, Emit
<1>17. CASE StopNotify(j)
  <2>1. NotifyOneAmong(parked) /\ parked' = parked
    BY <1>17 DEF StopNotify, NotifyOne
  <2>2. notified' \subseteq Jobs /\ permit' \in BOOLEAN
    BY <2>1, NotifyType
  <2>3. shown' \in [Jobs -> AppState] /\ machine' \in [Jobs -> AppState]
    BY <1>17 DEF StopNotify, Emit
  <2> QED  BY <1>17, <2>1, <2>2, <2>3 DEF StopNotify, Emit
<1>18. CASE StopInject(j)
  BY <1>18 DEF StopInject, Emit
<1>19. CASE StopFail(j)
  BY <1>19 DEF StopFail, StopProvider, Emit
<1> QED
  BY <1>1, <1>2, <1>3, <1>4, <1>5, <1>6, <1>7, <1>8, <1>9, <1>10, <1>11,
     <1>12, <1>13, <1>14, <1>15, <1>16, <1>17, <1>18, <1>19
     DEF StopStep

(* cancel_current_job keeps every variable in its type. *)
LEMMA CancelTypes ==
  ASSUME TypeOK,
         NEW c \in Cancels, CancelBegin(c) \/ CancelStep(c)
  PROVE  TypeOK'
<1> USE DEF TypeOK, StartPC, StopPC, CancelPC, AppState, RequestState
<1>1. CASE CancelBegin(c)
  BY <1>1 DEF CancelBegin, CancelCapture, Emit
<1>2. CASE CancelPreparing(c)
  <2>1. shown' \in [Jobs -> AppState]
    BY <1>2, EmitType DEF CancelPreparing
  <2> QED  BY <1>2, <2>1 DEF CancelPreparing
<1>3. CASE CancelTake(c)
  <2>1. shown' \in [Jobs -> AppState]
    BY <1>3, EmitType DEF CancelTake
  <2> QED  BY <1>3, <2>1 DEF CancelTake
<1>4. CASE CancelStopProvider(c)
  <2>1. shown' \in [Jobs -> AppState]
    BY <1>4, EmitType DEF CancelStopProvider
  <2>2. request' \in [Jobs -> RequestState]
    BY <1>4, StopProviderType DEF CancelStopProvider
  <2> QED  BY <1>4, <2>1, <2>2 DEF CancelStopProvider, StopProvider
<1>5. CASE CancelReadProcessing(c)
  BY <1>5 DEF CancelReadProcessing
<1>6. CASE CancelQueued(c)
  BY <1>6 DEF CancelQueued, CancelQueuedJob
<1>7. CASE CancelAsk(c)
  BY <1>7 DEF CancelAsk
<1>8. CASE CancelShutdown(c)
  <2>1. request' \in [Jobs -> RequestState]
    BY <1>8, StopProviderType DEF CancelShutdown
  <2> QED  BY <1>8, <2>1 DEF CancelShutdown, StopProvider
<1>9. CASE CancelClear(c)
  BY <1>9 DEF CancelClear, ClearProcessing, Emit
<1>10. CASE CancelNotify(c)
  <2>1. NotifyOneAmong(parked) /\ parked' = parked
    BY <1>10 DEF CancelNotify, NotifyOne
  <2>2. notified' \subseteq Jobs /\ permit' \in BOOLEAN
    BY <2>1, NotifyType
  <2>3. shown' \in [Jobs -> AppState] /\ machine' \in [Jobs -> AppState]
    BY <1>10, CancelFrame DEF CancelNotify, Emit
  <2> QED  BY <1>10, <2>1, <2>2, <2>3 DEF CancelNotify, Emit
<1> QED
  BY <1>1, <1>2, <1>3, <1>4, <1>5, <1>6, <1>7, <1>8, <1>9, <1>10
     DEF CancelStep

-----------------------------------------------------------------------------
(* Capture slot, audio handle and microphone *)

(* start_recording keeps slot, handle and cancellations consistent. *)
LEMMA StartHandle ==
  ASSUME TypeOK, HandleFollowsCapture, OneTaker, CommandOrder, TargetIsJob,
         NEW j \in Jobs, StartStep(j)
  PROVE  HandleFollowsCapture' /\ OneTaker' /\ CommandOrder' /\ TargetIsJob'
<1> USE DEF TypeOK, StartPC, StopPC, CancelPC, HandleFollowsCapture, OneTaker,
            CommandOrder, TargetIsJob
<1>1. CASE StartReadProcessing(j)
  BY <1>1 DEF StartReadProcessing
<1>2. CASE StartReadQueued(j)
  BY <1>2 DEF StartReadQueued
<1>3. CASE StartReserve(j)
  BY <1>3 DEF StartReserve, ReserveStart
<1>4. CASE StartPrepare(j)
  BY <1>4 DEF StartPrepare, Emit, AbandonPreparation
<1>5. CASE StartEnsureModelReady(j)
  BY <1>5 DEF StartEnsureModelReady
<1>6. CASE StartOpenMicrophone(j)
  BY <1>6 DEF StartOpenMicrophone
<1>7. CASE StartCommit(j)
  BY <1>7 DEF StartCommit, CommitPreparation
<1>8. CASE StartAnnounce(j)
  BY <1>8 DEF StartAnnounce, Emit
<1>9. CASE StartAbandon(j)
  BY <1>9 DEF StartAbandon, AbandonPreparation
<1>10. CASE StartFail(j)
  BY <1>10 DEF StartFail, StopProvider, Emit
<1>11. CASE StartDiscard(j)
  BY <1>11 DEF StartDiscard, StopProvider, Emit
<1>12. CASE StartDiscarded(j)
  BY <1>12 DEF StartDiscarded, Emit
<1> QED
  BY <1>1, <1>2, <1>3, <1>4, <1>5, <1>6, <1>7, <1>8, <1>9, <1>10, <1>11, <1>12
     DEF StartStep

(* stop_recording keeps slot, handle and cancellations consistent. *)
LEMMA StopHandle ==
  ASSUME TypeOK, HandleFollowsCapture, OneTaker, CommandOrder, TargetIsJob,
         NEW j \in Jobs, StopBegin(j) \/ StopStep(j)
  PROVE  HandleFollowsCapture' /\ OneTaker' /\ CommandOrder' /\ TargetIsJob'
<1> USE DEF TypeOK, StartPC, StopPC, CancelPC, HandleFollowsCapture, OneTaker,
            CommandOrder, TargetIsJob
<1>1. CASE StopBegin(j)
  BY <1>1 DEF StopBegin, BeginFinalization, Emit
<1>2. CASE StopFinishAudio(j)
  BY <1>2 DEF StopFinishAudio, ReleaseFinalization, Emit
<1>3. CASE StopSilent(j)
  BY <1>3 DEF StopSilent, Emit, StopProvider
<1>4. CASE StopSnapshot(j)
  BY <1>4 DEF StopSnapshot
<1>5. CASE StopTrySlot(j)
  BY <1>5 DEF StopTrySlot, TakeSlot, Emit
<1>6. CASE StopEnqueue(j)
  BY <1>6 DEF StopEnqueue, Enqueue
<1>7. CASE StopAwait(j)
  BY <1>7 DEF StopAwait, PollPermit, PollToken, Park, WakeNotified,
         WakeCancelled, NotifyOneAmong
<1>8. CASE StopCheckToken(j)
  BY <1>8 DEF StopCheckToken, ClearQueuedJob
<1>9. CASE StopUnqueue(j)
  BY <1>9 DEF StopUnqueue, ClearQueuedJob, Emit
<1>10. CASE StopRequest(j)
  BY <1>10 DEF StopRequest, Emit
<1>11. CASE InferenceCompletes(j)
  BY <1>11 DEF InferenceCompletes
<1>12. CASE StopReceive(j)
  BY <1>12 DEF StopReceive, Emit
<1>13. CASE StopReceiveError(j)
  BY <1>13 DEF StopReceiveError
<1>14. CASE StopCorrectAndSave(j)
  BY <1>14 DEF StopCorrectAndSave
<1>15. CASE StopShutdown(j)
  BY <1>15 DEF StopShutdown, StopProvider
<1>16. CASE StopClear(j)
  BY <1>16 DEF StopClear, ClearProcessing, Emit
<1>17. CASE StopNotify(j)
  BY <1>17 DEF StopNotify, NotifyOne, NotifyOneAmong, Emit
<1>18. CASE StopInject(j)
  BY <1>18 DEF StopInject, Emit
<1>19. CASE StopFail(j)
  BY <1>19 DEF StopFail, StopProvider, Emit
<1> QED
  BY <1>1, <1>2, <1>3, <1>4, <1>5, <1>6, <1>7, <1>8, <1>9, <1>10, <1>11,
     <1>12, <1>13, <1>14, <1>15, <1>16, <1>17, <1>18, <1>19
     DEF StopStep

(* Overlapping cancellations keep slot, handle and targets consistent. *)
LEMMA CancelHandle ==
  ASSUME TypeOK, HandleFollowsCapture, OneTaker, CommandOrder, TargetIsJob,
         NEW c \in Cancels, CancelBegin(c) \/ CancelStep(c)
  PROVE  HandleFollowsCapture' /\ OneTaker' /\ CommandOrder' /\ TargetIsJob'
<1> USE DEF TypeOK, StartPC, StopPC, CancelPC, HandleFollowsCapture, OneTaker,
            CommandOrder, TargetIsJob
<1>1. CASE CancelBegin(c)
  BY <1>1 DEF CancelBegin, CancelCapture, Emit
<1>2. CASE CancelPreparing(c)
  BY <1>2 DEF CancelPreparing, Emit
<1>3. CASE CancelTake(c)
  BY <1>3 DEF CancelTake, Emit
<1>4. CASE CancelStopProvider(c)
  BY <1>4 DEF CancelStopProvider, StopProvider, Emit
<1>5. CASE CancelReadProcessing(c)
  BY <1>5 DEF CancelReadProcessing
<1>6. CASE CancelQueued(c)
  BY <1>6 DEF CancelQueued, CancelQueuedJob
<1>7. CASE CancelAsk(c)
  BY <1>7 DEF CancelAsk
<1>8. CASE CancelShutdown(c)
  BY <1>8 DEF CancelShutdown, StopProvider
<1>9. CASE CancelClear(c)
  BY <1>9 DEF CancelClear, ClearProcessing, Emit
<1>10. CASE CancelNotify(c)
  BY <1>10 DEF CancelNotify, NotifyOne, NotifyOneAmong, Emit
<1> QED
  BY <1>1, <1>2, <1>3, <1>4, <1>5, <1>6, <1>7, <1>8, <1>9, <1>10
     DEF CancelStep

(* A start opens and closes only its own stream. *)
LEMMA StartMicrophone ==
  ASSUME TypeOK, MicrophoneHasOwner, HandleFollowsCapture, CommandOrder,
         NEW j \in Jobs, StartStep(j)
  PROVE  MicrophoneHasOwner'
<1> USE DEF TypeOK, StartPC, StopPC, CancelPC, MicrophoneHasOwner,
            HandleFollowsCapture, CommandOrder
<1>1. CASE StartReadProcessing(j)
  BY <1>1 DEF StartReadProcessing
<1>2. CASE StartReadQueued(j)
  BY <1>2 DEF StartReadQueued
<1>3. CASE StartReserve(j)
  BY <1>3 DEF StartReserve, ReserveStart
<1>4. CASE StartPrepare(j)
  BY <1>4 DEF StartPrepare, Emit, AbandonPreparation
<1>5. CASE StartEnsureModelReady(j)
  BY <1>5 DEF StartEnsureModelReady
<1>6. CASE StartOpenMicrophone(j)
  BY <1>6 DEF StartOpenMicrophone
<1>7. CASE StartCommit(j)
  BY <1>7 DEF StartCommit, CommitPreparation
<1>8. CASE StartAnnounce(j)
  BY <1>8 DEF StartAnnounce, Emit
<1>9. CASE StartAbandon(j)
  BY <1>9 DEF StartAbandon, AbandonPreparation
<1>10. CASE StartFail(j)
  BY <1>10 DEF StartFail, StopProvider, Emit
<1>11. CASE StartDiscard(j)
  BY <1>11 DEF StartDiscard, StopProvider, Emit
<1>12. CASE StartDiscarded(j)
  BY <1>12 DEF StartDiscarded, Emit
<1> QED
  BY <1>1, <1>2, <1>3, <1>4, <1>5, <1>6, <1>7, <1>8, <1>9, <1>10, <1>11, <1>12
     DEF StartStep

(* A stop closes the stream it finalizes. *)
LEMMA StopMicrophone ==
  ASSUME TypeOK, MicrophoneHasOwner, HandleFollowsCapture, CommandOrder,
         NEW j \in Jobs, StopBegin(j) \/ StopStep(j)
  PROVE  MicrophoneHasOwner'
<1> USE DEF TypeOK, StartPC, StopPC, CancelPC, MicrophoneHasOwner,
            HandleFollowsCapture, CommandOrder
<1>1. CASE StopBegin(j)
  BY <1>1 DEF StopBegin, BeginFinalization, Emit
<1>2. CASE StopFinishAudio(j)
  <2>1. capture = Finalizing(j) /\ stop[j] = "finish" /\ recording # j
    BY <1>2 DEF StopFinishAudio, ReleaseFinalization
  <2>2. mic' = mic \ {j} /\ UNCHANGED <<recording, start>>
    BY <1>2 DEF StopFinishAudio
  <2>3. \A k \in Jobs : stop'[k] = IF k = j THEN stop'[j] ELSE stop[k]
    BY <1>2 DEF StopFinishAudio
  <2>4. stop'[j] # "finish" /\ start[j] # "commit"
    BY <1>2 DEF StopFinishAudio
  <2> QED  BY <2>1, <2>2, <2>3, <2>4
<1>3. CASE StopSilent(j)
  BY <1>3 DEF StopSilent, Emit, StopProvider
<1>4. CASE StopSnapshot(j)
  BY <1>4 DEF StopSnapshot
<1>5. CASE StopTrySlot(j)
  BY <1>5 DEF StopTrySlot, TakeSlot, Emit
<1>6. CASE StopEnqueue(j)
  BY <1>6 DEF StopEnqueue, Enqueue
<1>7. CASE StopAwait(j)
  BY <1>7 DEF StopAwait, PollPermit, PollToken, Park, WakeNotified,
         WakeCancelled, NotifyOneAmong
<1>8. CASE StopCheckToken(j)
  BY <1>8 DEF StopCheckToken, ClearQueuedJob
<1>9. CASE StopUnqueue(j)
  BY <1>9 DEF StopUnqueue, ClearQueuedJob, Emit
<1>10. CASE StopRequest(j)
  BY <1>10 DEF StopRequest, Emit
<1>11. CASE InferenceCompletes(j)
  BY <1>11 DEF InferenceCompletes
<1>12. CASE StopReceive(j)
  BY <1>12 DEF StopReceive, Emit
<1>13. CASE StopReceiveError(j)
  BY <1>13 DEF StopReceiveError
<1>14. CASE StopCorrectAndSave(j)
  BY <1>14 DEF StopCorrectAndSave
<1>15. CASE StopShutdown(j)
  BY <1>15 DEF StopShutdown, StopProvider
<1>16. CASE StopClear(j)
  BY <1>16 DEF StopClear, ClearProcessing, Emit
<1>17. CASE StopNotify(j)
  BY <1>17 DEF StopNotify, NotifyOne, NotifyOneAmong, Emit
<1>18. CASE StopInject(j)
  BY <1>18 DEF StopInject, Emit
<1>19. CASE StopFail(j)
  BY <1>19 DEF StopFail, StopProvider, Emit
<1> QED
  BY <1>1, <1>2, <1>3, <1>4, <1>5, <1>6, <1>7, <1>8, <1>9, <1>10, <1>11,
     <1>12, <1>13, <1>14, <1>15, <1>16, <1>17, <1>18, <1>19
     DEF StopStep

(* A cancellation closes the stream of the handle it takes. *)
LEMMA CancelMicrophone ==
  ASSUME TypeOK, MicrophoneHasOwner, HandleFollowsCapture, CommandOrder,
         NEW c \in Cancels, CancelBegin(c) \/ CancelStep(c)
  PROVE  MicrophoneHasOwner'
<1> USE DEF TypeOK, StartPC, StopPC, CancelPC, MicrophoneHasOwner,
            HandleFollowsCapture, CommandOrder
<1>1. CASE CancelBegin(c)
  BY <1>1 DEF CancelBegin, CancelCapture, Emit
<1>2. CASE CancelPreparing(c)
  BY <1>2 DEF CancelPreparing, Emit
<1>3. CASE CancelTake(c)
  BY <1>3 DEF CancelTake, Emit
<1>4. CASE CancelStopProvider(c)
  BY <1>4 DEF CancelStopProvider, StopProvider, Emit
<1>5. CASE CancelReadProcessing(c)
  BY <1>5 DEF CancelReadProcessing
<1>6. CASE CancelQueued(c)
  BY <1>6 DEF CancelQueued, CancelQueuedJob
<1>7. CASE CancelAsk(c)
  BY <1>7 DEF CancelAsk
<1>8. CASE CancelShutdown(c)
  BY <1>8 DEF CancelShutdown, StopProvider
<1>9. CASE CancelClear(c)
  BY <1>9 DEF CancelClear, ClearProcessing, Emit
<1>10. CASE CancelNotify(c)
  BY <1>10 DEF CancelNotify, NotifyOne, NotifyOneAmong, Emit
<1> QED
  BY <1>1, <1>2, <1>3, <1>4, <1>5, <1>6, <1>7, <1>8, <1>9, <1>10
     DEF CancelStep

-----------------------------------------------------------------------------
(* Inference slot and queue *)

(* A start leaves slot and queue to their owners. *)
LEMMA StartSlot ==
  ASSUME TypeOK, QueueEntryHasOwner, SlotHasOwner, NEW j \in Jobs, StartStep(j)
  PROVE  QueueEntryHasOwner' /\ SlotHasOwner'
  BY StartFrame DEF QueueEntryHasOwner, SlotHasOwner, Waiting, HoldsSlot,
     ReturnedEarly

(* A stop enters and leaves slot and queue with its own entry. *)
LEMMA StopSlot ==
  ASSUME TypeOK, QueueEntryHasOwner, SlotHasOwner,
         NEW j \in Jobs, StopBegin(j) \/ StopStep(j)
  PROVE  QueueEntryHasOwner' /\ SlotHasOwner'
<1> USE DEF TypeOK, StartPC, StopPC, CancelPC, QueueEntryHasOwner,
            SlotHasOwner, Waiting, HoldsSlot, ReturnedEarly
<1>1. CASE StopBegin(j)
  BY <1>1 DEF StopBegin, BeginFinalization, Emit
<1>2. CASE StopFinishAudio(j)
  BY <1>2 DEF StopFinishAudio, ReleaseFinalization, Emit
<1>3. CASE StopSilent(j)
  BY <1>3 DEF StopSilent, Emit, StopProvider
<1>4. CASE StopSnapshot(j)
  BY <1>4 DEF StopSnapshot
<1>5. CASE StopTrySlot(j)
  BY <1>5 DEF StopTrySlot, TakeSlot, Emit
<1>6. CASE StopEnqueue(j)
  BY <1>6 DEF StopEnqueue, Enqueue
<1>7. CASE StopAwait(j)
  BY <1>7 DEF StopAwait, PollPermit, PollToken, Park, WakeNotified,
         WakeCancelled, NotifyOneAmong
<1>8. CASE StopCheckToken(j)
  BY <1>8 DEF StopCheckToken, ClearQueuedJob
<1>9. CASE StopUnqueue(j)
  BY <1>9 DEF StopUnqueue, ClearQueuedJob, Emit
<1>10. CASE StopRequest(j)
  BY <1>10 DEF StopRequest, Emit
<1>11. CASE InferenceCompletes(j)
  BY <1>11 DEF InferenceCompletes
<1>12. CASE StopReceive(j)
  BY <1>12 DEF StopReceive, Emit
<1>13. CASE StopReceiveError(j)
  BY <1>13 DEF StopReceiveError
<1>14. CASE StopCorrectAndSave(j)
  BY <1>14 DEF StopCorrectAndSave
<1>15. CASE StopShutdown(j)
  BY <1>15 DEF StopShutdown, StopProvider
<1>16. CASE StopClear(j)
  BY <1>16 DEF StopClear, ClearProcessing, Emit
<1>17. CASE StopNotify(j)
  BY <1>17 DEF StopNotify, NotifyOne, NotifyOneAmong, Emit
<1>18. CASE StopInject(j)
  BY <1>18 DEF StopInject, Emit
<1>19. CASE StopFail(j)
  BY <1>19 DEF StopFail, StopProvider, Emit
<1> QED
  BY <1>1, <1>2, <1>3, <1>4, <1>5, <1>6, <1>7, <1>8, <1>9, <1>10, <1>11,
     <1>12, <1>13, <1>14, <1>15, <1>16, <1>17, <1>18, <1>19
     DEF StopStep

(* A cancellation can only empty the slot. *)
LEMMA CancelSlot ==
  ASSUME TypeOK, QueueEntryHasOwner, SlotHasOwner,
         NEW c \in Cancels, CancelBegin(c) \/ CancelStep(c)
  PROVE  QueueEntryHasOwner' /\ SlotHasOwner'
<1>1. queued' = queued /\ processing' \in {processing, NoJob}
  BY DEF CancelBegin, CancelStep, CancelPreparing, CancelTake,
         CancelStopProvider, CancelReadProcessing, CancelQueued, CancelAsk,
         CancelShutdown, CancelClear, CancelNotify, ClearProcessing
<1> QED
  BY <1>1, CancelFrame DEF TypeOK, QueueEntryHasOwner, SlotHasOwner, Waiting,
     HoldsSlot, ReturnedEarly

-----------------------------------------------------------------------------
(* Worker children *)

(* A start owns the child it spawned until it commits, fails or discards. *)
LEMMA StartSidecar ==
  ASSUME TypeOK, SidecarHasOwner, HandleFollowsCapture, CommandOrder,
         NEW j \in Jobs, StartStep(j)
  PROVE  SidecarHasOwner'
<1> SUFFICES ASSUME NEW k \in sidecar'
             PROVE  StoppedByCommand(k)' \/ StoppedByCancel(k)'
  BY DEF SidecarHasOwner
<1> USE DEF TypeOK, StartPC, StopPC, StoppedByCommand, ReturnedEarly
<1>1. CASE k \notin sidecar
  <2>1. k = j /\ StartEnsureModelReady(j)
    BY <1>1 DEF StartStep, StartReadProcessing, StartReadQueued, StartReserve,
       StartPrepare, StartEnsureModelReady, StartOpenMicrophone, StartCommit,
       StartAnnounce, StartAbandon, StartFail, StartDiscard, StartDiscarded,
       StopProvider
  <2> QED  BY <2>1 DEF StartEnsureModelReady
<1>2. CASE k \in sidecar /\ StoppedByCancel(k)
  BY <1>2, StartFrame DEF StoppedByCancel
<1>3. ASSUME k \in sidecar, StoppedByCommand(k)
      PROVE  StoppedByCommand(k)'
  <2>0. k \in Jobs
    BY <1>3, LocalJobsAssumption
  <2>1. CASE StartReadProcessing(j)
    BY <1>3, <2>0, <2>1 DEF StartReadProcessing
  <2>2. CASE StartReadQueued(j)
    BY <1>3, <2>0, <2>2 DEF StartReadQueued
  <2>3. CASE StartReserve(j)
    BY <1>3, <2>0, <2>3 DEF StartReserve, ReserveStart
  <2>4. CASE StartPrepare(j)
    BY <1>3, <2>0, <2>4 DEF StartPrepare, AbandonPreparation
  <2>5. CASE StartEnsureModelReady(j)
    BY <1>3, <2>0, <2>5 DEF StartEnsureModelReady
  <2>6. CASE StartOpenMicrophone(j)
    BY <1>3, <2>0, <2>6 DEF StartOpenMicrophone
  <2>7. CASE StartCommit(j)
    BY <1>3, <2>0, <2>7 DEF StartCommit, CommitPreparation
  <2>8. CASE StartAnnounce(j)
    BY <1>3, <2>0, <2>8 DEF StartAnnounce
  <2>9. CASE StartAbandon(j)
    BY <1>3, <2>0, <2>9 DEF StartAbandon, AbandonPreparation
  <2>10. CASE StartFail(j)
    BY <1>3, <2>0, <2>10 DEF StartFail, StopProvider
  <2>11. CASE StartDiscard(j)
    BY <1>3, <2>0, <2>11 DEF StartDiscard, StopProvider
  <2>12. CASE StartDiscarded(j)
    BY <1>3, <2>0, <2>12 DEF StartDiscarded
  <2> QED
    BY <2>1, <2>2, <2>3, <2>4, <2>5, <2>6, <2>7, <2>8, <2>9, <2>10, <2>11,
       <2>12
       DEF StartStep
<1> QED  BY <1>1, <1>2, <1>3 DEF SidecarHasOwner

(* A stop owns the child of its job until it has shut it down. *)
LEMMA StopSidecar ==
  ASSUME TypeOK, SidecarHasOwner, HandleFollowsCapture, CommandOrder,
         NEW j \in Jobs, StopBegin(j) \/ StopStep(j)
  PROVE  SidecarHasOwner'
<1> SUFFICES ASSUME NEW k \in sidecar'
             PROVE  StoppedByCommand(k)' \/ StoppedByCancel(k)'
  BY DEF SidecarHasOwner
<1> USE DEF TypeOK, StartPC, StopPC, StoppedByCommand, ReturnedEarly
<1>1. CASE k \notin sidecar
  <2>1. k = j /\ StopRequest(j)
    BY <1>1 DEF StopBegin, StopStep, StopFinishAudio, StopSilent,
       StopSnapshot, StopTrySlot, StopEnqueue, StopAwait, StopCheckToken,
       StopUnqueue, StopRequest, InferenceCompletes, StopReceive,
       StopReceiveError, StopCorrectAndSave, StopShutdown, StopClear,
       StopNotify, StopInject, StopFail, StopProvider
  <2> QED  BY <2>1 DEF StopRequest
<1>2. CASE k \in sidecar /\ StoppedByCancel(k)
  BY <1>2, StopFrame DEF StoppedByCancel
<1>3. ASSUME k \in sidecar, StoppedByCommand(k)
      PROVE  StoppedByCommand(k)'
  <2>0. k \in Jobs
    BY <1>3, LocalJobsAssumption
  <2>1. CASE StopBegin(j)
    BY <1>3, <2>0, <2>1 DEF StopBegin, BeginFinalization, HandleFollowsCapture
  <2>2. CASE StopFinishAudio(j)
    BY <1>3, <2>0, <2>2 DEF StopFinishAudio, ReleaseFinalization
  <2>3. CASE StopSilent(j)
    BY <1>3, <2>0, <2>3 DEF StopSilent, StopProvider
  <2>4. CASE StopSnapshot(j)
    BY <1>3, <2>0, <2>4 DEF StopSnapshot
  <2>5. CASE StopTrySlot(j)
    BY <1>3, <2>0, <2>5 DEF StopTrySlot, TakeSlot
  <2>6. CASE StopEnqueue(j)
    BY <1>3, <2>0, <2>6 DEF StopEnqueue, Enqueue
  <2>7. CASE StopAwait(j)
    BY <1>3, <2>0, <2>7 DEF StopAwait, PollPermit, PollToken, Park,
       WakeNotified, WakeCancelled, NotifyOneAmong
  <2>8. CASE StopCheckToken(j)
    BY <1>3, <2>0, <2>8 DEF StopCheckToken, ClearQueuedJob
  <2>9. CASE StopUnqueue(j)
    BY <1>3, <2>0, <2>9 DEF StopUnqueue, ClearQueuedJob
  <2>10. CASE StopRequest(j)
    BY <1>3, <2>0, <2>10 DEF StopRequest
  <2>11. CASE InferenceCompletes(j)
    BY <1>3, <2>0, <2>11 DEF InferenceCompletes
  <2>12. CASE StopReceive(j)
    BY <1>3, <2>0, <2>12 DEF StopReceive
  <2>13. CASE StopReceiveError(j)
    BY <1>3, <2>0, <2>13 DEF StopReceiveError
  <2>14. CASE StopCorrectAndSave(j)
    BY <1>3, <2>0, <2>14 DEF StopCorrectAndSave
  <2>15. CASE StopShutdown(j)
    BY <1>3, <2>0, <2>15 DEF StopShutdown, StopProvider
  <2>16. CASE StopClear(j)
    BY <1>3, <2>0, <2>16 DEF StopClear, ClearProcessing
  <2>17. CASE StopNotify(j)
    BY <1>3, <2>0, <2>17 DEF StopNotify, NotifyOne, NotifyOneAmong
  <2>18. CASE StopInject(j)
    BY <1>3, <2>0, <2>18 DEF StopInject
  <2>19. CASE StopFail(j)
    BY <1>3, <2>0, <2>19 DEF StopFail, StopProvider
  <2> QED
    BY <2>1, <2>2, <2>3, <2>4, <2>5, <2>6, <2>7, <2>8, <2>9, <2>10, <2>11,
       <2>12, <2>13, <2>14, <2>15, <2>16, <2>17, <2>18, <2>19
       DEF StopStep
<1> QED  BY <1>1, <1>2, <1>3 DEF SidecarHasOwner

(* A cancellation stops the child of the handle it takes and the one it asks. *)
LEMMA CancelSidecar ==
  ASSUME TypeOK, SidecarHasOwner, HandleFollowsCapture, TargetIsJob,
         NEW c \in Cancels, CancelBegin(c) \/ CancelStep(c)
  PROVE  SidecarHasOwner'
<1> USE DEF TypeOK, StartPC, StopPC, CancelPC, SidecarHasOwner,
            HandleFollowsCapture, TargetIsJob, StoppedByCommand,
            StoppedByCancel, ReturnedEarly
<1>1. CASE CancelBegin(c)
  BY <1>1 DEF CancelBegin, CancelCapture, Emit
<1>2. CASE CancelPreparing(c)
  BY <1>2 DEF CancelPreparing, Emit
<1>3. CASE CancelTake(c)
  BY <1>3 DEF CancelTake, Emit
<1>4. CASE CancelStopProvider(c)
  BY <1>4 DEF CancelStopProvider, StopProvider, Emit
<1>5. CASE CancelReadProcessing(c)
  BY <1>5 DEF CancelReadProcessing
<1>6. CASE CancelQueued(c)
  BY <1>6 DEF CancelQueued, CancelQueuedJob
<1>7. CASE CancelAsk(c)
  BY <1>7 DEF CancelAsk
<1>8. CASE CancelShutdown(c)
  BY <1>8 DEF CancelShutdown, StopProvider
<1>9. CASE CancelClear(c)
  BY <1>9 DEF CancelClear, ClearProcessing, Emit
<1>10. CASE CancelNotify(c)
  BY <1>10 DEF CancelNotify, NotifyOne, NotifyOneAmong, Emit
<1> QED
  BY <1>1, <1>2, <1>3, <1>4, <1>5, <1>6, <1>7, <1>8, <1>9, <1>10
     DEF CancelStep

-----------------------------------------------------------------------------
(* The state machine carried by each job *)

(* A start moves its machine up to Recording. *)
LEMMA StartMachine ==
  ASSUME TypeOK, MachineFollowsCommands, HandleFollowsCapture, CommandOrder,
         NEW j \in Jobs, StartStep(j)
  PROVE  MachineFollowsCommands'
<1> USE DEF TypeOK, StartPC, StopPC, CancelPC, MachineFollowsCommands,
            MachineAt, Waiting, HandleFollowsCapture, CommandOrder
<1>1. CASE StartReadProcessing(j)
  BY <1>1 DEF StartReadProcessing
<1>2. CASE StartReadQueued(j)
  BY <1>2 DEF StartReadQueued
<1>3. CASE StartReserve(j)
  BY <1>3 DEF StartReserve, ReserveStart
<1>4. CASE StartPrepare(j)
  BY <1>4 DEF StartPrepare, Emit, AbandonPreparation
<1>5. CASE StartEnsureModelReady(j)
  BY <1>5 DEF StartEnsureModelReady
<1>6. CASE StartOpenMicrophone(j)
  BY <1>6 DEF StartOpenMicrophone
<1>7. CASE StartCommit(j)
  BY <1>7 DEF StartCommit, CommitPreparation
<1>8. CASE StartAnnounce(j)
  BY <1>8 DEF StartAnnounce, Emit
<1>9. CASE StartAbandon(j)
  BY <1>9 DEF StartAbandon, AbandonPreparation
<1>10. CASE StartFail(j)
  BY <1>10 DEF StartFail, StopProvider, Emit
<1>11. CASE StartDiscard(j)
  BY <1>11 DEF StartDiscard, StopProvider, Emit
<1>12. CASE StartDiscarded(j)
  BY <1>12 DEF StartDiscarded, Emit
<1> QED
  BY <1>1, <1>2, <1>3, <1>4, <1>5, <1>6, <1>7, <1>8, <1>9, <1>10, <1>11, <1>12
     DEF StartStep

(* A stop moves its machine from FinalizingAudio to the outcome. *)
LEMMA StopMachine ==
  ASSUME TypeOK, MachineFollowsCommands, HandleFollowsCapture, CommandOrder,
         NEW j \in Jobs, StopBegin(j) \/ StopStep(j)
  PROVE  MachineFollowsCommands'
<1> USE DEF TypeOK, StartPC, StopPC, CancelPC, MachineFollowsCommands,
            MachineAt, Waiting, HandleFollowsCapture, CommandOrder
<1>1. CASE StopBegin(j)
  <2>1. recording = j /\ stop[j] = "none" /\ start[j] \in {"announce", "done"}
    BY <1>1 DEF StopBegin, BeginFinalization
  <2>2. j \notin stored
    BY <2>1
  <2>3. /\ machine' = [machine EXCEPT ![j] = "FinalizingAudio"]
        /\ stop' = [stop EXCEPT ![j] = "finish"]
        /\ recording' = NoJob
        /\ UNCHANGED <<start, stored>>
    BY <1>1 DEF StopBegin
  <2> QED  BY <2>1, <2>2, <2>3
<1>2. CASE StopFinishAudio(j)
  BY <1>2 DEF StopFinishAudio, ReleaseFinalization, Emit
<1>3. CASE StopSilent(j)
  BY <1>3 DEF StopSilent, Emit, StopProvider
<1>4. CASE StopSnapshot(j)
  BY <1>4 DEF StopSnapshot
<1>5. CASE StopTrySlot(j)
  BY <1>5 DEF StopTrySlot, TakeSlot, Emit
<1>6. CASE StopEnqueue(j)
  BY <1>6 DEF StopEnqueue, Enqueue
<1>7. CASE StopAwait(j)
  BY <1>7 DEF StopAwait, PollPermit, PollToken, Park, WakeNotified,
         WakeCancelled, NotifyOneAmong
<1>8. CASE StopCheckToken(j)
  BY <1>8 DEF StopCheckToken, ClearQueuedJob
<1>9. CASE StopUnqueue(j)
  BY <1>9 DEF StopUnqueue, ClearQueuedJob, Emit
<1>10. CASE StopRequest(j)
  BY <1>10 DEF StopRequest, Emit
<1>11. CASE InferenceCompletes(j)
  BY <1>11 DEF InferenceCompletes
<1>12. CASE StopReceive(j)
  BY <1>12 DEF StopReceive, Emit
<1>13. CASE StopReceiveError(j)
  BY <1>13 DEF StopReceiveError
<1>14. CASE StopCorrectAndSave(j)
  BY <1>14 DEF StopCorrectAndSave
<1>15. CASE StopShutdown(j)
  BY <1>15 DEF StopShutdown, StopProvider
<1>16. CASE StopClear(j)
  BY <1>16 DEF StopClear, ClearProcessing, Emit
<1>17. CASE StopNotify(j)
  BY <1>17 DEF StopNotify, NotifyOne, NotifyOneAmong, Emit
<1>18. CASE StopInject(j)
  BY <1>18 DEF StopInject, Emit
<1>19. CASE StopFail(j)
  BY <1>19 DEF StopFail, StopProvider, Emit
<1> QED
  BY <1>1, <1>2, <1>3, <1>4, <1>5, <1>6, <1>7, <1>8, <1>9, <1>10, <1>11,
     <1>12, <1>13, <1>14, <1>15, <1>16, <1>17, <1>18, <1>19
     DEF StopStep

(* A cancellation never touches a machine. *)
LEMMA CancelMachine ==
  ASSUME TypeOK, MachineFollowsCommands,
         NEW c \in Cancels, CancelBegin(c) \/ CancelStep(c)
  PROVE  MachineFollowsCommands'
<1>1. recording' \in {recording, NoJob}
  BY DEF CancelBegin, CancelStep, CancelPreparing, CancelTake,
         CancelStopProvider, CancelReadProcessing, CancelQueued, CancelAsk,
         CancelShutdown, CancelClear, CancelNotify
<1> QED  BY <1>1, CancelFrame DEF TypeOK, MachineFollowsCommands, MachineAt

-----------------------------------------------------------------------------
(* The inductive invariant and the theorems *)

(* The controller starts with every part of the invariant true. *)
LEMMA InitInv == Init => IInv
<1> SUFFICES ASSUME Init PROVE IInv
  OBVIOUS
<1> USE DEF Init, SlotInit, JobMachineInit
<1>1. TypeOK
  <2>1. permit \in BOOLEAN
    BY Zenon
  <2>2. machine \in [Jobs -> AppState] /\ shown \in [Jobs -> AppState]
    BY DEF AppState
  <2>3. /\ start \in [Jobs -> StartPC] /\ stop \in [Jobs -> StopPC]
        /\ cancel \in [Cancels -> CancelPC] /\ target \in [Cancels -> MaybeJob]
        /\ request \in [Jobs -> RequestState]
    BY DEF StartPC, StopPC, CancelPC, RequestState
  <2> QED  BY <2>1, <2>2, <2>3 DEF TypeOK
<1>2. HandleFollowsCapture /\ OneTaker /\ CommandOrder /\ TargetIsJob
  BY DEF HandleFollowsCapture, OneTaker, CommandOrder, TargetIsJob
<1>3. MicrophoneHasOwner /\ SidecarHasOwner
  BY DEF MicrophoneHasOwner, SidecarHasOwner
<1>4. QueueEntryHasOwner /\ SlotHasOwner
  BY DEF QueueEntryHasOwner, SlotHasOwner, Waiting
<1>5. MachineFollowsCommands
  BY DEF MachineFollowsCommands, MachineAt, Waiting
<1> QED  BY <1>1, <1>2, <1>3, <1>4, <1>5 DEF IInv

(* Every step of every command, and stuttering, keeps the whole invariant. *)
LEMMA StepInv == IInv /\ [Next]_vars => IInv'
<1> SUFFICES ASSUME IInv, [Next]_vars PROVE IInv'
  OBVIOUS
<1> USE DEF IInv
<1>1. ASSUME NEW j \in Jobs, StartStep(j) PROVE IInv'
  BY <1>1, StartTypes, StartHandle, StartMicrophone, StartSlot, StartSidecar,
     StartMachine
<1>2. ASSUME NEW j \in Jobs, StopBegin(j) \/ StopStep(j) PROVE IInv'
  BY <1>2, StopTypes, StopHandle, StopMicrophone, StopSlot, StopSidecar,
     StopMachine
<1>3. ASSUME NEW c \in Cancels, CancelBegin(c) \/ CancelStep(c) PROVE IInv'
  BY <1>3, CancelTypes, CancelHandle, CancelMicrophone, CancelSlot,
     CancelSidecar, CancelMachine
<1>4. CASE UNCHANGED vars
  <2> USE <1>4 DEF vars
  <2>1. TypeOK'
    BY DEF TypeOK
  <2>2. HandleFollowsCapture' /\ OneTaker' /\ CommandOrder' /\ TargetIsJob'
    BY DEF HandleFollowsCapture, OneTaker, CommandOrder, TargetIsJob
  <2>3. MicrophoneHasOwner' /\ QueueEntryHasOwner' /\ SlotHasOwner'
    BY DEF MicrophoneHasOwner, QueueEntryHasOwner, SlotHasOwner, ReturnedEarly
  <2>4. SidecarHasOwner'
    BY DEF SidecarHasOwner, StoppedByCommand, StoppedByCancel, ReturnedEarly
  <2>5. MachineFollowsCommands'
    BY DEF MachineFollowsCommands, MachineAt
  <2> QED  BY <2>1, <2>2, <2>3, <2>4, <2>5
<1> QED  BY <1>1, <1>2, <1>3, <1>4 DEF Next

(* IInv holds in every reachable state, whatever the constants are. *)
THEOREM Invariance == Spec => []IInv
  BY InitInv, StepInv, PTL DEF Spec

(* Every variable of the controller keeps its type. *)
THEOREM TypeCorrect == Spec => []TypeOK
<1>1. IInv => TypeOK
  BY DEF IInv
<1> QED  BY <1>1, Invariance, PTL

(* The coordinator's slot, the audio handle under the second mutex, the       *)
(* finalizing stop and the cancellation that takes the handle always agree on *)
(* the job: the internal-error branches of stop and cancel are dead code.     *)
THEOREM HandleAgrees == Spec => []HandleFollowsCapture
<1>1. IInv => HandleFollowsCapture
  BY DEF IInv
<1> QED  BY <1>1, Invariance, PTL

(* No interleaving of starts, stops and cancellations leaves an input stream  *)
(* open without a command or a stored handle that closes it.                  *)
THEOREM NoOrphanMicrophone == Spec => []MicrophoneHasOwner
<1>1. IInv => MicrophoneHasOwner
  BY DEF IInv
<1> QED  BY <1>1, Invariance, PTL

(* The queue entry is the waiting job's own for as long as it waits, so       *)
(* clear_queued_job never fails.                                              *)
THEOREM QueueOwnership == Spec => []QueueEntryHasOwner
<1>1. IInv => QueueEntryHasOwner
  BY DEF IInv
<1> QED  BY <1>1, Invariance, PTL

(* The inference slot is never left to a job whose stop command is over,      *)
(* except through the early return for unreadable Windows settings.           *)
THEOREM SlotOwnership == Spec => []SlotHasOwner
<1>1. IInv => SlotHasOwner
  BY DEF IInv
<1> QED  BY <1>1, Invariance, PTL

(* Every running worker child has a command or a cancellation that will stop  *)
(* it, also one that was spawned only to be asked for a cancellation.         *)
THEOREM NoOrphanSidecar == Spec => []SidecarHasOwner
<1>1. IInv => SidecarHasOwner
  BY DEF IInv
<1> QED  BY <1>1, Invariance, PTL

-----------------------------------------------------------------------------
(* The inference slot: who is in it, and who is woken when it is free.        *)

(* A start leaves slot, queue, waiters and cancellations alone; a worker that *)
(* is stopped computes nothing new.                                           *)
LEMMA StartSlotInv ==
  ASSUME IInv, SlotInv, NEW j \in Jobs, StartStep(j)
  PROVE  SlotInv'
<1>1. UNCHANGED <<slotVars, stop, cancel, target>>
  BY StartFrame
<1>2. \A i \in Jobs : request'[i] = "computing" => request[i] = "computing"
  BY DEF IInv, TypeOK, StartStep, StartReadProcessing, StartReadQueued,
         StartReserve, StartPrepare, StartEnsureModelReady,
         StartOpenMicrophone, StartCommit, StartAnnounce, StartAbandon,
         StartFail, StartDiscard, StartDiscarded, StopProvider
<1> QED
  BY <1>1, <1>2 DEF SlotInv, TargetIsChosen, SlotKept, RequestHasTask,
         WaitersAreParked, WakeupOwed

(* A stop keeps the slot it has taken until it releases it, and a request     *)
(* computes only while the stop waits for it.                                 *)
LEMMA StopKeepsSlot ==
  ASSUME IInv, SlotInv, NEW j \in Jobs, StopBegin(j) \/ StopStep(j)
  PROVE  SlotKept' /\ RequestHasTask'
<1> USE DEF IInv, TypeOK, StartPC, StopPC, CancelPC, SlotInv, SlotKept,
       RequestHasTask, HoldsSlot
<1>1. CASE StopBegin(j)
  BY <1>1 DEF StopBegin
<1>2. CASE StopFinishAudio(j)
  BY <1>2 DEF StopFinishAudio
<1>3. CASE StopSilent(j)
  BY <1>3 DEF StopSilent, StopProvider
<1>4. CASE StopSnapshot(j)
  BY <1>4 DEF StopSnapshot
<1>5. CASE StopTrySlot(j)
  BY <1>5 DEF StopTrySlot, TakeSlot
<1>6. CASE StopEnqueue(j)
  BY <1>6 DEF StopEnqueue
<1>7. CASE StopAwait(j)
  BY <1>7 DEF StopAwait, PollPermit, PollToken, Park, WakeNotified,
         WakeCancelled, NotifyOneAmong
<1>8. CASE StopCheckToken(j)
  BY <1>8 DEF StopCheckToken
<1>9. CASE StopUnqueue(j)
  BY <1>9 DEF StopUnqueue
<1>10. CASE StopRequest(j)
  BY <1>10 DEF StopRequest
<1>11. CASE InferenceCompletes(j)
  BY <1>11 DEF InferenceCompletes
<1>12. CASE StopReceive(j)
  BY <1>12 DEF StopReceive
<1>13. CASE StopReceiveError(j)
  BY <1>13 DEF StopReceiveError
<1>14. CASE StopCorrectAndSave(j)
  BY <1>14 DEF StopCorrectAndSave
<1>15. CASE StopShutdown(j)
  BY <1>15 DEF StopShutdown, StopProvider
<1>16. CASE StopClear(j)
  BY <1>16 DEF StopClear, ClearProcessing
<1>17. CASE StopNotify(j)
  BY <1>17 DEF StopNotify, NotifyOne, NotifyOneAmong
<1>18. CASE StopInject(j)
  BY <1>18 DEF StopInject
<1>19. CASE StopFail(j)
  BY <1>19 DEF StopFail, StopProvider
<1> QED
  BY <1>1, <1>2, <1>3, <1>4, <1>5, <1>6, <1>7, <1>8, <1>9, <1>10, <1>11,
     <1>12, <1>13, <1>14, <1>15, <1>16, <1>17, <1>18, <1>19
    DEF StopStep

(* The registered waiters are the parked jobs through every poll and every    *)
(* notify_one().                                                              *)
LEMMA StopKeepsWaiters ==
  ASSUME IInv, SlotInv, NEW j \in Jobs, StopBegin(j) \/ StopStep(j)
  PROVE  WaitersAreParked'
<1> USE DEF IInv, TypeOK, StartPC, StopPC, CancelPC, SlotInv,
       WaitersAreParked, QueueEntryHasOwner, Waiting
<1>1. CASE StopBegin(j)
  BY <1>1 DEF StopBegin
<1>2. CASE StopFinishAudio(j)
  BY <1>2 DEF StopFinishAudio
<1>3. CASE StopSilent(j)
  BY <1>3 DEF StopSilent, StopProvider
<1>4. CASE StopSnapshot(j)
  BY <1>4 DEF StopSnapshot
<1>5. CASE StopTrySlot(j)
  BY <1>5 DEF StopTrySlot, TakeSlot
<1>6. CASE StopEnqueue(j)
  BY <1>6 DEF StopEnqueue
<1>7. CASE StopAwait(j)
  BY <1>7 DEF StopAwait, PollPermit, PollToken, Park, WakeNotified,
         WakeCancelled, NotifyOneAmong
<1>8. CASE StopCheckToken(j)
  BY <1>8 DEF StopCheckToken
<1>9. CASE StopUnqueue(j)
  BY <1>9 DEF StopUnqueue
<1>10. CASE StopRequest(j)
  BY <1>10 DEF StopRequest
<1>11. CASE InferenceCompletes(j)
  BY <1>11 DEF InferenceCompletes
<1>12. CASE StopReceive(j)
  BY <1>12 DEF StopReceive
<1>13. CASE StopReceiveError(j)
  BY <1>13 DEF StopReceiveError
<1>14. CASE StopCorrectAndSave(j)
  BY <1>14 DEF StopCorrectAndSave
<1>15. CASE StopShutdown(j)
  BY <1>15 DEF StopShutdown, StopProvider
<1>16. CASE StopClear(j)
  BY <1>16 DEF StopClear, ClearProcessing
<1>17. CASE StopNotify(j)
  BY <1>17 DEF StopNotify, NotifyOne, NotifyOneAmong
<1>18. CASE StopInject(j)
  BY <1>18 DEF StopInject
<1>19. CASE StopFail(j)
  BY <1>19 DEF StopFail, StopProvider
<1> QED
  BY <1>1, <1>2, <1>3, <1>4, <1>5, <1>6, <1>7, <1>8, <1>9, <1>10, <1>11,
     <1>12, <1>13, <1>14, <1>15, <1>16, <1>17, <1>18, <1>19
    DEF StopStep

(* A release owes a wakeup until the waiting job has tried the slot.          *)
LEMMA StopOwesWakeup ==
  ASSUME IInv, SlotInv, NEW j \in Jobs, StopBegin(j) \/ StopStep(j)
  PROVE  WakeupOwed'
<1> USE DEF IInv, TypeOK, StartPC, StopPC, CancelPC, SlotInv,
       WaitersAreParked, WakeupOwed, QueueEntryHasOwner, Waiting
<1>1. CASE StopBegin(j)
  BY <1>1 DEF StopBegin
<1>2. CASE StopFinishAudio(j)
  BY <1>2 DEF StopFinishAudio
<1>3. CASE StopSilent(j)
  BY <1>3 DEF StopSilent, StopProvider
<1>4. CASE StopSnapshot(j)
  BY <1>4 DEF StopSnapshot
<1>5. CASE StopTrySlot(j)
  BY <1>5 DEF StopTrySlot, TakeSlot
<1>6. CASE StopEnqueue(j)
  BY <1>6 DEF StopEnqueue
<1>7. CASE StopAwait(j)
  BY <1>7 DEF StopAwait, PollPermit, PollToken, Park, WakeNotified,
         WakeCancelled, NotifyOneAmong
<1>8. CASE StopCheckToken(j)
  BY <1>8 DEF StopCheckToken
<1>9. CASE StopUnqueue(j)
  BY <1>9 DEF StopUnqueue
<1>10. CASE StopRequest(j)
  BY <1>10 DEF StopRequest
<1>11. CASE InferenceCompletes(j)
  BY <1>11 DEF InferenceCompletes
<1>12. CASE StopReceive(j)
  BY <1>12 DEF StopReceive
<1>13. CASE StopReceiveError(j)
  BY <1>13 DEF StopReceiveError
<1>14. CASE StopCorrectAndSave(j)
  BY <1>14 DEF StopCorrectAndSave
<1>15. CASE StopShutdown(j)
  BY <1>15 DEF StopShutdown, StopProvider
<1>16. CASE StopClear(j)
  BY <1>16 DEF StopClear, ClearProcessing
<1>17. CASE StopNotify(j)
  BY <1>17 DEF StopNotify, NotifyOne, NotifyOneAmong
<1>18. CASE StopInject(j)
  BY <1>18 DEF StopInject
<1>19. CASE StopFail(j)
  BY <1>19 DEF StopFail, StopProvider
<1> QED
  BY <1>1, <1>2, <1>3, <1>4, <1>5, <1>6, <1>7, <1>8, <1>9, <1>10, <1>11,
     <1>12, <1>13, <1>14, <1>15, <1>16, <1>17, <1>18, <1>19
    DEF StopStep

(* A cancellation aims at one job only, and releases the slot of no other.    *)
LEMMA CancelKeepsSlot ==
  ASSUME IInv, SlotInv, NEW c \in Cancels, CancelBegin(c) \/ CancelStep(c)
  PROVE  TargetIsChosen' /\ SlotKept' /\ RequestHasTask'
<1> USE DEF IInv, TypeOK, StartPC, StopPC, CancelPC, SlotInv, TargetIsChosen,
       SlotKept, RequestHasTask
<1>1. CASE CancelBegin(c)
  BY <1>1 DEF CancelBegin, CancelCapture
<1>2. CASE CancelPreparing(c)
  BY <1>2 DEF CancelPreparing
<1>3. CASE CancelTake(c)
  BY <1>3 DEF CancelTake
<1>4. CASE CancelStopProvider(c)
  BY <1>4 DEF CancelStopProvider, StopProvider
<1>5. CASE CancelReadProcessing(c)
  BY <1>5 DEF CancelReadProcessing
<1>6. CASE CancelQueued(c)
  BY <1>6 DEF CancelQueued, CancelQueuedJob
<1>7. CASE CancelAsk(c)
  BY <1>7 DEF CancelAsk
<1>8. CASE CancelShutdown(c)
  BY <1>8 DEF CancelShutdown, StopProvider
<1>9. CASE CancelClear(c)
  BY <1>9 DEF CancelClear, ClearProcessing
<1>10. CASE CancelNotify(c)
  BY <1>10 DEF CancelNotify, NotifyOne, NotifyOneAmong
<1> QED
  BY <1>1, <1>2, <1>3, <1>4, <1>5, <1>6, <1>7, <1>8, <1>9, <1>10
    DEF CancelStep

(* A cancellation that frees the slot owes the wakeup, too.                   *)
LEMMA CancelOwesWakeup ==
  ASSUME IInv, SlotInv, NEW c \in Cancels, CancelBegin(c) \/ CancelStep(c)
  PROVE  WaitersAreParked' /\ WakeupOwed'
<1> USE DEF IInv, TypeOK, StartPC, StopPC, CancelPC, SlotInv,
       WaitersAreParked, WakeupOwed
<1>1. CASE CancelBegin(c)
  BY <1>1 DEF CancelBegin, CancelCapture
<1>2. CASE CancelPreparing(c)
  BY <1>2 DEF CancelPreparing
<1>3. CASE CancelTake(c)
  BY <1>3 DEF CancelTake
<1>4. CASE CancelStopProvider(c)
  BY <1>4 DEF CancelStopProvider, StopProvider
<1>5. CASE CancelReadProcessing(c)
  BY <1>5 DEF CancelReadProcessing
<1>6. CASE CancelQueued(c)
  BY <1>6 DEF CancelQueued, CancelQueuedJob
<1>7. CASE CancelAsk(c)
  BY <1>7 DEF CancelAsk
<1>8. CASE CancelShutdown(c)
  BY <1>8 DEF CancelShutdown, StopProvider
<1>9. CASE CancelClear(c)
  BY <1>9 DEF CancelClear, ClearProcessing
<1>10. CASE CancelNotify(c)
  BY <1>10 DEF CancelNotify, NotifyOne, NotifyOneAmong
<1> QED
  BY <1>1, <1>2, <1>3, <1>4, <1>5, <1>6, <1>7, <1>8, <1>9, <1>10
    DEF CancelStep

(* The slot, its requests and its waiters stay consistent. *)
LEMMA SlotInvariance == Spec => []SlotInv
<1>1. Init => SlotInv
  BY DEF Init, SlotInit, SlotInv, TargetIsChosen, SlotKept, RequestHasTask,
         WaitersAreParked, WakeupOwed, HoldsSlot
<1>2. IInv /\ SlotInv /\ [Next]_vars => SlotInv'
  <2> SUFFICES ASSUME IInv, SlotInv, [Next]_vars PROVE SlotInv'
    OBVIOUS
  <2>1. ASSUME NEW j \in Jobs, StartStep(j) PROVE SlotInv'
    BY <2>1, StartSlotInv
  <2>2. ASSUME NEW j \in Jobs, StopBegin(j) \/ StopStep(j) PROVE SlotInv'
    BY <2>2, StopFrame, StopKeepsSlot, StopKeepsWaiters, StopOwesWakeup
      DEF SlotInv, TargetIsChosen
  <2>3. ASSUME NEW c \in Cancels, CancelBegin(c) \/ CancelStep(c) PROVE SlotInv'
    BY <2>3, CancelKeepsSlot, CancelOwesWakeup DEF SlotInv
  <2>4. CASE UNCHANGED vars
    BY <2>4 DEF vars, SlotInv, TargetIsChosen, SlotKept, RequestHasTask,
           WaitersAreParked, WakeupOwed
  <2> QED  BY <2>1, <2>2, <2>3, <2>4 DEF Next
<1> QED  BY <1>1, <1>2, Invariance, PTL DEF Spec

(* Two workers compute at the same time only after a cancellation aimed at    *)
(* one of the two jobs: the slot alone keeps them apart, for any number of    *)
(* jobs and cancellations and with every fault.                               *)
THEOREM OneRunning == Spec => []OneRunningJob
<1>1. IInv /\ SlotInv => OneRunningJob
  BY DEF IInv, TypeOK, SlotInv, SlotKept, RequestHasTask, HoldsSlot,
         OneRunningJob
<1> QED  BY <1>1, Invariance, SlotInvariance, PTL

(* As long as no waiting job has been cancelled, no job sleeps next to a free *)
(* slot unless the notify_one() that wakes it is under way, whatever else is  *)
(* cancelled or fails.                                                        *)
THEOREM NoLostWakeup == Spec => [](cancelled = {} => WakeupNotLost)
<1>1. IInv /\ SlotInv => (cancelled = {} => WakeupNotLost)
  <2> SUFFICES ASSUME IInv, SlotInv, cancelled = {}, processing = NoJob,
                      NEW w \in parked, w \notin notified
               PROVE  \/ \E j \in Jobs : stop[j] = "notify"
                      \/ \E c \in Cancels : cancel[c] = "notify"
    BY DEF WakeupNotLost
  <2>1. w \in Jobs /\ stop[w] = "parked" /\ ~permit
    BY DEF IInv, TypeOK, SlotInv, WaitersAreParked
  <2>2. \A j \in Jobs : stop[j] \in {"await", "parked", "woken", "retry"} => j = w
    BY <2>1 DEF IInv, QueueEntryHasOwner, Waiting
  <2>3. notified = {}
    BY <2>2 DEF IInv, TypeOK, SlotInv, WaitersAreParked
  <2> QED  BY <2>1, <2>2, <2>3 DEF SlotInv, WakeupOwed
<1> QED  BY <1>1, Invariance, SlotInvariance, PTL

-----------------------------------------------------------------------------
(* The controller implements two abstract specifications: the family of state *)
(* machines of crates/domain and the bounded pipeline of one active and one   *)
(* waiting job.  Both rest on IInv.                                           *)

(* A step of a job's command is a legal transition of its own machine or      *)
(* leaves all machines alone.                                                 *)
LEMMA MachineStep ==
  ASSUME IInv, [Next]_vars
  PROVE  [JobMachineNext]_machine
<1> USE DEF IInv, TypeOK, MachineFollowsCommands, MachineAt, Waiting,
            CommandOrder, HandleFollowsCapture
<1>a. ASSUME NEW j \in Jobs, NEW s \in AppState, Advance(j, s),
             AllowsTransition(machine[j], s)
      PROVE  JobMachineNext
  BY <1>a DEF JobMachineNext, Transition
<1>b. ASSUME NEW j \in Jobs, StartStep(j) PROVE [JobMachineNext]_machine
  <2>1. CASE StartPrepare(j) /\ Advance(j, "PreparingRecording")
    <3>1. AllowsTransition(machine[j], "PreparingRecording")
      BY <2>1 DEF StartPrepare, Emit, AbandonPreparation, AllowsTransition,
         AppState
    <3> QED  BY <2>1, <3>1, <1>a DEF AppState
  <2>2. CASE StartOpenMicrophone(j) /\ Advance(j, "Recording")
    <3>1. AllowsTransition(machine[j], "Recording")
      BY <2>2 DEF StartOpenMicrophone, AllowsTransition, AppState
    <3> QED  BY <2>2, <3>1, <1>a DEF AppState
  <2>3. CASE UNCHANGED machine
    BY <2>3
  <2> QED
    BY <1>b, <2>1, <2>2, <2>3 DEF StartStep, StartReadProcessing,
       StartReadQueued, StartReserve, StartPrepare, StartEnsureModelReady,
       StartOpenMicrophone, StartCommit, StartAnnounce, StartAbandon,
       StartFail, StartDiscard, StartDiscarded
<1>c. ASSUME NEW j \in Jobs, StopBegin(j) \/ StopStep(j)
      PROVE  [JobMachineNext]_machine
  <2>1. CASE StopBegin(j) /\ Advance(j, "FinalizingAudio")
    <3>1. AllowsTransition(machine[j], "FinalizingAudio")
      BY <2>1 DEF StopBegin, BeginFinalization, Emit, AllowsTransition,
         AppState
    <3> QED  BY <2>1, <3>1, <1>a DEF AppState
  <2>2. CASE StopFinishAudio(j) /\ Advance(j, "Queued")
    <3>1. AllowsTransition(machine[j], "Queued")
      BY <2>2 DEF StopFinishAudio, ReleaseFinalization, Emit,
         AllowsTransition, AppState
    <3> QED  BY <2>2, <3>1, <1>a DEF AppState
  <2>3. CASE StopFinishAudio(j) /\ Advance(j, "Cancelling")
    <3>1. AllowsTransition(machine[j], "Cancelling")
      BY <2>3 DEF StopFinishAudio, ReleaseFinalization, Emit,
         AllowsTransition, AppState
    <3> QED  BY <2>3, <3>1, <1>a DEF AppState
  <2>4. CASE StopSilent(j) /\ Advance(j, "Idle")
    <3>1. AllowsTransition(machine[j], "Idle")
      BY <2>4 DEF StopSilent, Emit, StopProvider, AllowsTransition,
         AppState
    <3> QED  BY <2>4, <3>1, <1>a DEF AppState
  <2>5. CASE StopTrySlot(j) /\ Advance(j, "LoadingModel")
    <3>1. AllowsTransition(machine[j], "LoadingModel")
      BY <2>5 DEF StopTrySlot, TakeSlot, Emit, AllowsTransition, AppState
    <3> QED  BY <2>5, <3>1, <1>a DEF AppState
  <2>6. CASE StopUnqueue(j) /\ Advance(j, "LoadingModel")
    <3>1. AllowsTransition(machine[j], "LoadingModel")
      BY <2>6 DEF StopUnqueue, ClearQueuedJob, Emit, AllowsTransition,
         AppState
    <3> QED  BY <2>6, <3>1, <1>a DEF AppState
  <2>7. CASE StopRequest(j) /\ Advance(j, "Transcribing")
    <3>1. AllowsTransition(machine[j], "Transcribing")
      BY <2>7 DEF StopRequest, Emit, AllowsTransition, AppState
    <3> QED  BY <2>7, <3>1, <1>a DEF AppState
  <2>8. CASE StopReceive(j) /\ Advance(j, "ApplyingCorrections")
    <3>1. AllowsTransition(machine[j], "ApplyingCorrections")
      BY <2>8 DEF StopReceive, Emit, AllowsTransition, AppState
    <3> QED  BY <2>8, <3>1, <1>a DEF AppState
  <2>9. CASE StopNotify(j) /\ j \in stored /\ Advance(j, "Injecting")
    <3>1. AllowsTransition(machine[j], "Injecting")
      BY <2>9 DEF StopNotify, NotifyOne, NotifyOneAmong, Emit,
         AllowsTransition, AppState
    <3> QED  BY <2>9, <3>1, <1>a DEF AppState
  <2>10. CASE StopNotify(j) /\ j \in stored /\ Advance(j, "AwaitingInjectionConfirmation")
    <3>1. AllowsTransition(machine[j], "AwaitingInjectionConfirmation")
      BY <2>10 DEF StopNotify, NotifyOne, NotifyOneAmong, Emit,
         AllowsTransition, AppState
    <3> QED  BY <2>10, <3>1, <1>a DEF AppState
  <2>11. CASE StopInject(j) /\ Advance(j, "Completed")
    <3>1. AllowsTransition(machine[j], "Completed")
      BY <2>11 DEF StopInject, Emit, AllowsTransition, AppState
    <3> QED  BY <2>11, <3>1, <1>a DEF AppState
  <2>12. CASE UNCHANGED machine
    BY <2>12
  <2> QED
    BY <1>c, <2>1, <2>2, <2>3, <2>4, <2>5, <2>6, <2>7, <2>8, <2>9, <2>10,
       <2>11, <2>12
       DEF StopStep, StopBegin, StopFinishAudio, StopSilent, StopSnapshot,
           StopTrySlot, StopEnqueue, StopAwait, StopCheckToken, StopUnqueue,
           StopRequest, InferenceCompletes, StopReceive, StopReceiveError,
           StopCorrectAndSave, StopShutdown, StopClear, StopNotify,
           StopInject, StopFail
<1>d. ASSUME NEW c \in Cancels, CancelBegin(c) \/ CancelStep(c)
      PROVE  UNCHANGED machine
  BY <1>d, CancelFrame
<1>e. CASE UNCHANGED vars
  BY <1>e DEF vars
<1> QED  BY <1>b, <1>c, <1>d, <1>e DEF Next

(* No command ever asks a job's machine for a transition the graph of         *)
(* crates/domain forbids: the state_error branches of start_recording and     *)
(* stop_recording are dead code.                                              *)
THEOREM MachinesAreLegal == Spec => JobMachineSpec
<1>1. Init => JobMachineInit
  BY DEF Init
<1>2. IInv /\ [Next]_vars => [JobMachineNext]_machine
  BY MachineStep
<1> QED  BY <1>1, <1>2, Invariance, PTL DEF Spec, JobMachineSpec

-----------------------------------------------------------------------------
(* The bounded pipeline *)

(* What the mapping makes of the queue entry of a job. *)
LEMMA MappedEntry ==
  ASSUME TypeOK
  PROVE  /\ queued = NoJob => StillWaiting = NoJob
         /\ \A j \in Jobs : queued = j /\ stop[j] = "unqueue" =>
                             StillWaiting = NoJob
         /\ \A j \in Jobs : queued = j /\ stop[j] # "unqueue" =>
                             StillWaiting = j
  BY DEF TypeOK, StillWaiting

(* The same in the state after a step. *)
LEMMA MappedEntryAfter ==
  ASSUME TypeOK'
  PROVE  /\ queued' = NoJob => StillWaiting' = NoJob
         /\ \A j \in Jobs : queued' = j /\ stop'[j] = "unqueue" =>
                             StillWaiting' = NoJob
         /\ \A j \in Jobs : queued' = j /\ stop'[j] # "unqueue" =>
                             StillWaiting' = j
  BY DEF TypeOK, StillWaiting

(* A step that leaves both entries alone, and moves no job into or out of     *)
(* the short time in which it has both, is invisible to the pipeline.         *)
LEMMA PipelineStutters ==
  ASSUME UNCHANGED <<processing, queued>>,
         \A j \in Jobs : stop'[j] = "unqueue" <=> stop[j] = "unqueue"
  PROVE  UNCHANGED <<processing, StillWaiting>>
  BY DEF StillWaiting

(* Every step of a stop command is a step of the pipeline: the first round of *)
(* reserve_processing_slot starts, a later one promotes, the queue's critical *)
(* section waits or gives up, clear_processing finishes.                      *)
LEMMA StopPipeline ==
  ASSUME IInv, IInv', NEW j \in Jobs, StopBegin(j) \/ StopStep(j)
  PROVE  [Pipeline!PipelineNext]_<<processing, StillWaiting>>
<1> USE DEF IInv
<1>t. TypeOK /\ TypeOK'
  OBVIOUS
<1>1. CASE StopTrySlot(j)
  <2>1. CASE processing # NoJob
    <3>1. UNCHANGED <<processing, queued>>
      BY <1>1, <2>1 DEF StopTrySlot, TakeSlot
    <3>2. \A k \in Jobs : stop'[k] = "unqueue" <=> stop[k] = "unqueue"
      BY <1>1, <2>1 DEF StopTrySlot, TakeSlot, TypeOK
    <3> QED  BY <3>1, <3>2, PipelineStutters
  <2>2. CASE processing = NoJob /\ stop[j] = "try"
    <3>1. processing' = j /\ queued' = queued /\ queued # j
      BY <1>1, <2>2 DEF StopTrySlot, TakeSlot, QueueEntryHasOwner, Waiting
    <3>2. \A k \in Jobs : stop'[k] = "unqueue" <=> stop[k] = "unqueue"
      BY <1>1, <2>2 DEF StopTrySlot, TakeSlot, TypeOK
    <3>3. StillWaiting' = StillWaiting
      BY <3>1, <3>2 DEF StillWaiting
    <3>4. StillWaiting # j
      BY <3>1 DEF StillWaiting
    <3> QED
      BY <2>2, <3>1, <3>3, <3>4 DEF Pipeline!PipelineNext, Pipeline!Start
  <2>3. CASE processing = NoJob /\ stop[j] = "retry"
    <3>1. processing' = j /\ queued' = queued /\ queued = j
      BY <1>1, <2>3 DEF StopTrySlot, TakeSlot, QueueEntryHasOwner, Waiting
    <3>2. stop'[j] = "unqueue"
      BY <1>1, <2>3 DEF StopTrySlot, TakeSlot, TypeOK
    <3>3. StillWaiting = j /\ StillWaiting' = NoJob
      BY <1>t, <2>3, <3>1, <3>2, MappedEntry, MappedEntryAfter
    <3> QED
      BY <2>3, <3>1, <3>3 DEF Pipeline!PipelineNext, Pipeline!Promote
  <2> QED  BY <1>1, <2>1, <2>2, <2>3 DEF StopTrySlot
<1>2. CASE StopEnqueue(j)
  <2>1. CASE queued = NoJob
    <3>1. queued' = j /\ processing' = processing /\ processing # j
      BY <1>2, <2>1 DEF StopEnqueue, Enqueue, SlotHasOwner, HoldsSlot,
         ReturnedEarly
    <3>2. stop'[j] # "unqueue"
      BY <1>2, <2>1 DEF StopEnqueue, Enqueue, TypeOK
    <3>3. StillWaiting = NoJob /\ StillWaiting' = j
      BY <1>t, <2>1, <3>1, <3>2, MappedEntry, MappedEntryAfter
    <3> QED  BY <3>1, <3>3 DEF Pipeline!PipelineNext, Pipeline!Wait
  <2>2. CASE queued # NoJob
    <3>1. UNCHANGED <<processing, queued>>
      BY <1>2, <2>2 DEF StopEnqueue, Enqueue
    <3>2. \A k \in Jobs : stop'[k] = "unqueue" <=> stop[k] = "unqueue"
      BY <1>2, <2>2 DEF StopEnqueue, Enqueue, TypeOK
    <3> QED  BY <3>1, <3>2, PipelineStutters
  <2> QED  BY <2>1, <2>2
<1>3. CASE StopCheckToken(j)
  <2>1. CASE j \in cancelled
    <3>1. queued = j /\ queued' = NoJob /\ processing' = processing
      BY <1>3, <2>1 DEF StopCheckToken, ClearQueuedJob
    <3>2. stop[j] # "unqueue"
      BY <1>3, <2>1 DEF StopCheckToken
    <3>3. StillWaiting = j /\ StillWaiting' = NoJob
      BY <1>t, <3>1, <3>2, MappedEntry, MappedEntryAfter
    <3> QED
      BY <3>1, <3>3 DEF Pipeline!PipelineNext, Pipeline!GiveUpWaiting
  <2>2. CASE j \notin cancelled
    <3>1. UNCHANGED <<processing, queued>>
      BY <1>3, <2>2 DEF StopCheckToken
    <3>2. \A k \in Jobs : stop'[k] = "unqueue" <=> stop[k] = "unqueue"
      BY <1>3, <2>2 DEF StopCheckToken, TypeOK
    <3> QED  BY <3>1, <3>2, PipelineStutters
  <2> QED  BY <2>1, <2>2
<1>4. CASE StopUnqueue(j)
  <2>1. stop[j] = "unqueue" /\ queued = j /\ queued' = NoJob
    BY <1>4 DEF StopUnqueue, ClearQueuedJob
  <2>2. StillWaiting = NoJob /\ StillWaiting' = NoJob
    BY <1>t, <2>1, MappedEntry, MappedEntryAfter
  <2> QED  BY <1>4, <2>2 DEF StopUnqueue
<1>5. CASE StopClear(j)
  <2>1. queued' = queued
    BY <1>5 DEF StopClear
  <2>2. \A k \in Jobs : stop'[k] = "unqueue" <=> stop[k] = "unqueue"
    BY <1>5 DEF StopClear, ClearProcessing, Emit, TypeOK
  <2>3. StillWaiting' = StillWaiting
    BY <2>1, <2>2 DEF StillWaiting
  <2>4. \/ processing = j /\ processing' = NoJob
        \/ processing' = processing
    BY <1>5 DEF StopClear, ClearProcessing
  <2> QED  BY <2>3, <2>4 DEF Pipeline!PipelineNext, Pipeline!Finish
<1>6. CASE \/ StopBegin(j) \/ StopFinishAudio(j) \/ StopSilent(j)
           \/ StopSnapshot(j) \/ StopAwait(j) \/ StopRequest(j)
           \/ InferenceCompletes(j) \/ StopReceive(j) \/ StopReceiveError(j)
           \/ StopCorrectAndSave(j) \/ StopShutdown(j) \/ StopNotify(j)
           \/ StopInject(j) \/ StopFail(j)
  <2>1. UNCHANGED <<processing, queued>>
    BY <1>6 DEF StopBegin, StopFinishAudio, StopSilent, StopSnapshot,
       StopAwait, StopRequest, InferenceCompletes, StopReceive,
       StopReceiveError, StopCorrectAndSave, StopShutdown, StopNotify,
       StopInject, StopFail
  <2>2. \A k \in Jobs : stop'[k] = "unqueue" <=> stop[k] = "unqueue"
    BY <1>6 DEF TypeOK, StopBegin, StopFinishAudio, StopSilent, StopSnapshot,
       StopAwait, StopRequest, InferenceCompletes, StopReceive,
       StopReceiveError, StopCorrectAndSave, StopShutdown, StopNotify,
       StopInject, StopFail
  <2> QED  BY <2>1, <2>2, PipelineStutters
<1> QED  BY <1>1, <1>2, <1>3, <1>4, <1>5, <1>6 DEF StopStep

(* A cancellation finishes the job it aims at or is invisible: it cancels the *)
(* token of the waiting job, whose own loop then gives up.                    *)
LEMMA CancelPipeline ==
  ASSUME IInv, NEW c \in Cancels, CancelBegin(c) \/ CancelStep(c)
  PROVE  [Pipeline!PipelineNext]_<<processing, StillWaiting>>
<1>1. stop' = stop
  BY CancelFrame
<1>2. queued' = queued
  BY DEF CancelBegin, CancelStep, CancelPreparing, CancelTake,
     CancelStopProvider, CancelReadProcessing, CancelQueued, CancelAsk,
     CancelShutdown, CancelClear, CancelNotify
<1>3. StillWaiting' = StillWaiting
  BY <1>1, <1>2 DEF StillWaiting
<1>4. CASE CancelClear(c)
  <2>1. target[c] \in Jobs
    BY <1>4 DEF IInv, TargetIsJob, CancelClear
  <2>2. \/ processing = target[c] /\ processing' = NoJob
        \/ processing' = processing
    BY <1>4 DEF CancelClear, ClearProcessing
  <2> QED  BY <1>3, <2>1, <2>2 DEF Pipeline!PipelineNext, Pipeline!Finish
<1>5. CASE ~CancelClear(c)
  <2>1. processing' = processing
    BY <1>5 DEF CancelBegin, CancelStep, CancelPreparing, CancelTake,
       CancelStopProvider, CancelReadProcessing, CancelQueued, CancelAsk,
       CancelShutdown, CancelNotify
  <2> QED  BY <1>3, <2>1
<1> QED  BY <1>4, <1>5

(* Every step of the controller is a step of the pipeline or invisible to it. *)
LEMMA PipelineStep ==
  ASSUME IInv, IInv', [Next]_vars
  PROVE  [Pipeline!PipelineNext]_<<processing, StillWaiting>>
<1>1. ASSUME NEW j \in Jobs, StartStep(j)
      PROVE  UNCHANGED <<processing, StillWaiting>>
  BY <1>1, StartFrame DEF StillWaiting
<1>2. CASE UNCHANGED vars
  BY <1>2 DEF vars, StillWaiting
<1> QED  BY <1>1, <1>2, StopPipeline, CancelPipeline DEF Next

(* The processing entry, the queue entry and the code that moves jobs between *)
(* them implement the bounded pipeline: one active job, one waiting, and a    *)
(* job that finds both taken is turned away, for any number of jobs.          *)
THEOREM PipelineIsBounded == Spec => PipelineSpec
<1>1. Init => Pipeline!PipelineInit
  BY DEF Init, SlotInit, StillWaiting, Pipeline!PipelineInit
<1>2. IInv /\ IInv' /\ [Next]_vars =>
        [Pipeline!PipelineNext]_<<processing, StillWaiting>>
  BY PipelineStep
<1> QED
  BY <1>1, <1>2, Invariance, PTL DEF Spec, PipelineSpec, Pipeline!PipelineSpec

-----------------------------------------------------------------------------
(* Jobs keep to themselves *)

(* Nothing of job j is taken from it or moved. *)
Untouched(j) ==
  /\ capture.job = j => capture'.job = j
  /\ recording = j => recording' = j
  /\ processing = j => processing' = j
  /\ queued = j => queued' = j
  /\ machine'[j] = machine[j]

(* A start touches only its own job. *)
LEMMA StartKeepsToItself ==
  ASSUME IInv, NEW i \in Jobs, StartStep(i), NEW j \in Jobs
  PROVE  Untouched(j) \/ start'[j] # start[j]
<1> USE DEF IInv, TypeOK, Untouched
<1>1. CASE i = j
  BY <1>1 DEF StartStep, StartReadProcessing, StartReadQueued, StartReserve,
     StartPrepare, StartEnsureModelReady, StartOpenMicrophone, StartCommit,
     StartAnnounce, StartAbandon, StartFail, StartDiscard, StartDiscarded
<1>2. CASE i # j
  BY <1>2 DEF StartStep, StartReadProcessing, StartReadQueued, StartReserve,
     StartPrepare, StartEnsureModelReady, StartOpenMicrophone, StartCommit,
     StartAnnounce, StartAbandon, StartFail, StartDiscard, StartDiscarded,
     ReserveStart, AbandonPreparation, CommitPreparation
<1> QED  BY <1>1, <1>2

(* A stop touches only its own job, and the handle it takes is its own. *)
LEMMA StopKeepsToItself ==
  ASSUME IInv, NEW i \in Jobs, StopBegin(i) \/ StopStep(i), NEW j \in Jobs
  PROVE  Untouched(j) \/ stop'[j] # stop[j]
<1> USE DEF IInv, TypeOK, Untouched, StopBegin, StopStep, StopFinishAudio,
        StopSilent, StopSnapshot, StopTrySlot, StopEnqueue, StopAwait,
        StopCheckToken, StopUnqueue, StopRequest, InferenceCompletes,
        StopReceive, StopReceiveError, StopCorrectAndSave, StopShutdown,
        StopClear, StopNotify, StopInject, StopFail
<1>1. CASE i = j
  BY <1>1
<1>2. CASE i # j
  BY <1>2 DEF HandleFollowsCapture, BeginFinalization, ReleaseFinalization,
     TakeSlot, Enqueue, ClearQueuedJob, ClearProcessing
<1> QED  BY <1>1, <1>2

(* A cancellation touches only the job it aims at: the slot it frees and the  *)
(* handle it takes belong to its target.                                      *)
LEMMA CancelKeepsToItsTarget ==
  ASSUME IInv, NEW c \in Cancels, CancelBegin(c) \/ CancelStep(c),
         NEW j \in Jobs
  PROVE  \/ Untouched(j)
         \/ cancel'[c] # cancel[c] /\ j \in {target[c], target'[c]}
<1> USE DEF IInv, TypeOK, Untouched
<1>1. CASE CancelBegin(c)
  BY <1>1 DEF CancelBegin, CancelCapture
<1>2. CASE CancelTake(c)
  BY <1>2 DEF CancelTake, HandleFollowsCapture
<1>3. CASE CancelClear(c)
  BY <1>3 DEF CancelClear, ClearProcessing
<1>4. CASE CancelStep(c) /\ ~CancelTake(c) /\ ~CancelClear(c)
  BY <1>4 DEF CancelStep, CancelPreparing, CancelStopProvider,
     CancelReadProcessing, CancelQueued, CancelAsk, CancelShutdown,
     CancelNotify
<1> QED  BY <1>1, <1>2, <1>3, <1>4

(* "one job cannot change another job's state": the slots, the queue entry    *)
(* and the machine of a job change only in its own commands or in a           *)
(* cancellation aimed at it, for any number of jobs and cancellations.        *)
THEOREM NoForeignChange == Spec => JobsKeepToThemselves
<1>1. ASSUME IInv, [Next]_vars, NEW j \in Jobs
      PROVE  Untouched(j) \/ OwnStep(j)
  <2>1. ASSUME NEW i \in Jobs, StartStep(i) PROVE Untouched(j) \/ OwnStep(j)
    BY <1>1, <2>1, StartKeepsToItself DEF OwnStep
  <2>2. ASSUME NEW i \in Jobs, StopBegin(i) \/ StopStep(i)
        PROVE  Untouched(j) \/ OwnStep(j)
    BY <1>1, <2>2, StopKeepsToItself DEF OwnStep
  <2>3. ASSUME NEW c \in Cancels, CancelBegin(c) \/ CancelStep(c)
        PROVE  Untouched(j) \/ OwnStep(j)
    BY <1>1, <2>3, CancelKeepsToItsTarget DEF OwnStep
  <2>4. CASE UNCHANGED vars
    BY <2>4 DEF vars, Untouched
  <2> QED  BY <1>1, <2>1, <2>2, <2>3, <2>4 DEF Next
<1>2. IInv /\ [Next]_vars =>
        [\A j \in Jobs :
           \/ capture.job = j /\ capture'.job # j
           \/ recording = j /\ recording' # j
           \/ processing = j /\ processing' # j
           \/ queued = j /\ queued' # j
           \/ machine'[j] # machine[j]
           => OwnStep(j)]_vars
  BY <1>1 DEF Untouched
<1> QED  BY <1>2, Invariance, PTL DEF Spec, JobsKeepToThemselves
=============================================================================
