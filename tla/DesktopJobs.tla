----------------------------- MODULE DesktopJobs -----------------------------
(* The job controller of the desktop host                                     *)
(* (apps/desktop/src-tauri/src/lib.rs): the asynchronous commands             *)
(* start_recording, stop_recording and cancel_current_job, which the window,  *)
(* the tray and the global hotkey may all invoke at the same time, over the   *)
(* shared DesktopState.  A step is one critical section of a mutex or one     *)
(* awaited operation; everything between two such points is part of it.       *)
EXTENDS JobStateMachine, RecordingCoordinator, ProcessingSlot

CONSTANTS
  LocalJobs,        \* jobs on the local sidecar; the others use a remote worker
  Cancels,          \* the invocations of cancel_current_job
  Faults            \* the external operations that may fail

ASSUME LocalJobsAssumption == LocalJobs \subseteq Jobs

(* "preferences": a setting, the language or the provider cannot be loaded;   *)
(* "model": the model does not become ready; "microphone": no input stream;   *)
(* "audio": the capture is unusable; "silence": it holds no speech;           *)
(* "lexicon", "save": SQLite fails; "worker": the transcription request       *)
(* fails; "shutdown": the child or the stream cannot be stopped cleanly;      *)
(* "cancel": the worker cannot be asked to cancel; "integration": the Windows *)
(* settings cannot be read, or the paste task dies, once the text is there.   *)
FaultKinds ==
  { "preferences", "model", "microphone", "audio", "silence", "lexicon",
    "worker", "save", "shutdown", "cancel", "integration" }

ASSUME FaultsAssumption == Faults \subseteq FaultKinds

VARIABLES
  recording,   \* Mutex<Option<ActiveRecording>>: the job whose handle is stored
  start,       \* start[j]: where start_recording_inner of j is
  stop,        \* stop[j]: where stop_recording_inner of j is
  cancel,      \* cancel[c]: where invocation c of cancel_current_job_inner is
  target,      \* target[c]: the job that invocation acts on
  acked,       \* the invocations whose provider.cancel returned Ok
  mic,         \* jobs with an open input stream
  sidecar,     \* local jobs whose worker child process runs
  request,     \* request[j]: j's transcription request at its worker
  stored,      \* jobs whose transcript is in SQLite
  shown        \* shown[j]: last state emitted for j on desktop.v1.state

taskVars == <<start, stop, cancel, target, acked>>
envVars  == <<mic, sidecar, request, stored>>
vars == <<capture, recording, slotVars, taskVars, envVars, machine, shown>>

StartPC ==
  { "new", "sawBusy", "reserve", "prepare", "ready", "mic", "commit", "abandon",
    "fail", "discard", "discarded", "announce", "done" }

StopPC ==
  { "none", "finish", "silent", "snapshot", "try", "enqueue", "await", "parked",
    "woken", "retry", "unqueue", "request", "running", "answered", "correct",
    "shutdown", "clear", "notify", "inject", "fail", "done" }

(* A request is registered with the worker while it is computing and while    *)
(* its result, or its cancellation, is on the way back ("ending").            *)
RequestState == {"none", "computing", "ending"}

CancelPC ==
  { "ready", "preparing", "take", "stopProvider", "processing", "queue", "ask",
    "shutdown", "clear", "notify", "done" }

Init ==
  /\ capture = Idle
  /\ SlotInit
  /\ JobMachineInit
  /\ recording = NoJob
  /\ start = [j \in Jobs |-> "new"]
  /\ stop = [j \in Jobs |-> "none"]
  /\ cancel = [c \in Cancels |-> "ready"]
  /\ target = [c \in Cancels |-> NoJob]
  /\ acked = {}
  /\ mic = {}
  /\ sidecar = {}
  /\ request = [j \in Jobs |-> "none"]
  /\ stored = {}
  /\ shown = machine

-----------------------------------------------------------------------------
(* Helpers shared by the three commands.                                      *)

Emit(j, s) == shown' = [shown EXCEPT ![j] = s]

(* active.machine.transition(s), taken without its guard: that the graph      *)
(* allows every such step, so that no state_error branch is reachable, is     *)
(* the property JobMachineSpec.                                               *)
Advance(j, s) == machine' = [machine EXCEPT ![j] = s]

StartAt(j, pc, next) == start[j] = pc /\ start' = [start EXCEPT ![j] = next]
StopAt(j, pc, next)  == stop[j] = pc /\ stop' = [stop EXCEPT ![j] = next]
CancelAt(c, pc, next) ==
  cancel[c] = pc /\ cancel' = [cancel EXCEPT ![c] = next]

StartOnly  == UNCHANGED <<slotVars, stop, cancel, target, acked, stored>>
StopOnly   == UNCHANGED <<start, cancel, target, acked>>
CancelOnly == UNCHANGED <<start, stop, stored, machine>>

(* Mutant: the child is told nothing and outlives its job. *)
ForgetProvider(j) == UNCHANGED <<sidecar, request>>

(* RecordingProvider::shutdown and the drop of the last provider handle: the  *)
(* local child is killed with whatever it computes, a remote worker is not    *)
(* touched.                                                                   *)
StopProvider(j) ==
  /\ sidecar' = sidecar \ {j}
  /\ request' = IF j \in LocalJobs THEN [request EXCEPT ![j] = "none"]
                                    ELSE request

(* Mutant: a remote job gets a local child too. *)
SpawnedForAnyone(j) == sidecar \cup {j}

(* LocalWhisperCppProvider::provider starts the child when none is running.   *)
Spawned(j) == sidecar \cup ({j} \cap LocalJobs)

-----------------------------------------------------------------------------
(* start_recording_inner *)

(* The processing mutex is read first; the queue matters only if it is busy. *)
StartReadProcessing(j) ==
  /\ StartAt(j, "new", IF processing = NoJob THEN "reserve" ELSE "sawBusy")
  /\ StartOnly
  /\ UNCHANGED <<capture, recording, mic, sidecar, request, machine, shown>>

(* queue_full, from a second mutex and possibly stale against the first. *)
StartReadQueued(j) ==
  /\ StartAt(j, "sawBusy", IF queued = NoJob THEN "reserve" ELSE "done")
  /\ StartOnly
  /\ UNCHANGED <<capture, recording, mic, sidecar, request, machine, shown>>

StartReserve(j) ==
  /\ StartOnly
  /\ UNCHANGED <<recording, mic, sidecar, request, machine, shown>>
  /\ \/ ReserveStart(j) /\ StartAt(j, "reserve", "prepare")
     \/ capture # Idle /\ StartAt(j, "reserve", "done") /\ UNCHANGED capture

(* Settings, language and provider are loaded; a failure gives the slot back  *)
(* before any event was shown.                                                *)
StartPrepare(j) ==
  /\ StartOnly
  /\ UNCHANGED <<recording, mic, sidecar, request>>
  /\ \/ /\ StartAt(j, "prepare", "ready")
        /\ Advance(j, "PreparingRecording")
        /\ Emit(j, "PreparingRecording")
        /\ UNCHANGED capture
     \/ /\ "preferences" \in Faults
        /\ StartAt(j, "prepare", "done")
        /\ AbandonPreparation(j)
        /\ UNCHANGED <<machine, shown>>

(* provider.ensure_model_ready: spawns the local worker; a failure may leave  *)
(* the child running for the shutdown that follows.                           *)
StartEnsureModelReady(j) ==
  /\ StartOnly
  /\ UNCHANGED <<capture, recording, mic, request, machine, shown>>
  /\ \/ StartAt(j, "ready", "mic") /\ sidecar' = Spawned(j)
     \/ /\ "model" \in Faults
        /\ StartAt(j, "ready", "abandon")
        /\ sidecar' \in {sidecar, Spawned(j)}

StartOpenMicrophone(j) ==
  /\ StartOnly
  /\ UNCHANGED <<capture, recording, sidecar, request, shown>>
  /\ \/ /\ StartAt(j, "mic", "commit")
        /\ mic' = mic \cup {j}
        /\ Advance(j, "Recording")
     \/ /\ "microphone" \in Faults
        /\ StartAt(j, "mic", "abandon")
        /\ UNCHANGED <<mic, machine>>

(* commit_active_recording holds both mutexes.  An occupied handle slot is    *)
(* reported before the coordinator is asked; every refusal drops the handle   *)
(* and with it the stream.                                                    *)
StartCommit(j) ==
  /\ StartOnly
  /\ UNCHANGED <<sidecar, request, machine, shown>>
  /\ \/ /\ StartAt(j, "commit", "announce")
        /\ recording = NoJob
        /\ CommitPreparation(j)
        /\ recording' = j
        /\ UNCHANGED mic
     \/ /\ StartAt(j, "commit", "discard")
        /\ recording = NoJob /\ capture = Idle
        /\ mic' = mic \ {j}
        /\ UNCHANGED <<capture, recording>>
     \/ /\ StartAt(j, "commit", "abandon")
        /\ recording # NoJob \/ capture \notin {Preparing(j), Idle}
        /\ mic' = mic \ {j}
        /\ UNCHANGED <<capture, recording>>

StartAnnounce(j) ==
  /\ StartAt(j, "announce", "done")
  /\ Emit(j, "Recording")
  /\ StartOnly
  /\ UNCHANGED <<capture, recording, mic, sidecar, request, machine>>

StartAbandon(j) ==
  /\ StartAt(j, "abandon", "fail")
  /\ AbandonPreparation(j)
  /\ StartOnly
  /\ UNCHANGED <<recording, mic, sidecar, request, machine, shown>>

(* shutdown_after_failure and the Failed event. *)
StartFail(j) ==
  /\ StartAt(j, "fail", "done")
  /\ StopProvider(j)
  /\ Emit(j, "Failed")
  /\ StartOnly
  /\ UNCHANGED <<capture, recording, mic, machine>>

(* A cancellation won during preparation: shutdown, Cancelling, Idle. *)
StartDiscard(j) ==
  /\ StartAt(j, "discard", "discarded")
  /\ StopProvider(j)
  /\ Emit(j, "Cancelling")
  /\ StartOnly
  /\ UNCHANGED <<capture, recording, mic, machine>>

StartDiscarded(j) ==
  /\ StartAt(j, "discarded", "done")
  /\ Emit(j, "Idle")
  /\ StartOnly
  /\ UNCHANGED <<capture, recording, mic, sidecar, request, machine>>

StartStep(j) ==
  \/ StartReadProcessing(j) \/ StartReadQueued(j) \/ StartReserve(j)
  \/ StartPrepare(j) \/ StartEnsureModelReady(j) \/ StartOpenMicrophone(j)
  \/ StartCommit(j) \/ StartAnnounce(j) \/ StartAbandon(j) \/ StartFail(j)
  \/ StartDiscard(j) \/ StartDiscarded(j)

-----------------------------------------------------------------------------
(* stop_recording_inner *)

(* take_active_for_finalization: the coordinator mutex is held across the     *)
(* take of the handle.  That the handle is there and is the job's own is      *)
(* HandleFollowsCapture.                                                      *)
StopBegin(j) ==
  /\ StopAt(j, "none", "finish")
  /\ BeginFinalization(j)
  /\ recording' = NoJob
  /\ Advance(j, "FinalizingAudio")
  /\ Emit(j, "FinalizingAudio")
  /\ StopOnly
  /\ UNCHANGED <<slotVars, envVars>>

(* RecordingHandle::finish, then release_capture_finalization: speech, no     *)
(* (or too little) speech, or an audio error.                                 *)
StopFinishAudio(j) ==
  /\ ReleaseFinalization(j)
  /\ mic' = mic \ {j}
  /\ StopOnly
  /\ UNCHANGED <<recording, slotVars, sidecar, request, stored>>
  /\ \/ /\ StopAt(j, "finish", "snapshot")
        /\ Advance(j, "Queued") /\ Emit(j, "Queued")
     \/ /\ "silence" \in Faults
        /\ StopAt(j, "finish", "silent")
        /\ Advance(j, "Cancelling") /\ Emit(j, "Cancelling")
     \/ /\ "audio" \in Faults
        /\ StopAt(j, "finish", "fail")
        /\ UNCHANGED <<machine, shown>>

(* The no_speech outcome; returning drops the last handle on the provider. *)
StopSilent(j) ==
  /\ StopAt(j, "silent", "done")
  /\ Advance(j, "Idle") /\ Emit(j, "Idle")
  /\ StopProvider(j)
  /\ StopOnly
  /\ UNCHANGED <<capture, recording, slotVars, mic, stored>>

(* lexicon_snapshot reads prompt terms and correction rules from SQLite. *)
StopSnapshot(j) ==
  /\ \/ StopAt(j, "snapshot", "try")
     \/ "lexicon" \in Faults /\ StopAt(j, "snapshot", "fail")
  /\ StopOnly
  /\ UNCHANGED <<capture, recording, slotVars, envVars, machine, shown>>

(* reserve_processing_slot.  "try" is the first round of its loop, "retry" a  *)
(* later one, when the job also owns the queue entry.  A job that gets the    *)
(* slot leaves the function and shows LoadingModel, after it has cleared its  *)
(* queue entry if it has one.                                                 *)
StopTrySlot(j) ==
  /\ StopOnly
  /\ UNCHANGED <<capture, recording, queued, cancelled, permit, parked,
                 notified, envVars>>
  /\ \/ /\ TakeSlot(j)
        /\ \/ /\ StopAt(j, "try", "request")
              /\ Advance(j, "LoadingModel") /\ Emit(j, "LoadingModel")
           \/ StopAt(j, "retry", "unqueue") /\ UNCHANGED <<machine, shown>>
     \/ /\ processing # NoJob
        /\ StopAt(j, "try", "enqueue") \/ StopAt(j, "retry", "await")
        /\ UNCHANGED <<processing, machine, shown>>

StopEnqueue(j) ==
  /\ StopOnly
  /\ UNCHANGED <<capture, recording, processing, cancelled, permit, parked,
                 notified, envVars, machine, shown>>
  /\ \/ Enqueue(j) /\ StopAt(j, "enqueue", "await")
     \/ queued # NoJob /\ StopAt(j, "enqueue", "fail") /\ UNCHANGED queued

(* select! { available, cancellation.cancelled() } *)
StopAwait(j) ==
  /\ StopOnly
  /\ UNCHANGED <<capture, recording, processing, queued, cancelled, envVars,
                 machine, shown>>
  /\ \/ StopAt(j, "await", "woken") /\ PollPermit(j)
     \/ StopAt(j, "await", "woken") /\ PollToken(j)
     \/ StopAt(j, "await", "parked") /\ Park(j)
     \/ StopAt(j, "parked", "woken") /\ WakeNotified(j)
     \/ StopAt(j, "parked", "woken") /\ WakeCancelled(j)

(* Top of the loop: is_cancelled, read before the slot is tried again. *)
StopCheckToken(j) ==
  /\ StopOnly
  /\ UNCHANGED <<capture, recording, processing, cancelled, permit, parked,
                 notified, envVars, machine, shown>>
  /\ \/ /\ j \in cancelled
        /\ StopAt(j, "woken", "fail")
        /\ ClearQueuedJob(j)
     \/ j \notin cancelled /\ StopAt(j, "woken", "retry") /\ UNCHANGED queued

StopUnqueue(j) ==
  /\ StopAt(j, "unqueue", "request")
  /\ ClearQueuedJob(j)
  /\ Advance(j, "LoadingModel") /\ Emit(j, "LoadingModel")
  /\ StopOnly
  /\ UNCHANGED <<capture, recording, processing, cancelled, permit, parked,
                 notified, envVars>>

(* Transcribing is shown and provider.transcribe sends the request; the local *)
(* provider spawns a child if there is none.                                  *)
StopRequest(j) ==
  /\ StopAt(j, "request", "running")
  /\ Advance(j, "Transcribing") /\ Emit(j, "Transcribing")
  /\ sidecar' = Spawned(j)
  /\ request' = [request EXCEPT ![j] = "computing"]
  /\ StopOnly
  /\ UNCHANGED <<capture, recording, slotVars, mic, stored>>

(* The worker computed the text; its answer is on the way. *)
InferenceCompletes(j) ==
  /\ request[j] = "computing"
  /\ StopAt(j, "running", "answered")
  /\ request' = [request EXCEPT ![j] = "ending"]
  /\ StopOnly
  /\ UNCHANGED <<capture, recording, slotVars, mic, sidecar, stored, machine,
                 shown>>

(* Mutant: the machine is not told about the corrections. *)
StopReceiveSilently(j) ==
  /\ StopAt(j, "answered", "correct")
  /\ request' = [request EXCEPT ![j] = "none"]
  /\ StopOnly
  /\ UNCHANGED <<capture, recording, slotVars, mic, sidecar, stored, machine,
                 shown>>

StopReceive(j) ==
  /\ StopAt(j, "answered", "correct")
  /\ Advance(j, "ApplyingCorrections") /\ Emit(j, "ApplyingCorrections")
  /\ request' = [request EXCEPT ![j] = "none"]
  /\ StopOnly
  /\ UNCHANGED <<capture, recording, slotVars, mic, sidecar, stored>>

(* The request fails: worker error, lost connection, timeout, cancellation.   *)
(* What a remote worker does after that is the worker's own affair.           *)
StopReceiveError(j) ==
  /\ \/ /\ "worker" \in Faults \/ request[j] # "computing"
        /\ StopAt(j, "running", "shutdown")
     \/ /\ "worker" \in Faults \/ request[j] = "none"
        /\ StopAt(j, "answered", "shutdown")
  /\ request' = [request EXCEPT ![j] = "none"]
  /\ StopOnly
  /\ UNCHANGED <<capture, recording, slotVars, mic, sidecar, stored, machine,
                 shown>>

(* apply_corrections, the paste and transcripts().save.  The two early        *)
(* returns with `?` between them neither release the slot nor show an event.  *)
StopCorrectAndSave(j) ==
  /\ StopOnly
  /\ UNCHANGED <<capture, recording, slotVars, mic, sidecar, request, machine,
                 shown>>
  /\ \/ StopAt(j, "correct", "shutdown") /\ stored' = stored \cup {j}
     \/ /\ "save" \in Faults
        /\ StopAt(j, "correct", "shutdown")
        /\ UNCHANGED stored
     \/ /\ "integration" \in Faults
        /\ StopAt(j, "correct", "done")
        /\ UNCHANGED stored

(* release_processing: the provider is stopped before the slot is cleared. *)
StopShutdown(j) ==
  /\ StopAt(j, "shutdown", "clear")
  /\ StopProvider(j)
  /\ StopOnly
  /\ UNCHANGED <<capture, recording, slotVars, mic, stored, machine, shown>>

(* clear_processing; when a cancellation already cleared it, Failed is shown. *)
StopClear(j) ==
  /\ StopOnly
  /\ UNCHANGED <<capture, recording, queued, cancelled, permit, parked,
                 notified, envVars, machine>>
  /\ \/ /\ StopAt(j, "clear", "notify")
        /\ ClearProcessing(j)
        /\ UNCHANGED shown
     \/ /\ StopAt(j, "clear", "done")
        /\ processing # j
        /\ Emit(j, "Failed")
        /\ UNCHANGED processing

(* notify_one, then the outcome: a stored transcript was pasted or awaits     *)
(* confirmation; everything else, a failed shutdown included, is Failed.      *)
StopNotify(j) ==
  /\ NotifyOne
  /\ StopOnly
  /\ UNCHANGED <<capture, recording, processing, queued, cancelled, envVars>>
  /\ \/ /\ j \in stored
        /\ StopAt(j, "notify", "inject")
        /\ Advance(j, "Injecting") /\ Emit(j, "Injecting")
     \/ /\ j \in stored
        /\ StopAt(j, "notify", "done")
        /\ Advance(j, "AwaitingInjectionConfirmation")
        /\ Emit(j, "AwaitingInjectionConfirmation")
     \/ /\ j \notin stored \/ "shutdown" \in Faults
        /\ StopAt(j, "notify", "done")
        /\ Emit(j, "Failed")
        /\ UNCHANGED machine

StopInject(j) ==
  /\ StopAt(j, "inject", "done")
  /\ Advance(j, "Completed") /\ Emit(j, "Completed")
  /\ StopOnly
  /\ UNCHANGED <<capture, recording, slotVars, envVars>>

(* shutdown_after_failure and the Failed event, before a slot was reserved. *)
StopFail(j) ==
  /\ StopAt(j, "fail", "done")
  /\ StopProvider(j)
  /\ Emit(j, "Failed")
  /\ StopOnly
  /\ UNCHANGED <<capture, recording, slotVars, mic, stored, machine>>

StopStep(j) ==
  \/ StopFinishAudio(j) \/ StopSilent(j) \/ StopSnapshot(j) \/ StopTrySlot(j)
  \/ StopEnqueue(j) \/ StopAwait(j) \/ StopCheckToken(j) \/ StopUnqueue(j)
  \/ StopRequest(j) \/ InferenceCompletes(j) \/ StopReceive(j)
  \/ StopReceiveError(j) \/ StopCorrectAndSave(j) \/ StopShutdown(j)
  \/ StopClear(j) \/ StopNotify(j) \/ StopInject(j) \/ StopFail(j)

-----------------------------------------------------------------------------
(* cancel_current_job_inner *)

(* cancel_capture decides what is cancelled: a preparing or recording capture *)
(* alone, nothing while a recording is being finalized, or else processing.   *)
CancelBegin(c) ==
  /\ CancelCapture
  /\ target' = [target EXCEPT ![c] = capture.job]
  /\ CancelOnly
  /\ UNCHANGED <<recording, slotVars, mic, sidecar, request, acked>>
  /\ \/ /\ capture.phase = "Preparing"
        /\ CancelAt(c, "ready", "preparing")
        /\ Emit(capture.job, "Cancelling")
     \/ /\ capture.phase = "Recording"
        /\ CancelAt(c, "ready", "take")
        /\ UNCHANGED shown
     \/ /\ capture.phase = "Finalizing"
        /\ CancelAt(c, "ready", "done")
        /\ UNCHANGED shown
     \/ /\ capture.phase = "Idle"
        /\ CancelAt(c, "ready", "processing")
        /\ UNCHANGED shown

CancelPreparing(c) ==
  /\ CancelAt(c, "preparing", "done")
  /\ Emit(target[c], "Idle")
  /\ CancelOnly
  /\ UNCHANGED <<capture, recording, slotVars, mic, sidecar, request, target,
                 acked>>

(* The handle is taken under the recording mutex alone, after the slot was    *)
(* already given to the next job; the stream is discarded.                    *)
CancelTake(c) ==
  /\ CancelAt(c, "take", "stopProvider")
  /\ recording' = NoJob
  /\ mic' = mic \ {recording}
  /\ Emit(target[c], "Cancelling")
  /\ CancelOnly
  /\ UNCHANGED <<capture, slotVars, sidecar, request, target, acked>>

CancelStopProvider(c) ==
  /\ CancelAt(c, "stopProvider", "done")
  /\ StopProvider(target[c])
  /\ \/ Emit(target[c], "Idle")
     \/ "shutdown" \in Faults /\ Emit(target[c], "Failed")
  /\ CancelOnly
  /\ UNCHANGED <<capture, recording, slotVars, mic, target, acked>>

(* The processing entry is cloned; the mutex is not held afterwards. *)
CancelReadProcessing(c) ==
  /\ CancelAt(c, "processing", IF processing = NoJob THEN "done" ELSE "queue")
  /\ target' = [target EXCEPT ![c] = processing]
  /\ CancelOnly
  /\ UNCHANGED <<capture, recording, slotVars, mic, sidecar, request, acked,
                 shown>>

CancelQueued(c) ==
  /\ CancelAt(c, "queue", "ask")
  /\ CancelQueuedJob
  /\ shown' = [j \in Jobs |->
                 IF j \in {queued, target[c]} THEN "Cancelling" ELSE shown[j]]
  /\ CancelOnly
  /\ UNCHANGED <<capture, recording, processing, queued, permit, parked,
                 notified, mic, sidecar, request, target, acked>>

(* provider.cancel.  The worker acknowledges while the request is registered, *)
(* which ends the inference or comes too late to; otherwise it answers with   *)
(* an error.  The local provider spawns a child to ask if none is running.    *)
CancelAsk(c) ==
  /\ CancelAt(c, "ask", "shutdown")
  /\ CancelOnly
  /\ UNCHANGED <<capture, recording, slotVars, mic, target, shown>>
  /\ \/ /\ request[target[c]] # "none"
        /\ request' = [request EXCEPT ![target[c]] = "ending"]
        /\ acked' = acked \cup {c}
        /\ UNCHANGED sidecar
     \/ /\ "cancel" \in Faults \/ request[target[c]] = "none"
        /\ sidecar' \in {sidecar, Spawned(target[c])}
        /\ UNCHANGED <<request, acked>>

CancelShutdown(c) ==
  /\ CancelAt(c, "shutdown", "clear")
  /\ StopProvider(target[c])
  /\ CancelOnly
  /\ UNCHANGED <<capture, recording, slotVars, mic, target, acked, shown>>

(* clear_processing: an error if the job already released the slot itself. *)
CancelClear(c) ==
  /\ CancelOnly
  /\ UNCHANGED <<capture, recording, queued, cancelled, permit, parked,
                 notified, mic, sidecar, request, target, acked>>
  /\ \/ /\ CancelAt(c, "clear", "notify")
        /\ ClearProcessing(target[c])
        /\ UNCHANGED shown
     \/ /\ CancelAt(c, "clear", "done")
        /\ processing # target[c]
        /\ Emit(target[c], "Failed")
        /\ UNCHANGED processing

CancelNotify(c) ==
  /\ CancelAt(c, "notify", "done")
  /\ NotifyOne
  /\ \/ c \in acked /\ Emit(target[c], "Idle")
     \/ /\ c \notin acked \/ "shutdown" \in Faults
        /\ Emit(target[c], "Failed")
  /\ CancelOnly
  /\ UNCHANGED <<capture, recording, processing, queued, cancelled, mic,
                 sidecar, request, target, acked>>

CancelStep(c) ==
  \/ CancelPreparing(c) \/ CancelTake(c) \/ CancelStopProvider(c)
  \/ CancelReadProcessing(c) \/ CancelQueued(c) \/ CancelAsk(c)
  \/ CancelShutdown(c) \/ CancelClear(c) \/ CancelNotify(c)

-----------------------------------------------------------------------------

(* Every command has returned and nothing is being recorded. *)
AllReturned ==
  /\ \A j \in Jobs : start[j] = "done" /\ stop[j] \in {"none", "done"}
  /\ \A c \in Cancels : cancel[c] = "done"
  /\ recording = NoJob

Next ==
  \/ \E j \in Jobs : StartStep(j) \/ StopBegin(j) \/ StopStep(j)
  \/ \E c \in Cancels : CancelBegin(c) \/ CancelStep(c)
  \/ AllReturned /\ UNCHANGED vars

Spec == Init /\ [][Next]_vars

(* The runtime polls every task that can proceed, and every awaited operation *)
(* has a deadline; the user is not obliged to stop or to cancel anything.     *)
FairSpec ==
  /\ Spec
  /\ \A j \in Jobs : WF_vars(StartStep(j)) /\ WF_vars(StopStep(j))
  /\ \A c \in Cancels : WF_vars(CancelStep(c))

-----------------------------------------------------------------------------
(* Properties *)

TypeOK ==
  /\ capture \in CapturePhase
  /\ recording \in MaybeJob
  /\ processing \in MaybeJob
  /\ queued \in MaybeJob
  /\ cancelled \subseteq Jobs
  /\ permit \in BOOLEAN
  /\ parked \subseteq Jobs
  /\ notified \subseteq Jobs
  /\ start \in [Jobs -> StartPC]
  /\ stop \in [Jobs -> StopPC]
  /\ cancel \in [Cancels -> CancelPC]
  /\ target \in [Cancels -> MaybeJob]
  /\ acked \subseteq Cancels
  /\ mic \subseteq Jobs
  /\ sidecar \subseteq LocalJobs
  /\ request \in [Jobs -> RequestState]
  /\ stored \subseteq Jobs
  /\ machine \in [Jobs -> AppState]
  /\ shown \in [Jobs -> AppState]

(* Coordinator and audio handle live under two mutexes, and a cancellation    *)
(* changes them one after the other.  Still the recording slot and the handle *)
(* name the same job, a finalizing stop owns the slot, and a cancellation     *)
(* that is about to take a handle finds the one it cancelled: the branches    *)
(* "recording without its audio handle", "different audio handle" and the     *)
(* JobOwnership error of release_finalization are unreachable.                *)
HandleFollowsCapture ==
  /\ capture.phase = "Recording" => recording = capture.job
  /\ \A j \in Jobs : stop[j] = "finish" <=> capture = Finalizing(j)
  /\ \A c \in Cancels :
        cancel[c] = "take" =>
          /\ recording = target[c]
          /\ recording # NoJob
          /\ capture.phase # "Recording"

(* An input stream is open exactly while somebody is there to close it: the   *)
(* start that opened it, the stored handle, or the stop that finalizes it.    *)
(* A cancelled or refused start never leaves the microphone running.          *)
MicrophoneHasOwner ==
  mic = { j \in Jobs : \/ start[j] = "commit"
                       \/ recording = j
                       \/ stop[j] = "finish" }

(* The queue entry belongs to the job that waits inside                       *)
(* reserve_processing_slot, for exactly as long as it does: clear_queued_job  *)
(* never reports queue_state_missing or an ownership violation.               *)
Waiting == {"await", "parked", "woken", "retry", "unqueue"}

QueueEntryHasOwner ==
  \A j \in Jobs : queued = j <=> stop[j] \in Waiting

(* Whatever cancellations do, the inference slot names only a job whose stop  *)
(* command is still on its way to release it, or the job of a stop command    *)
(* that returned early because the Windows settings could not be read.        *)
ReturnedEarly(j) == "integration" \in Faults /\ stop[j] = "done"

HoldsSlot ==
  {"unqueue", "request", "running", "answered", "correct", "shutdown", "clear"}

SlotHasOwner ==
  \A j \in Jobs : processing = j =>
    stop[j] \in HoldsSlot \/ ReturnedEarly(j)

(* A running worker child has a task that will still stop it (or a handle     *)
(* whose drop does): a provider.cancel that spawned a child just to ask it    *)
(* included.  After an early return the child lives until the last handle on  *)
(* its provider is dropped, which is not followed here.                       *)
StoppedByCommand(j) ==
  \/ start[j] \in {"mic", "commit", "abandon", "fail", "discard"}
  \/ recording = j
  \/ stop[j] \notin {"none", "clear", "notify", "inject", "done"}
  \/ ReturnedEarly(j)

StoppedByCancel(j) ==
  \E c \in Cancels : /\ target[c] = j
                     /\ cancel[c] \in {"take", "stopProvider", "shutdown"}

SidecarHasOwner ==
  \A j \in sidecar : StoppedByCommand(j) \/ StoppedByCancel(j)

(* "one job cannot change another job's state": a slot a job owns, and its    *)
(* machine, change only in a step of the job's own commands or of a           *)
(* cancellation aimed at that job; late starts and stops of other jobs never  *)
(* take them away.                                                            *)
OwnStep(j) ==
  \/ start'[j] # start[j]
  \/ stop'[j] # stop[j]
  \/ \E c \in Cancels : cancel'[c] # cancel[c] /\ j \in {target[c], target'[c]}

JobsKeepToThemselves ==
  [][\A j \in Jobs :
       \/ capture.job = j /\ capture'.job # j
       \/ recording = j /\ recording' # j
       \/ processing = j /\ processing' # j
       \/ queued = j /\ queued' # j
       \/ machine'[j] # machine[j]
       => OwnStep(j)]_vars

(* The slot and the queue implement the bounded pipeline: one active job, one *)
(* waiting, and no way in but through them.  A job that got the slot has left *)
(* the queue although its entry is still there.                               *)
StillWaiting ==
  IF \E j \in Jobs : queued = j /\ stop[j] = "unqueue" THEN NoJob ELSE queued

Pipeline ==
  INSTANCE BoundedPipeline WITH active <- processing, waiting <- StillWaiting

PipelineSpec == Pipeline!PipelineSpec

(* A waiting job that was not notified sleeps only while the slot is taken or *)
(* the release that will notify it is under way: "That prevents a release     *)
(* between the read and await from losing its wakeup." (lib.rs:3190-3191).    *)
(* With two jobs, and with any number as long as nothing is cancelled, this   *)
(* is what happens; a third job behind a cancelled one can lose its wakeup.   *)
WakeupNotLost ==
  (processing = NoJob /\ parked \ notified # {}) =>
    \/ \E j \in Jobs : stop[j] = "notify"
    \/ \E c \in Cancels : cancel[c] = "notify"

(* "The bounded queue permits one running and one waiting job": two jobs are   *)
(* transcribed at the same time only after a cancellation aimed at one of     *)
(* them, which frees the slot without waiting for its stop command.           *)
OneRunningJob ==
  \A i, j \in Jobs :
    request[i] = "computing" /\ request[j] = "computing" =>
      i = j \/ \E c \in Cancels : target[c] \in {i, j}

(* "it permits one active inference" (docs/architecture.md:30), without the   *)
(* exception.  It does not hold: the next job takes the slot a cancellation   *)
(* has cleared while the cancelled one goes on to its own request.            *)
OneInference ==
  \A i, j \in Jobs :
    request[i] = "computing" /\ request[j] = "computing" => i = j

(* The two ways the code leaves a waiting recording asleep: the slot is still *)
(* taken by a job whose stop command returned early, or it is free but an     *)
(* earlier waiting job was cancelled, and took the wakeup with it.            *)
Stranded(j) ==
  /\ stop[j] = "parked"
  /\ \/ processing # NoJob /\ ReturnedEarly(processing)
     \/ processing = NoJob /\ cancelled \ {j} # {}

(* A stop command returns, with a transcript, no_speech or an error, unless   *)
(* its recording stays stranded for ever in one of these two ways: nothing    *)
(* else in the competition for the slot, its permit and its notifications     *)
(* leaves a finalized recording waiting.                                      *)
StopReturns ==
  \A j \in Jobs : stop[j] # "none" ~> (stop[j] = "done" \/ []Stranded(j))

(* "Waiters use a notification after provider cleanup"                        *)
(* (docs/architecture.md:33): the recording that waits is transcribed when    *)
(* its turn comes.  It does not hold once a job has returned early.           *)
EveryStopReturns == \A j \in Jobs : stop[j] # "none" ~> stop[j] = "done"

-----------------------------------------------------------------------------
(* What the safety properties rest on, the inductive strengthening.           *)

(* A stop command exists only for a recording whose start has committed it,   *)
(* and only a start that still prepares can own a preparing slot.             *)
CommandOrder ==
  \A j \in Jobs :
    /\ stop[j] # "none" => start[j] \in {"announce", "done"}
    /\ recording = j => start[j] \in {"announce", "done"} /\ stop[j] = "none"
    /\ capture = Preparing(j) =>
         start[j] \in {"prepare", "ready", "mic", "commit", "abandon"}

(* Two cancellations never take the same handle. *)
OneTaker ==
  \A c, d \in Cancels : cancel[c] = "take" /\ cancel[d] = "take" => c = d

(* A cancellation past its first step acts on a job. *)
TargetIsJob ==
  \A c \in Cancels :
    cancel[c] \in {"preparing", "take", "stopProvider", "queue", "ask",
                   "shutdown", "clear", "notify"} => target[c] \in Jobs

(* The local machine of a job is where its commands are. *)
MachineAt(j, pcs, s) == stop[j] \in pcs => machine[j] = s

MachineFollowsCommands ==
  \A j \in Jobs :
    /\ start[j] \in {"new", "sawBusy", "reserve", "prepare"} =>
         machine[j] = "Idle"
    /\ start[j] \in {"ready", "mic"} => machine[j] = "PreparingRecording"
    /\ start[j] = "commit" \/ recording = j => machine[j] = "Recording"
    /\ MachineAt(j, {"finish"}, "FinalizingAudio")
    /\ MachineAt(j, {"silent"}, "Cancelling")
    /\ MachineAt(j, {"snapshot", "try", "enqueue"} \cup Waiting, "Queued")
    /\ MachineAt(j, {"request"}, "LoadingModel")
    /\ MachineAt(j, {"running", "answered"}, "Transcribing")
    /\ MachineAt(j, {"correct"}, "ApplyingCorrections")
    /\ MachineAt(j, {"inject"}, "Injecting")
    /\ j \in stored /\ stop[j] # "done" =>
         stop[j] \in {"shutdown", "clear", "notify", "inject"}
    /\ j \in stored /\ stop[j] \in {"shutdown", "clear", "notify"} =>
         machine[j] = "ApplyingCorrections"

(* The inference slot and its Notify, for OneRunningJob and WakeupNotLost.    *)

(* A cancellation that has not chosen yet has no target, so a target stays.   *)
TargetIsChosen ==
  \A c \in Cancels : cancel[c] \in {"ready", "processing"} => target[c] = NoJob

(* From taking the slot to releasing it a job owns it, unless a cancellation  *)
(* is aimed at the job.                                                       *)
SlotKept ==
  \A j \in Jobs :
    stop[j] \in HoldsSlot => processing = j \/ \E c \in Cancels : target[c] = j

(* A worker computes only while the stop command waits for it.                *)
RequestHasTask == \A j \in Jobs : request[j] = "computing" => stop[j] = "running"

(* The registered waiters are the parked jobs; nobody is registered without a *)
(* notification while a permit is stored.                                     *)
WaitersAreParked ==
  /\ \A j \in Jobs : j \in parked <=> stop[j] = "parked"
  /\ notified \subseteq parked
  /\ permit => parked \subseteq notified

(* As long as no waiting job has been cancelled: a free slot that a job is    *)
(* about to wait for, or waits for, comes with a permit, a notification, a    *)
(* notify_one() under way or a woken job that will try the slot.              *)
WakeupOwed ==
  /\ cancelled = {} /\ processing = NoJob
  /\ \E j \in Jobs : stop[j] \in {"enqueue", "await", "parked"}
  => \/ permit \/ notified # {}
     \/ \E j \in Jobs : stop[j] \in {"notify", "woken", "retry"}
     \/ \E c \in Cancels : cancel[c] = "notify"

SlotInv == TargetIsChosen /\ SlotKept /\ RequestHasTask /\ WaitersAreParked /\ WakeupOwed
=============================================================================
