--------------------------- MODULE CaptureSession ---------------------------
(***************************************************************************)
(* A recording as the user sees it: the microphone callback fills the      *)
(* bounded buffer, the window polls its status every 180 ms and stops the  *)
(* recording when the status reports silence or the limit, and the window, *)
(* the global hotkey and the polling may all start and stop recordings.    *)
(*                                                                         *)
(* A sample of the model is a VAD frame of 30 ms.  What the controller     *)
(* does before and after the capture is one step here; DesktopJobs has it  *)
(* in detail.                                                              *)
(***************************************************************************)
EXTENDS Naturals, Sequences, SequencesExt, FiniteSets

CONSTANTS
    Jobs,         \* 1..n, in the order in which they are started
    Capacity,     \* max_samples of the buffer
    EndSilence,   \* end_silence_ms, in frames
    MinSpeech,    \* minimum_speech_ms, in frames
    Frames,       \* what a frame may be: "speech", "silence", "rejected" by the VAD
    VadModes,     \* "live", "late" (a rate the live VAD does not know), "off"
    Faults,       \* what may fail: "open", "pause", "device", "resample", "transcribe"
    Controls,     \* what the user operates: "window", "hotkey"
    MaxPackets    \* packets the device delivers in one recording

ASSUME CaptureAssumption ==
    /\ IsFiniteSet(Jobs) /\ Jobs = 1..Cardinality(Jobs)
    /\ Capacity \in Nat \ {0} /\ EndSilence \in Nat \ {0} /\ MinSpeech \in Nat
    /\ MaxPackets \in Nat
    /\ Frames \subseteq {"speech", "silence", "rejected"}
    /\ VadModes \subseteq {"live", "late", "off"}

VARIABLES
    capture,   \* the coordinator: phase and job of the microphone
    task,      \* task[j]: where start and stop of job j are
    buffer,    \* CaptureState, its mutex, and the flags of the callbacks
    packets,   \* packets delivered to the current recording
    lost,      \* jobs of which frames that arrived before the stop were dropped
    raced,     \* jobs whose callback had not yet stored its overflow at the check
    seq,       \* state_sequence
    sending,   \* sending[j]: the state event job j has numbered and not yet sent
    inbox,     \* events on their way to the window
    ui         \* what the window knows and waits for

vars == <<capture, task, buffer, packets, lost, raced, seq, sending, inbox, ui>>
audio == <<buffer, packets, lost, raced>>
events == <<seq, sending, inbox>>

NoEvent == [seq |-> 0, state |-> "none"]
NoJob == 0

-----------------------------------------------------------------------------
(* CaptureState                                                            *)

EmptyBuffer(vadMode) ==
    [samples |-> <<>>, limit |-> FALSE, mode |-> vadMode,
     vad |-> [seen |-> FALSE, silence |-> 0, ended |-> FALSE, failed |-> FALSE],
     lock |-> "free", callback |-> "idle", overflow |-> FALSE, broken |-> FALSE]

\* LiveVad::push of a complete frame, and the loop body of analyze_speech.
Push(vad, frame) ==
    LET silence == IF frame = "speech" THEN 0
                   ELSE IF vad.seen THEN vad.silence + 1 ELSE vad.silence
    IN  [seen    |-> vad.seen \/ frame = "speech",
         silence |-> silence,
         ended   |-> vad.ended \/ (frame # "speech" /\ vad.seen /\ silence >= EndSilence),
         failed  |-> vad.failed \/ frame = "rejected"]

\* CaptureState::append: the frames that fit are kept, one that finds the buffer
\* full sets the limit flag.
AppendFrames(b, frames) ==
    LET room == Capacity - Len(b.samples)
        kept == IF Len(frames) <= room THEN frames ELSE SubSeq(frames, 1, room)
    IN  [b EXCEPT !.samples = @ \o kept,
                  !.limit = @ \/ Len(frames) > room,
                  !.vad = IF b.mode = "live" THEN FoldLeft(Push, @, kept) ELSE @]

\* analyze_speech: without VAD whatever was recorded is speech.
HasMinimumSpeech(b) ==
    b.mode = "off" \/ Cardinality({i \in DOMAIN b.samples : b.samples[i] = "speech"}) >= MinSpeech

Rejected(b) == b.mode # "off" /\ "rejected" \in Range(b.samples)

-----------------------------------------------------------------------------
(* Events: emit_state numbers an event and then sends it.                  *)

Emit(j, state) ==
    /\ sending[j] = NoEvent
    /\ seq' = seq + 1
    /\ sending' = [sending EXCEPT ![j] = [seq |-> seq + 1, state |-> state]]
    /\ UNCHANGED inbox

Send(j) ==
    /\ sending[j] # NoEvent
    /\ inbox' = Append(inbox, sending[j])
    /\ sending' = [sending EXCEPT ![j] = NoEvent]
    /\ UNCHANGED <<capture, task, audio, seq, ui>>

\* isTerminalState; a discarded or silent recording ends in idle, which is none.
Terminal == {"completed", "failed"}

-----------------------------------------------------------------------------
(* start_recording and AudioRecorder::start                                *)

At(j, from) == task[j].at = from /\ sending[j] = NoEvent

Goto(j, to) == task' = [task EXCEPT ![j].at = to]

End(j, result) == task' = [task EXCEPT ![j] = [at |-> "done", result |-> result]]

\* reserve_start; a full queue refuses the job before.
CanReserve(j) ==
    /\ task[j].at = "new" /\ \A i \in Jobs : i < j => task[i].at # "new"
    /\ capture.phase = "idle"
    /\ Cardinality({i \in Jobs : task[i].at = "transcribing"}) < 2

Reserve(j) ==
    /\ CanReserve(j)
    /\ capture' = [phase |-> "preparing", job |-> j]
    /\ Goto(j, "preparing")

Open(j) ==
    /\ At(j, "preparing")
    /\ \E mode \in VadModes : buffer' = EmptyBuffer(mode)
    /\ packets' = 0
    /\ capture' = [capture EXCEPT !.phase = "recording"]
    /\ Goto(j, "recording") /\ Emit(j, "recording")
    /\ UNCHANGED <<lost, raced, ui>>

OpenFails(j) ==
    /\ At(j, "preparing") /\ "open" \in Faults
    /\ capture' = [phase |-> "idle", job |-> NoJob]
    /\ End(j, "refused") /\ Emit(j, "failed")
    /\ UNCHANGED <<audio, ui>>

-----------------------------------------------------------------------------
(* The callbacks of the stream, which plays until finish or discard drops  *)
(* the handle; a paused stream may deliver what was under way.             *)

Streaming == capture.phase \in {"recording", "finalizing"} /\ packets < MaxPackets

BeforeStop == task[capture.job].at \in {"recording", "pause"}

\* Mutant: a callback that finds the lock taken forgets the packet.
DeliverForgetting(packet) ==
    /\ Streaming /\ buffer.callback = "idle"
    /\ packets' = packets + 1
    /\ LET full == AppendFrames(buffer, packet)
       IN  IF buffer.lock = "free"
           THEN /\ buffer' = full
                /\ lost' = IF full.limit /\ BeforeStop THEN lost \cup {capture.job} ELSE lost
           ELSE /\ UNCHANGED buffer
                /\ lost' = IF BeforeStop THEN lost \cup {capture.job} ELSE lost
    /\ UNCHANGED <<capture, task, raced, events, ui>>

\* try_lock and append.
Deliver(packet) ==
    /\ Streaming /\ buffer.callback = "idle"
    /\ packets' = packets + 1
    /\ LET full == AppendFrames(buffer, packet)
       IN  IF buffer.lock = "free"
           THEN /\ buffer' = full
                /\ lost' = IF full.limit /\ BeforeStop THEN lost \cup {capture.job} ELSE lost
           ELSE /\ buffer' = [buffer EXCEPT !.callback = "missed"]
                /\ lost' = IF BeforeStop THEN lost \cup {capture.job} ELSE lost
    /\ UNCHANGED <<capture, task, raced, events, ui>>

\* The store after a failed try_lock.
StoreOverflow ==
    /\ buffer.callback = "missed"
    /\ buffer' = [buffer EXCEPT !.callback = "idle", !.overflow = TRUE]
    /\ UNCHANGED <<capture, task, packets, lost, raced, events, ui>>

DeviceError ==
    /\ Streaming /\ "device" \in Faults /\ ~buffer.broken
    /\ buffer' = [buffer EXCEPT !.broken = TRUE]
    /\ UNCHANGED <<capture, task, packets, lost, raced, events, ui>>

-----------------------------------------------------------------------------
(* stop_recording with RecordingHandle::finish, and discard                *)

\* take_active_for_finalization; recording_status holds the handle's mutex
\* while it reads.
CanTake == capture.phase = "recording" /\ At(capture.job, "recording") /\ buffer.lock = "free"

Take ==
    /\ CanTake
    /\ capture' = [capture EXCEPT !.phase = "finalizing"]
    /\ Goto(capture.job, "pause") /\ Emit(capture.job, "finalizing_audio")
    /\ UNCHANGED audio

Released == capture' = [phase |-> "idle", job |-> NoJob]

Fail(j) == Released /\ End(j, "failed") /\ Emit(j, "failed")

Pause(j) ==
    /\ At(j, "pause")
    /\ \/ Goto(j, "load_error") /\ UNCHANGED <<capture, events>>
       \/ "pause" \in Faults /\ Fail(j)
    /\ UNCHANGED <<audio, ui>>

LoadError(j) ==
    /\ At(j, "load_error")
    /\ IF buffer.broken THEN Fail(j)
       ELSE Goto(j, "load_overflow") /\ UNCHANGED <<capture, events>>
    /\ UNCHANGED <<audio, ui>>

LoadOverflow(j) ==
    /\ At(j, "load_overflow")
    /\ IF buffer.overflow THEN Fail(j) /\ UNCHANGED raced
       ELSE /\ Goto(j, "lock") /\ UNCHANGED <<capture, events>>
            /\ raced' = IF buffer.callback = "missed" THEN raced \cup {j} ELSE raced
    /\ UNCHANGED <<buffer, packets, lost, ui>>

Lock(j) ==
    /\ At(j, "lock") /\ buffer.lock = "free"
    /\ buffer' = [buffer EXCEPT !.lock = "finish"]
    /\ Goto(j, "analyze")
    /\ UNCHANGED <<capture, packets, lost, raced, events, ui>>

\* The checks under the lock, resampling, analyze_speech, and what
\* stop_recording makes of them.
Analyze(j) ==
    /\ At(j, "analyze")
    /\ buffer' = [buffer EXCEPT !.lock = "free"]
    /\ LET sound == ~buffer.limit /\ ~Rejected(buffer)
           speech == buffer.samples # <<>> /\ HasMinimumSpeech(buffer)
       IN  \/ sound /\ speech /\ Released /\ Goto(j, "transcribing") /\ UNCHANGED events
           \/ sound /\ ~speech /\ Released /\ End(j, "no_speech") /\ Emit(j, "idle")
           \/ (~sound \/ (buffer.samples # <<>> /\ "resample" \in Faults)) /\ Fail(j)
    /\ UNCHANGED <<packets, lost, raced, ui>>

\* The rest of stop_recording.
Transcribe(j) ==
    /\ At(j, "transcribing")
    /\ \/ End(j, "text") /\ Emit(j, "completed")
       \/ "transcribe" \in Faults /\ End(j, "failed") /\ Emit(j, "failed")
    /\ UNCHANGED <<capture, audio, ui>>

\* cancel_current_job of a recording: discard reports a failed callback.
Discard ==
    /\ CanTake
    /\ Released
    /\ IF buffer.broken \/ buffer.overflow
       THEN End(capture.job, "failed") /\ Emit(capture.job, "failed")
       ELSE End(capture.job, "discarded") /\ Emit(capture.job, "idle")
    /\ UNCHANGED audio

-----------------------------------------------------------------------------
(* The hotkey: dispatch_hotkey_toggle.                                     *)

HotkeyStart(j) == Reserve(j) /\ UNCHANGED <<audio, events, ui>>

HotkeyStop == Take /\ UNCHANGED ui

-----------------------------------------------------------------------------
(* The window (App.svelte, toggle mode)                                    *)

\* refresh: commands are answered in the order in which they are sent.
Refresh ==
    /\ ui.refresh
    /\ ui' = [ui EXCEPT !.refresh = FALSE, !.phase = capture.phase,
                        !.processing = \E j \in Jobs : task[j].at = "transcribing"]
    /\ UNCHANGED <<capture, task, audio, events>>

\* finishRecording: what it does to the window before the command is sent.
FinishRecording(w) ==
    IF w.stopping # "no" THEN w
    ELSE IF w.starting = "waiting" \/ w.phase = "preparing" THEN [w EXCEPT !.deferred = TRUE]
    ELSE IF w.phase # "recording" THEN w
    ELSE [w EXCEPT !.stopping = "asked", !.polling = FALSE]

\* onStateChange with acceptsStateEvent; a poll is answered at once, and an event
\* that arrives meanwhile is handled after the answer.
Event ==
    /\ inbox # <<>> /\ ui.poll = "none"
    /\ inbox' = Tail(inbox)
    /\ LET e == Head(inbox)
       IN  ui' = IF e.seq <= ui.last THEN ui
                 ELSE [ui EXCEPT !.last = e.seq, !.refresh = TRUE,
                                 !.polling = IF e.state = "recording" THEN TRUE
                                             ELSE IF e.state \in Terminal THEN FALSE ELSE @]
    /\ UNCHANGED <<capture, task, audio, seq, sending>>

\* beginStatusPolling: the timer asks for recording_status, which locks the
\* buffer of the recording there is.
PollAsk ==
    /\ ui.polling /\ ui.poll = "none" /\ ~ui.refresh
    /\ IF capture.phase = "recording"
       THEN /\ buffer.lock = "free"
            /\ buffer' = [buffer EXCEPT !.lock = "status"]
            /\ ui' = [ui EXCEPT !.poll = "reading"]
       ELSE ui' = [ui EXCEPT !.poll = "empty"] /\ UNCHANGED buffer
    /\ UNCHANGED <<capture, task, packets, lost, raced, events>>

PollRead ==
    /\ ui.poll = "reading"
    /\ buffer' = [buffer EXCEPT !.lock = "free"]
    /\ ui' = [ui EXCEPT !.poll = IF buffer.vad.ended \/ buffer.limit THEN "end" ELSE "going"]
    /\ UNCHANGED <<capture, task, packets, lost, raced, events>>

\* Mutant: the limit and the end of speech are only displayed.
PollAnswerPassive ==
    /\ ui.poll \in {"empty", "end", "going"}
    /\ ui' = [ui EXCEPT !.poll = "none", !.polling = @ /\ ui.poll # "empty"]
    /\ UNCHANGED <<capture, task, audio, events>>

PollAnswer ==
    /\ ui.poll \in {"empty", "end", "going"}
    /\ ui' = LET w == [ui EXCEPT !.poll = "none", !.polling = @ /\ ui.poll = "going"]
             IN  IF ui.poll = "end" THEN FinishRecording(w) ELSE w
    /\ UNCHANGED <<capture, task, audio, events>>

\* The start button, enabled unless isWorking.
ClickStart(j) ==
    /\ ui.phase = "idle" /\ ~ui.processing /\ ui.starting = "no" /\ ui.stopping = "no"
    /\ Reserve(j)
    /\ ui' = [ui EXCEPT !.starting = "waiting", !.job = j]
    /\ UNCHANGED <<audio, events>>

StartReturns ==
    /\ ui.starting = "waiting"
    /\ task[ui.job].at # "preparing" /\ sending[ui.job] = NoEvent
    /\ ui' = LET w == [ui EXCEPT !.starting = "settling", !.refresh = TRUE]
             IN  IF task[ui.job].result = "refused" THEN w
                 ELSE [w EXCEPT !.phase = "recording", !.polling = TRUE]
    /\ UNCHANGED <<capture, task, audio, events>>

\* After its refresh beginRecording does what was put off meanwhile.
Settle ==
    /\ ui.starting = "settling" /\ ~ui.refresh
    /\ ui' = LET w == [ui EXCEPT !.starting = "no", !.deferred = FALSE]
             IN  IF ui.deferred THEN FinishRecording(w) ELSE w
    /\ UNCHANGED <<capture, task, audio, events>>

ClickStop ==
    /\ ui.phase = "recording" /\ ui.starting = "no" /\ ui.stopping = "no"
    /\ ui' = FinishRecording(ui)
    /\ UNCHANGED <<capture, task, audio, events>>

\* stop_recording called by the window: refused when nothing is recording.
WindowStop ==
    /\ ui.stopping = "asked"
    /\ \/ Take /\ ui' = [ui EXCEPT !.stopping = "waiting", !.job = capture.job]
       \/ /\ capture.phase # "recording"
          /\ ui' = [ui EXCEPT !.stopping = "no", !.refresh = TRUE]
          /\ UNCHANGED <<capture, task, audio, events>>

\* An outcome is painted over whatever the snapshot says; the refresh follows.
StopReturns ==
    /\ ui.stopping = "waiting" /\ task[ui.job].at = "done" /\ sending[ui.job] = NoEvent
    /\ ui' = LET w == [ui EXCEPT !.stopping = "no", !.refresh = TRUE]
             IN  IF task[ui.job].result = "failed" THEN w
                 ELSE [w EXCEPT !.phase = "idle", !.processing = FALSE]
    /\ UNCHANGED <<capture, task, audio, events>>

\* cancelCurrent on a recording.
ClickCancel ==
    /\ ui.phase = "recording" /\ ui.stopping = "no"
    /\ Discard
    /\ ui' = [ui EXCEPT !.polling = FALSE, !.refresh = TRUE]

-----------------------------------------------------------------------------
Ats == {"new", "preparing", "recording", "pause", "load_error", "load_overflow", "lock",
        "analyze", "transcribing", "done"}
Results == {"none", "refused", "failed", "no_speech", "discarded", "text"}

\* The recording part.  What the VAD has made of the samples is any value here.
Buffers ==
    [samples : Seq(Frames), limit : BOOLEAN, mode : VadModes \cup {"off"}, vad : {buffer.vad},
     lock : {"free", "status", "finish"}, callback : {"idle", "missed"}, overflow : BOOLEAN,
     broken : BOOLEAN]

RecordingTypes ==
    /\ capture \in [phase : {"idle", "preparing", "recording", "finalizing"},
                   job : Jobs \cup {NoJob}]
    /\ task \in [Jobs -> [at : Ats, result : Results]]
    /\ buffer \in Buffers /\ Len(buffer.samples) <= Capacity
    /\ packets \in 0..MaxPackets
    /\ lost \subseteq Jobs /\ raced \subseteq Jobs

TypeOK ==
    /\ RecordingTypes
    /\ buffer.vad \in [seen : BOOLEAN, silence : Nat, ended : BOOLEAN, failed : BOOLEAN]
    /\ \A j \in Jobs : sending[j].seq \in 0..seq
    /\ \A i \in DOMAIN inbox : inbox[i].seq \in 1..seq
    /\ ui.last <= seq /\ ui.job \in Jobs \cup {NoJob}

Init ==
    /\ capture = [phase |-> "idle", job |-> NoJob]
    /\ task = [j \in Jobs |-> [at |-> "new", result |-> "none"]]
    /\ buffer = EmptyBuffer("off") /\ packets = 0 /\ lost = {} /\ raced = {}
    /\ seq = 0 /\ sending = [j \in Jobs |-> NoEvent] /\ inbox = <<>>
    /\ ui = [phase |-> "idle", processing |-> FALSE, last |-> 0, polling |-> FALSE,
             poll |-> "none", refresh |-> FALSE, starting |-> "no", stopping |-> "no",
             job |-> NoJob, deferred |-> FALSE]

TaskStep(j) ==
    \/ Send(j) \/ Open(j) \/ OpenFails(j) \/ Pause(j) \/ LoadError(j)
    \/ LoadOverflow(j) \/ Lock(j) \/ Analyze(j) \/ Transcribe(j)

WindowStep ==
    \/ Event \/ Refresh \/ PollRead \/ PollAnswer \/ StartReturns \/ Settle
    \/ WindowStop \/ StopReturns

Device ==
    \/ \E n \in 1..2 : \E packet \in [1..n -> Frames] : Deliver(packet)
    \/ StoreOverflow \/ DeviceError

User ==
    \/ "window" \in Controls /\ (ClickStop \/ ClickCancel \/ \E j \in Jobs : ClickStart(j))
    \/ "hotkey" \in Controls /\ (HotkeyStop \/ \E j \in Jobs : HotkeyStart(j))

Next == (\E j \in Jobs : TaskStep(j)) \/ WindowStep \/ PollAsk \/ Device \/ User

Spec == Init /\ [][Next]_vars

\* The runtime runs every task, the window handles its events and answers, and
\* its timer keeps firing; the device and the user need not do anything.
FairSpec ==
    /\ Spec
    /\ \A j \in Jobs : WF_vars(TaskStep(j))
    /\ WF_vars(WindowStep) /\ WF_vars(PollAsk) /\ WF_vars(StoreOverflow)

-----------------------------------------------------------------------------
(* Properties                                                              *)

\* "must make a device error or callback contention visible rather than quietly
\* sending incomplete audio" (docs/adr/0007:13): a recording from which a frame
\* was dropped before the stop, by contention or at the limit, is never
\* transcribed and never taken for silence.  The one exception is a callback
\* preempted between its try_lock and its store while finish reads the flag.
CaptureIsComplete ==
    \A j \in Jobs :
        (task[j].at = "transcribing" \/ task[j].result \in {"text", "no_speech"}) =>
            (j \in lost => j \in raced)

\* "Toggle recording must end on actual silence" (docs/adr/0007:11) and
\* "Reaching it ends the recording visibly" (docs/adr/0007:21): once the buffer
\* reports the end of speech or the limit, the recording is stopped without the
\* user.
Over(j) == capture.job = j /\ capture.phase = "recording" /\ (buffer.vad.ended \/ buffer.limit)

SilenceEndsRecording ==
    \A j \in Jobs : Over(j) ~> ~(capture.job = j /\ capture.phase = "recording")

-----------------------------------------------------------------------------
(* What CaptureIsComplete rests on, the inductive strengthening.           *)

\* The microphone belongs to the one job that is between its start and the end
\* of its capture, and the phase says how far that job is.
OneCapture ==
    /\ capture.phase = "idle" => capture.job = NoJob
    /\ capture.phase = "preparing" => task[capture.job].at = "preparing"
    /\ capture.phase = "recording" => task[capture.job].at = "recording"
    /\ capture.phase = "finalizing" =>
         task[capture.job].at \in {"pause", "load_error", "load_overflow", "lock", "analyze"}
    /\ capture.phase # "idle" => capture.job \in Jobs
    /\ \A j \in Jobs : j # capture.job => task[j].at \in {"new", "transcribing", "done"}

\* A result ends a job.
ResultsAreFinal == \A j \in Jobs : task[j].result # "none" => task[j].at = "done"

\* Something that finish looks at after the pause tells of the loss.
Visible == buffer.limit \/ buffer.overflow \/ buffer.callback = "missed"

\* How far finish is, and what still tells it of a loss: the overflow flag until
\* it is read, then the limit flag under the lock.
LossIsKnown ==
    \A j \in lost :
        /\ task[j].at \notin {"new", "preparing"}
        /\ task[j].at \in {"recording", "pause", "load_error", "load_overflow"} => Visible
        /\ task[j].at \in {"lock", "analyze"} => buffer.limit \/ j \in raced
        /\ task[j].at = "transcribing" \/ task[j].result \in {"text", "no_speech"} => j \in raced

IInv == RecordingTypes /\ OneCapture /\ ResultsAreFinal /\ LossIsKnown
=============================================================================
