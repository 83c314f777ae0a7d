----------------------- MODULE CaptureSession_proofs -----------------------
(***************************************************************************)
(* No recording loses audio without saying so: for any number of jobs, any *)
(* buffer, any packets and faults.  What the window does touches the       *)
(* recording only through a few operations (RecordingStep); each lemma     *)
(* below shows that these keep one part of the inductive invariant IInv.   *)
(***************************************************************************)
EXTENDS CaptureSession, FiniteSetTheorems, TLAPS

\* recording_status takes or releases the buffer's mutex.
StatusLock ==
    /\ buffer' = [buffer EXCEPT !.lock = "status"] \/ buffer' = [buffer EXCEPT !.lock = "free"]
    /\ UNCHANGED <<capture, task, packets, lost, raced>>

\* What a step can do to the recording.
RecordingStep ==
    \/ \E j \in Jobs : \/ Reserve(j) /\ UNCHANGED audio
                       \/ Open(j) \/ OpenFails(j) \/ Pause(j) \/ LoadError(j) \/ LoadOverflow(j)
                       \/ Lock(j) \/ Analyze(j) \/ Transcribe(j)
    \/ Take \/ Discard
    \/ \E n \in 1..2 : \E packet \in [1..n -> Frames] : Deliver(packet)
    \/ StoreOverflow \/ DeviceError \/ StatusLock
    \/ UNCHANGED <<capture, task, audio>>

\* The window, the hotkey and the polling do nothing else to it.
LEMMA StepsOfRecording == [Next]_vars => RecordingStep
<1> SUFFICES ASSUME [Next]_vars PROVE RecordingStep
  OBVIOUS
<1>1. ASSUME NEW j \in Jobs, TaskStep(j) PROVE RecordingStep
  BY <1>1 DEF TaskStep, Send, RecordingStep
<1>2. CASE WindowStep
  BY <1>2
    DEF WindowStep, Event, Refresh, PollRead, PollAnswer, StartReturns, Settle, WindowStop,
        StopReturns, StatusLock, RecordingStep, audio
<1>3. CASE PollAsk
  BY <1>3 DEF PollAsk, StatusLock, RecordingStep, audio
<1>4. CASE Device
  BY <1>4 DEF Device, RecordingStep
<1>5. CASE User
  BY <1>5 DEF User, ClickStop, ClickCancel, ClickStart, HotkeyStop, HotkeyStart, RecordingStep
<1>6. CASE UNCHANGED vars
  BY <1>6 DEF vars, audio, RecordingStep
<1> QED
  BY <1>1, <1>2, <1>3, <1>4, <1>5, <1>6 DEF Next

\* Nothing is recorded at the start.
LEMMA InitEstablishes == Init => IInv
<1> SUFFICES ASSUME Init PROVE IInv
  OBVIOUS
<1> USE CaptureAssumption DEF Init, NoJob
<1>1. RecordingTypes
  BY DEF RecordingTypes, Buffers, EmptyBuffer, Ats, Results
<1>2. OneCapture /\ ResultsAreFinal /\ LossIsKnown
  BY DEF OneCapture, ResultsAreFinal, LossIsKnown
<1> QED
  BY <1>1, <1>2 DEF IInv

\* NoJob is no job.
LEMMA JobsArePositive == NoJob \notin Jobs
  BY CaptureAssumption, FS_CardinalityType DEF NoJob

\* append keeps the frames that fit, at most Capacity of them, and changes
\* nothing but the samples, the limit flag and the VAD.
LEMMA AppendKeeps ==
  ASSUME RecordingTypes, NEW n \in 1..2, NEW packet \in [1..n -> Frames],
         NEW full, full = AppendFrames(buffer, packet)
  PROVE  /\ full = [samples |-> full.samples, limit |-> full.limit, mode |-> buffer.mode,
                    vad |-> full.vad, lock |-> buffer.lock, callback |-> buffer.callback,
                    overflow |-> buffer.overflow, broken |-> buffer.broken]
         /\ full.samples \in Seq(Frames) /\ Len(full.samples) <= Capacity
         /\ full.limit \in BOOLEAN /\ (buffer.limit => full.limit)
<1> DEFINE room == Capacity - Len(buffer.samples)
           kept == IF Len(packet) <= room THEN packet ELSE SubSeq(packet, 1, room)
           v == IF buffer.mode = "live" THEN FoldLeft(Push, buffer.vad, kept) ELSE buffer.vad
<1>1. packet \in Seq(Frames) /\ Len(packet) = n
  OBVIOUS
<1>2. buffer.samples \in Seq(Frames) /\ Len(buffer.samples) \in Nat /\ room \in Nat
  BY CaptureAssumption DEF RecordingTypes, Buffers
<1>3. kept \in Seq(Frames) /\ Len(kept) <= room
  BY <1>1, <1>2
<1>4. full = [buffer EXCEPT !.samples = @ \o kept, !.limit = @ \/ Len(packet) > room, !.vad = v]
  BY DEF AppendFrames
<1> HIDE DEF v, kept
<1>5. /\ full = [samples |-> buffer.samples \o kept, limit |-> buffer.limit \/ Len(packet) > room,
                mode |-> buffer.mode, vad |-> v, lock |-> buffer.lock,
                callback |-> buffer.callback, overflow |-> buffer.overflow,
                broken |-> buffer.broken]
  BY <1>4 DEF RecordingTypes, Buffers
<1>6. buffer.samples \o kept \in Seq(Frames) /\ Len(buffer.samples \o kept) <= Capacity
  BY <1>2, <1>3, CaptureAssumption
<1> QED
  BY <1>1, <1>2, <1>5, <1>6 DEF RecordingTypes, Buffers

\* A change of the buffer's lock or flags keeps its type.
LEMMA FlagsKeep ==
  ASSUME RecordingTypes, NEW l \in {"free", "status", "finish"}
  PROVE  /\ [buffer EXCEPT !.lock = l] =
              [samples |-> buffer.samples, limit |-> buffer.limit, mode |-> buffer.mode,
               vad |-> buffer.vad, lock |-> l, callback |-> buffer.callback,
               overflow |-> buffer.overflow, broken |-> buffer.broken]
  BY DEF RecordingTypes, Buffers

\* A packet is kept, refused or missed; a frame that is dropped before the stop
\* leaves the limit flag or a callback that is about to store the overflow.
LEMMA DeliverEffect ==
  ASSUME RecordingTypes, NEW n \in 1..2, NEW packet \in [1..n -> Frames], Deliver(packet)
  PROVE  /\ buffer' \in Buffers' /\ Len(buffer'.samples) <= Capacity
         /\ buffer.limit => buffer'.limit
         /\ buffer'.overflow = buffer.overflow
         /\ buffer.callback = "missed" => buffer'.callback = "missed"
         /\ \/ lost' = lost
            \/ /\ lost' = lost \cup {capture.job} /\ BeforeStop
               /\ buffer'.limit \/ buffer'.callback = "missed"
<1>1. CASE buffer.lock = "free"
  <2>1. PICK full : full = AppendFrames(buffer, packet)
    OBVIOUS
  <2>2. buffer' = full /\ lost' = IF full.limit /\ BeforeStop THEN lost \cup {capture.job} ELSE lost
    BY <1>1, <2>1 DEF Deliver
  <2>3. /\ buffer' = [samples |-> full.samples, limit |-> full.limit, mode |-> buffer.mode,
                      vad |-> full.vad, lock |-> buffer.lock, callback |-> buffer.callback,
                      overflow |-> buffer.overflow, broken |-> buffer.broken]
        /\ full.samples \in Seq(Frames) /\ Len(full.samples) <= Capacity
        /\ full.limit \in BOOLEAN /\ (buffer.limit => full.limit)
    BY <2>1, <2>2, AppendKeeps
  <2>4. buffer' \in Buffers'
    BY <2>3 DEF RecordingTypes, Buffers
  <2> QED
    BY <2>2, <2>3, <2>4
<1>2. CASE buffer.lock # "free"
  <2>1. buffer' = [samples |-> buffer.samples, limit |-> buffer.limit, mode |-> buffer.mode,
                   vad |-> buffer.vad, lock |-> buffer.lock, callback |-> "missed",
                   overflow |-> buffer.overflow, broken |-> buffer.broken]
    BY <1>2 DEF Deliver, RecordingTypes, Buffers
  <2> QED
    BY <1>2, <2>1 DEF Deliver, RecordingTypes, Buffers
<1> QED
  BY <1>1, <1>2

\* Every step keeps the types.
LEMMA TypeStep == IInv /\ [Next]_vars => RecordingTypes'
<1> SUFFICES ASSUME IInv, RecordingStep PROVE RecordingTypes'
  BY StepsOfRecording
<1> USE CaptureAssumption DEF IInv, RecordingTypes, Buffers, Ats, Results, audio, NoJob
<1>1. ASSUME NEW j \in Jobs, Reserve(j), UNCHANGED audio PROVE RecordingTypes'
  BY <1>1 DEF CanReserve, Reserve, Goto
<1>2. ASSUME NEW j \in Jobs, Open(j) PROVE RecordingTypes'
  BY <1>2 DEF Open, At, Goto, EmptyBuffer
<1>3. ASSUME NEW j \in Jobs, OpenFails(j) PROVE RecordingTypes'
  BY <1>3 DEF OpenFails, At, End
<1>4. ASSUME NEW j \in Jobs, Pause(j) PROVE RecordingTypes'
  BY <1>4 DEF Pause, At, Goto, Fail, Released, End
<1>5. ASSUME NEW j \in Jobs, LoadError(j) PROVE RecordingTypes'
  BY <1>5 DEF LoadError, At, Goto, Fail, Released, End
<1>6. ASSUME NEW j \in Jobs, LoadOverflow(j) PROVE RecordingTypes'
  BY <1>6 DEF LoadOverflow, At, Goto, Fail, Released, End
<1>7. ASSUME NEW j \in Jobs, Lock(j) PROVE RecordingTypes'
  <2>1. buffer' \in Buffers' /\ Len(buffer'.samples) <= Capacity
    BY <1>7, FlagsKeep DEF Lock, At, Goto
  <2>2. task' \in [Jobs -> [at : Ats, result : Results]]
    BY <1>7 DEF Lock, At, Goto
  <2>3. capture' \in [phase : {"idle", "preparing", "recording", "finalizing"},
                      job : Jobs \cup {NoJob}]
    BY <1>7 DEF Lock, At, Goto
  <2> QED
    BY <1>7, <2>1, <2>2, <2>3 DEF Lock
<1>8. ASSUME NEW j \in Jobs, Analyze(j) PROVE RecordingTypes'
  <2>1. buffer' \in Buffers' /\ Len(buffer'.samples) <= Capacity
    BY <1>8, FlagsKeep DEF Analyze, At, Goto, Fail, Released, End
  <2>2. task' \in [Jobs -> [at : Ats, result : Results]]
    BY <1>8 DEF Analyze, At, Goto, Fail, Released, End
  <2>3. capture' \in [phase : {"idle", "preparing", "recording", "finalizing"},
                      job : Jobs \cup {NoJob}]
    BY <1>8 DEF Analyze, At, Goto, Fail, Released, End
  <2> QED
    BY <1>8, <2>1, <2>2, <2>3 DEF Analyze
<1>9. ASSUME NEW j \in Jobs, Transcribe(j) PROVE RecordingTypes'
  BY <1>9 DEF Transcribe, At, End
<1>10. CASE Take
  <2>1. capture.phase = "recording" /\ capture.job \in Jobs
    BY <1>10 DEF Take, CanTake, OneCapture
  <2>2. capture' = [phase |-> "finalizing", job |-> capture.job]
    BY <1>10 DEF Take
  <2>3. task' \in [Jobs -> [at : Ats, result : Results]]
    BY <1>10, <2>1 DEF Take, Goto
  <2> QED
    BY <1>10, <2>1, <2>2, <2>3 DEF Take
<1>11. CASE Discard
  BY <1>11 DEF Discard, CanTake, At, Released, End
<1>12. ASSUME NEW n \in 1..2, NEW packet \in [1..n -> Frames], Deliver(packet) PROVE RecordingTypes'
  <2>1. UNCHANGED <<capture, task, raced>> /\ packets' \in 0..MaxPackets
    BY <1>12 DEF Deliver, Streaming
  <2>2. BeforeStop => capture.job \in Jobs
    BY <1>12 DEF Deliver, Streaming, OneCapture
  <2>3. RecordingTypes
    BY DEF RecordingTypes, Buffers
  <2>4. /\ buffer' \in Buffers' /\ Len(buffer'.samples) <= Capacity
        /\ (lost' = lost \/ (lost' = lost \cup {capture.job} /\ BeforeStop))
    <3> HIDE DEF RecordingTypes, Buffers
    <3> QED
      BY <1>12, <2>3, DeliverEffect
  <2>5. lost' \subseteq Jobs
    BY <2>2, <2>4
  <2> QED
    BY <2>1, <2>4, <2>5
<1>13. CASE StoreOverflow
  BY <1>13 DEF StoreOverflow
<1>14. CASE DeviceError
  BY <1>14 DEF DeviceError
<1>15. CASE StatusLock
  BY <1>15 DEF StatusLock
<1>16. CASE UNCHANGED <<capture, task, audio>>
  BY <1>16
<1> QED
  BY <1>1, <1>2, <1>3, <1>4, <1>5, <1>6, <1>7, <1>8, <1>9, <1>10, <1>11, <1>12, <1>13,
     <1>14, <1>15, <1>16
    DEF RecordingStep

\* The microphone passes from job to job through idle.
LEMMA OneCaptureStep == IInv /\ [Next]_vars => OneCapture'
<1> SUFFICES ASSUME IInv, RecordingStep PROVE OneCapture'
  BY StepsOfRecording
<1> USE CaptureAssumption DEF IInv, RecordingTypes, Ats, Results, OneCapture, audio, NoJob
<1>1. ASSUME NEW j \in Jobs, Reserve(j), UNCHANGED audio PROVE OneCapture'
  <2>1. capture.job = NoJob /\ capture' = [phase |-> "preparing", job |-> j]
    BY <1>1 DEF Reserve, CanReserve
  <2>2. task' = [task EXCEPT ![j].at = "preparing"]
    BY <1>1 DEF Reserve, Goto
  <2>3. \A i \in Jobs : task[i].at \in {"new", "transcribing", "done"}
    BY <2>1, JobsArePositive
  <2> QED
    BY <2>1, <2>2, <2>3
<1>2. ASSUME NEW j \in Jobs, Open(j) PROVE OneCapture'
  BY <1>2 DEF Open, At, Goto, EmptyBuffer
<1>3. ASSUME NEW j \in Jobs, OpenFails(j) PROVE OneCapture'
  BY <1>3 DEF OpenFails, At, End
<1>4. ASSUME NEW j \in Jobs, Pause(j) PROVE OneCapture'
  BY <1>4 DEF Pause, At, Goto, Fail, Released, End
<1>5. ASSUME NEW j \in Jobs, LoadError(j) PROVE OneCapture'
  BY <1>5 DEF LoadError, At, Goto, Fail, Released, End
<1>6. ASSUME NEW j \in Jobs, LoadOverflow(j) PROVE OneCapture'
  BY <1>6 DEF LoadOverflow, At, Goto, Fail, Released, End
<1>7. ASSUME NEW j \in Jobs, Lock(j) PROVE OneCapture'
  BY <1>7 DEF Lock, At, Goto
<1>8. ASSUME NEW j \in Jobs, Analyze(j) PROVE OneCapture'
  BY <1>8 DEF Analyze, At, Goto, Fail, Released, End
<1>9. ASSUME NEW j \in Jobs, Transcribe(j) PROVE OneCapture'
  BY <1>9 DEF Transcribe, At, End
<1>10. CASE Take
  BY <1>10 DEF Take, CanTake, At, Goto
<1>11. CASE Discard
  BY <1>11 DEF Discard, CanTake, At, Released, End
<1>12. ASSUME NEW n \in 1..2, NEW packet \in [1..n -> Frames], Deliver(packet) PROVE OneCapture'
  BY <1>12 DEF Deliver, Streaming, BeforeStop, AppendFrames
<1>13. CASE StoreOverflow
  BY <1>13 DEF StoreOverflow
<1>14. CASE DeviceError
  BY <1>14 DEF DeviceError
<1>15. CASE StatusLock
  BY <1>15 DEF StatusLock
<1>16. CASE UNCHANGED <<capture, task, audio>>
  BY <1>16
<1> QED
  BY <1>1, <1>2, <1>3, <1>4, <1>5, <1>6, <1>7, <1>8, <1>9, <1>10, <1>11, <1>12, <1>13,
     <1>14, <1>15, <1>16
    DEF RecordingStep

\* Only the end of a job gives it a result.
LEMMA FinalStep == IInv /\ [Next]_vars => ResultsAreFinal'
<1> SUFFICES ASSUME IInv, RecordingStep PROVE ResultsAreFinal'
  BY StepsOfRecording
<1> USE CaptureAssumption
  DEF IInv, RecordingTypes, Ats, Results, OneCapture, ResultsAreFinal, audio, NoJob
<1>1. ASSUME NEW j \in Jobs, Reserve(j), UNCHANGED audio PROVE ResultsAreFinal'
  BY <1>1 DEF CanReserve, Reserve, Goto
<1>2. ASSUME NEW j \in Jobs, Open(j) PROVE ResultsAreFinal'
  BY <1>2 DEF Open, At, Goto, EmptyBuffer
<1>3. ASSUME NEW j \in Jobs, OpenFails(j) PROVE ResultsAreFinal'
  BY <1>3 DEF OpenFails, At, End
<1>4. ASSUME NEW j \in Jobs, Pause(j) PROVE ResultsAreFinal'
  BY <1>4 DEF Pause, At, Goto, Fail, Released, End
<1>5. ASSUME NEW j \in Jobs, LoadError(j) PROVE ResultsAreFinal'
  BY <1>5 DEF LoadError, At, Goto, Fail, Released, End
<1>6. ASSUME NEW j \in Jobs, LoadOverflow(j) PROVE ResultsAreFinal'
  BY <1>6 DEF LoadOverflow, At, Goto, Fail, Released, End
<1>7. ASSUME NEW j \in Jobs, Lock(j) PROVE ResultsAreFinal'
  BY <1>7 DEF Lock, At, Goto
<1>8. ASSUME NEW j \in Jobs, Analyze(j) PROVE ResultsAreFinal'
  BY <1>8 DEF Analyze, At, Goto, Fail, Released, End
<1>9. ASSUME NEW j \in Jobs, Transcribe(j) PROVE ResultsAreFinal'
  BY <1>9 DEF Transcribe, At, End
<1>10. CASE Take
  BY <1>10 DEF Take, CanTake, At, Goto
<1>11. CASE Discard
  BY <1>11 DEF Discard, CanTake, At, Released, End
<1>12. ASSUME NEW n \in 1..2, NEW packet \in [1..n -> Frames], Deliver(packet)
       PROVE  ResultsAreFinal'
  BY <1>12 DEF Deliver, Streaming, BeforeStop, AppendFrames
<1>13. CASE StoreOverflow
  BY <1>13 DEF StoreOverflow
<1>14. CASE DeviceError
  BY <1>14 DEF DeviceError
<1>15. CASE StatusLock
  BY <1>15 DEF StatusLock
<1>16. CASE UNCHANGED <<capture, task, audio>>
  BY <1>16
<1> QED
  BY <1>1, <1>2, <1>3, <1>4, <1>5, <1>6, <1>7, <1>8, <1>9, <1>10, <1>11, <1>12, <1>13,
     <1>14, <1>15, <1>16
    DEF RecordingStep

\* A loss stays visible to finish until the job has ended.
LEMMA LossStep == IInv /\ [Next]_vars => LossIsKnown'
<1> SUFFICES ASSUME IInv, RecordingStep PROVE LossIsKnown'
  BY StepsOfRecording
<1> SUFFICES ASSUME NEW k \in lost'
             PROVE  /\ task'[k].at \notin {"new", "preparing"}
                    /\ task'[k].at \in {"recording", "pause", "load_error", "load_overflow"}
                         => Visible'
                    /\ task'[k].at \in {"lock", "analyze"} => buffer'.limit \/ k \in raced'
                    /\ task'[k].at = "transcribing" \/ task'[k].result \in {"text", "no_speech"}
                         => k \in raced'
  BY DEF LossIsKnown
<1> DEFINE Known(i) == /\ task'[i].at \notin {"new", "preparing"}
                       /\ task'[i].at \in {"recording", "pause", "load_error", "load_overflow"}
                            => Visible'
                       /\ task'[i].at \in {"lock", "analyze"} => buffer'.limit \/ i \in raced'
                       /\ task'[i].at = "transcribing" \/ task'[i].result \in {"text", "no_speech"}
                            => i \in raced'
<1> USE CaptureAssumption
  DEF IInv, RecordingTypes, Buffers, Ats, Results, OneCapture, ResultsAreFinal, LossIsKnown,
      Visible, audio, NoJob
<1>1. ASSUME NEW j \in Jobs, Reserve(j), UNCHANGED audio PROVE Known(k)
  BY <1>1 DEF CanReserve, Reserve, Goto
<1>2. ASSUME NEW j \in Jobs, Open(j) PROVE Known(k)
  BY <1>2 DEF Open, At, Goto, EmptyBuffer
<1>3. ASSUME NEW j \in Jobs, OpenFails(j) PROVE Known(k)
  BY <1>3 DEF OpenFails, At, End
<1>4. ASSUME NEW j \in Jobs, Pause(j) PROVE Known(k)
  <2>1. CASE Goto(j, "load_error") /\ UNCHANGED capture
    BY <1>4, <2>1 DEF Pause, At, Goto
  <2>2. CASE Fail(j)
    BY <1>4, <2>2 DEF Pause, At, Fail, End
  <2> QED
    BY <1>4, <2>1, <2>2 DEF Pause
<1>5. ASSUME NEW j \in Jobs, LoadError(j) PROVE Known(k)
  <2>1. CASE Goto(j, "load_overflow") /\ UNCHANGED capture
    BY <1>5, <2>1 DEF LoadError, At, Goto
  <2>2. CASE Fail(j)
    BY <1>5, <2>2 DEF LoadError, At, Fail, End
  <2> QED
    BY <1>5, <2>1, <2>2 DEF LoadError
<1>6. ASSUME NEW j \in Jobs, LoadOverflow(j) PROVE Known(k)
  BY <1>6 DEF LoadOverflow, At, Goto, Fail, Released, End
<1>7. ASSUME NEW j \in Jobs, Lock(j) PROVE Known(k)
  BY <1>7 DEF Lock, At, Goto
<1>8. ASSUME NEW j \in Jobs, Analyze(j) PROVE Known(k)
  BY <1>8 DEF Analyze, At, Goto, Fail, Released, End
<1>9. ASSUME NEW j \in Jobs, Transcribe(j) PROVE Known(k)
  <2>1. CASE End(j, "text")
    BY <1>9, <2>1 DEF Transcribe, At, End
  <2>2. CASE End(j, "failed")
    BY <1>9, <2>2 DEF Transcribe, At, End
  <2> QED
    BY <1>9, <2>1, <2>2 DEF Transcribe
<1>10. CASE Take
  BY <1>10 DEF Take, CanTake, At, Goto
<1>11. CASE Discard
  BY <1>11 DEF Discard, CanTake, At, Released, End
<1>12. ASSUME NEW n \in 1..2, NEW packet \in [1..n -> Frames], Deliver(packet) PROVE Known(k)
  <2>1. UNCHANGED <<capture, task, raced>>
    BY <1>12 DEF Deliver
  <2>2. BeforeStop => task[capture.job].at \in {"recording", "pause"} /\ capture.job \in Jobs
    BY <1>12 DEF BeforeStop, Deliver, Streaming
  <2>3. RecordingTypes
    BY DEF RecordingTypes, Buffers
  <2>4. /\ buffer.limit => buffer'.limit
        /\ buffer'.overflow = buffer.overflow
        /\ buffer.callback = "missed" => buffer'.callback = "missed"
        /\ \/ lost' = lost
           \/ /\ lost' = lost \cup {capture.job} /\ BeforeStop
              /\ buffer'.limit \/ buffer'.callback = "missed"
    BY <1>12, <2>3, DeliverEffect
  <2>5. CASE k \in lost
    BY <2>1, <2>4, <2>5
  <2>6. CASE k = capture.job /\ BeforeStop /\ (buffer'.limit \/ buffer'.callback = "missed")
    BY <2>1, <2>2, <2>6
  <2> QED
    BY <2>4, <2>5, <2>6
<1>13. CASE StoreOverflow
  BY <1>13 DEF StoreOverflow
<1>14. CASE DeviceError
  BY <1>14 DEF DeviceError
<1>15. CASE StatusLock
  BY <1>15 DEF StatusLock
<1>16. CASE UNCHANGED <<capture, task, audio>>
  BY <1>16
<1> QED
  BY <1>1, <1>2, <1>3, <1>4, <1>5, <1>6, <1>7, <1>8, <1>9, <1>10, <1>11, <1>12, <1>13,
     <1>14, <1>15, <1>16
    DEF RecordingStep

\* The microphone belongs to one job, whose finish still sees every loss.
THEOREM CaptureInvariance == Spec => []IInv
<1>1. IInv /\ [Next]_vars => IInv'
  BY TypeStep, OneCaptureStep, FinalStep, LossStep DEF IInv
<1> QED
  BY <1>1, InitEstablishes, PTL DEF Spec

\* A recording from which a frame was dropped before its stop is neither
\* transcribed nor taken for silence, unless its callback was preempted between
\* its try_lock and its store.
THEOREM CaptureCompleteness == Spec => []CaptureIsComplete
<1>1. IInv => CaptureIsComplete
  BY DEF IInv, RecordingTypes, LossIsKnown, CaptureIsComplete
<1> QED
  BY <1>1, CaptureInvariance, PTL
=============================================================================
