------------------------ MODULE RecordingCoordinator ------------------------
(* The synchronous authority for the microphone slot                          *)
(* (crates/application/src/lib.rs).  Each operation runs under the desktop's  *)
(* coordinator mutex, so each is one atomic change of `capture`.  A guard is  *)
(* the Ok case of the Rust method; the Err cases change nothing and appear in *)
(* the callers as the failure branch.                                         *)
EXTENDS JobIds

VARIABLE capture     \* CapturePhase of the single RecordingCoordinator

Phase(name, j) == [phase |-> name, job |-> j]

Idle          == Phase("Idle", NoJob)
Preparing(j)  == Phase("Preparing", j)
Recording(j)  == Phase("Recording", j)
Finalizing(j) == Phase("Finalizing", j)

CapturePhase ==
  {Idle} \cup { Phase(p, j) : p \in {"Preparing", "Recording", "Finalizing"},
                              j \in Jobs }

ReserveStart(j) ==
  /\ capture = Idle
  /\ capture' = Preparing(j)

CommitPreparation(j) ==
  /\ capture = Preparing(j)
  /\ capture' = Recording(j)

(* Mutant: any job may finalize the capture that is recording. *)
BeginFinalizationUnowned(j) ==
  /\ capture.phase = "Recording"
  /\ capture' = Finalizing(j)

BeginFinalization(j) ==
  /\ capture = Recording(j)
  /\ capture' = Finalizing(j)

ReleaseFinalization(j) ==
  /\ capture = Finalizing(j)
  /\ capture' = Idle

(* Mutant: a late start frees the slot without looking at its owner. *)
AbandonAnyPreparation(j) == capture' = Idle

(* Ok when the job still prepares or the slot is already free; a slot that    *)
(* belongs to another job is left alone (the caller drops the error).         *)
AbandonPreparation(j) ==
  capture' = IF capture = Preparing(j) THEN Idle ELSE capture

(* cancel_capture frees a preparing or recording slot and reports what it was *)
(* to the caller; Finalizing keeps its owner.                                 *)
CancelCapture ==
  capture' = IF capture.phase = "Finalizing" THEN capture ELSE Idle
=============================================================================
