--------------------------- MODULE JobStateMachine ---------------------------
(* AppState, its graph of legal transitions, and the state machine every job *)
(* carries (crates/domain/src/lib.rs).  The graph is used by the desktop      *)
(* model; JobMachineSpec is the abstract specification a family of machines   *)
(* promises: each one starts Idle and moves along one edge at a time.         *)
EXTENDS JobIds

VARIABLE machine     \* machine[j]: JobStateMachine::state of job j

AppState ==
  { "Idle", "PreparingRecording", "Recording", "FinalizingAudio", "Queued",
    "LoadingModel", "Transcribing", "ApplyingCorrections",
    "AwaitingInjectionConfirmation", "Injecting", "Completed", "Failed",
    "Cancelling" }

(* AppState::allows_transition_to, the legal edges grouped by their source. *)
AllowsTransition(from, to) ==
  \/ from = "Idle" /\ to = "PreparingRecording"
  \/ from = "PreparingRecording" /\ to \in {"Recording", "Cancelling", "Failed"}
  \/ from = "Recording" /\ to \in {"FinalizingAudio", "Cancelling", "Failed"}
  \/ from = "FinalizingAudio" /\ to \in {"Queued", "Cancelling", "Failed"}
  \/ /\ from = "Queued"
     /\ to \in {"LoadingModel", "Transcribing", "Cancelling", "Failed"}
  \/ from = "LoadingModel" /\ to \in {"Transcribing", "Cancelling", "Failed"}
  \/ /\ from = "Transcribing"
     /\ to \in {"ApplyingCorrections", "Cancelling", "Failed"}
  \/ /\ from = "ApplyingCorrections"
     /\ to \in {"AwaitingInjectionConfirmation", "Injecting", "Completed",
                "Failed"}
  \/ /\ from = "AwaitingInjectionConfirmation"
     /\ to \in {"Injecting", "Completed", "Cancelling", "Failed"}
  \/ from = "Injecting" /\ to \in {"Completed", "Failed"}
  \/ from \in {"Completed", "Failed"} /\ to = "Idle"
  \/ from = "Cancelling" /\ to \in {"Failed", "Idle"}

(* JobStateMachine::new and JobStateMachine::transition.  A transition the   *)
(* graph does not allow is refused and leaves the state as it was.           *)
JobMachineInit == machine = [j \in Jobs |-> "Idle"]

Transition(j, to) ==
  /\ AllowsTransition(machine[j], to)
  /\ machine' = [machine EXCEPT ![j] = to]

JobMachineNext == \E j \in Jobs, to \in AppState : Transition(j, to)

JobMachineSpec == JobMachineInit /\ [][JobMachineNext]_machine
=============================================================================
