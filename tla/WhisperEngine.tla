---------------------------- MODULE WhisperEngine ----------------------------
(* WhisperCppEngine of apps/worker/src/lib.rs: the inner whisper.cpp process  *)
(* that all handlers of a worker share, the mutex around it and the start     *)
(* gate.  A task calls ensure_running or stop_and_restart at most once and    *)
(* starts at most one child in doing so, so a child, and the loopback address *)
(* it listens on, is named by the task that started it.                       *)
(*                                                                            *)
(* A step is one critical section of the process mutex, one acquisition of    *)
(* the gate, or one awaited operation.  stop_child belongs to the step that   *)
(* takes the child out of the mutex: from then on nobody can reach it, and    *)
(* whoever drops it kills it (kill_on_drop).                                  *)

CONSTANTS
  Tasks,          \* the handler invocations that use the engine
  NoTask,
  Failures        \* the external operations that may fail

ASSUME NoTaskAssumption == NoTask \notin Tasks

(* "files": executable or model is missing; "startup": the child exits or     *)
(* does not become ready in time; "probe": a health request to a live child   *)
(* times out; "inspect": the status of a child cannot be read; "kill": a      *)
(* child cannot be stopped cleanly; "crash": a child exits by itself.         *)
EngineFailures == {"files", "startup", "probe", "inspect", "kill", "crash"}

VARIABLES
  process,     \* Mutex<Option<InnerProcess>>: the child new requests go to
  gate,        \* the holder of start_gate
  alive,       \* the children that run
  step,        \* step[t]: where the engine call of t is
  address      \* address[t]: the child t has looked up or started

engineVars == <<process, gate, alive, step, address>>

MaybeTask == Tasks \cup {NoTask}

(* relook .. starting, and take, are steps under the gate. *)
UnderGate == {"relook", "reprobe", "restop", "take", "start", "starting"}

EngineStep ==
  {"idle", "look", "probe", "stop", "gate", "restart", "running", "failed"}
    \cup UnderGate

EngineTypeOK ==
  /\ process \in MaybeTask
  /\ gate \in MaybeTask
  /\ alive \subseteq Tasks
  /\ step \in [Tasks -> EngineStep]
  /\ address \in [Tasks -> MaybeTask]

EngineInit ==
  /\ process = NoTask
  /\ gate = NoTask
  /\ alive = {}
  /\ step = [t \in Tasks |-> "idle"]
  /\ address = [t \in Tasks |-> NoTask]

(* Mutant: the gate is not left. *)
GateKept(t) == gate

(* A call leaves the gate, if it holds it, when it returns or is dropped. *)
GateAfter(t) == IF gate = t THEN NoTask ELSE gate

Goto(t, from, to) == step[t] = from /\ step' = [step EXCEPT ![t] = to]

Fail(t, from) == Goto(t, from, "failed") /\ gate' = GateAfter(t)

-----------------------------------------------------------------------------
(* ensure_running and stop_and_restart are entered. *)

EnsureRunning(t) ==
  /\ \/ Goto(t, "idle", "look")
     \/ "files" \in Failures /\ Goto(t, "idle", "failed")
  /\ UNCHANGED <<process, gate, alive, address>>

StopAndRestart(t) ==
  /\ Goto(t, "idle", "restart")
  /\ UNCHANGED <<process, gate, alive, address>>

(* active_address forgets a child that has exited. *)
Look(t) ==
  /\ UNCHANGED alive
  /\ \/ /\ process \in alive
        /\ Goto(t, "look", "probe") \/ Goto(t, "relook", "reprobe")
        /\ address' = [address EXCEPT ![t] = process]
        /\ UNCHANGED <<process, gate>>
     \/ /\ process \notin alive
        /\ Goto(t, "look", "gate") \/ Goto(t, "relook", "start")
        /\ process' = NoTask
        /\ UNCHANGED <<gate, address>>
     \/ /\ "inspect" \in Failures /\ process # NoTask
        /\ Fail(t, "look") \/ Fail(t, "relook")
        /\ UNCHANGED <<process, address>>

(* inner_ready, a health request with a deadline of 250 ms. *)
Probe(t) ==
  /\ UNCHANGED <<process, alive, address>>
  /\ \/ /\ address[t] \in alive
        /\ Goto(t, "probe", "running") \/ Goto(t, "reprobe", "running")
        /\ gate' = GateAfter(t)
     \/ /\ address[t] \notin alive \/ "probe" \in Failures
        /\ Goto(t, "probe", "stop") \/ Goto(t, "reprobe", "restop")
        /\ UNCHANGED gate

(* stop_at: only the child that was probed, if it is still the current one.   *)
(* The first stop happens outside the gate.                                   *)
StopAtAddress(t) ==
  /\ IF process = address[t]
     THEN process' = NoTask /\ alive' = alive \ {process}
     ELSE UNCHANGED <<process, alive>>
  /\ UNCHANGED address
  /\ \/ /\ Goto(t, "stop", "gate") \/ Goto(t, "restop", "start")
        /\ UNCHANGED gate
     \/ /\ "kill" \in Failures /\ process = address[t]
        /\ Fail(t, "stop") \/ Fail(t, "restop")

(* Mutant: the start gate is passed without being locked. *)
PassGate(t) ==
  /\ Goto(t, "gate", "relook") \/ Goto(t, "restart", "take")
  /\ UNCHANGED <<process, gate, alive, address>>

LockGate(t) ==
  /\ gate = NoTask
  /\ gate' = t
  /\ Goto(t, "gate", "relook") \/ Goto(t, "restart", "take")
  /\ UNCHANGED <<process, alive, address>>

(* stop_and_restart takes whatever child there is. *)
TakeAndStop(t) ==
  /\ process' = NoTask
  /\ alive' = alive \ {process}
  /\ UNCHANGED address
  /\ \/ Goto(t, "take", "start") /\ UNCHANGED gate
     \/ {"files", "kill"} \cap Failures # {} /\ Fail(t, "take")

(* start_inner spawns the child and polls it until it is ready. *)
Spawn(t) ==
  /\ \/ /\ Goto(t, "start", "starting")
        /\ alive' = alive \cup {t}
        /\ address' = [address EXCEPT ![t] = t]
        /\ UNCHANGED gate
     \/ "startup" \in Failures /\ Fail(t, "start") /\ UNCHANGED <<alive, address>>
  /\ UNCHANGED process

(* The child is ready and stored; one that was stored before is dropped.      *)
Install(t) ==
  /\ t \in alive
  /\ Goto(t, "starting", "running")
  /\ process' = t
  /\ alive' = alive \ ({process} \ {t})
  /\ gate' = GateAfter(t)
  /\ UNCHANGED address

StartFails(t) ==
  /\ t \notin alive \/ "startup" \in Failures
  /\ Fail(t, "starting")
  /\ alive' = alive \ {t}
  /\ UNCHANGED <<process, address>>

EngineWork(t) ==
  \/ Look(t) \/ Probe(t) \/ StopAtAddress(t) \/ LockGate(t) \/ TakeAndStop(t)
  \/ Spawn(t) \/ Install(t) \/ StartFails(t)

(* Mutant: a child that is starting survives the call that started it. *)
DropCallOnly(t) ==
  /\ step' = [step EXCEPT ![t] = "failed"]
  /\ gate' = GateAfter(t)
  /\ UNCHANGED <<process, alive, address>>

(* The future of the call is dropped: the gate guard is released and a child  *)
(* that is not yet stored is killed.                                          *)
DropCall(t) ==
  /\ step' = [step EXCEPT ![t] = "failed"]
  /\ gate' = GateAfter(t)
  /\ alive' = IF step[t] = "starting" THEN alive \ {t} ELSE alive
  /\ UNCHANGED <<process, address>>

(* A child exits by itself. *)
Crash ==
  /\ "crash" \in Failures
  /\ \E t \in alive : alive' = alive \ {t}
  /\ UNCHANGED <<process, gate, step, address>>

-----------------------------------------------------------------------------
(* Properties *)

(* However requests, probes, cancellations and disconnects overlap, a running *)
(* whisper.cpp child is the current one or the one the holder of the gate is  *)
(* starting, and a child never becomes current while another one is: the      *)
(* worker does not leak engine processes.                                     *)
EngineHasOwner ==
  /\ alive \subseteq {process} \cup { t \in Tasks : step[t] = "starting" }
  /\ \A t \in Tasks : step[t] = "starting" => gate = t /\ process = NoTask

(* The start gate is held exactly by the call that is inside it, so a dropped *)
(* handler never leaves it locked.                                            *)
GateHasOwner ==
  \A t \in Tasks : gate = t <=> step[t] \in UnderGate
=============================================================================
