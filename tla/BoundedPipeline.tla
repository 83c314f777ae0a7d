--------------------------- MODULE BoundedPipeline ---------------------------
(* What the host promises about transcription work, as an abstract            *)
(* specification: one job owns the inference slot, at most one finalized      *)
(* recording waits behind it, and a job that finds both places taken is       *)
(* turned away.  It is BoundedJobQueue with capacity one next to the active   *)
(* job "owned by the orchestrator" (crates/application/src/lib.rs).  Nothing  *)
(* says that the waiting job is served before a newcomer.                     *)
EXTENDS JobIds

VARIABLES
  active,     \* the job that owns the inference slot
  waiting     \* the job in the one-place queue

PipelineInit ==
  /\ active = NoJob
  /\ waiting = NoJob

Start(j) ==
  /\ active = NoJob
  /\ waiting # j
  /\ active' = j
  /\ UNCHANGED waiting

Wait(j) ==
  /\ waiting = NoJob
  /\ active # j
  /\ waiting' = j
  /\ UNCHANGED active

Promote(j) ==
  /\ active = NoJob
  /\ waiting = j
  /\ active' = j
  /\ waiting' = NoJob

GiveUpWaiting(j) ==
  /\ waiting = j
  /\ waiting' = NoJob
  /\ UNCHANGED active

Finish(j) ==
  /\ active = j
  /\ active' = NoJob
  /\ UNCHANGED waiting

PipelineNext ==
  \E j \in Jobs :
    Start(j) \/ Wait(j) \/ Promote(j) \/ GiveUpWaiting(j) \/ Finish(j)

PipelineSpec == PipelineInit /\ [][PipelineNext]_<<active, waiting>>
=============================================================================
