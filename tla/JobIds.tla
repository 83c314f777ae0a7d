------------------------------- MODULE JobIds -------------------------------
(* The job identifiers of free-whisper.  crates/domain gives every job a     *)
(* fresh random UUID (JobId::new), so distinct jobs never share a name; the  *)
(* Rust code writes Option<JobId>, and None is the value NoJob here.         *)

CONSTANTS
  Jobs,      \* the recordings started during one run of the desktop
  NoJob      \* Option::None where the code stores an optional job

ASSUME NoJobAssumption == NoJob \notin Jobs

MaybeJob == Jobs \cup {NoJob}
=============================================================================
