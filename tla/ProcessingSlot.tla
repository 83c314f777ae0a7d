--------------------------- MODULE ProcessingSlot ---------------------------
(* The inference slot of the desktop host: the `processing` entry, the        *)
(* one-place `queued` entry with its cancellation token, and the tokio Notify *)
(* that wakes the waiting job (apps/desktop/src-tauri/src/lib.rs).  Every     *)
(* operator is one critical section or one call on the Notify.                *)
EXTENDS JobIds

VARIABLES
  processing,   \* Mutex<Option<ProcessingJob>>: the job that owns the slot
  queued,       \* Mutex<Option<QueuedJob>>: the finalized job that waits
  cancelled,    \* jobs whose QueuedJob.cancellation token is cancelled
  permit,       \* Notify: a stored notify_one() nobody has consumed yet
  parked,       \* Notify: jobs whose Notified future is registered
  notified      \* the parked jobs notify_one() has picked

slotVars == <<processing, queued, cancelled, permit, parked, notified>>

SlotInit ==
  /\ processing = NoJob
  /\ queued = NoJob
  /\ cancelled = {}
  /\ permit = FALSE
  /\ parked = {}
  /\ notified = {}

(* Mutant: a second job enters the slot. *)
TakeSlotUnchecked(j) == processing' = j

(* The `processing` critical section of reserve_processing_slot. *)
TakeSlot(j) ==
  /\ processing = NoJob
  /\ processing' = j

(* The `queued` critical section of reserve_processing_slot. *)
Enqueue(j) ==
  /\ queued = NoJob
  /\ queued' = j

(* Mutant: the entry is looked at but not taken. *)
PeekQueuedJob(j) == queued = j /\ queued' = queued

(* clear_queued_job; its two Err cases are the negation of the guard. *)
ClearQueuedJob(j) ==
  /\ queued = j
  /\ queued' = NoJob

(* cancel_queued_job: cancels the token, the waiting job removes the entry. *)
CancelQueuedJob ==
  cancelled' = IF queued = NoJob THEN cancelled ELSE cancelled \cup {queued}

(* Mutant: the entry is looked at but not taken. *)
PeekProcessing(j) == processing = j /\ processing' = processing

(* clear_processing; its two Err cases are the negation of the guard. *)
ClearProcessing(j) ==
  /\ processing = j
  /\ processing' = NoJob

(* Mutant: a notification without a registered waiter is forgotten, as with   *)
(* notify_waiters.                                                            *)
NotifyOnlyRegistered(waiters) ==
  /\ permit' = permit
  /\ \/ \E w \in waiters \ notified : notified' = (notified \cap waiters) \cup {w}
     \/ waiters \subseteq notified /\ notified' = notified \cap waiters

(* Notify::notify_one: wake one registered waiter, or store one permit. *)
NotifyOneAmong(waiters) ==
  \/ \E w \in waiters \ notified :
        /\ notified' = (notified \cap waiters) \cup {w}
        /\ permit' = permit
  \/ /\ waiters \subseteq notified
     /\ notified' = notified \cap waiters
     /\ permit' = TRUE

NotifyOne ==
  /\ NotifyOneAmong(parked)
  /\ parked' = parked

(* First poll of select!{available, cancelled()}: the branches are polled in  *)
(* random order.  Ready through the stored permit; ready through the token;   *)
(* or neither is ready and the Notified future is registered.                 *)
PollPermit(j) ==
  /\ permit
  /\ permit' = FALSE
  /\ UNCHANGED <<parked, notified>>

PollToken(j) ==
  /\ j \in cancelled
  /\ UNCHANGED <<permit, parked, notified>>

Park(j) ==
  /\ ~permit
  /\ j \notin cancelled
  /\ parked' = parked \cup {j}
  /\ UNCHANGED <<permit, notified>>

(* A parked job is polled again.  If the `available` branch is polled first   *)
(* the notification is consumed, whatever the token says.                     *)
WakeNotified(j) ==
  /\ j \in parked \cap notified
  /\ parked' = parked \ {j}
  /\ notified' = notified \ {j}
  /\ permit' = permit

(* If the token's branch is polled first the Notified future is dropped, and  *)
(* tokio hands a notification it had already received to the next waiter.     *)
WakeCancelled(j) ==
  /\ j \in parked \cap cancelled
  /\ parked' = parked \ {j}
  /\ IF j \in notified
     THEN NotifyOneAmong(parked \ {j})
     ELSE UNCHANGED <<permit, notified>>
=============================================================================
