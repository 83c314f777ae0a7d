---------------------------- MODULE LocalProvider ----------------------------
(***************************************************************************)
(* LocalWhisperCppProvider (crates/providers): one provider object of a    *)
(* job, which starts the packaged worker as a child process on first use   *)
(* and stops it in shutdown.  The commands of the job (start, stop) and    *)
(* its cancellation call it concurrently.                                  *)
(*                                                                         *)
(* `started` is locked only between two awaits, so every look at it is one *)
(* step; `start_gate` is held over awaits and is a variable of its own.  A *)
(* dropped Child kills its process (kill_on_drop).  Failures (missing      *)
(* files, an outdated worker, spawn, handoff, startup timeouts, a child    *)
(* that exits) share the budget MaxFaults.                                 *)
(***************************************************************************)
EXTENDS Naturals

CONSTANTS
    Calls,      \* concurrent calls of the provider's methods
    Children,   \* process ids; the id of a child nobody knows any more is used again
    MaxFaults,  \* failures of a behaviour
    None        \* nobody, no child

ASSUME ProviderAssumption ==
    /\ MaxFaults \in Nat
    /\ None \notin Calls /\ None \notin Children

VARIABLES
    started,    \* LocalWhisperCppProvider::started
    startGate,  \* the holder of start_gate
    pc,         \* where a call stands
    child,      \* the child a call starts or stops, or the one its client talks to
    running,    \* running processes
    lost,       \* history: children that exited by themselves or were shut down
    faults

providerVars == <<started, startGate, pc, child, running, lost, faults>>

\* Between spawn and the store in `started` a call owns its child alone.
Starting == {"handoff", "poll"}

\* The states in which a call holds start_gate.
Gated == Starting \cup {"look_again", "check", "spawn", "take", "kill"}

PCs == Gated \cup {"idle", "look", "gate", "request", "shutdown"}

ProviderTypeOK ==
    /\ started \in Children \cup {None}
    /\ startGate \in Calls \cup {None}
    /\ pc \in [Calls -> PCs]
    /\ child \in [Calls -> Children \cup {None}]
    /\ running \subseteq Children
    /\ lost \subseteq Children
    /\ faults \in 0..MaxFaults

ProviderInit ==
    /\ started = None /\ startGate = None
    /\ pc = [c \in Calls |-> "idle"]
    /\ child = [c \in Calls |-> None]
    /\ running = {} /\ lost = {}
    /\ faults = 0

CallAt(c, at)   == pc[c] = at
MoveTo(c, at) == pc' = [pc EXCEPT ![c] = at]
Fault       == faults < MaxFaults /\ faults' = faults + 1

-----------------------------------------------------------------------------
(* provider(), called by every method that needs the worker                *)

\* health_check, list_models, ensure_model_ready, transcribe or cancel.
Enter(c) ==
    /\ CallAt(c, "idle")
    /\ MoveTo(c, "look")
    /\ UNCHANGED <<started, startGate, child, running, lost, faults>>

\* existing_provider, before the gate: a child that runs is used, one that
\* has exited is forgotten, one that cannot be inspected is an error.
LookFirst(c) ==
    /\ CallAt(c, "look")
    /\ \/ /\ started \in running
          /\ child' = [child EXCEPT ![c] = started]
          /\ MoveTo(c, "request")
          /\ UNCHANGED <<started, faults>>
       \/ /\ started \notin running
          /\ started' = None
          /\ MoveTo(c, "gate")
          /\ UNCHANGED <<child, faults>>
       \/ /\ started # None
          /\ MoveTo(c, "idle") /\ Fault
          /\ UNCHANGED <<started, child>>
    /\ UNCHANGED <<startGate, running, lost>>

Lock(c) ==
    /\ startGate = None
    /\ \/ CallAt(c, "gate") /\ MoveTo(c, "look_again")
       \/ CallAt(c, "shutdown") /\ MoveTo(c, "take")
    /\ startGate' = c
    /\ UNCHANGED <<started, child, running, lost, faults>>

\* Mutant: nobody looks again behind the gate.
LookOnce(c) ==
    /\ CallAt(c, "look_again")
    /\ MoveTo(c, "check")
    /\ UNCHANGED <<started, startGate, child, running, lost, faults>>

\* existing_provider again, now that nobody else can start a child.
LookAgain(c) ==
    /\ CallAt(c, "look_again")
    /\ \/ /\ started \in running
          /\ child' = [child EXCEPT ![c] = started]
          /\ MoveTo(c, "request") /\ startGate' = None
          /\ UNCHANGED <<started, faults>>
       \/ /\ started \notin running
          /\ started' = None
          /\ MoveTo(c, "check")
          /\ UNCHANGED <<child, startGate, faults>>
       \/ /\ started # None
          /\ MoveTo(c, "idle") /\ startGate' = None /\ Fault
          /\ UNCHANGED <<started, child>>
    /\ UNCHANGED <<running, lost>>

\* The three files and the worker's --build-info (3 s at most).
Check(c) ==
    /\ CallAt(c, "check")
    /\ \/ MoveTo(c, "spawn") /\ UNCHANGED <<startGate, faults>>
       \/ MoveTo(c, "idle") /\ startGate' = None /\ Fault
    /\ UNCHANGED <<started, child, running, lost>>

Known == running \cup {started} \cup {child[c] : c \in Calls}

SpawnWorker(c) ==
    /\ CallAt(c, "spawn")
    /\ \/ \E k \in Children \ Known :
            /\ running' = running \cup {k}
            /\ lost' = lost \ {k}
            /\ child' = [child EXCEPT ![c] = k]
            /\ MoveTo(c, "handoff")
            /\ UNCHANGED <<startGate, faults>>
       \/ /\ MoveTo(c, "idle") /\ startGate' = None /\ Fault
          /\ UNCHANGED <<child, running, lost>>
    /\ UNCHANGED started

\* Mutant: a dropped child keeps running.
AbandonRunning(c) ==
    /\ child' = [child EXCEPT ![c] = None]
    /\ startGate' = None
    /\ MoveTo(c, "idle")
    /\ UNCHANGED running

\* The call returns an error and drops the child it was starting.
Abandon(c) ==
    /\ running' = running \ {child[c]}
    /\ child' = [child EXCEPT ![c] = None]
    /\ startGate' = None
    /\ MoveTo(c, "idle")

\* The token goes through stdin and the bound address comes back (at most
\* startup_timeout); an exited child closes both.
Handoff(c) ==
    /\ CallAt(c, "handoff")
    /\ \/ child[c] \in running /\ MoveTo(c, "poll")
          /\ UNCHANGED <<startGate, child, running, faults>>
       \/ child[c] \notin running /\ Abandon(c) /\ UNCHANGED faults
       \/ Abandon(c) /\ Fault
    /\ UNCHANGED <<started, lost>>

\* Mutant: a worker that is not ready is asked again without a deadline.
PollForever(c) ==
    /\ CallAt(c, "poll")
    /\ \/ /\ child[c] \in running
          /\ started' = child[c]
          /\ startGate' = None
          /\ MoveTo(c, "request")
          /\ UNCHANGED <<child, running>>
       \/ MoveTo(c, "handoff") /\ UNCHANGED <<started, startGate, child, running>>
    /\ UNCHANGED <<lost, faults>>

\* The health polling ends: ready and stored, exited, or not ready in time.
Poll(c) ==
    /\ CallAt(c, "poll")
    /\ \/ /\ child[c] \in running
          /\ started' = child[c]
          /\ running' = running \ ({started} \ {child[c]})
          /\ startGate' = None
          /\ MoveTo(c, "request")
          /\ UNCHANGED <<child, faults>>
       \/ child[c] \notin running /\ Abandon(c) /\ UNCHANGED <<started, faults>>
       \/ Abandon(c) /\ Fault /\ UNCHANGED started
    /\ UNCHANGED <<lost>>

\* The request of the method itself, through the client provider() returned.
Request(c) ==
    /\ CallAt(c, "request")
    /\ child' = [child EXCEPT ![c] = None]
    /\ MoveTo(c, "idle")
    /\ UNCHANGED <<started, startGate, running, lost, faults>>

-----------------------------------------------------------------------------
(* shutdown                                                                *)

EnterShutdown(c) ==
    /\ CallAt(c, "idle")
    /\ MoveTo(c, "shutdown")
    /\ UNCHANGED <<started, startGate, child, running, lost, faults>>

Take(c) ==
    /\ CallAt(c, "take")
    /\ started' = None
    /\ child' = [child EXCEPT ![c] = started]
    /\ MoveTo(c, "kill")
    /\ UNCHANGED <<startGate, running, lost, faults>>

\* try_wait and kill; an error of either still drops, and so kills, the child.
Kill(c) ==
    /\ CallAt(c, "kill")
    /\ running' = running \ {child[c]}
    /\ lost' = lost \cup ({child[c]} \ {None})
    /\ child' = [child EXCEPT ![c] = None]
    /\ startGate' = None
    /\ MoveTo(c, "idle")
    /\ UNCHANGED <<started, faults>>

\* A worker process ends by itself.
ChildExits(k) ==
    /\ k \in running
    /\ running' = running \ {k}
    /\ lost' = lost \cup {k}
    /\ Fault
    /\ UNCHANGED <<started, startGate, pc, child>>

Step(c) ==
    \/ LookFirst(c) \/ Lock(c) \/ LookAgain(c) \/ Check(c) \/ SpawnWorker(c) \/ Handoff(c)
    \/ Poll(c) \/ Request(c) \/ Take(c) \/ Kill(c)

ProviderNext ==
    \/ \E c \in Calls : Enter(c) \/ EnterShutdown(c) \/ Step(c)
    \/ \E k \in Children : ChildExits(k)

ProviderSpec == ProviderInit /\ [][ProviderNext]_providerVars

\* Every wait of a call is bounded by a timeout, and a tokio mutex is granted
\* in the order of the requests, so a waiter is not overtaken for ever.
ProviderFairSpec ==
    /\ ProviderSpec
    /\ \A c \in Calls : WF_providerVars(Step(c)) /\ SF_providerVars(Lock(c))

-----------------------------------------------------------------------------
(* Properties                                                              *)

\* No worker process is left running without somebody who will stop it: a
\* child that runs is the stored one or belongs to the one call that starts or
\* stops it, whatever failed on the way (kill_on_drop, shutdown).
ChildHasOwner ==
    \A k \in running :
        \/ started = k
        \/ \E c \in Calls : child[c] = k /\ pc[c] \in Starting \cup {"kill"}

\* The packaged worker runs at most once per provider: look, gate and second
\* look keep concurrent first uses and a shutdown from starting two.
OneChild == \A j, k \in running : j = k

\* The gate is held exactly by the call that is inside it; an error return
\* releases it.
StartGateHasOwner == \A c \in Calls : startGate = c <=> pc[c] \in Gated

\* A client that provider() has handed out keeps its worker: only an exit of
\* the worker itself or a shutdown of the provider takes it away, never the
\* start of another child.
ClientKeepsWorker ==
    \A c \in Calls : CallAt(c, "request") => child[c] \in running \cup lost

\* Every call of the provider returns, also the ones that wait for a start in
\* progress or for a shutdown.
ProviderReturns == \A c \in Calls : []<>(pc[c] = "idle")

-----------------------------------------------------------------------------
(* What the safety properties rest on, the inductive strengthening.        *)

\* While a call starts a child or kills one, none is stored.
NothingStored ==
    \A c \in Calls : pc[c] \in Starting \cup {"check", "spawn", "kill"} => started = None

\* A call has a child exactly where its code has one in scope, and nobody else
\* knows the child that is being started.
ChildIsOwn ==
    \A c \in Calls :
        /\ pc[c] \in Starting => child[c] # None
        /\ child[c] # None => pc[c] \in Starting \cup {"kill", "request"}
        /\ \A d \in Calls \ {c} : pc[c] \in Starting => child[d] # child[c]

ProviderInv ==
    /\ ProviderTypeOK /\ StartGateHasOwner /\ NothingStored /\ ChildIsOwn
    /\ ChildHasOwner /\ ClientKeepsWorker
=============================================================================
