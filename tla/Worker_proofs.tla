---------------------------- MODULE Worker_proofs ----------------------------
(* Proofs about the packaged worker, for any number of requests,              *)
(* cancellations and probes and any set of failures, and about the provider   *)
(* of the desktop that starts and stops it.                                   *)
EXTENDS Worker, LocalProvider, TLAPS

(* What a call that is under the gate may rely on although others look at the *)
(* process, and stop it, without the gate: no other child becomes current.    *)
(* Without it EngineHasOwner is not inductive: a call could start a child     *)
(* next to the one that another call has installed since it looked.           *)
StartsAlone ==
  \A t \in Tasks :
    /\ step[t] = "start" => process = NoTask
    /\ step[t] \in {"reprobe", "restop"} => process \in {NoTask, address[t]}

EngineInv == EngineTypeOK /\ GateHasOwner /\ EngineHasOwner /\ StartsAlone

-----------------------------------------------------------------------------
(* The engine *)

(* A worker starts without a child and with the gate free. *)
LEMMA EngineInitInv == EngineInit => EngineInv
BY NoTaskAssumption
DEF EngineInit, EngineInv, EngineTypeOK, GateHasOwner, EngineHasOwner, StartsAlone,
    MaybeTask, EngineStep, UnderGate

(* A step that leaves the engine alone keeps what is known of it. *)
LEMMA EngineUnchanged == EngineInv /\ UNCHANGED engineVars => EngineInv'
BY DEF engineVars, EngineInv, EngineTypeOK, GateHasOwner, EngineHasOwner, StartsAlone

(* Every step of an engine call, in any order with those of other calls.     *)
LEMMA EngineStepInv ==
  ASSUME EngineInv, NEW t \in Tasks,
         \/ EnsureRunning(t) \/ StopAndRestart(t) \/ EngineWork(t) \/ DropCall(t)
  PROVE  EngineInv'
<1> USE NoTaskAssumption
    DEF EngineInv, EngineTypeOK, GateHasOwner, EngineHasOwner, StartsAlone,
        MaybeTask, EngineStep, UnderGate, Goto, Fail, GateAfter
<1>1. CASE EnsureRunning(t)
  BY <1>1 DEF EnsureRunning
<1>2. CASE StopAndRestart(t)
  BY <1>2 DEF StopAndRestart
<1>3. CASE Look(t)
  BY <1>3 DEF Look
<1>4. CASE Probe(t)
  BY <1>4 DEF Probe
<1>5. CASE StopAtAddress(t)
  BY <1>5 DEF StopAtAddress
<1>6. CASE LockGate(t)
  BY <1>6 DEF LockGate
<1>7. CASE TakeAndStop(t)
  BY <1>7 DEF TakeAndStop
<1>8. CASE Spawn(t)
  BY <1>8 DEF Spawn
<1>9. CASE Install(t)
  BY <1>9 DEF Install
<1>10. CASE StartFails(t)
  BY <1>10 DEF StartFails
<1>11. CASE DropCall(t)
  BY <1>11 DEF DropCall
<1> QED
  BY <1>1, <1>2, <1>3, <1>4, <1>5, <1>6, <1>7, <1>8, <1>9, <1>10, <1>11 DEF EngineWork

(* A child that exits by itself leaves the others with their owners. *)
LEMMA CrashInv == EngineInv /\ Crash => EngineInv'
BY NoTaskAssumption
DEF Crash, EngineInv, EngineTypeOK, GateHasOwner, EngineHasOwner, StartsAlone, MaybeTask

-----------------------------------------------------------------------------
(* The worker *)

(* A cancellation that goes on has found a token. *)
TokenFound ==
  \A c \in CancelCalls : handler[c] = "token" => lookedUp[c] \in Requests

(* The inductive invariant: the engine's, the types, the owner of the permit  *)
(* and what a cancellation knows of its token.                                *)
WorkerInv == TypeOK /\ PermitHasOwner /\ TokenFound /\ EngineInv

(* A worker starts with the permit free and nothing registered. *)
LEMMA WorkerInitInv == Init => WorkerInv
<1> SUFFICES ASSUME Init PROVE WorkerInv
  OBVIOUS
<1>1. EngineInv
  BY EngineInitInv DEF Init
<1>2. TypeOK
  BY <1>1 DEF Init, TypeOK, EngineInv, MaybeRequest, HandlerPC, Answer
<1>3. PermitHasOwner
  BY NoTaskAssumption, TasksAssumption DEF Init, PermitHasOwner
<1>4. TokenFound
  BY TasksAssumption DEF Init, TokenFound
<1> QED
  BY <1>1, <1>2, <1>3, <1>4 DEF WorkerInv

(* Whatever a handler does, it does to the engine one engine step or none.    *)
LEMMA NextKeepsEngine ==
  ASSUME WorkerInv, [Next]_vars
  PROVE  EngineInv'
<1> USE DEF WorkerInv
<1>1. ASSUME NEW t \in Tasks, TaskStep(t)
      PROVE  \/ UNCHANGED engineVars
             \/ EnsureRunning(t) \/ StopAndRestart(t) \/ EngineWork(t)
  BY <1>1
  DEF TaskStep, RequestStep, CancelStep, ProbeStep, EngineCall, Admit, ReadBody, Register,
      EngineTranscribe, Infer, ReleasePermit, UnregisterRequest, Reply, CancelLookup,
      CancelToken, CancelReply, ProbeBegin, ProbeReply
<1>2. ASSUME NEW t \in Tasks, Disconnect(t)
      PROVE  UNCHANGED engineVars \/ DropCall(t)
  BY <1>2 DEF Disconnect
<1>3. CASE UNCHANGED vars
  BY <1>3, EngineUnchanged DEF vars
<1>4. CASE Crash
  BY <1>4, CrashInv
<1>5. ASSUME NEW t \in Tasks, TaskStep(t) \/ Disconnect(t)
      PROVE  EngineInv'
  BY <1>1, <1>2, <1>5, EngineStepInv, EngineUnchanged
<1> QED
  BY <1>3, <1>4, <1>5 DEF Next

(* Every step of the worker keeps the types. *)
LEMMA NextKeepsTypes ==
  ASSUME WorkerInv, [Next]_vars
  PROVE  TypeOK'
<1>1. EngineTypeOK'
  BY NextKeepsEngine DEF EngineInv
<1> USE TasksAssumption, IdAssumption DEF WorkerInv, TypeOK, MaybeRequest, HandlerPC, Answer,
    At, Respond, Continue
<1>2. ASSUME NEW r \in Requests, RequestStep(r)
      PROVE  TypeOK'
  BY <1>1, <1>2
  DEF RequestStep, Admit, ReadBody, Register, EngineTranscribe, Infer, ReleasePermit,
      UnregisterRequest, Reply
<1>3. ASSUME NEW c \in CancelCalls, CancelStep(c)
      PROVE  TypeOK'
  BY <1>1, <1>3 DEF TokenFound, CancelStep, CancelLookup, CancelToken, CancelReply
<1>4. ASSUME NEW h \in Probes, ProbeStep(h)
      PROVE  TypeOK'
  BY <1>1, <1>4 DEF ProbeStep, ProbeBegin, ProbeReply
<1>5. ASSUME UNCHANGED workerVars
      PROVE  TypeOK'
  BY <1>1, <1>5 DEF workerVars
<1>6. ASSUME NEW t \in Tasks, Disconnect(t)
      PROVE  TypeOK'
  BY <1>1, <1>6 DEF Disconnect
<1> QED
  BY <1>2, <1>3, <1>4, <1>5, <1>6 DEF Next, TaskStep, EngineCall, vars

(* The permit moves only with the request that holds it: acquired by transcribe, *)
(* given back after the engine call, on an error or when the handler is dropped. *)
LEMMA NextKeepsPermit ==
  ASSUME WorkerInv, [Next]_vars
  PROVE  PermitHasOwner'
<1> USE NoTaskAssumption, TasksAssumption DEF WorkerInv, TypeOK, PermitHasOwner, MaybeRequest,
    At, Respond, Continue
<1>1. ASSUME NEW r \in Requests, RequestStep(r)
      PROVE  PermitHasOwner'
  BY <1>1
  DEF RequestStep, Admit, ReadBody, Register, EngineTranscribe, Infer, ReleasePermit,
      UnregisterRequest, Reply
<1>2. ASSUME NEW c \in CancelCalls, CancelStep(c)
      PROVE  PermitHasOwner'
  BY <1>2 DEF CancelStep, CancelLookup, CancelToken, CancelReply
<1>3. ASSUME NEW h \in Probes, ProbeStep(h)
      PROVE  PermitHasOwner'
  BY <1>3 DEF ProbeStep, ProbeBegin, ProbeReply
<1>4. ASSUME UNCHANGED workerVars
      PROVE  PermitHasOwner'
  BY <1>4 DEF workerVars
<1>5. ASSUME NEW t \in Tasks, Disconnect(t)
      PROVE  PermitHasOwner'
  BY <1>5 DEF Disconnect
<1> QED
  BY <1>1, <1>2, <1>3, <1>4, <1>5 DEF Next, TaskStep, EngineCall, vars

(* Between its lookup and token.cancel() a cancellation keeps the token it cloned. *)
LEMMA NextKeepsTokenFound ==
  ASSUME WorkerInv, [Next]_vars
  PROVE  TokenFound'
<1> USE NoTaskAssumption, TasksAssumption DEF WorkerInv, TypeOK, TokenFound, MaybeRequest,
    At, Respond, Continue
<1>1. ASSUME NEW r \in Requests, RequestStep(r)
      PROVE  TokenFound'
  BY <1>1
  DEF RequestStep, Admit, ReadBody, Register, EngineTranscribe, Infer, ReleasePermit,
      UnregisterRequest, Reply
<1>2. ASSUME NEW c \in CancelCalls, CancelStep(c)
      PROVE  TokenFound'
  BY <1>2 DEF CancelStep, CancelLookup, CancelToken, CancelReply
<1>3. ASSUME NEW h \in Probes, ProbeStep(h)
      PROVE  TokenFound'
  BY <1>3 DEF ProbeStep, ProbeBegin, ProbeReply
<1>4. ASSUME UNCHANGED workerVars
      PROVE  TokenFound'
  BY <1>4 DEF workerVars
<1>5. ASSUME NEW t \in Tasks, Disconnect(t)
      PROVE  TokenFound'
  BY <1>5 DEF Disconnect
<1> QED
  BY <1>1, <1>2, <1>3, <1>4, <1>5 DEF Next, TaskStep, EngineCall, vars

(* The inductive invariant holds in every state the worker reaches, however   *)
(* its handlers interleave, fail or are dropped.                              *)
THEOREM WorkerInvariant == Spec => []WorkerInv
<1>1. WorkerInv /\ [Next]_vars => WorkerInv'
  BY NextKeepsEngine, NextKeepsTypes, NextKeepsPermit, NextKeepsTokenFound DEF WorkerInv
<1> QED
  BY WorkerInitInv, <1>1, PTL DEF Spec

(* Every variable of the worker and of its engine keeps its type. *)
THEOREM WorkerTypeCorrect == Spec => []TypeOK
BY WorkerInvariant, PTL DEF WorkerInv

(* ensure_running and stop_and_restart never leave a whisper.cpp child behind *)
(* that is neither current nor being started under the gate.                  *)
THEOREM NoOrphanEngine == Spec => []EngineHasOwner
BY WorkerInvariant, PTL DEF WorkerInv, EngineInv

(* start_gate is held by a call inside it and by nobody else, dropped calls included. *)
THEOREM GateIsReleased == Spec => []GateHasOwner
BY WorkerInvariant, PTL DEF WorkerInv, EngineInv

(* The permit of active_request belongs to the one request in the worker from *)
(* its admission to the end of its inference, also if its client goes away.   *)
THEOREM PermitOwnership == Spec => []PermitHasOwner
BY WorkerInvariant, PTL DEF WorkerInv

-----------------------------------------------------------------------------
(* Who a token belongs to *)

(* The handler is between register_request and unregister_request. *)
Registered == {"engine", "infer", "release", "unregister"}

(* A registered request finds its id taken and is the only one with that id:  *)
(* the permit alone does not say so, because it is given back before the id.  *)
OneRegistered ==
  /\ \A r \in Requests : handler[r] \in Registered => tokens[IdOf[r]] # NoTask
  /\ \A r, s \in Requests :
       handler[r] \in Registered /\ handler[s] \in Registered /\ IdOf[r] = IdOf[s]
         => r = s

(* A token that no registered request has left is one that a dropped handler  *)
(* has left behind.                                                           *)
TokenTraceable ==
  \A i \in Ids :
    tokens[i] # NoTask =>
      \E r \in Requests : IdOf[r] = i /\ (handler[r] \in Registered \/ answer[r] = "gone")

GoneByDisconnect ==
  \A t \in Tasks : answer[t] = "gone" => handler[t] = "done" /\ "disconnect" \in Failures

TokenInv == OneRegistered /\ TokenTraceable /\ GoneByDisconnect

(* A token of another request is put under an id only by a second request     *)
(* with the id, which register_request then refuses: the first one is still   *)
(* there, and it is the one that removes the token.                           *)
LEMMA NextKeepsTokens ==
  ASSUME WorkerInv, TokenInv, [Next]_vars
  PROVE  TokenInv'
<1> USE NoTaskAssumption, TasksAssumption, IdAssumption
    DEF WorkerInv, TypeOK, PermitHasOwner, TokenInv, OneRegistered, TokenTraceable,
        GoneByDisconnect, Registered, MaybeRequest, At, Respond, Continue
<1>1. ASSUME NEW r \in Requests, Admit(r) \/ ReadBody(r) \/ Infer(r)
                                 \/ EngineTranscribe(r) \/ ReleasePermit(r) \/ Reply(r)
      PROVE  TokenInv'
  <2>1. /\ UNCHANGED tokens
        /\ \A t \in Tasks \ {r} : handler'[t] = handler[t] /\ answer'[t] = answer[t]
        /\ handler'[r] \in Registered <=> handler[r] \in Registered
        /\ answer[r] # "gone" /\ answer'[r] # "gone"
    BY <1>1 DEF Admit, ReadBody, Infer, EngineTranscribe, ReleasePermit, Reply
  <2> QED
    BY <2>1
<1>2. ASSUME NEW r \in Requests, Register(r)
      PROVE  TokenInv'
  <2>1. CASE tokens[IdOf[r]] = NoTask
    BY <1>2, <2>1 DEF Register
  <2>2. CASE tokens[IdOf[r]] # NoTask
    <3>1. PICK s \in Requests : IdOf[s] = IdOf[r]
                                 /\ (handler[s] \in Registered \/ answer[s] = "gone")
      BY <2>2
    <3>2. handler[s] \in Registered => s # r
      BY <1>2 DEF Register
    <3> QED
      BY <1>2, <2>2, <3>1, <3>2 DEF Register
  <2> QED
    BY <2>1, <2>2
<1>3. ASSUME NEW r \in Requests, UnregisterRequest(r)
      PROVE  TokenInv'
  BY <1>3 DEF UnregisterRequest
<1>4. ASSUME NEW c \in CancelCalls, CancelStep(c)
      PROVE  TokenInv'
  BY <1>4 DEF CancelStep, CancelLookup, CancelToken, CancelReply
<1>5. ASSUME NEW h \in Probes, ProbeStep(h)
      PROVE  TokenInv'
  BY <1>5 DEF ProbeStep, ProbeBegin, ProbeReply
<1>6. ASSUME UNCHANGED workerVars
      PROVE  TokenInv'
  BY <1>6 DEF workerVars
<1>7. ASSUME NEW t \in Tasks, Disconnect(t)
      PROVE  TokenInv'
  BY <1>7 DEF Disconnect
<1> QED
  BY <1>1, <1>2, <1>3, <1>4, <1>5, <1>6, <1>7
  DEF Next, TaskStep, EngineCall, RequestStep, vars

(* Every token names a request that is registered, or whose handler was       *)
(* dropped before it could unregister.                                        *)
THEOREM TokenInvariance == Spec => [](WorkerInv /\ TokenInv)
<1>1. Init => TokenInv
  BY NoTaskAssumption, TasksAssumption, IdAssumption
  DEF Init, TokenInv, OneRegistered, TokenTraceable, GoneByDisconnect, Registered
<1>2. WorkerInv /\ TokenInv /\ [Next]_vars => TokenInv'
  BY NextKeepsTokens
<1> QED
  BY WorkerInvariant, <1>1, <1>2, PTL DEF Spec

(* As long as clients wait for their answers, a token names a request that is *)
(* being processed, so a cancellation that finds one is never too late.  With *)
(* disconnects it is false: the dropped handler does not unregister.          *)
THEOREM TokenOwnership == Spec => []("disconnect" \notin Failures => TokenHasOwner)
<1>1. TypeOK /\ TokenInv => ("disconnect" \notin Failures => TokenHasOwner)
  BY TasksAssumption DEF TokenInv, TokenTraceable, GoneByDisconnect, Registered, TokenHasOwner
<1> QED
  BY TokenInvariance, <1>1, PTL DEF WorkerInv

-----------------------------------------------------------------------------
(* Requests that nobody cancels *)

(* Clients may be refused, send invalid bodies and go away; the engine works. *)
EngineWorks == Failures \subseteq {"rate", "body", "disconnect"}

(* No call stops the current child, so what a call has looked up stays there  *)
(* until it is done: the second look under the gate and StartsAlone are why   *)
(* no two calls start a child and replace each other's.                       *)
EngineSteady ==
  /\ process # NoTask => process \in alive
  /\ \A t \in Tasks :
       /\ step[t] \notin {"stop", "restop", "restart", "take"}
       /\ step[t] \in {"probe", "reprobe", "running"} =>
            address[t] = process /\ process \in alive
       /\ step[t] = "starting" => t \in alive /\ address[t] = t
       /\ step[t] = "failed" => handler[t] = "done"

(* A request whose engine call is over has its text. *)
TextsArrive ==
  \A r \in Requests :
    /\ handler[r] \in {"release", "unregister", "reply"} => r \in text
    /\ answer[r] # "failed"

Undisturbed == EngineWorks /\ cancelled = {} => EngineSteady /\ TextsArrive

(* A token stays cancelled. *)
LEMMA CancelledGrows ==
  ASSUME [Next]_vars
  PROVE  cancelled \subseteq cancelled'
BY DEF Next, TaskStep, RequestStep, CancelStep, ProbeStep, EngineCall, Disconnect, vars,
    workerVars, Admit, ReadBody, Register, EngineTranscribe, Infer, ReleasePermit,
    UnregisterRequest, Reply, CancelLookup, CancelToken, CancelReply, ProbeBegin, ProbeReply

(* An engine step of a call whose handler stays leaves the current child to   *)
(* the others, whatever they are doing.                                       *)
LEMMA EngineStaysSteady ==
  ASSUME EngineInv, EngineWorks, EngineSteady, NEW t \in Tasks,
         EnsureRunning(t) \/ EngineWork(t),
         \A u \in Tasks : handler[u] = "done" => handler'[u] = "done"
  PROVE  EngineSteady'
<1> USE NoTaskAssumption
    DEF EngineInv, EngineTypeOK, GateHasOwner, EngineHasOwner, StartsAlone, EngineWorks,
        EngineSteady, MaybeTask, EngineStep, UnderGate, Goto, Fail, GateAfter
<1>1. CASE EnsureRunning(t)
  BY <1>1 DEF EnsureRunning
<1>2. CASE Look(t)
  BY <1>2 DEF Look
<1>3. CASE Probe(t)
  BY <1>3 DEF Probe
<1>4. CASE StopAtAddress(t)
  BY <1>4 DEF StopAtAddress
<1>5. CASE LockGate(t)
  BY <1>5 DEF LockGate
<1>6. CASE TakeAndStop(t)
  BY <1>6 DEF TakeAndStop
<1>7. CASE Spawn(t)
  BY <1>7 DEF Spawn
<1>8. CASE Install(t)
  <2>1. step[t] = "starting" /\ process = NoTask /\ t \in alive /\ address[t] = t
    BY <1>8 DEF Install
  <2>2. \A u \in Tasks : step[u] \notin {"probe", "reprobe", "running"}
    BY <2>1
  <2>3. process' = t /\ alive' = alive /\ address' = address
    BY <1>8, <2>1 DEF Install
  <2>4. step' = [step EXCEPT ![t] = "running"]
    BY <1>8 DEF Install
  <2> QED
    BY <2>1, <2>2, <2>3, <2>4
<1>9. CASE StartFails(t)
  BY <1>9 DEF StartFails
<1> QED
  BY <1>1, <1>2, <1>3, <1>4, <1>5, <1>6, <1>7, <1>8, <1>9 DEF EngineWork

(* A handler that is dropped kills at most the child it is starting, which    *)
(* is not the current one.                                                    *)
LEMMA DropLeavesSteady ==
  ASSUME WorkerInv, EngineSteady, NEW t \in Tasks, Disconnect(t)
  PROVE  EngineSteady'
BY NoTaskAssumption
DEF WorkerInv, TypeOK, EngineInv, EngineTypeOK, GateHasOwner, EngineHasOwner, EngineSteady,
    Disconnect, DropCall, At, Respond, MaybeTask, UnderGate, engineVars

(* While nobody cancels, no step takes the engine from another request. *)
LEMMA NextKeepsUndisturbed ==
  ASSUME WorkerInv, Undisturbed, [Next]_vars
  PROVE  Undisturbed'
<1> SUFFICES ASSUME EngineWorks, cancelled' = {}
             PROVE  EngineSteady' /\ TextsArrive'
  BY DEF Undisturbed, EngineWorks
<1>1. cancelled = {} /\ EngineSteady /\ TextsArrive
  BY CancelledGrows DEF Undisturbed
<1>2. EngineInv /\ TypeOK
  BY DEF WorkerInv
<1>3. ASSUME NEW r \in Requests, RequestStep(r)
      PROVE  EngineSteady' /\ TextsArrive'
  <2>1. r \in Tasks
    BY TasksAssumption
  <2>2. TextsArrive'
    BY <1>1, <1>2, <1>3, <2>1, TasksAssumption
    DEF TextsArrive, EngineSteady, EngineWorks, TypeOK, At, Respond, Continue, RequestStep,
        Admit, ReadBody, Register, EngineTranscribe, Infer, ReleasePermit,
        UnregisterRequest, Reply
  <2>3. \A u \in Tasks : handler[u] = "done" => handler'[u] = "done"
    BY <1>2, <1>3, <2>1
    DEF TypeOK, At, Respond, Continue, RequestStep, Admit, ReadBody, Register,
        EngineTranscribe, Infer, ReleasePermit, UnregisterRequest, Reply
  <2>4. UNCHANGED engineVars \/ EnsureRunning(r)
    BY <1>3
    DEF RequestStep, Admit, ReadBody, Register, EngineTranscribe, Infer, ReleasePermit,
        UnregisterRequest, Reply
  <2>5. EngineSteady'
    BY <1>1, <1>2, <2>1, <2>3, <2>4, EngineStaysSteady DEF EngineSteady, engineVars
  <2> QED
    BY <2>2, <2>5
<1>4. ASSUME NEW c \in CancelCalls, CancelStep(c)
      PROVE  EngineSteady' /\ TextsArrive'
  <2>1. CancelLookup(c) \/ CancelReply(c)
    BY <1>4 DEF CancelStep, CancelToken
  <2> QED
    BY <1>1, <1>2, <2>1, TasksAssumption
    DEF CancelLookup, CancelReply, At, Respond, Continue, EngineSteady, TextsArrive, TypeOK,
        engineVars
<1>5. ASSUME NEW h \in Probes, ProbeStep(h)
      PROVE  EngineSteady' /\ TextsArrive'
  <2>1. h \in Tasks /\ h \notin Requests
    BY TasksAssumption
  <2>2. TextsArrive'
    BY <1>1, <1>2, <1>5, <2>1, TasksAssumption
    DEF ProbeStep, ProbeBegin, ProbeReply, At, Respond, Continue, TextsArrive, TypeOK
  <2>3. \A u \in Tasks : handler[u] = "done" => handler'[u] = "done"
    BY <1>2, <1>5, <2>1 DEF ProbeStep, ProbeBegin, ProbeReply, At, Respond, Continue, TypeOK
  <2>4. UNCHANGED engineVars \/ EnsureRunning(h)
    BY <1>5 DEF ProbeStep, ProbeBegin, ProbeReply
  <2>5. EngineSteady'
    BY <1>1, <1>2, <2>1, <2>3, <2>4, EngineStaysSteady DEF EngineSteady, engineVars
  <2> QED
    BY <2>2, <2>5
<1>6. ASSUME NEW t \in Tasks, EngineCall(t)
      PROVE  EngineSteady' /\ TextsArrive'
  BY <1>1, <1>2, <1>6, EngineStaysSteady DEF EngineCall, TextsArrive, workerVars
<1>7. ASSUME NEW t \in Tasks, Disconnect(t)
      PROVE  EngineSteady' /\ TextsArrive'
  <2>1. TextsArrive'
    BY <1>1, <1>2, <1>7, TasksAssumption DEF Disconnect, At, Respond, TextsArrive, TypeOK
  <2> QED
    BY <1>1, <1>7, <2>1, DropLeavesSteady
<1>8. CASE Crash /\ UNCHANGED workerVars
  BY <1>8 DEF Crash, EngineWorks
<1>9. CASE UNCHANGED vars
  BY <1>1, <1>9 DEF vars, engineVars, workerVars, EngineSteady, TextsArrive
<1> QED
  BY <1>3, <1>4, <1>5, <1>6, <1>7, <1>8, <1>9 DEF Next, TaskStep

(* Until somebody cancels, and while the engine works, no request is answered *)
(* with a failure, whatever the other handlers do and whenever clients go     *)
(* away.  After a cancellation it is false: stop_and_restart takes the child  *)
(* from whoever uses it, so the cancelled request may not be the one it fails. *)
THEOREM OthersAreUndisturbed ==
  Spec => [](EngineWorks => FailsOnlyAfterCancellation)
<1>1. Init => Undisturbed
  BY TasksAssumption
  DEF Init, EngineInit, Undisturbed, EngineSteady, TextsArrive
<1>2. WorkerInv /\ Undisturbed /\ [Next]_vars => Undisturbed'
  BY NextKeepsUndisturbed
<1>3. Undisturbed => (EngineWorks => FailsOnlyAfterCancellation)
  BY DEF Undisturbed, TextsArrive, FailsOnlyAfterCancellation
<1> QED
  BY WorkerInvariant, <1>1, <1>2, <1>3, PTL DEF Spec

-----------------------------------------------------------------------------
(* The provider of the desktop that starts and stops the packaged worker, for  *)
(* any number of calls, of children and of failures.  Each lemma shows that    *)
(* one step keeps one part of ProviderInv, action by action.                   *)

(* Every operation of the provider starts without a child and with the gate   *)
(* free, so the invariant holds at the beginning.                              *)
LEMMA ProviderInitInv == ProviderInit => ProviderInv
  BY ProviderAssumption
  DEF ProviderInit, ProviderInv, ProviderTypeOK, StartGateHasOwner, NothingStored,
      ChildIsOwn, ChildHasOwner, ClientKeepsWorker, CallAt, PCs, Gated, Starting

(* Every step of provider() and shutdown(), and an exit of the child, keeps    *)
(* the types.                                                                  *)
LEMMA CallKeepsTypes == ProviderInv /\ [ProviderNext]_providerVars => ProviderTypeOK'
<1> SUFFICES ASSUME ProviderInv, [ProviderNext]_providerVars PROVE ProviderTypeOK'
  OBVIOUS
<1> USE ProviderAssumption
    DEF ProviderInv, ProviderTypeOK, CallAt, MoveTo, Fault, PCs, Gated, Starting
<1>1. ASSUME NEW c \in Calls, Enter(c) \/ EnterShutdown(c) PROVE ProviderTypeOK'
  BY <1>1 DEF Enter, EnterShutdown
<1>2. ASSUME NEW c \in Calls, LookFirst(c) PROVE ProviderTypeOK'
  BY <1>2 DEF LookFirst
<1>3. ASSUME NEW c \in Calls, Lock(c) PROVE ProviderTypeOK'
  BY <1>3 DEF Lock
<1>4. ASSUME NEW c \in Calls, LookAgain(c) PROVE ProviderTypeOK'
  BY <1>4 DEF LookAgain
<1>5. ASSUME NEW c \in Calls, Check(c) PROVE ProviderTypeOK'
  BY <1>5 DEF Check
<1>6. ASSUME NEW c \in Calls, SpawnWorker(c) PROVE ProviderTypeOK'
  BY <1>6 DEF SpawnWorker
<1>7. ASSUME NEW c \in Calls, Handoff(c) PROVE ProviderTypeOK'
  BY <1>7 DEF Handoff, Abandon
<1>8. ASSUME NEW c \in Calls, Poll(c) PROVE ProviderTypeOK'
  BY <1>8 DEF Poll, Abandon
<1>9. ASSUME NEW c \in Calls, Request(c) PROVE ProviderTypeOK'
  BY <1>9 DEF Request
<1>10. ASSUME NEW c \in Calls, Take(c) PROVE ProviderTypeOK'
  BY <1>10 DEF Take
<1>11. ASSUME NEW c \in Calls, Kill(c) PROVE ProviderTypeOK'
  BY <1>11 DEF Kill
<1>12. ASSUME NEW k \in Children, ChildExits(k) PROVE ProviderTypeOK'
  BY <1>12 DEF ChildExits
<1>13. CASE UNCHANGED providerVars
  BY <1>13 DEF providerVars
<1> QED
  BY <1>1, <1>2, <1>3, <1>4, <1>5, <1>6, <1>7, <1>8, <1>9, <1>10, <1>11, <1>12, <1>13
  DEF ProviderNext, Step

(* Whoever leaves the gated part of provider() or shutdown(), by a result or   *)
(* an error, gives the start gate back.                                        *)
LEMMA CallKeepsGate == ProviderInv /\ [ProviderNext]_providerVars => StartGateHasOwner'
<1> SUFFICES ASSUME ProviderInv, [ProviderNext]_providerVars PROVE StartGateHasOwner'
  OBVIOUS
<1> USE ProviderAssumption
    DEF ProviderInv, ProviderTypeOK, StartGateHasOwner, CallAt, MoveTo, Fault, PCs, Gated,
        Starting
<1>1. ASSUME NEW c \in Calls, Enter(c) \/ EnterShutdown(c) PROVE StartGateHasOwner'
  BY <1>1 DEF Enter, EnterShutdown
<1>2. ASSUME NEW c \in Calls, LookFirst(c) PROVE StartGateHasOwner'
  BY <1>2 DEF LookFirst
<1>3. ASSUME NEW c \in Calls, Lock(c) PROVE StartGateHasOwner'
  BY <1>3 DEF Lock
<1>4. ASSUME NEW c \in Calls, LookAgain(c) PROVE StartGateHasOwner'
  BY <1>4 DEF LookAgain
<1>5. ASSUME NEW c \in Calls, Check(c) PROVE StartGateHasOwner'
  BY <1>5 DEF Check
<1>6. ASSUME NEW c \in Calls, SpawnWorker(c) PROVE StartGateHasOwner'
  BY <1>6 DEF SpawnWorker
<1>7. ASSUME NEW c \in Calls, Handoff(c) PROVE StartGateHasOwner'
  BY <1>7 DEF Handoff, Abandon
<1>8. ASSUME NEW c \in Calls, Poll(c) PROVE StartGateHasOwner'
  BY <1>8 DEF Poll, Abandon
<1>9. ASSUME NEW c \in Calls, Request(c) PROVE StartGateHasOwner'
  BY <1>9 DEF Request
<1>10. ASSUME NEW c \in Calls, Take(c) PROVE StartGateHasOwner'
  BY <1>10 DEF Take
<1>11. ASSUME NEW c \in Calls, Kill(c) PROVE StartGateHasOwner'
  BY <1>11 DEF Kill
<1>12. ASSUME NEW k \in Children, ChildExits(k) PROVE StartGateHasOwner'
  BY <1>12 DEF ChildExits
<1>13. CASE UNCHANGED providerVars
  BY <1>13 DEF providerVars
<1> QED
  BY <1>1, <1>2, <1>3, <1>4, <1>5, <1>6, <1>7, <1>8, <1>9, <1>10, <1>11, <1>12, <1>13
  DEF ProviderNext, Step

(* While a child is started or killed nobody else can store one: only the     *)
(* holder of the gate writes `started`, apart from a look that forgets it.     *)
LEMMA CallKeepsStored == ProviderInv /\ [ProviderNext]_providerVars => NothingStored'
<1> SUFFICES ASSUME ProviderInv, [ProviderNext]_providerVars PROVE NothingStored'
  OBVIOUS
<1> USE ProviderAssumption
    DEF ProviderInv, ProviderTypeOK, StartGateHasOwner, NothingStored, ChildIsOwn, CallAt,
        MoveTo, Fault, PCs, Gated, Starting
<1>1. ASSUME NEW c \in Calls, Enter(c) \/ EnterShutdown(c) PROVE NothingStored'
  BY <1>1 DEF Enter, EnterShutdown
<1>2. ASSUME NEW c \in Calls, LookFirst(c) PROVE NothingStored'
  BY <1>2 DEF LookFirst
<1>3. ASSUME NEW c \in Calls, Lock(c) PROVE NothingStored'
  BY <1>3 DEF Lock
<1>4. ASSUME NEW c \in Calls, LookAgain(c) PROVE NothingStored'
  BY <1>4 DEF LookAgain
<1>5. ASSUME NEW c \in Calls, Check(c) PROVE NothingStored'
  BY <1>5 DEF Check
<1>6. ASSUME NEW c \in Calls, SpawnWorker(c) PROVE NothingStored'
  BY <1>6 DEF SpawnWorker, Known
<1>7. ASSUME NEW c \in Calls, Handoff(c) PROVE NothingStored'
  BY <1>7 DEF Handoff, Abandon
<1>8. ASSUME NEW c \in Calls, Poll(c) PROVE NothingStored'
  BY <1>8 DEF Poll, Abandon
<1>9. ASSUME NEW c \in Calls, Request(c) PROVE NothingStored'
  BY <1>9 DEF Request
<1>10. ASSUME NEW c \in Calls, Take(c) PROVE NothingStored'
  BY <1>10 DEF Take
<1>11. ASSUME NEW c \in Calls, Kill(c) PROVE NothingStored'
  BY <1>11 DEF Kill
<1>12. ASSUME NEW k \in Children, ChildExits(k) PROVE NothingStored'
  BY <1>12 DEF ChildExits
<1>13. CASE UNCHANGED providerVars
  BY <1>13 DEF providerVars
<1> QED
  BY <1>1, <1>2, <1>3, <1>4, <1>5, <1>6, <1>7, <1>8, <1>9, <1>10, <1>11, <1>12, <1>13
  DEF ProviderNext, Step

(* A new process id differs from every one a call still knows, and a child is  *)
(* handed out only once it is stored.                                          *)
LEMMA CallKeepsOwn == ProviderInv /\ [ProviderNext]_providerVars => ChildIsOwn'
<1> SUFFICES ASSUME ProviderInv, [ProviderNext]_providerVars PROVE ChildIsOwn'
  OBVIOUS
<1> USE ProviderAssumption
    DEF ProviderInv, ProviderTypeOK, StartGateHasOwner, NothingStored, ChildIsOwn, CallAt,
        MoveTo, Fault, PCs, Gated, Starting
<1>1. ASSUME NEW c \in Calls, Enter(c) \/ EnterShutdown(c) PROVE ChildIsOwn'
  BY <1>1 DEF Enter, EnterShutdown
<1>2. ASSUME NEW c \in Calls, LookFirst(c) PROVE ChildIsOwn'
  BY <1>2 DEF LookFirst
<1>3. ASSUME NEW c \in Calls, Lock(c) PROVE ChildIsOwn'
  BY <1>3 DEF Lock
<1>4. ASSUME NEW c \in Calls, LookAgain(c) PROVE ChildIsOwn'
  BY <1>4 DEF LookAgain
<1>5. ASSUME NEW c \in Calls, Check(c) PROVE ChildIsOwn'
  BY <1>5 DEF Check
<1>6. ASSUME NEW c \in Calls, SpawnWorker(c) PROVE ChildIsOwn'
  BY <1>6 DEF SpawnWorker, Known
<1>7. ASSUME NEW c \in Calls, Handoff(c) PROVE ChildIsOwn'
  BY <1>7 DEF Handoff, Abandon
<1>8. ASSUME NEW c \in Calls, Poll(c) PROVE ChildIsOwn'
  BY <1>8 DEF Poll, Abandon
<1>9. ASSUME NEW c \in Calls, Request(c) PROVE ChildIsOwn'
  BY <1>9 DEF Request
<1>10. ASSUME NEW c \in Calls, Take(c) PROVE ChildIsOwn'
  BY <1>10 DEF Take
<1>11. ASSUME NEW c \in Calls, Kill(c) PROVE ChildIsOwn'
  BY <1>11 DEF Kill
<1>12. ASSUME NEW k \in Children, ChildExits(k) PROVE ChildIsOwn'
  BY <1>12 DEF ChildExits
<1>13. CASE UNCHANGED providerVars
  BY <1>13 DEF providerVars
<1> QED
  BY <1>1, <1>2, <1>3, <1>4, <1>5, <1>6, <1>7, <1>8, <1>9, <1>10, <1>11, <1>12, <1>13
  DEF ProviderNext, Step

(* A running child is stored, or belongs to the call that starts or kills it:  *)
(* an error return drops it, and shutdown takes it over.                       *)
LEMMA CallKeepsOwner == ProviderInv /\ [ProviderNext]_providerVars => ChildHasOwner'
<1> SUFFICES ASSUME ProviderInv, [ProviderNext]_providerVars PROVE ChildHasOwner'
  OBVIOUS
<1> USE ProviderAssumption
    DEF ProviderInv, ProviderTypeOK, StartGateHasOwner, NothingStored, ChildIsOwn,
        ChildHasOwner, CallAt, MoveTo, Fault, PCs, Gated, Starting
<1>1. ASSUME NEW c \in Calls, Enter(c) \/ EnterShutdown(c) PROVE ChildHasOwner'
  BY <1>1 DEF Enter, EnterShutdown
<1>2. ASSUME NEW c \in Calls, LookFirst(c) PROVE ChildHasOwner'
  BY <1>2 DEF LookFirst
<1>3. ASSUME NEW c \in Calls, Lock(c) PROVE ChildHasOwner'
  BY <1>3 DEF Lock
<1>4. ASSUME NEW c \in Calls, LookAgain(c) PROVE ChildHasOwner'
  BY <1>4 DEF LookAgain
<1>5. ASSUME NEW c \in Calls, Check(c) PROVE ChildHasOwner'
  BY <1>5 DEF Check
<1>6. ASSUME NEW c \in Calls, SpawnWorker(c) PROVE ChildHasOwner'
  BY <1>6 DEF SpawnWorker, Known
<1>7. ASSUME NEW c \in Calls, Handoff(c) PROVE ChildHasOwner'
  BY <1>7 DEF Handoff, Abandon
<1>8. ASSUME NEW c \in Calls, Poll(c) PROVE ChildHasOwner'
  BY <1>8 DEF Poll, Abandon
<1>9. ASSUME NEW c \in Calls, Request(c) PROVE ChildHasOwner'
  BY <1>9 DEF Request
<1>10. ASSUME NEW c \in Calls, Take(c) PROVE ChildHasOwner'
  BY <1>10 DEF Take
<1>11. ASSUME NEW c \in Calls, Kill(c) PROVE ChildHasOwner'
  BY <1>11 DEF Kill
<1>12. ASSUME NEW k \in Children, ChildExits(k) PROVE ChildHasOwner'
  BY <1>12 DEF ChildExits
<1>13. CASE UNCHANGED providerVars
  BY <1>13 DEF providerVars
<1> QED
  BY <1>1, <1>2, <1>3, <1>4, <1>5, <1>6, <1>7, <1>8, <1>9, <1>10, <1>11, <1>12, <1>13
  DEF ProviderNext, Step

(* The child of a client that was handed out is killed only by shutdown.       *)
LEMMA CallKeepsClient == ProviderInv /\ [ProviderNext]_providerVars => ClientKeepsWorker'
<1> SUFFICES ASSUME ProviderInv, [ProviderNext]_providerVars PROVE ClientKeepsWorker'
  OBVIOUS
<1> USE ProviderAssumption
    DEF ProviderInv, ProviderTypeOK, StartGateHasOwner, NothingStored, ChildIsOwn,
        ClientKeepsWorker, CallAt, MoveTo, Fault, PCs, Gated, Starting
<1>1. ASSUME NEW c \in Calls, Enter(c) \/ EnterShutdown(c) PROVE ClientKeepsWorker'
  BY <1>1 DEF Enter, EnterShutdown
<1>2. ASSUME NEW c \in Calls, LookFirst(c) PROVE ClientKeepsWorker'
  BY <1>2 DEF LookFirst
<1>3. ASSUME NEW c \in Calls, Lock(c) PROVE ClientKeepsWorker'
  BY <1>3 DEF Lock
<1>4. ASSUME NEW c \in Calls, LookAgain(c) PROVE ClientKeepsWorker'
  BY <1>4 DEF LookAgain
<1>5. ASSUME NEW c \in Calls, Check(c) PROVE ClientKeepsWorker'
  BY <1>5 DEF Check
<1>6. ASSUME NEW c \in Calls, SpawnWorker(c) PROVE ClientKeepsWorker'
  BY <1>6 DEF SpawnWorker, Known
<1>7. ASSUME NEW c \in Calls, Handoff(c) PROVE ClientKeepsWorker'
  BY <1>7 DEF Handoff, Abandon
<1>8. ASSUME NEW c \in Calls, Poll(c) PROVE ClientKeepsWorker'
  BY <1>8 DEF Poll, Abandon
<1>9. ASSUME NEW c \in Calls, Request(c) PROVE ClientKeepsWorker'
  BY <1>9 DEF Request
<1>10. ASSUME NEW c \in Calls, Take(c) PROVE ClientKeepsWorker'
  BY <1>10 DEF Take
<1>11. ASSUME NEW c \in Calls, Kill(c) PROVE ClientKeepsWorker'
  BY <1>11 DEF Kill
<1>12. ASSUME NEW k \in Children, ChildExits(k) PROVE ClientKeepsWorker'
  BY <1>12 DEF ChildExits
<1>13. CASE UNCHANGED providerVars
  BY <1>13 DEF providerVars
<1> QED
  BY <1>1, <1>2, <1>3, <1>4, <1>5, <1>6, <1>7, <1>8, <1>9, <1>10, <1>11, <1>12, <1>13
  DEF ProviderNext, Step

(* The strengthened invariant holds in every reachable state.                  *)
THEOREM ProviderInvariance == ProviderSpec => []ProviderInv
<1>1. ProviderInit => ProviderInv
  BY ProviderInitInv
<1>2. ProviderInv /\ [ProviderNext]_providerVars => ProviderInv'
  BY CallKeepsTypes, CallKeepsGate, CallKeepsStored, CallKeepsOwn, CallKeepsOwner,
     CallKeepsClient
  DEF ProviderInv
<1> QED
  BY <1>1, <1>2, PTL DEF ProviderSpec

(* No worker process of provider() is left running without a call, or the      *)
(* stored entry, that will stop it.                                            *)
THEOREM NoOrphanChild == ProviderSpec => []ChildHasOwner
<1>1. ProviderInv => ChildHasOwner
  BY DEF ProviderInv
<1> QED
  BY <1>1, ProviderInvariance, PTL

(* However many calls first use the provider or shut it down at once, the      *)
(* packaged worker runs at most once: a child that runs is the stored one, or  *)
(* the one of the gate's holder, and then none is stored.                      *)
THEOREM OneWorkerProcess == ProviderSpec => []OneChild
<1>1. ProviderInv => OneChild
  <2> SUFFICES ASSUME ProviderInv, NEW j \in running, NEW k \in running PROVE j = k
    BY DEF OneChild
  <2>1. CASE started = None
    <3>1. PICK b \in Calls : child[b] = j /\ pc[b] \in Starting \cup {"kill"}
      BY <2>1, ProviderAssumption DEF ProviderInv, ProviderTypeOK, ChildHasOwner
    <3>2. PICK c \in Calls : child[c] = k /\ pc[c] \in Starting \cup {"kill"}
      BY <2>1, ProviderAssumption DEF ProviderInv, ProviderTypeOK, ChildHasOwner
    <3>3. b = c
      BY <3>1, <3>2 DEF ProviderInv, StartGateHasOwner, Gated, Starting
    <3> QED
      BY <3>1, <3>2, <3>3
  <2>2. CASE started # None
    BY <2>2 DEF ProviderInv, ChildHasOwner, NothingStored, Starting
  <2> QED
    BY <2>1, <2>2
<1> QED
  BY <1>1, ProviderInvariance, PTL

(* A client that provider() has handed out loses its worker only to an exit or *)
(* a shutdown.                                                                 *)
THEOREM ClientsKeepTheirWorker == ProviderSpec => []ClientKeepsWorker
<1>1. ProviderInv => ClientKeepsWorker
  BY DEF ProviderInv
<1> QED
  BY <1>1, ProviderInvariance, PTL
=============================================================================
