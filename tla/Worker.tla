------------------------------- MODULE Worker -------------------------------
(* The HTTP worker of apps/worker/src/lib.rs: concurrent invocations of the   *)
(* handlers transcribe, cancel, and health or models, over the one-permit     *)
(* semaphore, the cancellation tokens by request id and the shared engine.    *)
(* A client may disconnect while its handler awaits something; axum then      *)
(* drops the handler.                                                         *)
EXTENDS WhisperEngine

CONSTANTS
  Requests,       \* the POSTs to /v1/transcriptions
  CancelCalls,    \* the POSTs to /v1/transcriptions/{id}/cancel
  Probes,         \* the GETs of /healthz and /v1/models
  Ids,            \* the request ids clients use
  IdOf            \* IdOf[r]: the id in the options of request r

ASSUME TasksAssumption ==
  /\ Tasks = Requests \cup CancelCalls \cup Probes
  /\ Requests \cap CancelCalls = {}
  /\ Requests \cap Probes = {}
  /\ CancelCalls \cap Probes = {}

ASSUME IdAssumption == IdOf \in [Requests -> Ids]

(* "rate": the client has used up its requests of this minute; "body": the    *)
(* multipart body or the options are invalid; "inference": whisper.cpp        *)
(* refuses or answers outside its contract; "disconnect": clients go away.    *)
ASSUME FailuresAssumption ==
  Failures \subseteq
    EngineFailures \cup {"rate", "body", "inference", "disconnect"}

VARIABLES
  permit,      \* the request that holds the permit of active_request
  tokens,      \* active_cancellations: the request whose token an id names
  cancelled,   \* requests whose token is cancelled
  handler,     \* handler[t]: where the handler of t is
  lookedUp,    \* lookedUp[c]: the request whose token cancel call c cloned
  text,        \* requests whose inference gave a text
  answer       \* answer[t]: the response of t

workerVars == <<permit, tokens, cancelled, handler, lookedUp, text, answer>>
vars == <<engineVars, workerVars>>

MaybeRequest == Requests \cup {NoTask}

HandlerPC ==
  {"new", "body", "register", "engine", "infer", "release", "unregister",
   "reply", "token", "done"}

Answer ==
  {"none", "limited", "busy", "invalid", "conflict", "cancelled", "failed",
   "text", "not_found", "ok", "gone"}

Init ==
  /\ EngineInit
  /\ permit = NoTask
  /\ tokens = [i \in Ids |-> NoTask]
  /\ cancelled = {}
  /\ handler = [t \in Tasks |-> "new"]
  /\ lookedUp = [c \in CancelCalls |-> NoTask]
  /\ text = {}
  /\ answer = [t \in Tasks |-> "none"]

At(t, from, to) == handler[t] = from /\ handler' = [handler EXCEPT ![t] = to]

Respond(t, from, a) ==
  /\ At(t, from, "done")
  /\ answer' = [answer EXCEPT ![t] = a]

Continue(t, from, to) == At(t, from, to) /\ UNCHANGED answer

-----------------------------------------------------------------------------
(* transcribe *)

(* Mutant: the permit is not bound to a variable and is dropped at once. *)
AdmitUnbound(r) ==
  /\ permit = NoTask
  /\ Continue(r, "new", "body")
  /\ UNCHANGED <<engineVars, permit, tokens, cancelled, lookedUp, text>>

(* check_rate_limit, then try_acquire_owned. *)
Admit(r) ==
  /\ \/ "rate" \in Failures /\ Respond(r, "new", "limited") /\ UNCHANGED permit
     \/ permit # NoTask /\ Respond(r, "new", "busy") /\ UNCHANGED permit
     \/ permit = NoTask /\ Continue(r, "new", "body") /\ permit' = r
  /\ UNCHANGED <<engineVars, tokens, cancelled, lookedUp, text>>

(* parse_multipart and validate_options, with the permit held. *)
ReadBody(r) ==
  /\ \/ Continue(r, "body", "register") /\ UNCHANGED permit
     \/ "body" \in Failures /\ Respond(r, "body", "invalid") /\ permit' = NoTask
  /\ UNCHANGED <<engineVars, tokens, cancelled, lookedUp, text>>

(* register_request: the insert replaces a token that is already there, and   *)
(* the conflict is reported afterwards; the error drops the permit.           *)
Register(r) ==
  /\ tokens' = [tokens EXCEPT ![IdOf[r]] = r]
  /\ \/ /\ tokens[IdOf[r]] = NoTask
        /\ Continue(r, "register", "engine")
        /\ UNCHANGED permit
     \/ /\ tokens[IdOf[r]] # NoTask
        /\ Respond(r, "register", "conflict")
        /\ permit' = NoTask
  /\ UNCHANGED <<engineVars, cancelled, lookedUp, text>>

(* WhisperCppEngine::transcribe looks at its token once, before it starts. *)
EngineTranscribe(r) ==
  /\ \/ /\ r \in cancelled
        /\ Continue(r, "engine", "release")
        /\ UNCHANGED engineVars
     \/ r \notin cancelled /\ Continue(r, "engine", "infer") /\ EnsureRunning(r)
  /\ UNCHANGED <<permit, tokens, cancelled, lookedUp, text>>

(* The POST to /inference returns: a text if the child it went to is still    *)
(* there, an error if it is not, if the engine did not come up, or otherwise. *)
Infer(r) ==
  /\ Continue(r, "infer", "release")
  /\ \/ step[r] = "running" /\ address[r] \in alive /\ text' = text \cup {r}
     \/ /\ \/ step[r] = "failed"
           \/ step[r] = "running" /\ address[r] \notin alive
           \/ step[r] = "running" /\ "inference" \in Failures
        /\ UNCHANGED text
  /\ UNCHANGED <<engineVars, permit, tokens, cancelled, lookedUp>>

ReleasePermit(r) ==
  /\ Continue(r, "release", "unregister")
  /\ permit' = NoTask
  /\ UNCHANGED <<engineVars, tokens, cancelled, lookedUp, text>>

(* Mutant: a finished request stays registered. *)
LeaveRegistered(r) ==
  /\ Continue(r, "unregister", "reply")
  /\ UNCHANGED <<engineVars, permit, tokens, cancelled, lookedUp, text>>

UnregisterRequest(r) ==
  /\ Continue(r, "unregister", "reply")
  /\ tokens' = [tokens EXCEPT ![IdOf[r]] = NoTask]
  /\ UNCHANGED <<engineVars, permit, cancelled, lookedUp, text>>

Reply(r) ==
  /\ \/ r \in cancelled /\ Respond(r, "reply", "cancelled")
     \/ /\ r \notin cancelled
        /\ Respond(r, "reply", IF r \in text THEN "text" ELSE "failed")
  /\ UNCHANGED <<engineVars, permit, tokens, cancelled, lookedUp, text>>

-----------------------------------------------------------------------------
(* cancel *)

(* Mutant: an id that is not registered is cancelled as well. *)
CancelUnknown(c) ==
  /\ \E i \in Ids : lookedUp' = [lookedUp EXCEPT ![c] = tokens[i]]
  /\ Continue(c, "new", "token")
  /\ UNCHANGED <<engineVars, permit, tokens, cancelled, text>>

(* The token is cloned out of the map; the lock is not held afterwards. *)
CancelLookup(c) ==
  /\ \E i \in Ids :
       \/ tokens[i] = NoTask /\ Respond(c, "new", "not_found") /\ UNCHANGED lookedUp
       \/ /\ tokens[i] # NoTask
          /\ Continue(c, "new", "token")
          /\ lookedUp' = [lookedUp EXCEPT ![c] = tokens[i]]
  /\ UNCHANGED <<engineVars, permit, tokens, cancelled, text>>

CancelToken(c) ==
  /\ Continue(c, "token", "engine")
  /\ cancelled' = cancelled \cup {lookedUp[c]}
  /\ StopAndRestart(c)
  /\ UNCHANGED <<permit, tokens, lookedUp, text>>

CancelReply(c) ==
  /\ \/ step[c] = "running" /\ Respond(c, "engine", "ok")
     \/ step[c] = "failed" /\ Respond(c, "engine", "failed")
  /\ UNCHANGED <<engineVars, permit, tokens, cancelled, lookedUp, text>>

-----------------------------------------------------------------------------
(* health and models *)

ProbeBegin(h) ==
  /\ Continue(h, "new", "engine")
  /\ EnsureRunning(h)
  /\ UNCHANGED <<permit, tokens, cancelled, lookedUp, text>>

ProbeReply(h) ==
  /\ \/ step[h] = "running" /\ Respond(h, "engine", "ok")
     \/ step[h] = "failed" /\ Respond(h, "engine", "failed")
  /\ UNCHANGED <<engineVars, permit, tokens, cancelled, lookedUp, text>>

-----------------------------------------------------------------------------
(* The client of t is gone while its handler awaits the body or the engine:   *)
(* the handler is dropped with its permit, the token stays in the map.        *)
Disconnect(t) ==
  /\ "disconnect" \in Failures
  /\ \/ handler[t] = "body" /\ Respond(t, "body", "gone") /\ UNCHANGED engineVars
     \/ t \in Requests /\ Respond(t, "infer", "gone") /\ DropCall(t)
     \/ t \notin Requests /\ Respond(t, "engine", "gone") /\ DropCall(t)
  /\ permit' = IF permit = t THEN NoTask ELSE permit
  /\ UNCHANGED <<tokens, cancelled, lookedUp, text>>

RequestStep(r) ==
  \/ Admit(r) \/ ReadBody(r) \/ Register(r) \/ EngineTranscribe(r) \/ Infer(r)
  \/ ReleasePermit(r) \/ UnregisterRequest(r) \/ Reply(r)

CancelStep(c) == CancelLookup(c) \/ CancelToken(c) \/ CancelReply(c)

ProbeStep(h) == ProbeBegin(h) \/ ProbeReply(h)

(* The engine works for a task as long as its handler awaits it. *)
EngineCall(t) == EngineWork(t) /\ UNCHANGED workerVars

TaskStep(t) ==
  \/ t \in Requests /\ RequestStep(t)
  \/ t \in CancelCalls /\ CancelStep(t)
  \/ t \in Probes /\ ProbeStep(t)
  \/ EngineCall(t)

AllAnswered == \A t \in Tasks : handler[t] = "done"

Next ==
  \/ \E t \in Tasks : TaskStep(t) \/ Disconnect(t)
  \/ Crash /\ UNCHANGED workerVars
  \/ AllAnswered /\ UNCHANGED vars

Spec == Init /\ [][Next]_vars

(* The runtime polls every ready handler, the engine's mutexes are fair, and  *)
(* every awaited operation has a deadline; clients need not send anything.    *)
FairSpec ==
  Spec /\ \A t \in Tasks :
            WF_vars(handler[t] # "new" /\ TaskStep(t))

-----------------------------------------------------------------------------
(* Properties *)

TypeOK ==
  /\ EngineTypeOK
  /\ permit \in MaybeRequest
  /\ tokens \in [Ids -> MaybeRequest]
  /\ cancelled \subseteq Requests
  /\ handler \in [Tasks -> HandlerPC]
  /\ lookedUp \in [CancelCalls -> MaybeRequest]
  /\ text \subseteq Requests
  /\ answer \in [Tasks -> Answer]

(* "one active transcription": the permit belongs to the request that is in   *)
(* the worker until its inference is over, and is back when a client is gone. *)
PermitHasOwner ==
  \A r \in Requests :
    permit = r <=> handler[r] \in {"body", "register", "engine", "infer", "release"}

(* A token names a request that is being processed: "no active transcription  *)
(* has this request id" (apps/worker/src/lib.rs:266) is the answer to every   *)
(* other cancellation.  It holds as long as no client disconnects.            *)
TokenHasOwner ==
  \A i \in Ids :
    tokens[i] # NoTask =>
      \E r \in Requests :
        IdOf[r] = i /\ handler[r] \in {"engine", "infer", "release", "unregister"}

(* While the engine works, the requests and probes that look for it, start it *)
(* and use it at the same time do not make each other fail: no request fails  *)
(* before some request has been cancelled.                                    *)
FailsOnlyAfterCancellation ==
  (\E r \in Requests : answer[r] = "failed") => cancelled # {}

(* "one job cannot change another job's state"                                *)
(* (docs/planning/v2-implementation.md:24): the request that fails is the one *)
(* that was cancelled.  It does not hold: the engine is restarted whoever     *)
(* uses it by then.                                                           *)
OnlyOwnCancellation ==
  \A r \in Requests : answer[r] = "failed" => r \in cancelled

(* Every call that a handler has begun is answered. *)
CallsReturn == \A t \in Tasks : handler[t] # "new" ~> handler[t] = "done"
=============================================================================
