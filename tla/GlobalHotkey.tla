---------------------------- MODULE GlobalHotkey ----------------------------
(***************************************************************************)
(* The global hotkey: the message-loop threads of GlobalHotkey over        *)
(* RegisterHotKey, and the commands that register, rebind and re-register  *)
(* it, with the status the user is shown.                                  *)
(*                                                                         *)
(* The commands are synchronous and run one at a time on the main thread;  *)
(* request_clean_exit runs beside them on the async runtime.  Windows      *)
(* gives a binding to one thread of one application at a time.  A Win32    *)
(* call, a channel operation and a locked section are a step each.         *)
(***************************************************************************)
EXTENDS Naturals

CONSTANTS
    Bindings,  \* key combinations
    Threads,   \* ids of message-loop threads: Windows gives one to a new thread once
               \* the thread that had it has been joined
    Other,     \* another application
    None

ASSUME HotkeyAssumption ==
    /\ Other \notin Threads /\ None \notin Threads \cup Bindings \cup {Other}
    /\ Threads \cap {"no", "leave", "gone"} = {}

VARIABLES
    owner,      \* Windows: who has registered a binding
    thread,     \* where a message-loop thread is
    bound,      \* its binding, also kept for it in the registration until the join
    quit,       \* WM_QUIT is in its queue
    started,    \* content of its started channel
    listening,  \* that channel's receiver exists
    events,     \* the receiver of its hotkey events exists
    hotkey,     \* DesktopState::hotkey, named by its thread
    status,     \* DesktopState::hotkey_status
    saved,      \* the binding of the stored settings
    struck,     \* history: registered hotkeys whose thread got the WM_QUIT of their
                \* predecessor, which had the same thread id
    cmd,        \* the command on the main thread
    exit        \* request_clean_exit: the thread it joins, or how far it is

loops == <<owner, thread, bound, quit, started, listening, events>>
app   == <<hotkey, status, saved, struck>>
vars  == <<loops, app, cmd, exit>>

Owners == Threads \cup {Other, None}
Idle   == [at |-> "idle", kind |-> "none", want |-> None, old |-> None, next |-> None,
           late |-> None]

Commands ==
    [at : {"idle", "take", "check", "joinOld", "spawn", "await", "giveUp", "dispatcher", "undo",
           "install", "failed", "persist", "drop"},
     kind : {"none", "start", "save", "again"},
     want : Bindings \cup {None},
     old : Threads \cup {None},   \* the registration to be replaced
     next : Threads \cup {None},  \* the one just started
     late : Threads \cup {None}]  \* one that was shut down, not dropped yet

TypeOK ==
    /\ owner \in [Bindings -> Owners]
    /\ thread \in [Threads -> {"none", "register", "report", "loop", "unregister"}]
    /\ bound \in [Threads -> Bindings \cup {None}]
    /\ quit \in [Threads -> BOOLEAN]
    /\ started \in [Threads -> {"empty", "ok", "err"}]
    /\ listening \in [Threads -> BOOLEAN] /\ events \in [Threads -> BOOLEAN]
    /\ hotkey \in Threads \cup {None}
    /\ status \in [phase : {"registered", "unavailable"}, binding : Bindings]
    /\ saved \in Bindings /\ struck \subseteq Threads
    /\ cmd \in Commands
    /\ exit \in Threads \cup {"no", "leave", "gone"}

\* The application is set up: the hotkey of the stored settings is about to be
\* registered, and another application may have it.
Init ==
    /\ owner \in [Bindings -> {Other, None}]
    /\ thread = [t \in Threads |-> "none"]
    /\ bound = [t \in Threads |-> None]
    /\ quit = [t \in Threads |-> FALSE]
    /\ started = [t \in Threads |-> "empty"]
    /\ listening = [t \in Threads |-> FALSE] /\ events = [t \in Threads |-> FALSE]
    /\ hotkey = None
    /\ saved \in Bindings /\ struck = {}
    /\ status = [phase |-> "unavailable", binding |-> saved]
    /\ cmd = [Idle EXCEPT !.at = "take", !.kind = "start", !.want = saved]
    /\ exit = "no"

Running   == exit # "gone"
At(at)    == Running /\ cmd.at = at
\* request_clean_exit holds the mutex of the registration while it joins.
MutexFree == exit \notin Threads
Goto(at)  == cmd' = [cmd EXCEPT !.at = at]
Return    == cmd' = Idle
Registered(binding)  == status' = [phase |-> "registered", binding |-> binding]
Unavailable(binding) == status' = [phase |-> "unavailable", binding |-> binding]

\* A thread has ended: nothing is left in its queue.
EndThread(t) ==
    /\ thread' = [thread EXCEPT ![t] = "none"]
    /\ quit' = [quit EXCEPT ![t] = FALSE]
    /\ bound' = [bound EXCEPT ![t] = IF events[t] THEN @ ELSE None]

-----------------------------------------------------------------------------
(* hotkey_message_loop                                                     *)

RegisterHotKey(t) ==
    /\ Running /\ thread[t] = "register"
    /\ \/ /\ owner[bound[t]] = None
          /\ owner' = [owner EXCEPT ![bound[t]] = t]
          /\ thread' = [thread EXCEPT ![t] = "report"]
          /\ UNCHANGED <<bound, quit, started>>
       \/ /\ owner[bound[t]] # None
          /\ started' = [started EXCEPT ![t] = IF listening[t] THEN "err" ELSE @]
          /\ EndThread(t) /\ UNCHANGED owner
    /\ UNCHANGED <<listening, events, app, cmd, exit>>

\* Mutant: the result of started.send(Ok(thread_id)) is not looked at.
ReportBlindly(t) ==
    /\ Running /\ thread[t] = "report"
    /\ thread' = [thread EXCEPT ![t] = "loop"]
    /\ started' = [started EXCEPT ![t] = IF listening[t] THEN "ok" ELSE @]
    /\ UNCHANGED <<owner, bound, quit, listening, events, app, cmd, exit>>

\* started.send(Ok(thread_id)) fails when the starter has given up.
Report(t) ==
    /\ Running /\ thread[t] = "report"
    /\ IF listening[t]
       THEN /\ thread' = [thread EXCEPT ![t] = "loop"]
            /\ started' = [started EXCEPT ![t] = "ok"]
       ELSE thread' = [thread EXCEPT ![t] = "unregister"] /\ UNCHANGED started
    /\ UNCHANGED <<owner, bound, quit, listening, events, app, cmd, exit>>

\* WM_QUIT ends the loop.
Quit(t) ==
    /\ Running /\ thread[t] = "loop" /\ quit[t]
    /\ thread' = [thread EXCEPT ![t] = "unregister"]
    /\ UNCHANGED <<owner, bound, quit, started, listening, events, app, cmd, exit>>

\* The user presses the keys: a press nobody receives ends the loop.
Press(t) ==
    /\ Running /\ thread[t] = "loop" /\ owner[bound[t]] = t /\ ~events[t]
    /\ thread' = [thread EXCEPT ![t] = "unregister"]
    /\ UNCHANGED <<owner, bound, quit, started, listening, events, app, cmd, exit>>

UnregisterHotKey(t) ==
    /\ Running /\ thread[t] = "unregister"
    /\ owner' = [owner EXCEPT ![bound[t]] = None]
    /\ EndThread(t)
    /\ started' = [started EXCEPT ![t] = "empty"]
    /\ UNCHANGED <<listening, events, app, cmd, exit>>

-----------------------------------------------------------------------------
(* The commands                                                            *)

\* Mutant: shutdown only joins.
PostNothing(t) == UNCHANGED quit

\* PostThreadMessageW(WM_QUIT): PeekMessageW has created the queue before the
\* thread reported its id.
PostQuit(t) == quit' = [quit EXCEPT ![t] = thread[t] # "none"]

\* save_windows_integration_settings and reregister_global_hotkey.
Begin ==
    /\ At("idle")
    /\ \/ \E b \in Bindings : cmd' = [Idle EXCEPT !.at = "take", !.kind = "save", !.want = b]
       \/ cmd' = [Idle EXCEPT !.at = "take", !.kind = "again", !.want = saved]
    /\ UNCHANGED <<loops, app, exit>>

\* The registration is taken out of its mutex.  A re-registration stops it
\* before anything else and keeps its binding.
Take ==
    /\ At("take") /\ MutexFree
    /\ hotkey' = None
    /\ IF cmd.kind = "again" /\ hotkey # None
       THEN /\ PostQuit(hotkey)
            /\ cmd' = [cmd EXCEPT !.at = "joinOld", !.old = hotkey, !.want = bound[hotkey]]
       ELSE cmd' = [cmd EXCEPT !.at = "check", !.old = hotkey] /\ UNCHANGED quit
    /\ UNCHANGED <<owner, thread, bound, started, listening, events, status, saved, struck, exit>>

\* The binding that is asked for is registered already: it is put back.
Same ==
    /\ At("check") /\ MutexFree /\ cmd.old # None /\ bound[cmd.old] = cmd.want
    /\ hotkey' = cmd.old /\ Registered(cmd.want)
    /\ cmd' = IF cmd.kind = "save" THEN [cmd EXCEPT !.at = "persist", !.old = None] ELSE Idle
    /\ UNCHANGED <<loops, saved, struck, exit>>

Different ==
    /\ At("check") /\ (cmd.old # None => bound[cmd.old] # cmd.want)
    /\ Goto("spawn")
    /\ UNCHANGED <<loops, app, exit>>

\* A new thread may get any id that is free, also the one of a registration that
\* has been joined and is not dropped yet.
Unused == {t \in Threads : thread[t] = "none" /\ ~events[t]}

\* spawn_global_hotkey and GlobalHotkey::start.
Spawn ==
    /\ At("spawn")
    /\ \/ \E t \in Unused :
            /\ thread' = [thread EXCEPT ![t] = "register"]
            /\ bound' = [bound EXCEPT ![t] = cmd.want]
            /\ started' = [started EXCEPT ![t] = "empty"]
            /\ listening' = [listening EXCEPT ![t] = TRUE]
            /\ events' = [events EXCEPT ![t] = TRUE]
            /\ cmd' = [cmd EXCEPT !.at = "await", !.next = t]
       \/ Goto("failed") /\ UNCHANGED <<thread, bound, started, listening, events>>
    /\ UNCHANGED <<owner, quit, app, exit>>

\* recv_timeout: an answer, or two seconds without one.  Both receivers go out
\* of scope only after the timeout, and the thread may still answer before.
Await ==
    /\ At("await")
    /\ \/ /\ started[cmd.next] = "ok" /\ Goto("dispatcher")
          /\ started' = [started EXCEPT ![cmd.next] = "empty"]
       \/ started[cmd.next] = "err" /\ Goto("giveUp") /\ UNCHANGED started
       \/ started[cmd.next] = "empty" /\ Goto("giveUp") /\ UNCHANGED started
    /\ UNCHANGED <<owner, thread, bound, quit, listening, events, app, exit>>

GiveUp ==
    /\ At("giveUp")
    /\ listening' = [listening EXCEPT ![cmd.next] = FALSE]
    /\ events' = [events EXCEPT ![cmd.next] = FALSE]
    /\ started' = [started EXCEPT ![cmd.next] = IF @ = "err" THEN "empty" ELSE @]
    /\ bound' = [bound EXCEPT ![cmd.next] = IF thread[cmd.next] = "none" THEN None ELSE @]
    /\ cmd' = [cmd EXCEPT !.at = "failed", !.next = None]
    /\ UNCHANGED <<owner, thread, quit, app, exit>>

\* The thread that dispatches the presses is spawned; if that fails the new
\* registration is shut down.  The previous one is shut down only now.
Dispatcher ==
    /\ At("dispatcher")
    /\ listening' = [listening EXCEPT ![cmd.next] = FALSE]
    /\ \/ /\ IF cmd.old = None THEN Goto("install") /\ UNCHANGED quit
             ELSE Goto("joinOld") /\ PostQuit(cmd.old)
          /\ UNCHANGED events
       \/ /\ Goto("undo") /\ PostQuit(cmd.next)
          /\ events' = [events EXCEPT ![cmd.next] = FALSE]
    /\ UNCHANGED <<owner, thread, bound, started, app, exit>>

Undo ==
    /\ At("undo") /\ thread[cmd.next] = "none"
    /\ cmd' = [cmd EXCEPT !.at = "failed", !.next = None]
    /\ UNCHANGED <<loops, app, exit>>

\* shutdown joins the thread, whose event receiver ends with its sender.  Drop
\* calls shutdown again, which posts WM_QUIT to the same id once more.  Where the
\* registration goes out of scope at once (here when it is replaced, in Undo and
\* in ExitJoins) no message loop can have that id by then, and the second post is
\* part of the step; a re-registration keeps it until it returns.
JoinOld ==
    /\ At("joinOld") /\ thread[cmd.old] = "none"
    /\ events' = [events EXCEPT ![cmd.old] = FALSE]
    /\ bound' = [bound EXCEPT ![cmd.old] = None]
    /\ struck' = struck \ {cmd.old}
    /\ cmd' = IF cmd.next = None THEN [cmd EXCEPT !.at = "spawn", !.old = None, !.late = cmd.old]
              ELSE [cmd EXCEPT !.at = "install", !.old = None]
    /\ UNCHANGED <<owner, thread, quit, started, listening, hotkey, status, saved, exit>>

Install ==
    /\ At("install") /\ MutexFree
    /\ hotkey' = cmd.next /\ Registered(cmd.want)
    /\ cmd' = IF cmd.kind = "save" THEN [cmd EXCEPT !.at = "persist", !.next = None]
              ELSE IF cmd.late # None THEN [cmd EXCEPT !.at = "drop", !.next = None] ELSE Idle
    /\ UNCHANGED <<loops, saved, struck, exit>>

\* Mutant: what was registered before is not put back.
FailedForgets ==
    /\ At("failed") /\ (MutexFree \/ cmd.kind = "again")
    /\ hotkey' = None
    /\ IF cmd.old # None THEN Registered(bound[cmd.old]) ELSE Unavailable(cmd.want)
    /\ IF cmd.late # None THEN Goto("drop") ELSE Return
    /\ UNCHANGED <<loops, saved, struck, exit>>

\* The previous registration, if any, is put back; a re-registration has none
\* and leaves the mutex alone.
Failed ==
    /\ At("failed") /\ (MutexFree \/ cmd.kind = "again")
    /\ hotkey' = cmd.old
    /\ IF cmd.old # None THEN Registered(bound[cmd.old]) ELSE Unavailable(cmd.want)
    /\ IF cmd.late # None THEN Goto("drop") ELSE Return
    /\ UNCHANGED <<loops, saved, struck, exit>>

\* persist_windows_integration_settings may fail after the registration.
Persist ==
    /\ At("persist")
    /\ saved' = cmd.want \/ UNCHANGED saved
    /\ Return
    /\ UNCHANGED <<loops, hotkey, status, struck, exit>>

\* Drop for GlobalHotkey, at the end of a re-registration.  The message reaches
\* whatever message loop has the thread id now; one that has not created its
\* queue yet may miss it.
Drop ==
    /\ At("drop")
    /\ \/ /\ PostQuit(cmd.late)
          /\ struck' = IF cmd.late = hotkey THEN struck \cup {hotkey} ELSE struck
       \/ thread[cmd.late] = "register" /\ UNCHANGED <<quit, struck>>
    /\ Return
    /\ UNCHANGED <<owner, thread, bound, started, listening, events, hotkey, status, saved, exit>>

-----------------------------------------------------------------------------
(* request_clean_exit, and other applications                              *)

\* The hotkey is taken out of its mutex, which stays locked until the thread
\* has been joined, at any point of a command.
ExitTakes ==
    /\ exit = "no"
    /\ hotkey' = None
    /\ IF hotkey = None THEN exit' = "leave" /\ UNCHANGED quit
       ELSE exit' = hotkey /\ PostQuit(hotkey)
    /\ UNCHANGED <<owner, thread, bound, started, listening, events, status, saved, struck, cmd>>

ExitJoins ==
    /\ exit \in Threads /\ thread[exit] = "none"
    /\ exit' = "leave"
    /\ events' = [events EXCEPT ![exit] = FALSE]
    /\ bound' = [bound EXCEPT ![exit] = None]
    /\ struck' = struck \ {exit}
    /\ UNCHANGED <<owner, thread, quit, started, listening, hotkey, status, saved, cmd>>

\* The process ends and Windows takes back what it had registered.
Exit ==
    /\ exit = "leave"
    /\ exit' = "gone"
    /\ owner' = [b \in Bindings |-> IF owner[b] \in Threads THEN None ELSE owner[b]]
    /\ UNCHANGED <<thread, bound, quit, started, listening, events, app, cmd>>

OtherApp ==
    /\ Running
    /\ \E b \in Bindings : \/ owner[b] = None /\ owner' = [owner EXCEPT ![b] = Other]
                           \/ owner[b] = Other /\ owner' = [owner EXCEPT ![b] = None]
    /\ UNCHANGED <<thread, bound, quit, started, listening, events, app, cmd, exit>>

Loop(t) == RegisterHotKey(t) \/ Report(t) \/ Quit(t) \/ UnregisterHotKey(t)

Main ==
    \/ Take \/ Same \/ Different \/ Spawn \/ Await \/ GiveUp \/ Dispatcher \/ Undo
    \/ JoinOld \/ Install \/ Failed \/ Persist \/ Drop

Next ==
    \/ Begin \/ Main
    \/ \E t \in Threads : Loop(t) \/ Press(t)
    \/ ExitTakes \/ ExitJoins \/ Exit \/ OtherApp

Spec == Init /\ [][Next]_vars

\* Threads run; the user need not press anything.
FairSpec ==
    /\ Spec
    /\ WF_vars(Main) /\ WF_vars(ExitJoins \/ Exit)
    /\ \A t \in Threads : WF_vars(Loop(t))

-----------------------------------------------------------------------------
(* Properties                                                              *)

\* The start of t gave up although its thread had answered: t stays registered
\* until the keys are pressed once.
Orphan(t) == started[t] = "ok" /\ ~events[t]

\* "guaranteed UnregisterHotKey on shutdown" (docs/adr/0008:20): a binding that
\* a thread of this process holds belongs to the registered hotkey, to the
\* command or exit that is working on it, or to a thread that will give it back
\* by itself; the late answer to a start that timed out is the exception.
RegistrationHasOwner ==
    \A b \in Bindings : \A t \in Threads :
        (owner[b] = t /\ Running) =>
            \/ t \in {hotkey, cmd.old, cmd.next, exit}
            \/ thread[t] \in {"report", "unregister"}
            \/ Orphan(t)

\* "A failed registration is shown to the user" (docs/adr/0008:21), and after a
\* collision "bleibt die letzte funktionierende Registrierung aktiv": between
\* two commands the status says registered exactly when there is a hotkey, its
\* binding is the one shown, and Windows has it registered for us.  The exception
\* is a hotkey that was ended by the message meant for its predecessor.
StatusIsTruthful ==
    (cmd.at \in {"idle", "persist"} /\ exit = "no" /\ hotkey \notin struck) =>
        /\ status.phase = "registered" <=> hotkey # None
        /\ hotkey # None => /\ bound[hotkey] = status.binding
                            /\ owner[status.binding] = hotkey
                            /\ thread[hotkey] = "loop" /\ events[hotkey]

\* The same without the exception, of what the status shows: "retry its current
\* registration while reporting typed hotkey status"
\* (docs/desktop-command-contract.md:20).  It does not hold: a re-registration
\* drops the old registration after it has installed the new one.
ShownHotkeyWorks ==
    (cmd.at = "idle" /\ exit = "no" /\ status.phase = "registered") =>
        hotkey # None /\ owner[status.binding] = hotkey

\* Joining a message-loop thread never hangs: every command returns.
CommandsReturn == cmd.at # "idle" ~> (cmd.at = "idle" \/ exit = "gone")

-----------------------------------------------------------------------------
(* What the safety properties rest on, the inductive strengthening.  Once    *)
(* the process is gone nothing happens any more.                             *)

\* Which threads a command has in hand at each of its points.
CommandShape ==
    /\ cmd.at \in {"idle", "take", "persist", "install", "drop"} => cmd.old = None
    /\ cmd.at \in {"idle", "take", "persist", "check", "spawn", "failed", "drop"} => cmd.next = None
    /\ cmd.at \in {"await", "giveUp", "dispatcher", "undo", "install"} => cmd.next # None
    /\ cmd.at = "joinOld" => cmd.old # None /\ (cmd.kind = "again" \/ cmd.next # None)
    /\ cmd.at # "idle" => cmd.want \in Bindings
    /\ cmd.kind = "again" =>
         cmd.at \in {"take", "check", "joinOld"} \/ cmd.old = None
    /\ cmd.kind = "again" /\ cmd.at = "check" => cmd.old = None
    /\ cmd.late # None => cmd.kind = "again" /\ cmd.old = None
    /\ cmd.late # None => cmd.at \notin {"idle", "take", "persist", "check", "joinOld"}
    /\ cmd.at = "drop" => cmd.late # None

\* Windows and the message loops agree on who has registered what.
RegistrationsMatch ==
    /\ \A b \in Bindings, t \in Threads :
         owner[b] = t => thread[t] \in {"report", "loop", "unregister"} /\ bound[t] = b
    /\ \A t \in Threads :
         /\ thread[t] \in {"report", "loop", "unregister"} =>
              bound[t] \in Bindings /\ owner[bound[t]] = t
         /\ thread[t] = "register" => bound[t] \in Bindings
         /\ quit[t] => thread[t] # "none"

\* Only the call of GlobalHotkey::start that has started a thread listens to it.
ListenerIsStarter ==
    \A t \in Threads :
        listening[t] <=> t = cmd.next /\ cmd.at \in {"await", "giveUp", "dispatcher"}

\* A registration that works and that nobody is ending.
Live(t) == thread[t] = "loop" /\ events[t] /\ ~quit[t]

\* A thread that has been told to end, up to the join.
Ending(t) == (thread[t] = "loop" /\ quit[t]) \/ thread[t] \in {"unregister", "none"}

LiveUnlessStruck(t) ==
    /\ t \notin struck => Live(t)
    /\ t \in struck => Ending(t) /\ events[t]
    /\ bound[t] \in Bindings

\* The stored registration works and is the one that is shown.
HotkeyWorks ==
    /\ hotkey # None =>
         /\ cmd.at \in {"idle", "take", "persist", "drop"}
         /\ LiveUnlessStruck(hotkey)
         /\ status = [phase |-> "registered", binding |-> bound[hotkey]]
    /\ cmd.at \in {"idle", "take", "persist", "drop"} /\ exit = "no" /\ hotkey = None =>
         status.phase = "unavailable"

\* The previous registration works until a command shuts it down.
PreviousWorks ==
    cmd.old # None => IF cmd.at = "joinOld" THEN Ending(cmd.old) /\ events[cmd.old]
                      ELSE LiveUnlessStruck(cmd.old)

\* How far the new thread is when the command is where it is.
NextWorks ==
    cmd.next # None =>
        LET t == cmd.next IN
        /\ cmd.at \in {"await", "giveUp"} =>
             /\ events[t] /\ ~quit[t] /\ thread[t] \in {"none", "register", "report", "loop"}
             /\ started[t] = "ok" <=> thread[t] = "loop"
        /\ cmd.at \in {"dispatcher", "joinOld", "install"} => Live(t)
        /\ t \notin struck
        /\ cmd.at = "undo" => Ending(t)
        /\ thread[t] # "none" => bound[t] = cmd.want

\* The exit joins a thread nobody else has in hand.
ExitIsAlone ==
    /\ exit \in Threads => Ending(exit) /\ events[exit] /\ exit \notin {hotkey, cmd.old, cmd.next}
    /\ cmd.old # None => cmd.old # cmd.next

\* A loop that somebody still has in hand, or that a press will end; one that
\* was ended by mistake still has its registration.
LoopsAreKnown ==
    \A t \in Threads :
        /\ thread[t] = "loop" => t \in {hotkey, cmd.old, cmd.next, exit} \/ Orphan(t)
        /\ t \in struck => events[t] /\ t \in {hotkey, cmd.old, exit}

IInv ==
    /\ TypeOK
    /\ Running =>
         /\ CommandShape /\ RegistrationsMatch /\ ListenerIsStarter /\ HotkeyWorks
         /\ PreviousWorks /\ NextWorks /\ ExitIsAlone /\ LoopsAreKnown
=============================================================================
