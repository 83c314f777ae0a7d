------------------------- MODULE GlobalHotkey_proofs -------------------------
(***************************************************************************)
(* Safety of the global hotkey for any bindings and any number of threads. *)
(* Each lemma shows that one step keeps one part of the inductive          *)
(* invariant IInv, action by action.                                       *)
(***************************************************************************)
EXTENDS GlobalHotkey, TLAPS

(* The steps whose definitions update several fields of the command, with the  *)
(* command they leave written out.                                             *)
LEMMA BeginStep ==
  ASSUME TypeOK, Begin
  PROVE  /\ Running /\ cmd.at = "idle" /\ UNCHANGED <<loops, app, exit>>
         /\ \E k \in {"save", "again"}, b \in Bindings :
              cmd' = [at |-> "take", kind |-> k, want |-> b, old |-> None, next |-> None,
                      late |-> None]
<1>1. CASE \E b \in Bindings : cmd' = [Idle EXCEPT !.at = "take", !.kind = "save", !.want = b]
  <2>1. PICK b \in Bindings :
          cmd' = [at |-> "take", kind |-> "save", want |-> b, old |-> None, next |-> None,
                  late |-> None]
    BY <1>1 DEF Idle
  <2> QED
    BY <2>1 DEF Begin, At
<1>2. CASE cmd' = [Idle EXCEPT !.at = "take", !.kind = "again", !.want = saved]
  <2>1. /\ cmd' = [at |-> "take", kind |-> "again", want |-> saved, old |-> None, next |-> None,
                  late |-> None]
        /\ saved \in Bindings
    BY <1>2 DEF Idle, TypeOK
  <2> QED
    BY <2>1 DEF Begin, At
<1> QED
  BY <1>1, <1>2 DEF Begin

LEMMA TakeStep ==
  ASSUME TypeOK, Take
  PROVE  /\ Running /\ cmd.at = "take" /\ exit \notin Threads /\ hotkey' = None
         /\ UNCHANGED <<owner, thread, bound, started, listening, events, status, saved, struck, exit>>
         /\ \/ /\ cmd.kind = "again" /\ hotkey # None
               /\ quit' = [quit EXCEPT ![hotkey] = thread[hotkey] # "none"]
               /\ cmd' = [at |-> "joinOld", kind |-> "again", want |-> bound[hotkey],
                         old |-> hotkey, next |-> cmd.next, late |-> cmd.late]
            \/ /\ ~(cmd.kind = "again" /\ hotkey # None)
               /\ quit' = quit
               /\ cmd' = [at |-> "check", kind |-> cmd.kind, want |-> cmd.want, old |-> hotkey,
                         next |-> cmd.next, late |-> cmd.late]
<1>1. CASE cmd.kind = "again" /\ hotkey # None
  <2>1. cmd' = [at |-> "joinOld", kind |-> "again", want |-> bound[hotkey], old |-> hotkey,
                next |-> cmd.next, late |-> cmd.late]
    BY <1>1 DEF Take, TypeOK, Commands
  <2> QED
    BY <1>1, <2>1 DEF Take, At, MutexFree, PostQuit
<1>2. CASE ~(cmd.kind = "again" /\ hotkey # None)
  <2>1. cmd' = [at |-> "check", kind |-> cmd.kind, want |-> cmd.want, old |-> hotkey,
                next |-> cmd.next, late |-> cmd.late]
    BY <1>2 DEF Take, TypeOK, Commands
  <2> QED
    BY <1>2, <2>1 DEF Take, At, MutexFree
<1> QED
  BY <1>1, <1>2

LEMMA SpawnStep ==
  ASSUME TypeOK, Spawn
  PROVE  /\ Running /\ cmd.at = "spawn" /\ UNCHANGED <<owner, quit, app, exit>>
         /\ \/ \E t \in Threads :
                 /\ thread[t] = "none" /\ ~events[t]
                 /\ thread' = [thread EXCEPT ![t] = "register"]
                 /\ bound' = [bound EXCEPT ![t] = cmd.want]
                 /\ started' = [started EXCEPT ![t] = "empty"]
                 /\ listening' = [listening EXCEPT ![t] = TRUE]
                 /\ events' = [events EXCEPT ![t] = TRUE]
                 /\ cmd' = [at |-> "await", kind |-> cmd.kind, want |-> cmd.want,
                           old |-> cmd.old, next |-> t, late |-> cmd.late]
            \/ /\ UNCHANGED <<thread, bound, started, listening, events>>
               /\ cmd' = [at |-> "failed", kind |-> cmd.kind, want |-> cmd.want,
                         old |-> cmd.old, next |-> cmd.next, late |-> cmd.late]
<1>1. CASE \E t \in Unused :
              /\ thread' = [thread EXCEPT ![t] = "register"]
              /\ bound' = [bound EXCEPT ![t] = cmd.want]
              /\ started' = [started EXCEPT ![t] = "empty"]
              /\ listening' = [listening EXCEPT ![t] = TRUE]
              /\ events' = [events EXCEPT ![t] = TRUE]
              /\ cmd' = [cmd EXCEPT !.at = "await", !.next = t]
  <2>1. PICK t \in Unused :
          /\ thread' = [thread EXCEPT ![t] = "register"]
          /\ bound' = [bound EXCEPT ![t] = cmd.want]
          /\ started' = [started EXCEPT ![t] = "empty"]
          /\ listening' = [listening EXCEPT ![t] = TRUE]
          /\ events' = [events EXCEPT ![t] = TRUE]
          /\ cmd' = [cmd EXCEPT !.at = "await", !.next = t]
    BY <1>1
  <2>2. t \in Threads /\ thread[t] = "none" /\ ~events[t]
    BY DEF Unused
  <2>3. cmd' = [at |-> "await", kind |-> cmd.kind, want |-> cmd.want, old |-> cmd.old, next |-> t, late |-> cmd.late]
    BY <2>1 DEF TypeOK, Commands
  <2>4. Running /\ cmd.at = "spawn" /\ UNCHANGED <<owner, quit, app, exit>>
    BY DEF Spawn, At
  <2> QED
    BY <2>1, <2>2, <2>3, <2>4
<1>2. CASE Goto("failed") /\ UNCHANGED <<thread, bound, started, listening, events>>
  <2>1. cmd' = [at |-> "failed", kind |-> cmd.kind, want |-> cmd.want, old |-> cmd.old,
                next |-> cmd.next, late |-> cmd.late]
    BY <1>2 DEF Goto, TypeOK, Commands
  <2> QED
    BY <1>2, <2>1 DEF Spawn, At
<1> QED
  BY <1>1, <1>2 DEF Spawn

LEMMA FailedStep ==
  ASSUME TypeOK, Failed
  PROVE  /\ Running /\ cmd.at = "failed" /\ (exit \notin Threads \/ cmd.kind = "again")
         /\ hotkey' = cmd.old
         /\ status' = IF cmd.old # None
                      THEN [phase |-> "registered", binding |-> bound[cmd.old]]
                      ELSE [phase |-> "unavailable", binding |-> cmd.want]
         /\ cmd' = IF cmd.late # None
                   THEN [at |-> "drop", kind |-> cmd.kind, want |-> cmd.want, old |-> cmd.old,
                         next |-> cmd.next, late |-> cmd.late]
                   ELSE [at |-> "idle", kind |-> "none", want |-> None, old |-> None,
                         next |-> None, late |-> None]
         /\ UNCHANGED <<loops, saved, struck, exit>>
<1>1. CASE cmd.late # None
  <2>1. cmd' = [at |-> "drop", kind |-> cmd.kind, want |-> cmd.want, old |-> cmd.old,
                next |-> cmd.next, late |-> cmd.late]
    BY <1>1 DEF Failed, Goto, TypeOK, Commands
  <2> QED
    BY <1>1, <2>1 DEF Failed, At, MutexFree, Registered, Unavailable
<1>2. CASE cmd.late = None
  BY <1>2 DEF Failed, At, MutexFree, Registered, Unavailable, Return, Idle
<1> QED
  BY <1>1, <1>2

LEMMA JoinOldStep ==
  ASSUME TypeOK, JoinOld
  PROVE  /\ Running /\ cmd.at = "joinOld" /\ thread[cmd.old] = "none"
         /\ events' = [events EXCEPT ![cmd.old] = FALSE]
         /\ bound' = [bound EXCEPT ![cmd.old] = None]
         /\ struck' = struck \ {cmd.old}
         /\ cmd' = IF cmd.next = None
                   THEN [at |-> "spawn", kind |-> cmd.kind, want |-> cmd.want, old |-> None,
                         next |-> cmd.next, late |-> cmd.old]
                   ELSE [at |-> "install", kind |-> cmd.kind, want |-> cmd.want, old |-> None,
                         next |-> cmd.next, late |-> cmd.late]
         /\ UNCHANGED <<owner, thread, quit, started, listening, hotkey, status, saved, exit>>
<1>1. CASE cmd.next = None
  <2>1. cmd' = [at |-> "spawn", kind |-> cmd.kind, want |-> cmd.want, old |-> None,
                next |-> cmd.next, late |-> cmd.old]
    BY <1>1 DEF JoinOld, TypeOK, Commands
  <2> QED
    BY <1>1, <2>1 DEF JoinOld, At
<1>2. CASE cmd.next # None
  <2>1. cmd' = [at |-> "install", kind |-> cmd.kind, want |-> cmd.want, old |-> None,
                next |-> cmd.next, late |-> cmd.late]
    BY <1>2 DEF JoinOld, TypeOK, Commands
  <2> QED
    BY <1>2, <2>1 DEF JoinOld, At
<1> QED
  BY <1>1, <1>2

(* Every variable keeps its type.                                              *)
LEMMA StepType == IInv /\ [Next]_vars => TypeOK'
<1> SUFFICES ASSUME IInv, [Next]_vars PROVE TypeOK'
  OBVIOUS
<1> USE HotkeyAssumption
    DEF IInv, TypeOK, Owners, Running, At, loops, app, Idle
<1>1. CASE Begin
  <2>1. cmd' \in Commands
    BY <1>1, BeginStep DEF Commands
  <2> QED
    BY <1>1, BeginStep, <2>1
<1>2. CASE Take
  <2>1. cmd' \in Commands
    BY <1>2, TakeStep DEF Commands
  <2>2. quit' \in [Threads -> BOOLEAN]
    BY <1>2, TakeStep
  <2> QED
    BY <1>2, TakeStep, <2>1, <2>2
<1>3. CASE Same
  <2>1. cmd' \in Commands
    BY <1>3 DEF Commands, Registered, Same
  <2>2. cmd.want \in Bindings
    BY <1>3 DEF CommandShape, Same
  <2>3. status' \in [phase : {"registered", "unavailable"}, binding : Bindings]
    BY <1>3, <2>2 DEF Commands, PreviousWorks, RegistrationsMatch, Live, LiveUnlessStruck, Registered, Same
  <2>4. hotkey' \in Threads \cup {None}
    BY <1>3 DEF Commands, Same
  <2> QED
    BY <1>3, <2>1, <2>2, <2>3, <2>4 DEF MutexFree, Same
<1>4. CASE Different
  <2>1. cmd' \in Commands
    BY <1>4 DEF Commands, Goto, Different
  <2> QED
    BY <1>4, <2>1 DEF Goto, Different
<1>5. CASE Spawn
  <2>1. cmd' \in Commands
    BY <1>5, SpawnStep DEF Commands
  <2>2. /\ thread' \in [Threads -> {"none", "register", "report", "loop", "unregister"}]
        /\ started' \in [Threads -> {"empty", "ok", "err"}]
    BY <1>5, SpawnStep
  <2>4. listening' \in [Threads -> BOOLEAN] /\ events' \in [Threads -> BOOLEAN]
    BY <1>5, SpawnStep
  <2>3. bound' \in [Threads -> Bindings \cup {None}]
    BY <1>5, SpawnStep DEF Commands
  <2> QED
    BY <1>5, SpawnStep, <2>1, <2>2, <2>3, <2>4
<1>6. CASE Await
  <2>1. cmd' \in Commands
    BY <1>6 DEF Commands, Goto, Await
  <2> QED
    BY <1>6, <2>1 DEF Goto, Await
<1>7. CASE GiveUp
  <2>1. cmd' \in Commands
    BY <1>7 DEF Commands, GiveUp
  <2> QED
    BY <1>7, <2>1 DEF GiveUp
<1>8. CASE Dispatcher
  <2>1. cmd' \in Commands
    BY <1>8 DEF Commands, Goto, PostQuit, Dispatcher
  <2> QED
    BY <1>8, <2>1 DEF Goto, PostQuit, Dispatcher
<1>9. CASE Undo
  <2>1. cmd' \in Commands
    BY <1>9 DEF Commands, Undo
  <2> QED
    BY <1>9, <2>1 DEF Undo
<1>10. CASE JoinOld
  <2>1. cmd' \in Commands
    BY <1>10, JoinOldStep DEF Commands
  <2>2. /\ events' \in [Threads -> BOOLEAN] /\ bound' \in [Threads -> Bindings \cup {None}]
        /\ struck' \subseteq Threads
    BY <1>10, JoinOldStep
  <2> QED
    BY <1>10, JoinOldStep, <2>1, <2>2
<1>11. CASE Install
  <2>1. cmd' \in Commands
    BY <1>11 DEF Commands, Registered, Install
  <2>2. cmd.want \in Bindings
    BY <1>11 DEF CommandShape, Install
  <2>3. status' \in [phase : {"registered", "unavailable"}, binding : Bindings]
    BY <1>11, <2>2 DEF Commands, PreviousWorks, RegistrationsMatch, Live, LiveUnlessStruck, Registered, Install
  <2>4. hotkey' \in Threads \cup {None}
    BY <1>11 DEF Commands, Install
  <2> QED
    BY <1>11, <2>1, <2>2, <2>3, <2>4 DEF MutexFree, Install
<1>12. CASE Failed
  <2>1. cmd' \in Commands
    BY <1>12, FailedStep DEF Commands
  <2>2. cmd.want \in Bindings
    BY <1>12, FailedStep DEF CommandShape
  <2>3. status' \in [phase : {"registered", "unavailable"}, binding : Bindings]
    BY <1>12, <2>2, FailedStep DEF PreviousWorks, LiveUnlessStruck
  <2>4. hotkey' \in Threads \cup {None}
    BY <1>12, FailedStep DEF Commands
  <2> QED
    BY <1>12, FailedStep, <2>1, <2>3, <2>4
<1>13. CASE Persist
  <2>1. cmd' \in Commands
    BY <1>13 DEF Commands, Return, Persist
  <2>2. cmd.want \in Bindings
    BY <1>13 DEF CommandShape, Persist
  <2> QED
    BY <1>13, <2>1, <2>2 DEF Return, Persist
<1>24. CASE Drop
  <2>1. cmd' \in Commands
    BY <1>24 DEF Commands, Return, Drop
  <2>2. quit' \in [Threads -> BOOLEAN]
    BY <1>24 DEF PostQuit, Drop
  <2>3. struck' \subseteq Threads
    BY <1>24 DEF CommandShape, Commands, Drop
  <2> QED
    BY <1>24, <2>1, <2>2, <2>3 DEF Drop
<1>14. ASSUME NEW t \in Threads, RegisterHotKey(t) PROVE TypeOK'
  <2>1. /\ thread' \in [Threads -> {"none", "register", "report", "loop", "unregister"}]
        /\ quit' \in [Threads -> BOOLEAN]
    BY <1>14 DEF EndThread, RegisterHotKey
  <2>2. bound' \in [Threads -> Bindings \cup {None}] /\ owner' \in [Bindings -> Owners]
    BY <1>14 DEF EndThread, RegisterHotKey
  <2>3. started' \in [Threads -> {"empty", "ok", "err"}]
    BY <1>14 DEF RegisterHotKey
  <2> QED
    BY <1>14, <2>1, <2>2, <2>3 DEF RegisterHotKey
<1>15. ASSUME NEW t \in Threads, Report(t) PROVE TypeOK'
  BY <1>15 DEF Report
<1>16. ASSUME NEW t \in Threads, Quit(t) PROVE TypeOK'
  BY <1>16 DEF Quit
<1>17. ASSUME NEW t \in Threads, UnregisterHotKey(t) PROVE TypeOK'
  BY <1>17 DEF EndThread, UnregisterHotKey
<1>18. ASSUME NEW t \in Threads, Press(t) PROVE TypeOK'
  BY <1>18 DEF Press
<1>19. CASE ExitTakes
  BY <1>19 DEF PostQuit, ExitTakes
<1>20. CASE ExitJoins
  BY <1>20 DEF ExitJoins
<1>21. CASE Exit
  BY <1>21 DEF Exit
<1>22. CASE OtherApp
  BY <1>22 DEF OtherApp
<1>23. CASE UNCHANGED vars
  BY <1>23 DEF vars
<1> QED
  BY <1>1, <1>2, <1>3, <1>4, <1>5, <1>6, <1>7, <1>8, <1>9, <1>10, <1>11, <1>12,
     <1>13, <1>14, <1>15, <1>16, <1>17, <1>18, <1>19, <1>20, <1>21, <1>22, <1>23, <1>24
  DEF Next, Main, Loop

(* A command has in hand the threads that the code has in scope there.         *)
LEMMA StepShape == IInv /\ [Next]_vars /\ Running' => CommandShape'
<1> SUFFICES ASSUME IInv, [Next]_vars, Running' PROVE CommandShape'
  OBVIOUS
<1> USE HotkeyAssumption
    DEF IInv, TypeOK, Owners, CommandShape, HotkeyWorks, Running, At, loops, app, Idle,
        Commands
<1>1. CASE Begin
  BY <1>1, BeginStep
<1>2. CASE Take
  BY <1>2, TakeStep
<1>3. CASE Same
  BY <1>3 DEF MutexFree, Registered, Same
<1>4. CASE Different
  BY <1>4 DEF Goto, Different
<1>5. CASE Spawn
  BY <1>5, SpawnStep
<1>6. CASE Await
  BY <1>6 DEF Goto, Await
<1>7. CASE GiveUp
  BY <1>7 DEF GiveUp
<1>8. CASE Dispatcher
  BY <1>8 DEF Goto, PostQuit, Dispatcher
<1>9. CASE Undo
  BY <1>9 DEF Undo
<1>10. CASE JoinOld
  BY <1>10, JoinOldStep
<1>11. CASE Install
  BY <1>11 DEF MutexFree, Registered, Install
<1>12. CASE Failed
  BY <1>12, FailedStep
<1>13. CASE Persist
  BY <1>13 DEF Return, Persist
<1>24. CASE Drop
  BY <1>24 DEF PostQuit, Return, Drop
<1>14. ASSUME NEW t \in Threads, RegisterHotKey(t) PROVE CommandShape'
  BY <1>14 DEF EndThread, RegisterHotKey
<1>15. ASSUME NEW t \in Threads, Report(t) PROVE CommandShape'
  BY <1>15 DEF Report
<1>16. ASSUME NEW t \in Threads, Quit(t) PROVE CommandShape'
  BY <1>16 DEF Quit
<1>17. ASSUME NEW t \in Threads, UnregisterHotKey(t) PROVE CommandShape'
  BY <1>17 DEF EndThread, UnregisterHotKey
<1>18. ASSUME NEW t \in Threads, Press(t) PROVE CommandShape'
  BY <1>18 DEF Press
<1>19. CASE ExitTakes
  BY <1>19 DEF PostQuit, ExitTakes
<1>20. CASE ExitJoins
  BY <1>20 DEF ExitJoins
<1>21. CASE Exit
  BY <1>21 DEF Exit
<1>22. CASE OtherApp
  BY <1>22 DEF OtherApp
<1>23. CASE UNCHANGED vars
  BY <1>23 DEF vars
<1> QED
  BY <1>1, <1>2, <1>3, <1>4, <1>5, <1>6, <1>7, <1>8, <1>9, <1>10, <1>11, <1>12,
     <1>13, <1>14, <1>15, <1>16, <1>17, <1>18, <1>19, <1>20, <1>21, <1>22, <1>23, <1>24
  DEF Next, Main, Loop

(* Windows and the message loops agree on what is registered: a thread only    *)
(* ends after it has unregistered.                                             *)
LEMMA StepRegistrations == IInv /\ [Next]_vars /\ Running' => RegistrationsMatch'
<1> SUFFICES ASSUME IInv, [Next]_vars, Running' PROVE RegistrationsMatch'
  OBVIOUS
<1> USE HotkeyAssumption
    DEF IInv, TypeOK, Owners, RegistrationsMatch, NextWorks, CommandShape, Live, LiveUnlessStruck, Ending,
        HotkeyWorks, PreviousWorks, Running, At, loops, app, Idle, Commands
<1>1. CASE Begin
  BY <1>1, BeginStep
<1>2. CASE Take
  BY <1>2, TakeStep
<1>3. CASE Same
  BY <1>3 DEF MutexFree, Registered, Same
<1>4. CASE Different
  BY <1>4 DEF Goto, Different
<1>5. CASE Spawn
  BY <1>5, SpawnStep
<1>6. CASE Await
  BY <1>6 DEF Goto, Await
<1>7. CASE GiveUp
  BY <1>7 DEF GiveUp
<1>8. CASE Dispatcher
  BY <1>8 DEF Goto, PostQuit, Dispatcher
<1>9. CASE Undo
  BY <1>9 DEF Undo
<1>10. CASE JoinOld
  <2>1. cmd.old \in Threads /\ thread[cmd.old] = "none" /\ Running
    BY <1>10, JoinOldStep
  <2>2. bound' = [bound EXCEPT ![cmd.old] = None] /\ UNCHANGED <<owner, thread, quit>>
    BY <1>10, JoinOldStep
  <2>3. \A t \in Threads : thread[t] # "none" => bound'[t] = bound[t]
    BY <2>1, <2>2
  <2>4. \A b \in Bindings : owner[b] # cmd.old
    BY <2>1
  <2>5. \A t \in Threads : thread[t] # "none" => bound'[t] \in Bindings
    BY <2>1, <2>3
  <2> QED
    BY <2>1, <2>2, <2>3, <2>4, <2>5
<1>11. CASE Install
  BY <1>11 DEF MutexFree, Registered, Install
<1>12. CASE Failed
  BY <1>12, FailedStep
<1>13. CASE Persist
  BY <1>13 DEF Return, Persist
<1>24. CASE Drop
  BY <1>24 DEF PostQuit, Return, Drop
<1>14. ASSUME NEW t \in Threads, RegisterHotKey(t) PROVE RegistrationsMatch'
  BY <1>14 DEF EndThread, RegisterHotKey
<1>15. ASSUME NEW t \in Threads, Report(t) PROVE RegistrationsMatch'
  BY <1>15 DEF Report
<1>16. ASSUME NEW t \in Threads, Quit(t) PROVE RegistrationsMatch'
  BY <1>16 DEF Quit
<1>17. ASSUME NEW t \in Threads, UnregisterHotKey(t) PROVE RegistrationsMatch'
  BY <1>17 DEF EndThread, UnregisterHotKey
<1>18. ASSUME NEW t \in Threads, Press(t) PROVE RegistrationsMatch'
  BY <1>18 DEF Press
<1>19. CASE ExitTakes
  BY <1>19 DEF PostQuit, ExitTakes
<1>20. CASE ExitJoins
  BY <1>20 DEF ExitJoins
<1>21. CASE Exit
  BY <1>21 DEF Exit
<1>22. CASE OtherApp
  BY <1>22 DEF OtherApp
<1>23. CASE UNCHANGED vars
  BY <1>23 DEF vars
<1> QED
  BY <1>1, <1>2, <1>3, <1>4, <1>5, <1>6, <1>7, <1>8, <1>9, <1>10, <1>11, <1>12,
     <1>13, <1>14, <1>15, <1>16, <1>17, <1>18, <1>19, <1>20, <1>21, <1>22, <1>23, <1>24
  DEF Next, Main, Loop

(* Only the call that started a thread listens to it, and no longer than that. *)
LEMMA StepListener == IInv /\ [Next]_vars /\ Running' => ListenerIsStarter'
<1> SUFFICES ASSUME IInv, [Next]_vars, Running' PROVE ListenerIsStarter'
  OBVIOUS
<1> USE HotkeyAssumption
    DEF IInv, TypeOK, Owners, ListenerIsStarter, CommandShape, NextWorks, Running, At,
        loops, app, Idle, Commands
<1>1. CASE Begin
  BY <1>1, BeginStep
<1>2. CASE Take
  BY <1>2, TakeStep
<1>3. CASE Same
  BY <1>3 DEF MutexFree, Registered, Same
<1>4. CASE Different
  BY <1>4 DEF Goto, Different
<1>5. CASE Spawn
  BY <1>5, SpawnStep
<1>6. CASE Await
  BY <1>6 DEF Goto, Await
<1>7. CASE GiveUp
  BY <1>7 DEF GiveUp
<1>8. CASE Dispatcher
  BY <1>8 DEF Goto, PostQuit, Dispatcher
<1>9. CASE Undo
  BY <1>9 DEF Undo
<1>10. CASE JoinOld
  BY <1>10, JoinOldStep
<1>11. CASE Install
  BY <1>11 DEF MutexFree, Registered, Install
<1>12. CASE Failed
  BY <1>12, FailedStep
<1>13. CASE Persist
  BY <1>13 DEF Return, Persist
<1>24. CASE Drop
  BY <1>24 DEF PostQuit, Return, Drop
<1>14. ASSUME NEW t \in Threads, RegisterHotKey(t) PROVE ListenerIsStarter'
  BY <1>14 DEF EndThread, RegisterHotKey
<1>15. ASSUME NEW t \in Threads, Report(t) PROVE ListenerIsStarter'
  BY <1>15 DEF Report
<1>16. ASSUME NEW t \in Threads, Quit(t) PROVE ListenerIsStarter'
  BY <1>16 DEF Quit
<1>17. ASSUME NEW t \in Threads, UnregisterHotKey(t) PROVE ListenerIsStarter'
  BY <1>17 DEF EndThread, UnregisterHotKey
<1>18. ASSUME NEW t \in Threads, Press(t) PROVE ListenerIsStarter'
  BY <1>18 DEF Press
<1>19. CASE ExitTakes
  BY <1>19 DEF PostQuit, ExitTakes
<1>20. CASE ExitJoins
  BY <1>20 DEF ExitJoins
<1>21. CASE Exit
  BY <1>21 DEF Exit
<1>22. CASE OtherApp
  BY <1>22 DEF OtherApp
<1>23. CASE UNCHANGED vars
  BY <1>23 DEF vars
<1> QED
  BY <1>1, <1>2, <1>3, <1>4, <1>5, <1>6, <1>7, <1>8, <1>9, <1>10, <1>11, <1>12,
     <1>13, <1>14, <1>15, <1>16, <1>17, <1>18, <1>19, <1>20, <1>21, <1>22, <1>23, <1>24
  DEF Next, Main, Loop

(* The stored registration works and is the one the status shows; only the     *)
(* exit takes it away without saying so.                                       *)
LEMMA StepHotkey == IInv /\ [Next]_vars /\ Running' => HotkeyWorks'
<1> SUFFICES ASSUME IInv, [Next]_vars, Running' PROVE HotkeyWorks'
  OBVIOUS
<1> USE HotkeyAssumption
    DEF IInv, TypeOK, Owners, HotkeyWorks, CommandShape, PreviousWorks, NextWorks,
        ExitIsAlone, Live, LiveUnlessStruck, Ending, RegistrationsMatch, Running, At, loops, app, Idle,
        Commands
<1>1. CASE Begin
  BY <1>1, BeginStep
<1>2. CASE Take
  BY <1>2, TakeStep
<1>3. CASE Same
  BY <1>3 DEF MutexFree, Registered, Same
<1>4. CASE Different
  BY <1>4 DEF Goto, Different
<1>5. CASE Spawn
  BY <1>5, SpawnStep
<1>6. CASE Await
  BY <1>6 DEF Goto, Await
<1>7. CASE GiveUp
  BY <1>7 DEF GiveUp
<1>8. CASE Dispatcher
  BY <1>8 DEF Goto, PostQuit, Dispatcher
<1>9. CASE Undo
  BY <1>9 DEF Undo
<1>10. CASE JoinOld
  BY <1>10, JoinOldStep
<1>11. CASE Install
  BY <1>11 DEF MutexFree, Registered, Install
<1>12. CASE Failed
  BY <1>12, FailedStep
<1>13. CASE Persist
  BY <1>13 DEF Return, Persist
<1>24. CASE Drop
  BY <1>24 DEF PostQuit, Return, Drop
<1>14. ASSUME NEW t \in Threads, RegisterHotKey(t) PROVE HotkeyWorks'
  BY <1>14 DEF EndThread, RegisterHotKey
<1>15. ASSUME NEW t \in Threads, Report(t) PROVE HotkeyWorks'
  BY <1>15 DEF Report
<1>16. ASSUME NEW t \in Threads, Quit(t) PROVE HotkeyWorks'
  BY <1>16 DEF Quit
<1>17. ASSUME NEW t \in Threads, UnregisterHotKey(t) PROVE HotkeyWorks'
  BY <1>17 DEF EndThread, UnregisterHotKey
<1>18. ASSUME NEW t \in Threads, Press(t) PROVE HotkeyWorks'
  BY <1>18 DEF Press
<1>19. CASE ExitTakes
  BY <1>19 DEF PostQuit, ExitTakes
<1>20. CASE ExitJoins
  BY <1>20 DEF ExitJoins
<1>21. CASE Exit
  BY <1>21 DEF Exit
<1>22. CASE OtherApp
  BY <1>22 DEF OtherApp
<1>23. CASE UNCHANGED vars
  BY <1>23 DEF vars
<1> QED
  BY <1>1, <1>2, <1>3, <1>4, <1>5, <1>6, <1>7, <1>8, <1>9, <1>10, <1>11, <1>12,
     <1>13, <1>14, <1>15, <1>16, <1>17, <1>18, <1>19, <1>20, <1>21, <1>22, <1>23, <1>24
  DEF Next, Main, Loop

(* The previous registration works until its command shuts it down.            *)
LEMMA StepPrevious == IInv /\ [Next]_vars /\ Running' => PreviousWorks'
<1> SUFFICES ASSUME IInv, [Next]_vars, Running' PROVE PreviousWorks'
  OBVIOUS
<1> USE HotkeyAssumption
    DEF IInv, TypeOK, Owners, PreviousWorks, HotkeyWorks, CommandShape, NextWorks,
        ExitIsAlone, Live, LiveUnlessStruck, Ending, RegistrationsMatch, Running, At, loops, app, Idle,
        Commands
<1>1. CASE Begin
  BY <1>1, BeginStep
<1>2. CASE Take
  BY <1>2, TakeStep
<1>3. CASE Same
  BY <1>3 DEF MutexFree, Registered, Same
<1>4. CASE Different
  BY <1>4 DEF Goto, Different
<1>5. CASE Spawn
  BY <1>5, SpawnStep
<1>6. CASE Await
  BY <1>6 DEF Goto, Await
<1>7. CASE GiveUp
  BY <1>7 DEF GiveUp
<1>8. CASE Dispatcher
  BY <1>8 DEF Goto, PostQuit, Dispatcher
<1>9. CASE Undo
  BY <1>9 DEF Undo
<1>10. CASE JoinOld
  BY <1>10, JoinOldStep
<1>11. CASE Install
  BY <1>11 DEF MutexFree, Registered, Install
<1>12. CASE Failed
  BY <1>12, FailedStep
<1>13. CASE Persist
  BY <1>13 DEF Return, Persist
<1>24. CASE Drop
  BY <1>24 DEF PostQuit, Return, Drop
<1>14. ASSUME NEW t \in Threads, RegisterHotKey(t) PROVE PreviousWorks'
  BY <1>14 DEF EndThread, RegisterHotKey
<1>15. ASSUME NEW t \in Threads, Report(t) PROVE PreviousWorks'
  BY <1>15 DEF Report
<1>16. ASSUME NEW t \in Threads, Quit(t) PROVE PreviousWorks'
  BY <1>16 DEF Quit
<1>17. ASSUME NEW t \in Threads, UnregisterHotKey(t) PROVE PreviousWorks'
  BY <1>17 DEF EndThread, UnregisterHotKey
<1>18. ASSUME NEW t \in Threads, Press(t) PROVE PreviousWorks'
  BY <1>18 DEF Press
<1>19. CASE ExitTakes
  BY <1>19 DEF PostQuit, ExitTakes
<1>20. CASE ExitJoins
  BY <1>20 DEF ExitJoins
<1>21. CASE Exit
  BY <1>21 DEF Exit
<1>22. CASE OtherApp
  BY <1>22 DEF OtherApp
<1>23. CASE UNCHANGED vars
  BY <1>23 DEF vars
<1> QED
  BY <1>1, <1>2, <1>3, <1>4, <1>5, <1>6, <1>7, <1>8, <1>9, <1>10, <1>11, <1>12,
     <1>13, <1>14, <1>15, <1>16, <1>17, <1>18, <1>19, <1>20, <1>21, <1>22, <1>23, <1>24
  DEF Next, Main, Loop

(* The new thread is where its command expects it, whatever it answers and     *)
(* when.                                                                       *)
LEMMA StepNext == IInv /\ [Next]_vars /\ Running' => NextWorks'
<1> SUFFICES ASSUME IInv, [Next]_vars, Running' PROVE NextWorks'
  OBVIOUS
<1> USE HotkeyAssumption
    DEF IInv, TypeOK, Owners, NextWorks, PreviousWorks, HotkeyWorks, LoopsAreKnown, CommandShape,
        ExitIsAlone, ListenerIsStarter, Live, LiveUnlessStruck, Ending, RegistrationsMatch, Running, At,
        loops, app, Idle, Commands
<1>1. CASE Begin
  BY <1>1, BeginStep
<1>2. CASE Take
  BY <1>2, TakeStep
<1>3. CASE Same
  BY <1>3 DEF MutexFree, Registered, Same
<1>4. CASE Different
  BY <1>4 DEF Goto, Different
<1>5. CASE Spawn
  BY <1>5, SpawnStep
<1>6. CASE Await
  BY <1>6 DEF Goto, Await
<1>7. CASE GiveUp
  BY <1>7 DEF GiveUp
<1>8. CASE Dispatcher
  BY <1>8 DEF Goto, PostQuit, Dispatcher
<1>9. CASE Undo
  BY <1>9 DEF Undo
<1>10. CASE JoinOld
  BY <1>10, JoinOldStep
<1>11. CASE Install
  BY <1>11 DEF MutexFree, Registered, Install
<1>12. CASE Failed
  BY <1>12, FailedStep
<1>13. CASE Persist
  BY <1>13 DEF Return, Persist
<1>24. CASE Drop
  BY <1>24 DEF PostQuit, Return, Drop
<1>14. ASSUME NEW t \in Threads, RegisterHotKey(t) PROVE NextWorks'
  BY <1>14 DEF EndThread, RegisterHotKey
<1>15. ASSUME NEW t \in Threads, Report(t) PROVE NextWorks'
  BY <1>15 DEF Report
<1>16. ASSUME NEW t \in Threads, Quit(t) PROVE NextWorks'
  BY <1>16 DEF Quit
<1>17. ASSUME NEW t \in Threads, UnregisterHotKey(t) PROVE NextWorks'
  BY <1>17 DEF EndThread, UnregisterHotKey
<1>18. ASSUME NEW t \in Threads, Press(t) PROVE NextWorks'
  BY <1>18 DEF Press
<1>19. CASE ExitTakes
  BY <1>19 DEF PostQuit, ExitTakes
<1>20. CASE ExitJoins
  BY <1>20 DEF ExitJoins
<1>21. CASE Exit
  BY <1>21 DEF Exit
<1>22. CASE OtherApp
  BY <1>22 DEF OtherApp
<1>23. CASE UNCHANGED vars
  BY <1>23 DEF vars
<1> QED
  BY <1>1, <1>2, <1>3, <1>4, <1>5, <1>6, <1>7, <1>8, <1>9, <1>10, <1>11, <1>12,
     <1>13, <1>14, <1>15, <1>16, <1>17, <1>18, <1>19, <1>20, <1>21, <1>22, <1>23, <1>24
  DEF Next, Main, Loop

(* The thread the exit joins is in nobody else's hand: its name is not used    *)
(* again before the join.                                                      *)
LEMMA StepExit == IInv /\ [Next]_vars /\ Running' => ExitIsAlone'
<1> SUFFICES ASSUME IInv, [Next]_vars, Running' PROVE ExitIsAlone'
  OBVIOUS
<1> USE HotkeyAssumption
    DEF IInv, TypeOK, Owners, ExitIsAlone, PreviousWorks, NextWorks, HotkeyWorks,
        CommandShape, Live, LiveUnlessStruck, Ending, RegistrationsMatch, Running, At, loops, app, Idle,
        Commands
<1>1. CASE Begin
  BY <1>1, BeginStep
<1>2. CASE Take
  BY <1>2, TakeStep
<1>3. CASE Same
  BY <1>3 DEF MutexFree, Registered, Same
<1>4. CASE Different
  BY <1>4 DEF Goto, Different
<1>5. CASE Spawn
  BY <1>5, SpawnStep
<1>6. CASE Await
  BY <1>6 DEF Goto, Await
<1>7. CASE GiveUp
  BY <1>7 DEF GiveUp
<1>8. CASE Dispatcher
  BY <1>8 DEF Goto, PostQuit, Dispatcher
<1>9. CASE Undo
  BY <1>9 DEF Undo
<1>10. CASE JoinOld
  BY <1>10, JoinOldStep
<1>11. CASE Install
  BY <1>11 DEF MutexFree, Registered, Install
<1>12. CASE Failed
  BY <1>12, FailedStep
<1>13. CASE Persist
  BY <1>13 DEF Return, Persist
<1>24. CASE Drop
  BY <1>24 DEF PostQuit, Return, Drop
<1>14. ASSUME NEW t \in Threads, RegisterHotKey(t) PROVE ExitIsAlone'
  BY <1>14 DEF EndThread, RegisterHotKey
<1>15. ASSUME NEW t \in Threads, Report(t) PROVE ExitIsAlone'
  BY <1>15 DEF Report
<1>16. ASSUME NEW t \in Threads, Quit(t) PROVE ExitIsAlone'
  BY <1>16 DEF Quit
<1>17. ASSUME NEW t \in Threads, UnregisterHotKey(t) PROVE ExitIsAlone'
  BY <1>17 DEF EndThread, UnregisterHotKey
<1>18. ASSUME NEW t \in Threads, Press(t) PROVE ExitIsAlone'
  BY <1>18 DEF Press
<1>19. CASE ExitTakes
  BY <1>19 DEF PostQuit, ExitTakes
<1>20. CASE ExitJoins
  BY <1>20 DEF ExitJoins
<1>21. CASE Exit
  BY <1>21 DEF Exit
<1>22. CASE OtherApp
  BY <1>22 DEF OtherApp
<1>23. CASE UNCHANGED vars
  BY <1>23 DEF vars
<1> QED
  BY <1>1, <1>2, <1>3, <1>4, <1>5, <1>6, <1>7, <1>8, <1>9, <1>10, <1>11, <1>12,
     <1>13, <1>14, <1>15, <1>16, <1>17, <1>18, <1>19, <1>20, <1>21, <1>22, <1>23, <1>24
  DEF Next, Main, Loop

(* No message loop is forgotten, except the late one of a start that gave up.  *)
LEMMA StepLoops == IInv /\ [Next]_vars /\ Running' => LoopsAreKnown'
<1> SUFFICES ASSUME IInv, [Next]_vars, Running' PROVE LoopsAreKnown'
  OBVIOUS
<1> USE HotkeyAssumption
    DEF IInv, TypeOK, Owners, LoopsAreKnown, Orphan, ListenerIsStarter, PreviousWorks,
        NextWorks, ExitIsAlone, HotkeyWorks, CommandShape, Live, LiveUnlessStruck, Ending, RegistrationsMatch,
        Running, At, loops, app, Idle, Commands
<1>1. CASE Begin
  BY <1>1, BeginStep
<1>2. CASE Take
  BY <1>2, TakeStep
<1>3. CASE Same
  BY <1>3 DEF MutexFree, Registered, Same
<1>4. CASE Different
  BY <1>4 DEF Goto, Different
<1>5. CASE Spawn
  BY <1>5, SpawnStep
<1>6. CASE Await
  BY <1>6 DEF Goto, Await
<1>7. CASE GiveUp
  BY <1>7 DEF GiveUp
<1>8. CASE Dispatcher
  BY <1>8 DEF Goto, PostQuit, Dispatcher
<1>9. CASE Undo
  BY <1>9 DEF Undo
<1>10. CASE JoinOld
  BY <1>10, JoinOldStep
<1>11. CASE Install
  BY <1>11 DEF MutexFree, Registered, Install
<1>12. CASE Failed
  BY <1>12, FailedStep
<1>13. CASE Persist
  BY <1>13 DEF Return, Persist
<1>24. CASE Drop
  BY <1>24 DEF PostQuit, Return, Drop
<1>14. ASSUME NEW t \in Threads, RegisterHotKey(t) PROVE LoopsAreKnown'
  BY <1>14 DEF EndThread, RegisterHotKey
<1>15. ASSUME NEW t \in Threads, Report(t) PROVE LoopsAreKnown'
  BY <1>15 DEF Report
<1>16. ASSUME NEW t \in Threads, Quit(t) PROVE LoopsAreKnown'
  BY <1>16 DEF Quit
<1>17. ASSUME NEW t \in Threads, UnregisterHotKey(t) PROVE LoopsAreKnown'
  BY <1>17 DEF EndThread, UnregisterHotKey
<1>18. ASSUME NEW t \in Threads, Press(t) PROVE LoopsAreKnown'
  BY <1>18 DEF Press
<1>19. CASE ExitTakes
  BY <1>19 DEF PostQuit, ExitTakes
<1>20. CASE ExitJoins
  BY <1>20 DEF ExitJoins
<1>21. CASE Exit
  BY <1>21 DEF Exit
<1>22. CASE OtherApp
  BY <1>22 DEF OtherApp
<1>23. CASE UNCHANGED vars
  BY <1>23 DEF vars
<1> QED
  BY <1>1, <1>2, <1>3, <1>4, <1>5, <1>6, <1>7, <1>8, <1>9, <1>10, <1>11, <1>12,
     <1>13, <1>14, <1>15, <1>16, <1>17, <1>18, <1>19, <1>20, <1>21, <1>22, <1>23, <1>24
  DEF Next, Main, Loop

(* In the beginning there is no hotkey and no thread, and the status says so.  *)
LEMMA InitInv == Init => IInv
<1> SUFFICES ASSUME Init PROVE IInv
  OBVIOUS
<1>1. TypeOK
  BY HotkeyAssumption DEF Init, TypeOK, Commands, Owners, Idle
<1>2. cmd = [at |-> "take", kind |-> "start", want |-> saved, old |-> None, next |-> None,
               late |-> None]
  BY DEF Init, Idle
<1>3. /\ owner \in [Bindings -> {Other, None}] /\ saved \in Bindings
      /\ thread = [t \in Threads |-> "none"] /\ quit = [t \in Threads |-> FALSE]
      /\ listening = [t \in Threads |-> FALSE]
      /\ hotkey = None /\ status.phase = "unavailable" /\ exit = "no" /\ struck = {}
  BY DEF Init
<1>4. CommandShape /\ HotkeyWorks /\ PreviousWorks /\ NextWorks /\ ExitIsAlone
  BY <1>2, <1>3, HotkeyAssumption
  DEF CommandShape, HotkeyWorks, PreviousWorks, NextWorks, ExitIsAlone
<1>5. RegistrationsMatch /\ LoopsAreKnown
  BY <1>3, HotkeyAssumption DEF RegistrationsMatch, LoopsAreKnown
<1>6. ListenerIsStarter
  BY <1>2, <1>3, HotkeyAssumption DEF ListenerIsStarter
<1> QED
  BY <1>1, <1>4, <1>5, <1>6 DEF IInv

(* The strengthened invariant holds in every reachable state.                  *)
THEOREM HotkeyInvariance == Spec => []IInv
<1>1. IInv /\ [Next]_vars => IInv'
  BY StepType, StepShape, StepRegistrations, StepListener, StepHotkey, StepPrevious, StepNext,
     StepExit, StepLoops
  DEF IInv
<1> QED
  BY <1>1, InitInv, PTL DEF Spec

(* A binding registered for this process belongs to the stored hotkey, to the  *)
(* command or exit that has its thread in hand, to a thread that is about to   *)
(* answer or to unregister, or to one whose start gave up after it answered.   *)
THEOREM RegistrationOwnership == Spec => []RegistrationHasOwner
<1>1. IInv => RegistrationHasOwner
  BY HotkeyAssumption DEF IInv, RegistrationHasOwner, RegistrationsMatch, LoopsAreKnown
<1> QED
  BY <1>1, HotkeyInvariance, PTL

(* Between two commands the status shown to the user is the truth: registered  *)
(* if and only if there is a hotkey, whose loop runs and holds the binding     *)
(* that is shown.                                                              *)
THEOREM StatusTruth == Spec => []StatusIsTruthful
<1>1. IInv => StatusIsTruthful
  BY HotkeyAssumption
  DEF IInv, TypeOK, StatusIsTruthful, HotkeyWorks, Live, LiveUnlessStruck, Ending, RegistrationsMatch, Running
<1> QED
  BY <1>1, HotkeyInvariance, PTL
==============================================================================
