------------------------ MODULE TextInsertion_proofs ------------------------
(***************************************************************************)
(* Safety of copying, pasting and restoring for any number of attempts, any *)
(* number of user actions and failures.  Each lemma shows that one step    *)
(* keeps one part of the inductive invariant IInv, action by action.       *)
(***************************************************************************)
EXTENDS TextInsertion, TLAPS

\* Every behaviour starts in the inductive invariant.
LEMMA InitEstablishes == Init => IInv
<1> SUFFICES ASSUME Init PROVE IInv
  OBVIOUS
<1> USE InsertionAssumption DEF Init, Texts
<1>1. TypeOK
  BY DEF TypeOK
<1>2. AttemptOrder /\ CounterIsSound /\ TextWaits /\ TargetInFront /\ BackupIsCurrent
  BY DEF AttemptOrder, CounterIsSound, TextWaits, TargetInFront, BackupIsCurrent
<1>3. CopiedFirst /\ TranscriptIsKnown /\ BackupIsKnown
  BY DEF CopiedFirst, TranscriptIsKnown, BackupIsKnown, Pending
<1> QED
  BY <1>1, <1>2, <1>3 DEF IInv

\* A write keeps the types and ends the soundness of every ticket.
LEMMA WriteTypes ==
  ASSUME TypeOK, NEW text \in Texts \cup {NonText}, NEW who, Write(text, who)
  PROVE  /\ clip' \in Texts \cup {NonText} /\ unchanged' \in [Attempts -> BOOLEAN]
         /\ stale' \in [Attempts -> BOOLEAN] /\ slipped' \in [Attempts -> BOOLEAN]
         /\ hit' \in [Attempts -> BOOLEAN]
  BY DEF TypeOK, Write

\* What a write does to an attempt: its ticket is no longer sound, and a foreign
\* write that the counter cannot show is recorded.
LEMMA WriteRecords ==
  ASSUME NEW text, NEW who, Write(text, who), NEW b \in Attempts
  PROVE  /\ clip' = text /\ unchanged'[b] = FALSE
         /\ b # who /\ pc[b] \in {"ticket", "rewrite"} => slipped'[b]
         /\ b # who /\ pc[b] = "copy" /\ original[b] # None => stale'[b]
         /\ slipped[b] => slipped'[b]
         /\ stale[b] => stale'[b]
  BY DEF Write

\* Every step keeps the types.
LEMMA TypeStep == IInv /\ [Next]_vars => TypeOK'
<1> SUFFICES ASSUME IInv, [Next]_vars PROVE TypeOK'
  OBVIOUS
<1> USE InsertionAssumption
  DEF IInv, TypeOK, At, Goto, Texts, winVars, tickets, results, history
<1>1. ASSUME NEW a \in Attempts, Begin(a) PROVE TypeOK'
  BY <1>1 DEF Begin
<1>2. ASSUME NEW a \in Attempts, Look(a) PROVE TypeOK'
  BY <1>2 DEF Finish, Fault, Look
<1>3. ASSUME NEW a \in Attempts, Read(a) PROVE TypeOK'
  BY <1>3 DEF Finish, Read
<1>4. ASSUME NEW a \in Attempts, Copy(a) PROVE TypeOK'
  <2>1. pc' \in [Attempts -> {"new", "look", "read", "copy", "ticket", "focus", "policy", "send",
                              "save", "wait", "rewrite", "done"}]
    BY <1>4 DEF Write, Finish, Fault, Copy
  <2>2. outcome' \in [Attempts -> {"none", "inserted", "copied", "failed"}]
    BY <1>4 DEF Write, Finish, Fault, Copy
  <2>3. original' \in [Attempts -> Texts \cup {None}]
    BY <1>4 DEF Write, Finish, Fault, Copy
  <2>4. keys' \in [Attempts -> {"none", "sent", "handled"}]
    BY <1>4 DEF Write, Finish, Fault, Copy
  <2>5. restore' \in [Attempts -> {"none", "off", "restored", "warned", "unsaved"}]
    BY <1>4 DEF Write, Finish, Fault, Copy
  <2>6. /\ clip' \in Texts \cup {NonText} /\ unchanged' \in [Attempts -> BOOLEAN]
        /\ stale' \in [Attempts -> BOOLEAN] /\ slipped' \in [Attempts -> BOOLEAN]
        /\ hit' \in [Attempts -> BOOLEAN]
    BY <1>4, WriteTypes DEF Finish, Fault, Copy
  <2>7. faults' \in 0..MaxFaults
    BY <1>4 DEF Write, Finish, Fault, Copy
  <2>8. switched' \in [Attempts -> BOOLEAN]
    BY <1>4 DEF Write, Finish, Fault, Copy
  <2> QED
    BY <1>4, <2>1, <2>2, <2>3, <2>4, <2>5, <2>6, <2>7, <2>8 DEF Copy
<1>5. ASSUME NEW a \in Attempts, Ticket(a) PROVE TypeOK'
  BY <1>5 DEF Ticket
<1>6. ASSUME NEW a \in Attempts, Focus(a) PROVE TypeOK'
  <2>1. pc' \in [Attempts -> {"new", "look", "read", "copy", "ticket", "focus", "policy", "send",
                              "save", "wait", "rewrite", "done"}]
    BY <1>6 DEF Finish, DropTicket, Focus
  <2>2. outcome' \in [Attempts -> {"none", "inserted", "copied", "failed"}]
    BY <1>6 DEF Finish, DropTicket, Focus
  <2>3. original' \in [Attempts -> Texts \cup {None}]
    BY <1>6 DEF Finish, DropTicket, Focus
  <2>4. keys' \in [Attempts -> {"none", "sent", "handled"}]
    BY <1>6 DEF Finish, DropTicket, Focus
  <2>5. restore' \in [Attempts -> {"none", "off", "restored", "warned", "unsaved"}]
    BY <1>6 DEF Finish, DropTicket, Focus
  <2>6. /\ clip' \in Texts \cup {NonText} /\ unchanged' \in [Attempts -> BOOLEAN]
        /\ stale' \in [Attempts -> BOOLEAN] /\ slipped' \in [Attempts -> BOOLEAN]
        /\ hit' \in [Attempts -> BOOLEAN]
    BY <1>6 DEF Finish, DropTicket, Focus
  <2>7. faults' \in 0..MaxFaults
    BY <1>6 DEF Finish, DropTicket, Focus
  <2>8. switched' \in [Attempts -> BOOLEAN]
    BY <1>6 DEF Finish, DropTicket, Focus
  <2> QED
    BY <1>6, <2>1, <2>2, <2>3, <2>4, <2>5, <2>6, <2>7, <2>8 DEF Focus
<1>7. ASSUME NEW a \in Attempts, Policy(a) PROVE TypeOK'
  <2>1. pc' \in [Attempts -> {"new", "look", "read", "copy", "ticket", "focus", "policy", "send",
                              "save", "wait", "rewrite", "done"}]
    BY <1>7 DEF Finish, DropTicket, Policy
  <2>2. outcome' \in [Attempts -> {"none", "inserted", "copied", "failed"}]
    BY <1>7 DEF Finish, DropTicket, Policy
  <2>3. original' \in [Attempts -> Texts \cup {None}]
    BY <1>7 DEF Finish, DropTicket, Policy
  <2>4. keys' \in [Attempts -> {"none", "sent", "handled"}]
    BY <1>7 DEF Finish, DropTicket, Policy
  <2>5. restore' \in [Attempts -> {"none", "off", "restored", "warned", "unsaved"}]
    BY <1>7 DEF Finish, DropTicket, Policy
  <2>6. /\ clip' \in Texts \cup {NonText} /\ unchanged' \in [Attempts -> BOOLEAN]
        /\ stale' \in [Attempts -> BOOLEAN] /\ slipped' \in [Attempts -> BOOLEAN]
        /\ hit' \in [Attempts -> BOOLEAN]
    BY <1>7 DEF Finish, DropTicket, Policy
  <2>7. faults' \in 0..MaxFaults
    BY <1>7 DEF Finish, DropTicket, Policy
  <2>8. switched' \in [Attempts -> BOOLEAN]
    BY <1>7 DEF Finish, DropTicket, Policy
  <2> QED
    BY <1>7, <2>1, <2>2, <2>3, <2>4, <2>5, <2>6, <2>7, <2>8 DEF Policy
<1>8. ASSUME NEW a \in Attempts, Send(a) PROVE TypeOK'
  <2>1. pc' \in [Attempts -> {"new", "look", "read", "copy", "ticket", "focus", "policy", "send",
                              "save", "wait", "rewrite", "done"}]
    BY <1>8 DEF Finish, DropTicket, Fault, Send
  <2>2. outcome' \in [Attempts -> {"none", "inserted", "copied", "failed"}]
    BY <1>8 DEF Finish, DropTicket, Fault, Send
  <2>3. original' \in [Attempts -> Texts \cup {None}]
    BY <1>8 DEF Finish, DropTicket, Fault, Send
  <2>4. keys' \in [Attempts -> {"none", "sent", "handled"}]
    BY <1>8 DEF Finish, DropTicket, Fault, Send
  <2>5. restore' \in [Attempts -> {"none", "off", "restored", "warned", "unsaved"}]
    BY <1>8 DEF Finish, DropTicket, Fault, Send
  <2>6. /\ clip' \in Texts \cup {NonText} /\ unchanged' \in [Attempts -> BOOLEAN]
        /\ stale' \in [Attempts -> BOOLEAN] /\ slipped' \in [Attempts -> BOOLEAN]
        /\ hit' \in [Attempts -> BOOLEAN]
    BY <1>8 DEF Finish, DropTicket, Fault, Send
  <2>7. faults' \in 0..MaxFaults
    BY <1>8 DEF Finish, DropTicket, Fault, Send
  <2>8. switched' \in [Attempts -> BOOLEAN]
    BY <1>8 DEF Finish, DropTicket, Fault, Send
  <2> QED
    BY <1>8, <2>1, <2>2, <2>3, <2>4, <2>5, <2>6, <2>7, <2>8 DEF Send
<1>9. ASSUME NEW a \in Attempts, Insert(a) PROVE TypeOK'
  BY <1>9 DEF Insert
<1>10. ASSUME NEW a \in Attempts, Save(a) PROVE TypeOK'
  <2>1. pc' \in [Attempts -> {"new", "look", "read", "copy", "ticket", "focus", "policy", "send",
                              "save", "wait", "rewrite", "done"}]
    BY <1>10 DEF DropTicket, Fault, Save
  <2>2. outcome' \in [Attempts -> {"none", "inserted", "copied", "failed"}]
    BY <1>10 DEF DropTicket, Fault, Save
  <2>3. original' \in [Attempts -> Texts \cup {None}]
    BY <1>10 DEF DropTicket, Fault, Save
  <2>4. keys' \in [Attempts -> {"none", "sent", "handled"}]
    BY <1>10 DEF DropTicket, Fault, Save
  <2>5. restore' \in [Attempts -> {"none", "off", "restored", "warned", "unsaved"}]
    BY <1>10 DEF DropTicket, Fault, Save
  <2>6. /\ clip' \in Texts \cup {NonText} /\ unchanged' \in [Attempts -> BOOLEAN]
        /\ stale' \in [Attempts -> BOOLEAN] /\ slipped' \in [Attempts -> BOOLEAN]
        /\ hit' \in [Attempts -> BOOLEAN]
    BY <1>10 DEF DropTicket, Fault, Save
  <2>7. faults' \in 0..MaxFaults
    BY <1>10 DEF DropTicket, Fault, Save
  <2>8. switched' \in [Attempts -> BOOLEAN]
    BY <1>10 DEF DropTicket, Fault, Save
  <2> QED
    BY <1>10, <2>1, <2>2, <2>3, <2>4, <2>5, <2>6, <2>7, <2>8 DEF Save
<1>11. ASSUME NEW a \in Attempts, Decide(a) PROVE TypeOK'
  <2>1. /\ pc' \in [Attempts -> {"new", "look", "read", "copy", "ticket", "focus", "policy", "send",
                                 "save", "wait", "rewrite", "done"}]
        /\ restore' \in [Attempts -> {"none", "off", "restored", "warned", "unsaved"}]
    BY <1>11 DEF DropTicket, Decide
  <2>2. original' \in [Attempts -> Texts \cup {None}] /\ unchanged' \in [Attempts -> BOOLEAN]
    BY <1>11 DEF DropTicket, Decide
  <2> QED
    BY <1>11, <2>1, <2>2 DEF Decide
<1>12. ASSUME NEW a \in Attempts, Rewrite(a) PROVE TypeOK'
  <2>1. pc' \in [Attempts -> {"new", "look", "read", "copy", "ticket", "focus", "policy", "send",
                              "save", "wait", "rewrite", "done"}]
    BY <1>12 DEF Write, Fault, Rewrite
  <2>2. outcome' \in [Attempts -> {"none", "inserted", "copied", "failed"}]
    BY <1>12 DEF Write, Fault, Rewrite
  <2>3. original' \in [Attempts -> Texts \cup {None}]
    BY <1>12 DEF Write, Fault, Rewrite
  <2>4. keys' \in [Attempts -> {"none", "sent", "handled"}]
    BY <1>12 DEF Write, Fault, Rewrite
  <2>5. restore' \in [Attempts -> {"none", "off", "restored", "warned", "unsaved"}]
    BY <1>12 DEF Write, Fault, Rewrite
  <2>6. /\ clip' \in Texts \cup {NonText} /\ unchanged' \in [Attempts -> BOOLEAN]
        /\ stale' \in [Attempts -> BOOLEAN] /\ slipped' \in [Attempts -> BOOLEAN]
        /\ hit' \in [Attempts -> BOOLEAN]
    BY <1>12, WriteTypes DEF Fault, Rewrite, AttemptOrder
  <2>7. faults' \in 0..MaxFaults
    BY <1>12 DEF Write, Fault, Rewrite
  <2>8. switched' \in [Attempts -> BOOLEAN]
    BY <1>12 DEF Write, Fault, Rewrite
  <2>9. revived' \subseteq Attempts
    BY <1>12 DEF Rewrite
  <2> QED
    BY <1>12, <2>1, <2>2, <2>3, <2>4, <2>5, <2>6, <2>7, <2>8, <2>9 DEF Rewrite
<1>13. CASE UserCopies
  BY <1>13 DEF Write, UserCopies
<1>14. CASE UserSwitches
  BY <1>14 DEF UserSwitches
<1>15. CASE UNCHANGED vars
  BY <1>15 DEF vars
<1> QED
  BY <1>1, <1>2, <1>3, <1>4, <1>5, <1>6, <1>7, <1>8, <1>9, <1>10, <1>11, <1>12, <1>13,
     <1>14, <1>15
    DEF Next, Step

\* Every step keeps the order of an attempt: keys, outcome and restore.
LEMMA OrderStep == IInv /\ [Next]_vars => AttemptOrder'
<1> SUFFICES ASSUME IInv, [Next]_vars PROVE AttemptOrder'
  OBVIOUS
<1> USE InsertionAssumption
  DEF IInv, TypeOK, AttemptOrder, At, Goto, Texts, winVars, tickets, results, history
<1>1. ASSUME NEW a \in Attempts, Begin(a) PROVE AttemptOrder'
  BY <1>1 DEF Begin
<1>2. ASSUME NEW a \in Attempts, Look(a) PROVE AttemptOrder'
  BY <1>2 DEF Finish, Fault, Look
<1>3. ASSUME NEW a \in Attempts, Read(a) PROVE AttemptOrder'
  BY <1>3 DEF Finish, Read
<1>4. ASSUME NEW a \in Attempts, Copy(a) PROVE AttemptOrder'
  BY <1>4 DEF Write, Finish, Fault, Copy
<1>5. ASSUME NEW a \in Attempts, Ticket(a) PROVE AttemptOrder'
  BY <1>5 DEF Ticket
<1>6. ASSUME NEW a \in Attempts, Focus(a) PROVE AttemptOrder'
  BY <1>6 DEF Finish, DropTicket, Focus
<1>7. ASSUME NEW a \in Attempts, Policy(a) PROVE AttemptOrder'
  BY <1>7 DEF Finish, DropTicket, Policy
<1>8. ASSUME NEW a \in Attempts, Send(a) PROVE AttemptOrder'
  BY <1>8 DEF Finish, DropTicket, Fault, Send
<1>9. ASSUME NEW a \in Attempts, Insert(a) PROVE AttemptOrder'
  BY <1>9 DEF Insert
<1>10. ASSUME NEW a \in Attempts, Save(a) PROVE AttemptOrder'
  BY <1>10 DEF DropTicket, Fault, Save
<1>11. ASSUME NEW a \in Attempts, Decide(a) PROVE AttemptOrder'
  BY <1>11 DEF DropTicket, Decide
<1>12. ASSUME NEW a \in Attempts, Rewrite(a) PROVE AttemptOrder'
  BY <1>12 DEF Write, Fault, Rewrite
<1>13. CASE UserCopies
  BY <1>13 DEF Write, UserCopies
<1>14. CASE UserSwitches
  BY <1>14 DEF UserSwitches
<1>15. CASE UNCHANGED vars
  BY <1>15 DEF vars
<1> QED
  BY <1>1, <1>2, <1>3, <1>4, <1>5, <1>6, <1>7, <1>8, <1>9, <1>10, <1>11, <1>12, <1>13,
     <1>14, <1>15
    DEF Next, Step

\* A ticket's counter is still sound after every step: every write moves it.
LEMMA CounterStep == IInv /\ [Next]_vars => CounterIsSound'
<1> SUFFICES ASSUME IInv, [Next]_vars PROVE CounterIsSound'
  OBVIOUS
<1> SUFFICES ASSUME NEW b \in Attempts, unchanged'[b] \/ pc'[b] \in {"ticket", "rewrite"}
             PROVE clip' = b \/ slipped'[b]
  BY DEF CounterIsSound
<1> USE InsertionAssumption
  DEF IInv, TypeOK, AttemptOrder, CounterIsSound, At, Goto, Texts, winVars, tickets,
      results, history
<1>1. ASSUME NEW a \in Attempts, Begin(a) PROVE clip' = b \/ slipped'[b]
  BY <1>1 DEF Begin
<1>2. ASSUME NEW a \in Attempts, Look(a) PROVE clip' = b \/ slipped'[b]
  BY <1>2 DEF Finish, Fault, Look
<1>3. ASSUME NEW a \in Attempts, Read(a) PROVE clip' = b \/ slipped'[b]
  BY <1>3 DEF Finish, Read
<1>4. ASSUME NEW a \in Attempts, Copy(a) PROVE clip' = b \/ slipped'[b]
  <2>1. CASE Write(a, a) /\ (Finish(a, "copied") \/ Goto(a, "ticket"))
    <3>1. /\ clip' = a /\ unchanged'[b] = FALSE
          /\ b # a /\ pc[b] \in {"ticket", "rewrite"} => slipped'[b]
      <4> HIDE DEF IInv, TypeOK, AttemptOrder, CounterIsSound
      <4> QED
        BY <2>1, WriteRecords
    <3> QED
      BY <1>4, <2>1, <3>1 DEF Finish
  <2>2. CASE Finish(a, "failed") /\ UNCHANGED <<clip, unchanged, slipped>>
    BY <1>4, <2>2 DEF Finish, Copy
  <2> QED
    BY <1>4, <2>1, <2>2 DEF Copy
<1>5. ASSUME NEW a \in Attempts, Ticket(a) PROVE clip' = b \/ slipped'[b]
  BY <1>5 DEF Ticket
<1>6. ASSUME NEW a \in Attempts, Focus(a) PROVE clip' = b \/ slipped'[b]
  BY <1>6 DEF Finish, DropTicket, Focus
<1>7. ASSUME NEW a \in Attempts, Policy(a) PROVE clip' = b \/ slipped'[b]
  BY <1>7 DEF Finish, DropTicket, Policy
<1>8. ASSUME NEW a \in Attempts, Send(a) PROVE clip' = b \/ slipped'[b]
  BY <1>8 DEF Finish, DropTicket, Fault, Send
<1>9. ASSUME NEW a \in Attempts, Insert(a) PROVE clip' = b \/ slipped'[b]
  BY <1>9 DEF Insert
<1>10. ASSUME NEW a \in Attempts, Save(a) PROVE clip' = b \/ slipped'[b]
  BY <1>10 DEF DropTicket, Fault, Save
<1>11. ASSUME NEW a \in Attempts, Decide(a) PROVE clip' = b \/ slipped'[b]
  BY <1>11 DEF DropTicket, Decide
<1>12. ASSUME NEW a \in Attempts, Rewrite(a) PROVE clip' = b \/ slipped'[b]
  BY <1>12 DEF Write, Fault, Rewrite
<1>13. CASE UserCopies
  BY <1>13 DEF Write, UserCopies
<1>14. CASE UserSwitches
  BY <1>14 DEF UserSwitches
<1>15. CASE UNCHANGED vars
  BY <1>15 DEF vars
<1> QED
  BY <1>1, <1>2, <1>3, <1>4, <1>5, <1>6, <1>7, <1>8, <1>9, <1>10, <1>11, <1>12, <1>13,
     <1>14, <1>15
    DEF Next, Step

\* The text waits for the application: an attempt's own restore comes after its keys.
LEMMA TextStep == IInv /\ [Next]_vars => TextWaits'
<1> SUFFICES ASSUME IInv, [Next]_vars PROVE TextWaits'
  OBVIOUS
<1> USE InsertionAssumption
  DEF IInv, TypeOK, AttemptOrder, TextWaits, At, Goto, Texts, winVars, tickets, results,
      history
<1>1. ASSUME NEW a \in Attempts, Begin(a) PROVE TextWaits'
  BY <1>1 DEF Begin
<1>2. ASSUME NEW a \in Attempts, Look(a) PROVE TextWaits'
  BY <1>2 DEF Finish, Fault, Look
<1>3. ASSUME NEW a \in Attempts, Read(a) PROVE TextWaits'
  BY <1>3 DEF Finish, Read
<1>4. ASSUME NEW a \in Attempts, Copy(a) PROVE TextWaits'
  BY <1>4 DEF Write, Finish, Fault, Copy
<1>5. ASSUME NEW a \in Attempts, Ticket(a) PROVE TextWaits'
  BY <1>5 DEF Ticket
<1>6. ASSUME NEW a \in Attempts, Focus(a) PROVE TextWaits'
  BY <1>6 DEF Finish, DropTicket, Focus
<1>7. ASSUME NEW a \in Attempts, Policy(a) PROVE TextWaits'
  BY <1>7 DEF Finish, DropTicket, Policy
<1>8. ASSUME NEW a \in Attempts, Send(a) PROVE TextWaits'
  BY <1>8 DEF Finish, DropTicket, Fault, Send
<1>9. ASSUME NEW a \in Attempts, Insert(a) PROVE TextWaits'
  BY <1>9 DEF Insert
<1>10. ASSUME NEW a \in Attempts, Save(a) PROVE TextWaits'
  BY <1>10 DEF DropTicket, Fault, Save
<1>11. ASSUME NEW a \in Attempts, Decide(a) PROVE TextWaits'
  BY <1>11 DEF DropTicket, Decide
<1>12. ASSUME NEW a \in Attempts, Rewrite(a) PROVE TextWaits'
  BY <1>12 DEF Write, Fault, Rewrite
<1>13. CASE UserCopies
  BY <1>13 DEF Write, UserCopies
<1>14. CASE UserSwitches
  BY <1>14 DEF UserSwitches
<1>15. CASE UNCHANGED vars
  BY <1>15 DEF vars
<1> QED
  BY <1>1, <1>2, <1>3, <1>4, <1>5, <1>6, <1>7, <1>8, <1>9, <1>10, <1>11, <1>12, <1>13,
     <1>14, <1>15
    DEF Next, Step

\* A focus change after the policy is recorded.
LEMMA TargetStep == IInv /\ [Next]_vars => TargetInFront'
<1> SUFFICES ASSUME IInv, [Next]_vars PROVE TargetInFront'
  OBVIOUS
<1> SUFFICES ASSUME NEW b \in Attempts, pc'[b] = "send", ~switched'[b]
             PROVE foreground' = target'[b] /\ target'[b].process \notin Elevated
  BY DEF TargetInFront
<1> USE InsertionAssumption
  DEF IInv, TypeOK, TargetInFront, At, Goto, Texts, winVars, tickets, results, history
<1>1. ASSUME NEW a \in Attempts, Begin(a)
      PROVE foreground' = target'[b] /\ target'[b].process \notin Elevated
  BY <1>1 DEF Begin
<1>2. ASSUME NEW a \in Attempts, Look(a)
      PROVE foreground' = target'[b] /\ target'[b].process \notin Elevated
  BY <1>2 DEF Finish, Fault, Look
<1>3. ASSUME NEW a \in Attempts, Read(a)
      PROVE foreground' = target'[b] /\ target'[b].process \notin Elevated
  BY <1>3 DEF Finish, Read
<1>4. ASSUME NEW a \in Attempts, Copy(a)
      PROVE foreground' = target'[b] /\ target'[b].process \notin Elevated
  BY <1>4 DEF Write, Finish, Fault, Copy
<1>5. ASSUME NEW a \in Attempts, Ticket(a)
      PROVE foreground' = target'[b] /\ target'[b].process \notin Elevated
  BY <1>5 DEF Ticket
<1>6. ASSUME NEW a \in Attempts, Focus(a)
      PROVE foreground' = target'[b] /\ target'[b].process \notin Elevated
  <2>1. pc[b] = "send"
    BY <1>6 DEF Finish, Focus
  <2>2. UNCHANGED foreground /\ ~switched[b]
    BY <1>6, <2>1 DEF Focus
  <2>3. UNCHANGED target
    BY <1>6 DEF Focus
  <2>4. foreground = target[b] /\ target[b].process \notin Elevated
    BY <2>1, <2>2
  <2> QED
    BY <2>2, <2>3, <2>4
<1>7. ASSUME NEW a \in Attempts, Policy(a)
      PROVE foreground' = target'[b] /\ target'[b].process \notin Elevated
  <2>1. Allowed(a) => foreground = target[a] /\ target[a].process \notin Elevated
    BY DEF Allowed, Windows
  <2> QED
    BY <1>7, <2>1 DEF Finish, DropTicket, Policy
<1>8. ASSUME NEW a \in Attempts, Send(a)
      PROVE foreground' = target'[b] /\ target'[b].process \notin Elevated
  BY <1>8 DEF Finish, DropTicket, Fault, Send
<1>9. ASSUME NEW a \in Attempts, Insert(a)
      PROVE foreground' = target'[b] /\ target'[b].process \notin Elevated
  BY <1>9 DEF Insert
<1>10. ASSUME NEW a \in Attempts, Save(a)
      PROVE foreground' = target'[b] /\ target'[b].process \notin Elevated
  BY <1>10 DEF DropTicket, Fault, Save
<1>11. ASSUME NEW a \in Attempts, Decide(a)
      PROVE foreground' = target'[b] /\ target'[b].process \notin Elevated
  BY <1>11 DEF DropTicket, Decide
<1>12. ASSUME NEW a \in Attempts, Rewrite(a)
      PROVE foreground' = target'[b] /\ target'[b].process \notin Elevated
  BY <1>12 DEF Write, Fault, Rewrite
<1>13. CASE UserCopies
  BY <1>13 DEF Write, UserCopies
<1>14. CASE UserSwitches
  BY <1>14 DEF UserSwitches
<1>15. CASE UNCHANGED vars
  BY <1>15 DEF vars
<1> QED
  BY <1>1, <1>2, <1>3, <1>4, <1>5, <1>6, <1>7, <1>8, <1>9, <1>10, <1>11, <1>12, <1>13,
     <1>14, <1>15
    DEF Next, Step

\* A backup that a foreign write has made old is recorded.
LEMMA BackupStep == IInv /\ [Next]_vars => BackupIsCurrent'
<1> SUFFICES ASSUME IInv, [Next]_vars PROVE BackupIsCurrent'
  OBVIOUS
<1> SUFFICES ASSUME NEW b \in Attempts, pc'[b] = "copy", original'[b] # None
             PROVE clip' = original'[b] \/ stale'[b]
  BY DEF BackupIsCurrent
<1> USE InsertionAssumption
  DEF IInv, TypeOK, AttemptOrder, BackupIsCurrent, At, Goto, Texts, winVars, tickets,
      results, history
<1>1. ASSUME NEW a \in Attempts, Begin(a) PROVE clip' = original'[b] \/ stale'[b]
  BY <1>1 DEF Begin
<1>2. ASSUME NEW a \in Attempts, Look(a) PROVE clip' = original'[b] \/ stale'[b]
  BY <1>2 DEF Finish, Fault, Look
<1>3. ASSUME NEW a \in Attempts, Read(a) PROVE clip' = original'[b] \/ stale'[b]
  BY <1>3 DEF Finish, Read
<1>4. ASSUME NEW a \in Attempts, Copy(a) PROVE clip' = original'[b] \/ stale'[b]
  <2>1. CASE Write(a, a)
    <3>1. /\ b # a /\ pc[b] = "copy" /\ original[b] # None => stale'[b]
          /\ stale[b] => stale'[b]
      <4> HIDE DEF IInv, TypeOK, AttemptOrder, BackupIsCurrent
      <4> QED
        BY <2>1, WriteRecords
    <3> QED
      BY <1>4, <2>1, <3>1 DEF Finish, Copy
  <2>2. CASE UNCHANGED <<clip, stale>>
    BY <1>4, <2>2 DEF Finish, Copy
  <2> QED
    BY <1>4, <2>1, <2>2 DEF Copy
<1>5. ASSUME NEW a \in Attempts, Ticket(a) PROVE clip' = original'[b] \/ stale'[b]
  BY <1>5 DEF Ticket
<1>6. ASSUME NEW a \in Attempts, Focus(a) PROVE clip' = original'[b] \/ stale'[b]
  BY <1>6 DEF Finish, DropTicket, Focus
<1>7. ASSUME NEW a \in Attempts, Policy(a) PROVE clip' = original'[b] \/ stale'[b]
  BY <1>7 DEF Finish, DropTicket, Policy
<1>8. ASSUME NEW a \in Attempts, Send(a) PROVE clip' = original'[b] \/ stale'[b]
  BY <1>8 DEF Finish, DropTicket, Fault, Send
<1>9. ASSUME NEW a \in Attempts, Insert(a) PROVE clip' = original'[b] \/ stale'[b]
  BY <1>9 DEF Insert
<1>10. ASSUME NEW a \in Attempts, Save(a) PROVE clip' = original'[b] \/ stale'[b]
  BY <1>10 DEF DropTicket, Fault, Save
<1>11. ASSUME NEW a \in Attempts, Decide(a) PROVE clip' = original'[b] \/ stale'[b]
  BY <1>11 DEF DropTicket, Decide
<1>12. ASSUME NEW a \in Attempts, Rewrite(a) PROVE clip' = original'[b] \/ stale'[b]
  <2>1. CASE Write(original[a], a)
    <3>1. /\ b # a /\ pc[b] = "copy" /\ original[b] # None => stale'[b]
          /\ stale[b] => stale'[b]
      BY <2>1 DEF Write
    <3> QED
      BY <1>12, <2>1, <3>1 DEF Finish, Rewrite
  <2>2. CASE UNCHANGED <<clip, stale>>
    BY <1>12, <2>2 DEF Rewrite
  <2> QED
    BY <1>12, <2>1, <2>2 DEF Rewrite
<1>13. CASE UserCopies
  <2>1. PICK content \in UserTexts \cup {NonText} : Write(content, None)
    BY <1>13 DEF UserCopies
  <2>2. /\ b # None /\ pc[b] = "copy" /\ original[b] # None => stale'[b]
        /\ stale[b] => stale'[b]
    BY <2>1 DEF Write
  <2> QED
    BY <1>13, <2>2 DEF UserCopies
<1>14. CASE UserSwitches
  BY <1>14 DEF UserSwitches
<1>15. CASE UNCHANGED vars
  BY <1>15 DEF vars
<1> QED
  BY <1>1, <1>2, <1>3, <1>4, <1>5, <1>6, <1>7, <1>8, <1>9, <1>10, <1>11, <1>12, <1>13,
     <1>14, <1>15
    DEF Next, Step

\* A transcript gets into the clipboard, and from there into a backup, only by
\* its own copy.
LEMMA CopiedStep == IInv /\ [Next]_vars => CopiedFirst'
<1> SUFFICES ASSUME IInv, [Next]_vars PROVE CopiedFirst'
  OBVIOUS
<1> USE InsertionAssumption
  DEF IInv, TypeOK, AttemptOrder, CopiedFirst, At, Goto, Texts, winVars, tickets, results,
      history
<1>1. ASSUME NEW a \in Attempts, Begin(a) PROVE CopiedFirst'
  BY <1>1 DEF Begin
<1>2. ASSUME NEW a \in Attempts, Look(a) PROVE CopiedFirst'
  BY <1>2 DEF Finish, Fault, Look
<1>3. ASSUME NEW a \in Attempts, Read(a) PROVE CopiedFirst'
  BY <1>3 DEF Finish, Read
<1>4. ASSUME NEW a \in Attempts, Copy(a) PROVE CopiedFirst'
  BY <1>4 DEF Write, Finish, Fault, Copy
<1>5. ASSUME NEW a \in Attempts, Ticket(a) PROVE CopiedFirst'
  BY <1>5 DEF Ticket
<1>6. ASSUME NEW a \in Attempts, Focus(a) PROVE CopiedFirst'
  BY <1>6 DEF Finish, DropTicket, Focus
<1>7. ASSUME NEW a \in Attempts, Policy(a) PROVE CopiedFirst'
  BY <1>7 DEF Finish, DropTicket, Policy
<1>8. ASSUME NEW a \in Attempts, Send(a) PROVE CopiedFirst'
  BY <1>8 DEF Finish, DropTicket, Fault, Send
<1>9. ASSUME NEW a \in Attempts, Insert(a) PROVE CopiedFirst'
  BY <1>9 DEF Insert
<1>10. ASSUME NEW a \in Attempts, Save(a) PROVE CopiedFirst'
  BY <1>10 DEF DropTicket, Fault, Save
<1>11. ASSUME NEW a \in Attempts, Decide(a) PROVE CopiedFirst'
  BY <1>11 DEF DropTicket, Decide
<1>12. ASSUME NEW a \in Attempts, Rewrite(a) PROVE CopiedFirst'
  BY <1>12 DEF Write, Fault, Rewrite
<1>13. CASE UserCopies
  BY <1>13 DEF Write, UserCopies
<1>14. CASE UserSwitches
  BY <1>14 DEF UserSwitches
<1>15. CASE UNCHANGED vars
  BY <1>15 DEF vars
<1> QED
  BY <1>1, <1>2, <1>3, <1>4, <1>5, <1>6, <1>7, <1>8, <1>9, <1>10, <1>11, <1>12, <1>13,
     <1>14, <1>15
    DEF Next, Step

\* A transcript of which the user knows, or whose attempt has not ended, stays
\* known: only its own restore can end the attempt without a word.
LEMMA KnownStays ==
  ASSUME NEW b \in Attempts, IInv, [Next]_vars, Known(b), ~(Rewrite(b) /\ Write(original[b], b))
  PROVE  Known(b)'
<1> USE InsertionAssumption
  DEF IInv, TypeOK, AttemptOrder, Known, Told, Pending, At, Goto, Texts, winVars, tickets,
      results, history
<1>1. ASSUME NEW a \in Attempts, Begin(a) PROVE Known(b)'
  BY <1>1 DEF Begin
<1>2. ASSUME NEW a \in Attempts, Look(a) PROVE Known(b)'
  BY <1>2 DEF Finish, Fault, Look
<1>3. ASSUME NEW a \in Attempts, Read(a) PROVE Known(b)'
  BY <1>3 DEF Finish, Read
<1>4. ASSUME NEW a \in Attempts, Copy(a) PROVE Known(b)'
  BY <1>4 DEF Write, Finish, Fault, Copy
<1>5. ASSUME NEW a \in Attempts, Ticket(a) PROVE Known(b)'
  BY <1>5 DEF Ticket
<1>6. ASSUME NEW a \in Attempts, Focus(a) PROVE Known(b)'
  BY <1>6 DEF Finish, DropTicket, Focus
<1>7. ASSUME NEW a \in Attempts, Policy(a) PROVE Known(b)'
  BY <1>7 DEF Finish, DropTicket, Policy
<1>8. ASSUME NEW a \in Attempts, Send(a) PROVE Known(b)'
  BY <1>8 DEF Finish, DropTicket, Fault, Send
<1>9. ASSUME NEW a \in Attempts, Insert(a) PROVE Known(b)'
  BY <1>9 DEF Insert
<1>10. ASSUME NEW a \in Attempts, Save(a) PROVE Known(b)'
  BY <1>10 DEF DropTicket, Fault, Save
<1>11. ASSUME NEW a \in Attempts, Decide(a) PROVE Known(b)'
  BY <1>11 DEF DropTicket, Decide
<1>12. ASSUME NEW a \in Attempts, Rewrite(a) PROVE Known(b)'
  <2>1. CASE a = b
    BY <1>12, <2>1 DEF Fault, Rewrite
  <2>2. CASE a # b
    <3>1. pc'[b] = pc[b] /\ outcome'[b] = outcome[b] /\ restore'[b] = restore[b]
      BY <1>12, <2>2 DEF Rewrite
    <3>2. revived \subseteq revived'
      BY <1>12 DEF Rewrite
    <3> QED
      BY <3>1, <3>2
  <2> QED
    BY <2>1, <2>2
<1>13. CASE UserCopies
  BY <1>13 DEF Write, UserCopies
<1>14. CASE UserSwitches
  BY <1>14 DEF UserSwitches
<1>15. CASE UNCHANGED vars
  BY <1>15 DEF vars
<1> QED
  BY <1>1, <1>2, <1>3, <1>4, <1>5, <1>6, <1>7, <1>8, <1>9, <1>10, <1>11, <1>12, <1>13,
     <1>14, <1>15
    DEF Next, Step

\* A ticket whose counter has moved is never sound again.
LEMMA DoomedStays ==
  ASSUME NEW b \in Attempts, IInv, [Next]_vars, Pending(b), Pending(b)', Doomed(b)
  PROVE  Doomed(b)'
<1> USE InsertionAssumption
  DEF IInv, TypeOK, AttemptOrder, Doomed, Pending, At, Goto, Texts, winVars, tickets,
      results, history
<1>1. ASSUME NEW a \in Attempts, Begin(a) PROVE Doomed(b)'
  BY <1>1 DEF Begin
<1>2. ASSUME NEW a \in Attempts, Look(a) PROVE Doomed(b)'
  BY <1>2 DEF Finish, Fault, Look
<1>3. ASSUME NEW a \in Attempts, Read(a) PROVE Doomed(b)'
  BY <1>3 DEF Finish, Read
<1>4. ASSUME NEW a \in Attempts, Copy(a) PROVE Doomed(b)'
  BY <1>4 DEF Write, Finish, Fault, Copy
<1>5. ASSUME NEW a \in Attempts, Ticket(a) PROVE Doomed(b)'
  BY <1>5 DEF Ticket
<1>6. ASSUME NEW a \in Attempts, Focus(a) PROVE Doomed(b)'
  BY <1>6 DEF Finish, DropTicket, Focus
<1>7. ASSUME NEW a \in Attempts, Policy(a) PROVE Doomed(b)'
  BY <1>7 DEF Finish, DropTicket, Policy
<1>8. ASSUME NEW a \in Attempts, Send(a) PROVE Doomed(b)'
  BY <1>8 DEF Finish, DropTicket, Fault, Send
<1>9. ASSUME NEW a \in Attempts, Insert(a) PROVE Doomed(b)'
  BY <1>9 DEF Insert
<1>10. ASSUME NEW a \in Attempts, Save(a) PROVE Doomed(b)'
  BY <1>10 DEF DropTicket, Fault, Save
<1>11. ASSUME NEW a \in Attempts, Decide(a) PROVE Doomed(b)'
  BY <1>11 DEF DropTicket, Decide
<1>12. ASSUME NEW a \in Attempts, Rewrite(a) PROVE Doomed(b)'
  BY <1>12 DEF Write, Fault, Rewrite
<1>13. CASE UserCopies
  BY <1>13 DEF Write, UserCopies
<1>14. CASE UserSwitches
  BY <1>14 DEF UserSwitches
<1>15. CASE UNCHANGED vars
  BY <1>15 DEF vars
<1> QED
  BY <1>1, <1>2, <1>3, <1>4, <1>5, <1>6, <1>7, <1>8, <1>9, <1>10, <1>11, <1>12, <1>13,
     <1>14, <1>15
    DEF Next, Step

\* A backup or a ticket that a foreign write has raced stays one.
LEMMA RacedStays ==
  ASSUME NEW b \in Attempts, IInv, [Next]_vars, stale[b] \/ slipped[b]
  PROVE  stale'[b] \/ slipped'[b]
<1> USE InsertionAssumption
  DEF IInv, TypeOK, At, Goto, Texts, winVars, tickets, results, history
<1>1. ASSUME NEW a \in Attempts, Begin(a) PROVE stale'[b] \/ slipped'[b]
  BY <1>1 DEF Begin
<1>2. ASSUME NEW a \in Attempts, Look(a) PROVE stale'[b] \/ slipped'[b]
  BY <1>2 DEF Finish, Fault, Look
<1>3. ASSUME NEW a \in Attempts, Read(a) PROVE stale'[b] \/ slipped'[b]
  BY <1>3 DEF Finish, Read
<1>4. ASSUME NEW a \in Attempts, Copy(a) PROVE stale'[b] \/ slipped'[b]
  BY <1>4 DEF Write, Finish, Fault, Copy
<1>5. ASSUME NEW a \in Attempts, Ticket(a) PROVE stale'[b] \/ slipped'[b]
  BY <1>5 DEF Ticket
<1>6. ASSUME NEW a \in Attempts, Focus(a) PROVE stale'[b] \/ slipped'[b]
  BY <1>6 DEF Finish, DropTicket, Focus
<1>7. ASSUME NEW a \in Attempts, Policy(a) PROVE stale'[b] \/ slipped'[b]
  BY <1>7 DEF Finish, DropTicket, Policy
<1>8. ASSUME NEW a \in Attempts, Send(a) PROVE stale'[b] \/ slipped'[b]
  BY <1>8 DEF Finish, DropTicket, Fault, Send
<1>9. ASSUME NEW a \in Attempts, Insert(a) PROVE stale'[b] \/ slipped'[b]
  BY <1>9 DEF Insert
<1>10. ASSUME NEW a \in Attempts, Save(a) PROVE stale'[b] \/ slipped'[b]
  BY <1>10 DEF DropTicket, Fault, Save
<1>11. ASSUME NEW a \in Attempts, Decide(a) PROVE stale'[b] \/ slipped'[b]
  BY <1>11 DEF DropTicket, Decide
<1>12. ASSUME NEW a \in Attempts, Rewrite(a) PROVE stale'[b] \/ slipped'[b]
  BY <1>12 DEF Write, Fault, Rewrite
<1>13. CASE UserCopies
  BY <1>13 DEF Write, UserCopies
<1>14. CASE UserSwitches
  BY <1>14 DEF UserSwitches
<1>15. CASE UNCHANGED vars
  BY <1>15 DEF vars
<1> QED
  BY <1>1, <1>2, <1>3, <1>4, <1>5, <1>6, <1>7, <1>8, <1>9, <1>10, <1>11, <1>12, <1>13,
     <1>14, <1>15
    DEF Next, Step

\* An attempt has its text in the clipboard from its copy on; the backup is older.
LEMMA PendingBegins ==
  ASSUME NEW b \in Attempts, IInv, [Next]_vars, Pending(b)', original'[b] \in Attempts,
         ~(Copy(b) /\ Write(b, b))
  PROVE  Pending(b) /\ original'[b] = original[b]
<1> USE InsertionAssumption
  DEF IInv, TypeOK, AttemptOrder, Pending, At, Goto, Texts, winVars, tickets, results,
      history
<1>1. ASSUME NEW a \in Attempts, Begin(a) PROVE Pending(b) /\ original'[b] = original[b]
  BY <1>1 DEF Begin
<1>2. ASSUME NEW a \in Attempts, Look(a) PROVE Pending(b) /\ original'[b] = original[b]
  BY <1>2 DEF Finish, Fault, Look
<1>3. ASSUME NEW a \in Attempts, Read(a) PROVE Pending(b) /\ original'[b] = original[b]
  BY <1>3 DEF Finish, Read
<1>4. ASSUME NEW a \in Attempts, Copy(a) PROVE Pending(b) /\ original'[b] = original[b]
  BY <1>4 DEF Finish, Fault, Copy
<1>5. ASSUME NEW a \in Attempts, Ticket(a) PROVE Pending(b) /\ original'[b] = original[b]
  BY <1>5 DEF Ticket
<1>6. ASSUME NEW a \in Attempts, Focus(a) PROVE Pending(b) /\ original'[b] = original[b]
  BY <1>6 DEF Finish, DropTicket, Focus
<1>7. ASSUME NEW a \in Attempts, Policy(a) PROVE Pending(b) /\ original'[b] = original[b]
  BY <1>7 DEF Finish, DropTicket, Policy
<1>8. ASSUME NEW a \in Attempts, Send(a) PROVE Pending(b) /\ original'[b] = original[b]
  BY <1>8 DEF Finish, DropTicket, Fault, Send
<1>9. ASSUME NEW a \in Attempts, Insert(a) PROVE Pending(b) /\ original'[b] = original[b]
  BY <1>9 DEF Insert
<1>10. ASSUME NEW a \in Attempts, Save(a) PROVE Pending(b) /\ original'[b] = original[b]
  BY <1>10 DEF DropTicket, Fault, Save
<1>11. ASSUME NEW a \in Attempts, Decide(a) PROVE Pending(b) /\ original'[b] = original[b]
  BY <1>11 DEF DropTicket, Decide
<1>12. ASSUME NEW a \in Attempts, Rewrite(a) PROVE Pending(b) /\ original'[b] = original[b]
  BY <1>12 DEF Write, Fault, Rewrite
<1>13. CASE UserCopies
  BY <1>13 DEF Write, UserCopies
<1>14. CASE UserSwitches
  BY <1>14 DEF UserSwitches
<1>15. CASE UNCHANGED vars
  BY <1>15 DEF vars
<1> QED
  BY <1>1, <1>2, <1>3, <1>4, <1>5, <1>6, <1>7, <1>8, <1>9, <1>10, <1>11, <1>12, <1>13,
     <1>14, <1>15
    DEF Next, Step

\* Only a copy, a restore and the user write the clipboard.
LEMMA ClipboardWriters ==
  ASSUME IInv, [Next]_vars
  PROVE  \/ \E a \in Attempts : Copy(a) /\ Write(a, a) /\ outcome'[a] # "failed"
         \/ \E a \in Attempts : Rewrite(a) /\ Write(original[a], a)
         \/ UserCopies
         \/ UNCHANGED clip
<1> SUFFICES ASSUME ~\E a \in Attempts : Copy(a) /\ Write(a, a) /\ outcome'[a] # "failed",
                    ~UserCopies,
             ~\E a \in Attempts : Rewrite(a) /\ Write(original[a], a)
             PROVE UNCHANGED clip
  OBVIOUS
<1> USE InsertionAssumption
  DEF IInv, TypeOK, AttemptOrder, At, Goto, Texts, winVars, tickets, results, history
<1>1. ASSUME NEW a \in Attempts, Begin(a) PROVE UNCHANGED clip
  BY <1>1 DEF Begin
<1>2. ASSUME NEW a \in Attempts, Look(a) PROVE UNCHANGED clip
  BY <1>2 DEF Finish, Fault, Look
<1>3. ASSUME NEW a \in Attempts, Read(a) PROVE UNCHANGED clip
  BY <1>3 DEF Finish, Read
<1>4. ASSUME NEW a \in Attempts, Copy(a) PROVE UNCHANGED clip
  BY <1>4 DEF Write, Finish, Fault, Copy
<1>5. ASSUME NEW a \in Attempts, Ticket(a) PROVE UNCHANGED clip
  BY <1>5 DEF Ticket
<1>6. ASSUME NEW a \in Attempts, Focus(a) PROVE UNCHANGED clip
  BY <1>6 DEF Finish, DropTicket, Focus
<1>7. ASSUME NEW a \in Attempts, Policy(a) PROVE UNCHANGED clip
  BY <1>7 DEF Finish, DropTicket, Policy
<1>8. ASSUME NEW a \in Attempts, Send(a) PROVE UNCHANGED clip
  BY <1>8 DEF Finish, DropTicket, Fault, Send
<1>9. ASSUME NEW a \in Attempts, Insert(a) PROVE UNCHANGED clip
  BY <1>9 DEF Insert
<1>10. ASSUME NEW a \in Attempts, Save(a) PROVE UNCHANGED clip
  BY <1>10 DEF DropTicket, Fault, Save
<1>11. ASSUME NEW a \in Attempts, Decide(a) PROVE UNCHANGED clip
  BY <1>11 DEF DropTicket, Decide
<1>12. ASSUME NEW a \in Attempts, Rewrite(a) PROVE UNCHANGED clip
  BY <1>12 DEF Write, Fault, Rewrite
<1>13. CASE UserCopies
  BY <1>13 DEF Write, UserCopies
<1>14. CASE UserSwitches
  BY <1>14 DEF UserSwitches
<1>15. CASE UNCHANGED vars
  BY <1>15 DEF vars
<1> QED
  BY <1>1, <1>2, <1>3, <1>4, <1>5, <1>6, <1>7, <1>8, <1>9, <1>10, <1>11, <1>12, <1>13,
     <1>14, <1>15
    DEF Next, Step

\* A write by somebody else leaves the ticket of a pending attempt without its
\* counter, or was too early or too late for it.
LEMMA WriteDooms ==
  ASSUME NEW text, NEW who, Write(text, who), NEW b \in Attempts, b # who, pc'[b] = pc[b]
  PROVE  Doomed(b)' \/ slipped'[b]
<1>1. CASE pc[b] \in {"ticket", "rewrite"}
  BY <1>1 DEF Write
<1>2. CASE pc[b] \notin {"ticket", "rewrite"}
  <2>1. ~unchanged'[b]
    BY DEF Write
  <2> QED
    BY <1>2, <2>1 DEF Doomed
<1> QED
  BY <1>1, <1>2

\* A transcript in the clipboard stays known: the copy that puts it there makes
\* it pending or known at once, and a restore puts back a known one or is
\* recorded.
LEMMA TranscriptStep == IInv /\ [Next]_vars => TranscriptIsKnown'
<1> SUFFICES ASSUME IInv, [Next]_vars, NEW x \in Attempts, clip' = x PROVE Known(x)'
  BY DEF TranscriptIsKnown
<1>1. ASSUME NEW a \in Attempts, Copy(a), Write(a, a), outcome'[a] # "failed"
      PROVE  Known(x)'
  <2>1. x = a
    BY <1>1 DEF Write
  <2>2. CASE Finish(a, "copied")
    BY <2>1, <2>2 DEF Finish, Known, Told, IInv, TypeOK
  <2>3. CASE Goto(a, "ticket")
    BY <2>1, <2>3 DEF Goto, Known, Pending, IInv, TypeOK
  <2>4. Finish(a, "copied") \/ Goto(a, "ticket")
    BY <1>1 DEF Copy, Finish, Goto, IInv, TypeOK
  <2> QED
    BY <2>2, <2>3, <2>4
<1>2. ASSUME NEW a \in Attempts, Rewrite(a), Write(original[a], a) PROVE Known(x)'
  <2>1. original[a] = x /\ Pending(a) /\ pc[a] = "rewrite"
    BY <1>2 DEF Write, Rewrite, At, Pending
  <2>2. x # a
    BY <2>1 DEF IInv, CopiedFirst
  <2>3. CASE Known(x)
    <3>1. ~Rewrite(x)
      <4>1. pc' = [pc EXCEPT ![a] = "done"]
        BY <1>2 DEF Rewrite, Goto
      <4>2. pc'[x] = pc[x]
        BY <2>2, <4>1 DEF IInv, TypeOK
      <4> QED
        BY <4>2 DEF Rewrite, At, Goto, IInv, TypeOK
    <3> QED
      BY <2>3, <3>1, KnownStays
  <2>4. CASE ~Known(x) /\ (stale[a] \/ slipped[a])
    <3>1. clip # x
      BY <2>4 DEF IInv, TranscriptIsKnown
    <3>2. clip' = x
      OBVIOUS
    <3>3. revived' = revived \cup ({original[a]} \cap Attempts)
      BY <1>2, <2>4, <3>1, <3>2 DEF Rewrite
    <3> QED
      BY <2>1, <3>3 DEF Known
  <2>5. ~Doomed(a)
    BY <2>1 DEF Doomed
  <2> QED
    BY <2>1, <2>3, <2>4, <2>5 DEF IInv, BackupIsKnown
<1>3. CASE UserCopies
  BY <1>3, InsertionAssumption DEF UserCopies, Write, Texts
<1>4. CASE UNCHANGED clip /\ ~\E a \in Attempts : Rewrite(a) /\ Write(original[a], a)
  <2>1. Known(x)
    BY <1>4 DEF IInv, TranscriptIsKnown
  <2> QED
    BY <1>4, <2>1, KnownStays
<1>5. \/ \E a \in Attempts : Copy(a) /\ Write(a, a) /\ outcome'[a] # "failed"
      \/ \E a \in Attempts : Rewrite(a) /\ Write(original[a], a)
      \/ UserCopies
      \/ UNCHANGED clip /\ ~\E a \in Attempts : Rewrite(a) /\ Write(original[a], a)
  BY ClipboardWriters
<1> QED
  BY <1>1, <1>2, <1>3, <1>4, <1>5

\* A backup stays known: when the attempt of the transcript in it restores the
\* clipboard, the ticket of the one that has the backup loses its counter.
LEMMA BackupKnownStep == IInv /\ [Next]_vars => BackupIsKnown'
<1> SUFFICES ASSUME IInv, [Next]_vars, NEW x \in Attempts, NEW a \in Attempts,
                    Pending(a)', original'[a] = x
             PROVE  Known(x)' \/ Doomed(a)' \/ stale'[a] \/ slipped'[a]
  BY DEF BackupIsKnown
<1>1. CASE Pending(a) /\ original[a] = x
  <2>1. Known(x) \/ Doomed(a) \/ stale[a] \/ slipped[a]
    BY <1>1 DEF IInv, BackupIsKnown
  <2>2. CASE stale[a] \/ slipped[a]
    BY <2>2, RacedStays
  <2>3. CASE Doomed(a)
    BY <1>1, <2>3, DoomedStays
  <2>4. CASE Rewrite(x) /\ Write(original[x], x)
    <3>1. a # x
      BY <1>1 DEF IInv, CopiedFirst
    <3>2. pc'[a] = pc[a]
      BY <2>4, <3>1 DEF Rewrite, Goto, IInv, TypeOK
    <3> QED
      BY <2>4, <3>1, <3>2, WriteDooms
  <2>5. CASE Known(x) /\ ~(Rewrite(x) /\ Write(original[x], x))
    BY <2>5, KnownStays
  <2> QED
    BY <2>1, <2>2, <2>3, <2>4, <2>5
<1>2. CASE Copy(a) /\ Write(a, a)
  <2>1. original[a] = x /\ pc[a] = "copy"
    BY <1>2 DEF Copy, At
  <2>2. original[a] # None
    BY <2>1, InsertionAssumption DEF Texts
  <2>3. CASE stale[a]
    BY <2>3, RacedStays
  <2>4. CASE clip = x
    <3>1. Known(x)
      BY <2>4 DEF IInv, TranscriptIsKnown
    <3>2. x # a
      BY <2>1 DEF IInv, CopiedFirst
    <3>3. ~(Rewrite(x) /\ Write(original[x], x))
      <4>1. UNCHANGED restore
        BY <1>2 DEF Copy
      <4> QED
        BY <4>1 DEF Rewrite, At, IInv, TypeOK, AttemptOrder
    <3> QED
      BY <3>1, <3>3, KnownStays
  <2> QED
    BY <2>1, <2>2, <2>3, <2>4 DEF IInv, BackupIsCurrent
<1>3. (Copy(a) /\ Write(a, a)) \/ (Pending(a) /\ original[a] = x)
  BY PendingBegins
<1> QED
  BY <1>1, <1>2, <1>3

\* The inductive invariant is kept by every step.
LEMMA NextPreserves == IInv /\ [Next]_vars => IInv'
  BY TypeStep, OrderStep, CounterStep, TextStep, TargetStep, BackupStep, CopiedStep,
     TranscriptStep, BackupKnownStep
  DEF IInv

\* The clipboard, the windows and the attempts stay in step: a ticket whose
\* counter has not moved vouches for the text, the text waits for the
\* application, and the transcript in the clipboard is one the user is told of.
THEOREM InsertionInvariance == Spec => []IInv
  BY InitEstablishes, NextPreserves, PTL DEF Spec

\* Of a transcript that is still in the clipboard when every attempt has ended
\* the user knows from its own attempt, or a raced restore of another attempt has
\* put it back.
THEOREM LeftoverExplained == Spec => []LeftoverIsExplained
<1>1. IInv => LeftoverIsExplained
  BY DEF IInv, TypeOK, LeftoverIsExplained, Ended, TranscriptIsKnown, Known, Pending
<1> QED
  BY <1>1, InsertionInvariance, PTL

\* Only a restore that was checked ends as "restored".
LEMMA RestoreSteps ==
  ASSUME NEW b \in Attempts, IInv, [Next]_vars, restore[b] = "none", restore'[b] = "restored"
  PROVE  pc[b] = "rewrite"
<1> USE InsertionAssumption
  DEF IInv, TypeOK, At, Goto, Texts, winVars, tickets, results, history
<1>1. ASSUME NEW a \in Attempts, Begin(a) PROVE pc[b] = "rewrite"
  BY <1>1 DEF Begin
<1>2. ASSUME NEW a \in Attempts, Look(a) PROVE pc[b] = "rewrite"
  BY <1>2 DEF Finish, Fault, Look
<1>3. ASSUME NEW a \in Attempts, Read(a) PROVE pc[b] = "rewrite"
  BY <1>3 DEF Finish, Read
<1>4. ASSUME NEW a \in Attempts, Copy(a) PROVE pc[b] = "rewrite"
  BY <1>4 DEF Write, Finish, Fault, Copy
<1>5. ASSUME NEW a \in Attempts, Ticket(a) PROVE pc[b] = "rewrite"
  BY <1>5 DEF Ticket
<1>6. ASSUME NEW a \in Attempts, Focus(a) PROVE pc[b] = "rewrite"
  BY <1>6 DEF Finish, DropTicket, Focus
<1>7. ASSUME NEW a \in Attempts, Policy(a) PROVE pc[b] = "rewrite"
  BY <1>7 DEF Finish, DropTicket, Policy
<1>8. ASSUME NEW a \in Attempts, Send(a) PROVE pc[b] = "rewrite"
  BY <1>8 DEF Finish, DropTicket, Fault, Send
<1>9. ASSUME NEW a \in Attempts, Insert(a) PROVE pc[b] = "rewrite"
  BY <1>9 DEF Insert
<1>10. ASSUME NEW a \in Attempts, Save(a) PROVE pc[b] = "rewrite"
  BY <1>10 DEF DropTicket, Fault, Save
<1>11. ASSUME NEW a \in Attempts, Decide(a) PROVE pc[b] = "rewrite"
  BY <1>11 DEF DropTicket, Decide
<1>12. ASSUME NEW a \in Attempts, Rewrite(a) PROVE pc[b] = "rewrite"
  BY <1>12 DEF Write, Fault, Rewrite
<1>13. CASE UserCopies
  BY <1>13 DEF Write, UserCopies
<1>14. CASE UserSwitches
  BY <1>14 DEF UserSwitches
<1>15. CASE UNCHANGED vars
  BY <1>15 DEF vars
<1> QED
  BY <1>1, <1>2, <1>3, <1>4, <1>5, <1>6, <1>7, <1>8, <1>9, <1>10, <1>11, <1>12, <1>13,
     <1>14, <1>15
    DEF Next, Step

\* Only an attempt that the policy let through sends its keys.
LEMMA SendSteps ==
  ASSUME NEW b \in Attempts, IInv, [Next]_vars, keys[b] = "none", keys'[b] = "sent"
  PROVE  pc[b] = "send"
<1> USE InsertionAssumption
  DEF IInv, TypeOK, At, Goto, Texts, winVars, tickets, results, history
<1>1. ASSUME NEW a \in Attempts, Begin(a) PROVE pc[b] = "send"
  BY <1>1 DEF Begin
<1>2. ASSUME NEW a \in Attempts, Look(a) PROVE pc[b] = "send"
  BY <1>2 DEF Finish, Fault, Look
<1>3. ASSUME NEW a \in Attempts, Read(a) PROVE pc[b] = "send"
  BY <1>3 DEF Finish, Read
<1>4. ASSUME NEW a \in Attempts, Copy(a) PROVE pc[b] = "send"
  BY <1>4 DEF Write, Finish, Fault, Copy
<1>5. ASSUME NEW a \in Attempts, Ticket(a) PROVE pc[b] = "send"
  BY <1>5 DEF Ticket
<1>6. ASSUME NEW a \in Attempts, Focus(a) PROVE pc[b] = "send"
  BY <1>6 DEF Finish, DropTicket, Focus
<1>7. ASSUME NEW a \in Attempts, Policy(a) PROVE pc[b] = "send"
  BY <1>7 DEF Finish, DropTicket, Policy
<1>8. ASSUME NEW a \in Attempts, Send(a) PROVE pc[b] = "send"
  BY <1>8 DEF Finish, DropTicket, Fault, Send
<1>9. ASSUME NEW a \in Attempts, Insert(a) PROVE pc[b] = "send"
  BY <1>9 DEF Insert
<1>10. ASSUME NEW a \in Attempts, Save(a) PROVE pc[b] = "send"
  BY <1>10 DEF DropTicket, Fault, Save
<1>11. ASSUME NEW a \in Attempts, Decide(a) PROVE pc[b] = "send"
  BY <1>11 DEF DropTicket, Decide
<1>12. ASSUME NEW a \in Attempts, Rewrite(a) PROVE pc[b] = "send"
  BY <1>12 DEF Write, Fault, Rewrite
<1>13. CASE UserCopies
  BY <1>13 DEF Write, UserCopies
<1>14. CASE UserSwitches
  BY <1>14 DEF UserSwitches
<1>15. CASE UNCHANGED vars
  BY <1>15 DEF vars
<1> QED
  BY <1>1, <1>2, <1>3, <1>4, <1>5, <1>6, <1>7, <1>8, <1>9, <1>10, <1>11, <1>12, <1>13,
     <1>14, <1>15
    DEF Next, Step


\* A restore replaces its own attempt's text only, unless a write fell between
\* two neighbouring calls.
THEOREM RestoreIsOwn == Spec => NewerClipboardKept
<1>1. IInv /\ [Next]_vars => [\A a \in Attempts :
        (restore[a] = "none" /\ restore'[a] = "restored") => (clip = a \/ slipped[a])]_vars
  BY RestoreSteps DEF IInv, CounterIsSound
<1> QED
  BY <1>1, InsertionInvariance, PTL DEF Spec, NewerClipboardKept

\* What an application inserts for an attempt is the attempt's text, unless
\* somebody else wrote in between.
THEOREM InsertionIsOwn == Spec => InsertedIsTranscript
<1>1. IInv /\ [Next]_vars => [\A a \in Attempts :
        (keys[a] = "sent" /\ keys'[a] = "handled") => (clip = a \/ hit[a])]_vars
  BY DEF IInv, TextWaits
<1> QED
  BY <1>1, InsertionInvariance, PTL DEF Spec, InsertedIsTranscript

\* Ctrl+V goes to the window and the process of the recording.
THEOREM KeysReachTarget == Spec => PastesIntoTarget
<1>1. IInv /\ [Next]_vars => [\A a \in Attempts :
        (keys[a] = "none" /\ keys'[a] = "sent") =>
            \/ foreground = target[a] /\ target[a].process \notin Elevated
            \/ switched[a]]_vars
  BY SendSteps DEF IInv, TargetInFront
<1> QED
  BY <1>1, InsertionInvariance, PTL DEF Spec, PastesIntoTarget
=============================================================================
