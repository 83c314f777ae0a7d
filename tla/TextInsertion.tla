---------------------------- MODULE TextInsertion ----------------------------
(***************************************************************************)
(* Copying, pasting and the conditional restore of the clipboard: the      *)
(* automatic paste at the end of a job, paste_transcript_to_original,      *)
(* copy_transcript and schedule_clipboard_restore of the desktop over      *)
(* WindowsClipboard and WindowsDesktop.                                    *)
(*                                                                         *)
(* The clipboard and the foreground window belong to Windows: the user and *)
(* other applications change them between any two calls of the program,    *)
(* and several attempts run at once on blocking threads.  Every Win32 call *)
(* is a step.  A window is its handle and its process (id and creation     *)
(* time together); a handle may be used again by another process.  The one *)
(* timing assumption is that an application handles Ctrl+V within the      *)
(* 400 ms the restore waits.                                               *)
(***************************************************************************)
EXTENDS Naturals

CONSTANTS
    Attempts,   \* copy and paste attempts, each with a text of its own
    UserTexts,  \* texts the user copies
    Handles,    \* window handles
    Processes,  \* processes that own windows
    Elevated,   \* the elevated ones
    MaxUser,    \* copies and focus changes by the user
    MaxFaults,  \* failing calls of a behaviour
    NonText,    \* a clipboard that is not exactly Unicode text
    None

Windows == [handle : Handles, process : Processes]
Texts   == Attempts \cup UserTexts

ASSUME InsertionAssumption ==
    /\ MaxUser \in Nat /\ MaxFaults \in Nat
    /\ Elevated \subseteq Processes
    /\ NonText \notin Texts /\ None \notin Texts \cup Windows
    /\ Attempts \cap UserTexts = {}

VARIABLES
    clip,             \* clipboard content
    foreground,       \* the foreground window
    kind, target,     \* of an attempt: what was asked for, the original window
    pc,
    original,         \* ClipboardRestoreTicket::original_text
    unchanged,        \* Windows' sequence counter still is expected_sequence
    keys,             \* its Ctrl+V: not sent, waiting for the application, or handled
    outcome,          \* injection_outcome of the transcript
    restore,          \* how the restore ended
    stale,            \* history: a foreign write between the backup and the copy
    slipped,          \* history: a foreign write between a write or check and the next call
    hit,              \* history: a foreign write between copy and insertion
    switched,         \* history: a focus change between the policy and SendInput
    revived,          \* history: transcripts put back by a raced restore of another attempt
    users, faults

winVars  == <<clip, foreground>>
tickets  == <<original, unchanged>>
results  == <<keys, outcome, restore>>
history  == <<stale, slipped, hit, switched>>
vars     == <<winVars, kind, target, pc, tickets, results, history, revived, users, faults>>

TypeOK ==
    /\ clip \in Texts \cup {NonText}
    /\ foreground \in Windows \cup {None}
    /\ kind \in [Attempts -> {"auto", "confirmed", "copy"}]
    /\ target \in [Attempts -> Windows]
    /\ pc \in [Attempts -> {"new", "look", "read", "copy", "ticket", "focus", "policy", "send",
                            "save", "wait", "rewrite", "done"}]
    /\ original \in [Attempts -> Texts \cup {None}]
    /\ unchanged \in [Attempts -> BOOLEAN]
    /\ keys \in [Attempts -> {"none", "sent", "handled"}]
    /\ outcome \in [Attempts -> {"none", "inserted", "copied", "failed"}]
    /\ restore \in [Attempts -> {"none", "off", "restored", "warned", "unsaved"}]
    /\ stale \in [Attempts -> BOOLEAN] /\ slipped \in [Attempts -> BOOLEAN]
    /\ hit \in [Attempts -> BOOLEAN] /\ switched \in [Attempts -> BOOLEAN]
    /\ revived \subseteq Attempts
    /\ users \in 0..MaxUser /\ faults \in 0..MaxFaults

\* The clipboard holds something of the user's.  Which command makes an attempt
\* and which window was in front when its recording began are given.
Init ==
    /\ clip \in UserTexts \cup {NonText}
    /\ foreground \in Windows
    /\ kind \in [Attempts -> {"auto", "confirmed", "copy"}]
    /\ target \in [Attempts -> {foreground}]
    /\ pc = [a \in Attempts |-> "new"]
    /\ original = [a \in Attempts |-> None]
    /\ unchanged = [a \in Attempts |-> FALSE]
    /\ keys = [a \in Attempts |-> "none"]
    /\ outcome = [a \in Attempts |-> "none"]
    /\ restore = [a \in Attempts |-> "none"]
    /\ stale = [a \in Attempts |-> FALSE] /\ slipped = [a \in Attempts |-> FALSE]
    /\ hit = [a \in Attempts |-> FALSE] /\ switched = [a \in Attempts |-> FALSE]
    /\ revived = {}
    /\ users = 0 /\ faults = 0

At(a, at)   == pc[a] = at
Goto(a, at) == pc' = [pc EXCEPT ![a] = at]
Fault       == faults < MaxFaults /\ faults' = faults + 1

\* A write of the clipboard by `who` (an attempt, or None for the user): the
\* counter moves on, away from the number in every ticket.
Write(text, who) ==
    /\ clip' = text
    /\ unchanged' = [a \in Attempts |-> FALSE]
    /\ stale' = [a \in Attempts |->
                   stale[a] \/ (a # who /\ pc[a] = "copy" /\ original[a] # None)]
    /\ slipped' = [a \in Attempts |-> slipped[a] \/ (a # who /\ pc[a] \in {"ticket", "rewrite"})]
    /\ hit' = [a \in Attempts |->
                 \/ hit[a]
                 \/ /\ a # who
                    /\ pc[a] \in {"ticket", "focus", "policy", "send"} \/ keys[a] = "sent"]

\* The attempt ends with an outcome that is then stored.
Finish(a, result) ==
    /\ outcome' = [outcome EXCEPT ![a] = result]
    /\ Goto(a, "save")

\* The ClipboardRestoreTicket goes out of scope.
DropTicket(a) ==
    /\ original' = [original EXCEPT ![a] = None]
    /\ unchanged' = [unchanged EXCEPT ![a] = FALSE]

-----------------------------------------------------------------------------
(* copy_and_paste, and copy_text for an explicit copy                      *)

Begin(a) ==
    /\ At(a, "new")
    /\ Goto(a, IF kind[a] = "copy" THEN "copy" ELSE "look")
    /\ UNCHANGED <<winVars, kind, target, revived, tickets, results, history, users, faults>>

\* clipboard_contains_only_unicode_text.
Look(a) ==
    /\ At(a, "look")
    /\ \/ /\ Goto(a, IF clip \in Texts THEN "read" ELSE "copy")
          /\ UNCHANGED <<outcome, faults>>
       \/ Finish(a, "failed") /\ Fault
    /\ UNCHANGED <<winVars, kind, target, revived, tickets, keys, restore, history, users>>

\* get_text: what is there now, which need not be what Look has seen.
Read(a) ==
    /\ At(a, "read")
    /\ IF clip \in Texts
       THEN /\ original' = [original EXCEPT ![a] = clip]
            /\ Goto(a, "copy") /\ UNCHANGED outcome
       ELSE Finish(a, "failed") /\ UNCHANGED original
    /\ UNCHANGED <<winVars, kind, target, revived, unchanged, keys, restore, history, users, faults>>

\* copy_text.
Copy(a) ==
    /\ At(a, "copy")
    /\ \/ /\ Write(a, a)
          /\ IF kind[a] = "copy" THEN Finish(a, "copied")
             ELSE Goto(a, "ticket") /\ UNCHANGED outcome
          /\ UNCHANGED faults
       \/ /\ Finish(a, "failed") /\ Fault
          /\ UNCHANGED <<clip, unchanged, stale, slipped, hit>>
    /\ UNCHANGED <<foreground, kind, target, revived, original, keys, restore, switched, users>>

\* The sequence number is read after the copy.
Ticket(a) ==
    /\ At(a, "ticket")
    /\ unchanged' = [unchanged EXCEPT ![a] = TRUE]
    /\ Goto(a, IF kind[a] = "confirmed" THEN "focus" ELSE "policy")
    /\ UNCHANGED <<winVars, kind, target, revived, original, results, history, users, faults>>

\* SetForegroundWindow brings up whatever window has the handle now; when it
\* is denied the text stays in the clipboard.
Focus(a) ==
    /\ At(a, "focus")
    /\ \/ /\ \E w \in Windows : w.handle = target[a].handle /\ foreground' = w
          /\ Goto(a, "policy") /\ UNCHANGED <<outcome, tickets>>
       \/ Finish(a, "copied") /\ DropTicket(a) /\ UNCHANGED foreground
    /\ switched' = [b \in Attempts |-> switched[b] \/ (At(b, "send") /\ foreground' # foreground)]
    /\ UNCHANGED <<clip, kind, target, revived, keys, restore, stale, slipped, hit, users, faults>>

\* Mutant: a window is recognised by its handle.
AllowedByHandle(a) ==
    /\ foreground # None
    /\ foreground.process \notin Elevated
    /\ foreground.handle = target[a].handle

\* evaluate_paste_policy.
Allowed(a) ==
    /\ foreground # None
    /\ foreground.process \notin Elevated
    /\ foreground.handle = target[a].handle
    /\ foreground.process = target[a].process

Policy(a) ==
    /\ At(a, "policy")
    /\ IF Allowed(a) THEN Goto(a, "send") /\ UNCHANGED <<outcome, tickets>>
       ELSE Finish(a, "copied") /\ DropTicket(a)
    /\ UNCHANGED <<winVars, kind, target, revived, keys, restore, history, users, faults>>

\* send_control_v: the window in front, if any, gets the keys.
Send(a) ==
    /\ At(a, "send")
    /\ \/ /\ keys' = [keys EXCEPT ![a] = IF foreground = None THEN "handled" ELSE "sent"]
          /\ Finish(a, "inserted") /\ UNCHANGED <<tickets, faults>>
       \/ Finish(a, "copied") /\ DropTicket(a) /\ Fault /\ UNCHANGED keys
    /\ switched' = [switched EXCEPT ![a] = FALSE]
    /\ UNCHANGED <<winVars, kind, target, revived, restore, stale, slipped, hit, users>>

\* The application takes what is in the clipboard when it handles the keys.
Insert(a) ==
    /\ keys[a] = "sent"
    /\ keys' = [keys EXCEPT ![a] = "handled"]
    /\ hit' = [hit EXCEPT ![a] = FALSE]
    /\ UNCHANGED <<winVars, kind, target, revived, pc, tickets, outcome, restore, stale, slipped, switched,
                   users, faults>>

-----------------------------------------------------------------------------
(* What follows an attempt                                                 *)

\* The outcome is stored (an automatic paste stores the whole transcript); an
\* error returns before the restore is scheduled.
Save(a) ==
    /\ At(a, "save")
    /\ \/ /\ outcome[a] # "inserted" /\ Goto(a, "done")
          /\ UNCHANGED <<tickets, restore, faults>>
       \/ /\ outcome[a] = "inserted" /\ Goto(a, "wait")
          /\ UNCHANGED <<tickets, restore, faults>>
       \/ /\ outcome[a] = "inserted" /\ Goto(a, "done") /\ DropTicket(a)
          /\ restore' = [restore EXCEPT ![a] = "off"]
          /\ UNCHANGED faults
       \/ /\ Goto(a, "done") /\ DropTicket(a) /\ Fault
          /\ restore' = [restore EXCEPT ![a] = "unsaved"]
    /\ UNCHANGED <<winVars, kind, target, revived, keys, outcome, history, users>>

\* Mutant: the restore does not leave the application time to paste.
DecideAtOnce(a) ==
    /\ At(a, "wait")
    /\ IF original[a] # None /\ unchanged[a]
       THEN Goto(a, "rewrite") /\ UNCHANGED <<restore, tickets>>
       ELSE /\ Goto(a, "done") /\ DropTicket(a)
            /\ restore' = [restore EXCEPT ![a] = "warned"]
    /\ UNCHANGED <<winVars, kind, target, revived, keys, outcome, history, users, faults>>

\* Mutant: the counter is not compared.
DecideBlindly(a) ==
    /\ At(a, "wait") /\ keys[a] = "handled"
    /\ IF original[a] # None
       THEN Goto(a, "rewrite") /\ UNCHANGED <<restore, tickets>>
       ELSE /\ Goto(a, "done") /\ DropTicket(a)
            /\ restore' = [restore EXCEPT ![a] = "warned"]
    /\ UNCHANGED <<winVars, kind, target, revived, keys, outcome, history, users, faults>>

\* Mutant: a restore that is skipped counts as done.
DecideSilently(a) ==
    /\ At(a, "wait") /\ keys[a] = "handled"
    /\ IF original[a] # None /\ unchanged[a]
       THEN Goto(a, "rewrite") /\ UNCHANGED <<restore, tickets>>
       ELSE /\ Goto(a, "done") /\ DropTicket(a)
            /\ restore' = [restore EXCEPT ![a] = "restored"]
    /\ UNCHANGED <<winVars, kind, target, revived, keys, outcome, history, users, faults>>

\* After 400 ms: no text to restore, or a counter that has moved, is a warning.
Decide(a) ==
    /\ At(a, "wait") /\ keys[a] = "handled"
    /\ IF original[a] # None /\ unchanged[a]
       THEN Goto(a, "rewrite") /\ UNCHANGED <<restore, tickets>>
       ELSE /\ Goto(a, "done") /\ DropTicket(a)
            /\ restore' = [restore EXCEPT ![a] = "warned"]
    /\ UNCHANGED <<winVars, kind, target, revived, keys, outcome, history, users, faults>>

\* copy_text(original) of restore_if_unchanged.
Rewrite(a) ==
    /\ At(a, "rewrite")
    /\ \/ /\ Write(original[a], a)
          /\ restore' = [restore EXCEPT ![a] = "restored"]
          /\ revived' = IF stale[a] \/ slipped[a] THEN revived \cup ({original[a]} \cap Attempts)
                        ELSE revived
          /\ UNCHANGED faults
       \/ /\ restore' = [restore EXCEPT ![a] = "warned"]
          /\ Fault
          /\ unchanged' = [unchanged EXCEPT ![a] = FALSE]
          /\ UNCHANGED <<clip, stale, slipped, hit, revived>>
    /\ original' = [original EXCEPT ![a] = None]
    /\ Goto(a, "done")
    /\ UNCHANGED <<foreground, kind, target, keys, outcome, switched, users>>

-----------------------------------------------------------------------------
(* The user                                                                *)

UserCopies ==
    /\ users < MaxUser /\ users' = users + 1
    /\ \E content \in UserTexts \cup {NonText} : Write(content, None)
    /\ UNCHANGED <<foreground, kind, target, revived, pc, original, results, switched, faults>>

UserSwitches ==
    /\ users < MaxUser /\ users' = users + 1
    /\ foreground' \in (Windows \cup {None}) \ {foreground}
    /\ switched' = [a \in Attempts |-> switched[a] \/ At(a, "send")]
    /\ UNCHANGED <<clip, kind, target, revived, pc, tickets, results, stale, slipped, hit, faults>>

Step(a) ==
    \/ Look(a) \/ Read(a) \/ Copy(a) \/ Ticket(a) \/ Focus(a) \/ Policy(a) \/ Send(a)
    \/ Insert(a) \/ Save(a) \/ Decide(a) \/ Rewrite(a)

Next ==
    \/ \E a \in Attempts : Begin(a) \/ Step(a)
    \/ UserCopies \/ UserSwitches

Spec == Init /\ [][Next]_vars

-----------------------------------------------------------------------------
(* Properties                                                              *)

\* "overwrite a user's newer clipboard value" (docs/adr/0008:10) is what the
\* sequence counter prevents: a restore replaces nothing but the text its own
\* attempt put there.  Only a write that falls between two neighbouring calls
\* (copy and ticket, comparison and restore) can slip through.
NewerClipboardKept ==
    [][\A a \in Attempts :
         (restore[a] = "none" /\ restore'[a] = "restored") => (clip = a \/ slipped[a])]_vars

\* What the target application inserts for an attempt is the attempt's text,
\* unless somebody else wrote the clipboard between the copy and the insertion:
\* the attempt's own restore never comes first.
InsertedIsTranscript ==
    [][\A a \in Attempts :
         (keys[a] = "sent" /\ keys'[a] = "handled") => (clip = a \/ hit[a])]_vars

\* "permit a result to land in the wrong application" (docs/adr/0008:9): Ctrl+V
\* goes to the window and process the recording began in, never to another
\* process that got its handle and never to an elevated one, unless the focus
\* moved between the check and SendInput.
PastesIntoTarget ==
    [][\A a \in Attempts :
         (keys[a] = "none" /\ keys'[a] = "sent") =>
             \/ foreground = target[a] /\ target[a].process \notin Elevated
             \/ switched[a]]_vars

\* What the user knows of the transcript of an attempt: it was to be copied, or
\* was copied because it could not be pasted, the restore was switched off or
\* ended with a warning, or the command ended with an error.
Told(a) == outcome[a] = "copied" \/ restore[a] \in {"warned", "off", "unsaved"}

Ended == \A a \in Attempts : pc[a] \in {"new", "done"}

\* "Clipboard races, non-text content and restore failures leave the result in
\* the clipboard and are recorded as a visible transcript warning"
\* (docs/privacy.md:19-21): when everything has ended and a transcript is still
\* in the clipboard, the user knows it of this very transcript.  The one
\* exception is a transcript that another attempt has put back, whose backup
\* was overtaken by a foreign write or which overlooked one.
LeftoverIsExplained == Ended /\ clip \in Attempts => Told(clip) \/ clip \in revived

\* The same without the exception.  It does not hold: an attempt may back up a
\* transcript that its own attempt then replaces by the user's text.
LeftoverIsTold == Ended /\ clip \in Attempts => Told(clip)

-----------------------------------------------------------------------------
(* What the safety properties rest on, the inductive strengthening.          *)

\* How far an attempt is when it has sent its keys, an outcome or a restore.
AttemptOrder ==
    \A a \in Attempts :
        /\ keys[a] # "none" => pc[a] \in {"save", "wait", "rewrite", "done"}
        /\ pc[a] = "rewrite" => keys[a] = "handled" /\ original[a] # None
        /\ outcome[a] # "none" => pc[a] \in {"save", "wait", "rewrite", "done"}
        /\ restore[a] # "none" => pc[a] = "done"
        /\ pc[a] \in {"new", "look", "read"} => original[a] = None

\* While the counter has not moved the clipboard holds what the attempt wrote.
CounterIsSound ==
    \A a \in Attempts :
        unchanged[a] \/ pc[a] \in {"ticket", "rewrite"} => clip = a \/ slipped[a]

\* The text is still there when the application comes to handle the keys.
TextWaits ==
    \A a \in Attempts :
        pc[a] \in {"ticket", "focus", "policy", "send"} \/ keys[a] = "sent" => clip = a \/ hit[a]

\* What the policy has allowed is still in front when the keys are sent.
TargetInFront ==
    \A a \in Attempts :
        pc[a] = "send" =>
            \/ foreground = target[a] /\ target[a].process \notin Elevated
            \/ switched[a]

\* Until the copy the backup is what the copy will replace.
BackupIsCurrent ==
    \A a \in Attempts : pc[a] = "copy" /\ original[a] # None => clip = original[a] \/ stale[a]

\* A transcript that is in the clipboard or in a backup has been copied; the
\* backup of an attempt is older than its copy.
CopiedFirst ==
    \A a \in Attempts :
        /\ original[a] # a
        /\ (clip = a \/ \E b \in Attempts : original[b] = a) =>
             pc[a] \notin {"new", "look", "read", "copy"}

\* The attempt has copied its text and has not ended.
Pending(a) ==
    \/ pc[a] \in {"ticket", "focus", "policy", "send", "wait", "rewrite"}
    \/ pc[a] = "save" /\ outcome[a] = "inserted"

\* Nobody need wonder about the transcript of an attempt.
Known(a) == Told(a) \/ Pending(a) \/ a \in revived

\* Its restore will not come, because the counter has moved.
Doomed(a) == pc[a] \notin {"ticket", "rewrite"} /\ ~unchanged[a]

TranscriptIsKnown == \A a \in Attempts : clip = a => Known(a)

\* An attempt that would put back another transcript puts back one that is
\* known, unless it will not come to that, or has raced.
BackupIsKnown ==
    \A a, b \in Attempts :
        Pending(b) /\ original[b] = a => Known(a) \/ Doomed(b) \/ stale[b] \/ slipped[b]

IInv ==
    /\ TypeOK /\ AttemptOrder /\ CounterIsSound /\ TextWaits /\ TargetInFront
    /\ BackupIsCurrent /\ CopiedFirst /\ TranscriptIsKnown /\ BackupIsKnown
=============================================================================
