------------------------------ MODULE Lexicon ------------------------------
(***************************************************************************)
(* The lexicon: profiles and entries the user edits, the snapshot a job    *)
(* takes of them, prompt selection, the exact corrections of a transcript, *)
(* and their reverts.                                                      *)
(*                                                                         *)
(* A text is a sequence of characters; an offset is the number of          *)
(* characters before it.  Case folding maps a character to one or more     *)
(* characters.  The database is behind one mutex: a command is a step, a   *)
(* transaction happens or does not.                                        *)
(***************************************************************************)
EXTENDS Naturals, Sequences, SequencesExt, FiniteSets

CONSTANTS
    Chars,            \* characters of a raw text
    Space,            \* the separator among them
    Fold,             \* default_case_fold_str of a character
    MaxLen,           \* length of a raw text
    Profiles,         \* lexicon profiles
    Pool,             \* entries the user may save, each with one variant
    MaxPromptTerms, MaxPromptTokens,
    MaxEdits,         \* edits of the lexicon
    None

Texts == UNION {[1..n -> Chars] : n \in 0..MaxLen}

ASSUME LexiconAssumption ==
    /\ MaxLen \in Nat /\ MaxEdits \in Nat
    /\ MaxPromptTerms \in Nat /\ MaxPromptTokens \in Nat
    /\ None \notin Profiles
    /\ Fold \in [Chars -> Seq(Chars) \ {<<>>}]
    /\ \A e \in Pool :
         /\ e.scope \in Profiles \cup {None} /\ e.mode \in {"casefold", "sensitive"}
         /\ e.priority \in 0..100 /\ e.id \in Nat /\ e.enabled \in BOOLEAN
         /\ e.variant \in Seq(Chars) \ {<<>>} /\ e.canonical \in Seq(Chars) \ {<<>>}
    /\ \A d, e \in Pool : d.id = e.id => d = e

VARIABLES
    profiles,    \* profile -> absent, enabled or disabled
    entries,     \* lexicon_entries with their lexicon_variants
    active,      \* the active profile of the settings
    job,         \* where the job is, with the snapshot it took
    transcript,  \* the stored transcript
    edits

vars == <<profiles, entries, active, job, transcript, edits>>

\* sort_by: the elements of the finite set S in the strict total order R; the
\* i-th has i - 1 elements before it.
Rank(S, R, e) == Cardinality({d \in S : <<d, e>> \in R})

InOrder(S, R) ==
    [i \in 1..Cardinality(S) |-> CHOOSE e \in S : Rank(S, R, e) = i - 1]

FoldText(text) == FlattenSeq([i \in 1..Len(text) |-> Fold[text[i]]])

-----------------------------------------------------------------------------
(* Prompt selection                                                        *)

AppliesTo(e, profile) == e.scope \in {None, profile}

\* (Reverse(priority), canonical_key, id): the id stands for the last two.
PromptOrder(all) ==
    {p \in all \X all : LET d == p[1] e == p[2] IN
       d.priority > e.priority \/ (d.priority = e.priority /\ d.id < e.id)}

EstimateTokens(text) == (Len(text) + 1) \div 2

\* Mutant: the limits are compared before the term is counted.
FitsBeforehand(chosen, e) ==
    /\ Len(chosen.terms) # MaxPromptTerms
    /\ chosen.tokens <= MaxPromptTokens

\* A term that does not fit is passed over, a later one may still fit.
Fits(chosen, e) ==
    /\ Len(chosen.terms) # MaxPromptTerms
    /\ chosen.tokens + EstimateTokens(e.canonical) <= MaxPromptTokens

Consider(chosen, e) ==
    IF Fits(chosen, e)
    THEN [terms |-> Append(chosen.terms, e),
          tokens |-> chosen.tokens + EstimateTokens(e.canonical)]
    ELSE chosen

\* What is chosen after the first i candidates.
Chosen(candidates) ==
    LET chosen[i \in 0..Len(candidates)] ==
            IF i = 0 THEN [terms |-> <<>>, tokens |-> 0]
            ELSE Consider(chosen[i - 1], candidates[i])
    IN  chosen

SelectPromptTerms(all, profile) ==
    LET eligible   == {e \in all : e.enabled /\ AppliesTo(e, profile)}
        candidates == InOrder(eligible, PromptOrder(eligible))
    IN  Chosen(candidates)[Len(candidates)].terms

-----------------------------------------------------------------------------
(* apply_corrections                                                       *)

\* str::match_indices: from left to right, without overlaps.  The matches among
\* the first i positions, and where the next may begin.
Scan(text, needle) ==
    LET n == Len(needle)
        scan[i \in 0..Len(text)] ==
            IF i = 0 THEN [free |-> 0, found |-> {}]
            ELSE IF /\ scan[i - 1].free <= i - 1 /\ i - 1 + n <= Len(text)
                    /\ SubSeq(text, i, i - 1 + n) = needle
            THEN [free |-> i - 1 + n, found |-> scan[i - 1].found \cup {i - 1}]
            ELSE scan[i - 1]
    IN  scan

MatchIndices(text, needle) == Scan(text, needle)[Len(text)].found

\* FoldedText: the offset in the folded text that the raw offset i maps to.
FoldedOffset(raw, i) == Len(FoldText(SubSeq(raw, 1, i)))

\* Mutant: a match may begin or end inside a character's folding.
FindAllUnaligned(raw, key) ==
    LET found == MatchIndices(FoldText(raw), key)
    IN  {r \in (0..Len(raw)) \X (0..Len(raw)) :
           \E p \in found : /\ r[1] < r[2]
                            /\ FoldedOffset(raw, r[1]) <= p /\ p < FoldedOffset(raw, r[1] + 1)
                            /\ FoldedOffset(raw, r[2] - 1) < p + Len(key)
                            /\ p + Len(key) <= FoldedOffset(raw, r[2])}

\* FoldedText::find_all: matches that begin and end with a character.
FindAll(raw, key) ==
    LET found == MatchIndices(FoldText(raw), key)
    IN  {r \in (0..Len(raw)) \X (0..Len(raw)) :
           \E p \in found : /\ FoldedOffset(raw, r[1]) = p
                            /\ FoldedOffset(raw, r[2]) = p + Len(key)}

\* word_boundary_offsets: where words and runs of spaces begin and end.
Boundaries(raw) ==
    {0, Len(raw)} \cup {i \in 1..Len(raw) - 1 : (raw[i] = Space) # (raw[i + 1] = Space)}

\* find_candidates.
Candidates(raw, e) ==
    LET n == Len(e.variant)
        locations == IF e.mode = "sensitive"
                     THEN {<<p, p + n>> : p \in MatchIndices(raw, e.variant)}
                     ELSE FindAll(raw, FoldText(e.variant))
    IN  {[start |-> r[1], end |-> r[2], entry |-> e] :
           r \in {l \in locations : l[1] \in Boundaries(raw) /\ l[2] \in Boundaries(raw)}}

CandidateOrder(all) ==
    {p \in all \X all : LET c == p[1] d == p[2] IN
       \/ c.start < d.start
       \/ /\ c.start = d.start
          /\ \/ c.entry.priority > d.entry.priority
             \/ /\ c.entry.priority = d.entry.priority
                /\ c.end > d.end \/ (c.end = d.end /\ c.entry.id < d.entry.id)}

\* Candidates in order, each that begins before the last chosen one ends left out.
WithoutOverlaps(candidates) ==
    LET chosen[i \in 0..Len(candidates)] ==
            IF i = 0 THEN [free |-> 0, list |-> <<>>]
            ELSE IF candidates[i].start < chosen[i - 1].free THEN chosen[i - 1]
            ELSE [free |-> candidates[i].end,
                  list |-> Append(chosen[i - 1].list, candidates[i])]
    IN  chosen

Selected(raw, rules) ==
    LET all == UNION {Candidates(raw, e) : e \in {r \in rules : r.enabled /\ raw # <<>>}}
        candidates == InOrder(all, CandidateOrder(all))
    IN  WithoutOverlaps(candidates)[Len(candidates)].list

\* The cursor behind the i-th correction.
EndOf(list, i) == IF i = 0 THEN 0 ELSE list[i].end

\* The corrected text of apply_corrections, up to the end of the i-th correction;
\* render_corrections builds it the same way after its checks.
Built(raw, list) ==
    LET built[i \in 0..Len(list)] ==
            IF i = 0 THEN <<>>
            ELSE built[i - 1] \o SubSeq(raw, EndOf(list, i - 1) + 1, list[i].start)
                   \o list[i].entry.canonical
    IN  built

Replace(raw, list) ==
    Built(raw, list)[Len(list)] \o SubSeq(raw, EndOf(list, Len(list)) + 1, Len(raw))

ApplyCorrections(raw, rules) ==
    LET list == Selected(raw, rules)
        Correction(c) == [start |-> c.start, end |-> c.end, entry |-> c.entry,
                          original |-> SubSeq(raw, c.start + 1, c.end), reverted |-> FALSE]
    IN  [final |-> Replace(raw, list), corrections |-> {Correction(list[i]) : i \in DOMAIN list}]

\* render_corrections: the corrections in the order of their positions must not
\* overlap and must still find their original.
PositionOrder(all) ==
    {p \in all \X all : LET c == p[1] d == p[2] IN
       c.start < d.start \/ (c.start = d.start /\ c.end < d.end)}

RenderCorrections(raw, corrections) ==
    LET list  == InOrder(corrections, PositionOrder(corrections))
        valid == \A i \in DOMAIN list :
                   /\ list[i].start >= EndOf(list, i - 1) /\ list[i].start <= list[i].end
                   /\ SubSeq(raw, list[i].start + 1, list[i].end) = list[i].original
    IN  IF valid THEN [ok |-> TRUE, text |-> Replace(raw, list)] ELSE [ok |-> FALSE, text |-> <<>>]

NotReverted(corrections) == {c \in corrections : ~c.reverted}

-----------------------------------------------------------------------------
NoJob == [at |-> "idle", rules |-> {}, prompt |-> <<>>, profile |-> None]

TypeOK ==
    /\ profiles \in [Profiles -> {"absent", "enabled", "disabled"}]
    /\ entries \subseteq Pool
    /\ active \in Profiles \cup {None}
    /\ job.at \in {"idle", "transcribing", "stored", "refused"}
    /\ job.rules \subseteq Pool /\ Range(job.prompt) \subseteq Pool
    /\ job.profile \in Profiles \cup {None}
    /\ transcript.raw \in Texts
    /\ edits \in 0..MaxEdits

Init ==
    /\ profiles = [p \in Profiles |-> "absent"]
    /\ entries = {}
    /\ active = None
    /\ job = NoJob
    /\ transcript = [raw |-> <<>>, final |-> <<>>, corrections |-> {}]
    /\ edits = 0

Edit == edits < MaxEdits /\ edits' = edits + 1 /\ UNCHANGED <<job, transcript>>

\* save_lexicon_profile: a new one, or another state of an existing one.
SaveProfile(p) ==
    /\ Edit
    /\ \E s \in {"enabled", "disabled"} : profiles' = [profiles EXCEPT ![p] = s]
    /\ UNCHANGED <<entries, active>>

\* delete_lexicon_profile: the entries go with it; the active profile is reset
\* by a second statement, which may fail.
DeleteProfile(p) ==
    /\ Edit /\ profiles[p] # "absent"
    /\ profiles' = [profiles EXCEPT ![p] = "absent"]
    /\ entries' = {e \in entries : e.scope # p}
    /\ active' = (IF active = p THEN None ELSE active) \/ UNCHANGED active

\* persist_active_lexicon_profile.
SetActive(p) ==
    /\ Edit /\ (p # None => profiles[p] = "enabled")
    /\ active' = p
    /\ UNCHANGED <<profiles, entries>>

\* The schema: one entry per scope, language and folded canonical text, and the
\* profile of an entry exists.
Identity(e) == <<e.scope, FoldText(e.canonical)>>

Known(all, e) == \E d \in all : Identity(d) = Identity(e)

Insertable(all, e) ==
    ~Known(all, e) /\ (e.scope # None => profiles[e.scope] # "absent")

\* save_lexicon_entry.
SaveEntry(e) ==
    /\ Edit /\ Insertable(entries, e)
    /\ entries' = entries \cup {e}
    /\ UNCHANGED <<profiles, active>>

DeleteEntry(e) ==
    /\ Edit /\ e \in entries
    /\ entries' = entries \ {e}
    /\ UNCHANGED <<profiles, active>>

\* The entries after the first i drafts.
Merged(all, drafts) ==
    LET merged[i \in 0..Len(drafts)] ==
            IF i = 0 THEN all
            ELSE IF Known(merged[i - 1], drafts[i]) THEN merged[i - 1]
            ELSE merged[i - 1] \cup {drafts[i]}
    IN  merged

\* import: what is known already, in the document or in the database, is
\* skipped; an entry that cannot be inserted rolls back the whole document.
Import(drafts) ==
    /\ Edit
    /\ LET new == Merged(entries, drafts)[Len(drafts)] \ entries
       IN  /\ \A e \in new : e.scope # None => profiles[e.scope] # "absent"
           /\ entries' = entries \cup new
    /\ UNCHANGED <<profiles, active>>

\* lexicon_snapshot, when the recording has been finalized.
Snapshot ==
    /\ job.at = "idle"
    /\ job' = [at |-> "transcribing", rules |-> {e \in entries : AppliesTo(e, active)},
               profile |-> active, prompt |-> SelectPromptTerms(entries, active)]
    /\ UNCHANGED <<profiles, entries, active, transcript, edits>>

\* The provider's text is corrected with the rules of the snapshot and stored;
\* TranscriptRepository::save refuses a text its corrections do not explain.
Correct(raw) ==
    /\ job.at = "transcribing"
    /\ LET result == ApplyCorrections(raw, job.rules)
           check  == RenderCorrections(raw, result.corrections)
       IN  IF check.ok /\ check.text = result.final
           THEN /\ transcript' = [raw |-> raw, final |-> result.final,
                                  corrections |-> result.corrections]
                /\ job' = [job EXCEPT !.at = "stored"]
           ELSE job' = [job EXCEPT !.at = "refused"] /\ UNCHANGED transcript
    /\ UNCHANGED <<profiles, entries, active, edits>>

\* Mutant: the text is rendered before the correction is marked.
RevertTooLate(c) ==
    /\ job.at = "stored" /\ ~c.reverted
    /\ LET all == (transcript.corrections \ {c}) \cup {[c EXCEPT !.reverted = TRUE]}
           rendered == RenderCorrections(transcript.raw, NotReverted(transcript.corrections))
       IN  IF rendered.ok
           THEN transcript' = [transcript EXCEPT !.corrections = all, !.final = rendered.text]
           ELSE UNCHANGED transcript
    /\ UNCHANGED <<profiles, entries, active, job, edits>>

\* revert_correction: marked, then the text rebuilt from what is left; a text
\* that cannot be rebuilt rolls everything back.
Revert(c) ==
    /\ job.at = "stored" /\ ~c.reverted
    /\ LET all == (transcript.corrections \ {c}) \cup {[c EXCEPT !.reverted = TRUE]}
           rendered == RenderCorrections(transcript.raw, NotReverted(all))
       IN  IF rendered.ok
           THEN transcript' = [transcript EXCEPT !.corrections = all, !.final = rendered.text]
           ELSE UNCHANGED transcript
    /\ UNCHANGED <<profiles, entries, active, job, edits>>

Next ==
    \/ \E p \in Profiles : SaveProfile(p) \/ DeleteProfile(p)
    \/ \E p \in Profiles \cup {None} : SetActive(p)
    \/ \E e \in Pool : SaveEntry(e) \/ DeleteEntry(e)
    \/ \E d, e \in Pool : Import(<<d, e>>)
    \/ Snapshot
    \/ \E raw \in Texts : Correct(raw)
    \/ \E c \in transcript.corrections : Revert(c)

Spec == Init /\ [][Next]_vars

-----------------------------------------------------------------------------
(* Properties                                                              *)

\* "makes only exact, Unicode-word-boundary replacements for explicit variants"
\* (docs/adr/0004:6): every stored correction replaces whole words whose text is
\* the variant (after case folding unless it is case sensitive) of an enabled
\* rule of the job's snapshot, whatever the lexicon holds by then, a rule that is
\* global or of the profile active at the snapshot, and no two corrections touch
\* the same character.
Exact(c) ==
    /\ c.original = SubSeq(transcript.raw, c.start + 1, c.end)
    /\ {c.start, c.end} \subseteq Boundaries(transcript.raw)
    /\ IF c.entry.mode = "sensitive" THEN c.original = c.entry.variant
       ELSE FoldText(c.original) = FoldText(c.entry.variant)
    /\ c.entry \in job.rules /\ c.entry.enabled /\ c.entry.scope \in {None, job.profile}

CorrectionsAreExact ==
    \A c \in transcript.corrections :
        /\ Exact(c)
        /\ \A d \in transcript.corrections \ {c} : c.end <= d.start \/ d.end <= c.start

\* "allowing an individual revert" (docs/adr/0004:8): after any sequence of
\* reverts the final text is the raw text with exactly the remaining corrections
\* in place, character by character, and the store never refuses what
\* apply_corrections has made.
Corrected(raw, corrections) ==
    LET At(i) == {c \in corrections : c.start < i /\ i <= c.end}
        Char(i) == IF At(i) = {} THEN <<raw[i]>>
                   ELSE LET c == CHOOSE d \in At(i) : TRUE
                        IN  IF c.start = i - 1 THEN c.entry.canonical ELSE <<>>
    IN  FlattenSeq([i \in 1..Len(raw) |-> Char(i)])

FinalTextMatches ==
    /\ job.at # "refused"
    /\ transcript.final = Corrected(transcript.raw, NotReverted(transcript.corrections))

\* "bounded prompt hints" (docs/adr/0004:5): the prompt stays within both
\* limits, names only enabled entries in scope, and leaves none out that would
\* still fit.
TokenSum(terms) ==
    LET sum[i \in 0..Len(terms)] ==
            IF i = 0 THEN 0 ELSE sum[i - 1] + EstimateTokens(terms[i].canonical)
    IN  sum

Tokens(terms) == TokenSum(terms)[Len(terms)]

PromptIsBounded ==
    LET tokens == Tokens(job.prompt)
        named  == Range(job.prompt)
    IN  /\ Len(job.prompt) <= MaxPromptTerms /\ tokens <= MaxPromptTokens
        /\ \A e \in named : e.enabled /\ e.scope \in {None, job.profile}
        /\ \A e \in {r \in job.rules : r.enabled} \ named :
             \/ Len(job.prompt) = MaxPromptTerms
             \/ tokens + EstimateTokens(e.canonical) > MaxPromptTokens
=============================================================================
