\* One profile and five entries whose matches overlap, every text of up to three
\* characters, three edits.
SPECIFICATION Spec
CONSTANTS
  None = None
  p1 = p1
  Profiles = {p1}
  Chars <- Alphabet
  Space = "_"
  Fold <- FoldOf
  MaxLen = 3
  Pool <- EntryPool
  MaxPromptTerms = 2
  MaxPromptTokens = 3
  MaxEdits = 3
INVARIANTS
  CorrectionsAreExact
  FinalTextMatches
  PromptIsBounded
CHECK_DEADLOCK FALSE
