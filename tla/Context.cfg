\* The engine as the hub drives it, in mode 0, in one that drops a third of the
\* context, and in mode 4, which drops half.  Decodes and loads may fail.
CONSTANTS
  a = a
  b = b
  Token <- TokenSet
  Answer = Answer
  Draft = Draft
  None = None
  Prompts <- PromptSet
  NCtx = 6
  NBatch = 3
  Discards = {0, 2, 3}
  Margin = 1
  Reserve = 2
  MaxTokens = 3
  MaxThink = 2
  MaxDrafts = 2
  Faults = TRUE
SPECIFICATION Spec
INVARIANTS
  ShiftedInTime
  Contiguous
  PromptIngested
  PromptHeadKept
PROPERTY GenerationEnds
