\* Mode 4 on the instance of Context.cfg.
CONSTANTS
  a = a
  b = b
  Token <- TokenSet
  Answer = Answer
  Draft = Draft
  None = None
  Prompts <- PromptSet
  NCtx = 6
  NBatch = 3
  Discards = {3}
  Margin = 1
  Reserve = 2
  MaxTokens = 3
  MaxThink = 2
  MaxDrafts = 2
  Faults = TRUE
SPECIFICATION SafeSpec
INVARIANT SlidesBeforeOverflow
