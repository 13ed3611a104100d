\* Three tokens, of one or two pieces; pipes of one unit.
CONSTANTS
  Payload = 1
  MaxOutput = 1
  MaxErrors = 2
  Capacity = 1
  Heirs <- SomeHeirs
  Token <- Tokens
  MaxTokens = 3
  MaxAnswer = 2
  Window = 1
  Keep = 1
  MaxResult = 1
SPECIFICATION Spec
INVARIANTS
  Accounted
  TriggersCaught
  AnswerIsWhole
PROPERTIES
  EveryRequestEnds
CHECK_DEADLOCK FALSE
