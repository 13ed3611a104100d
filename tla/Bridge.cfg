\* A command line and an application that sends two commands.
CONSTANTS
  Client = {cli, app}
  Cli = {cli}
  Key = {k1, k2}
  Token <- Tokens
  MaxTokens = 3
  MaxCommands = 2
  MaxFailures = 2
SPECIFICATION Spec
INVARIANTS
  AnswersFaithful
  UpdatesKept
  NobodyWaits
CHECK_DEADLOCK FALSE
SYMMETRY Symmetry
