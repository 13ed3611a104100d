\* Two threads of the daemon and a second process.
CONSTANTS
  Task = {a, b, c}
  Process = {daemon, cli}
  Home <- Homes
  Nobody = Nobody
  a = a
  b = b
  c = c
  daemon = daemon
  cli = cli
  MaxCalls = 2
  MaxCrashes = 2
SPECIFICATION Spec
INVARIANTS
  SurvivesOneCrash
  CalmSeesTruth
PROPERTIES
  EveryCallEnds
CHECK_DEADLOCK FALSE
