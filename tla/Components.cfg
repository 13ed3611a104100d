\* A command line beside two requests of the server, three calls, one crash.
CONSTANTS
  Cli = {cli}
  Worker = {w1, w2}
  Component = {search, browser}
  Preinstalled = {search}
  Misplaced = {browser}
  Versions = 2
  Absent = Absent
  Empty = Empty
  Foreign = Foreign
  MaxCalls = 3
  MaxCrashes = 1
SPECIFICATION Spec
SYMMETRY Symmetry
INVARIANTS
  InstalledStaysRegistered
  RunsWhatItRead
  LimitsAreCurrent
CHECK_DEADLOCK FALSE
