\* Two versions of a skill, so that it changes once, and two crashes or failures.
CONSTANTS
  Versions = 2
  Slot = {s1, s2}
  NoSlot = NoSlot
  Absent = Absent
  Empty = Empty
  Torn = Torn
  Bad = Bad
  LoadFits = {TRUE, FALSE}
  MaxFaults = 2
SPECIFICATION Spec
INVARIANTS
  OneCompiler
  CacheIsWhole
  LoadedIsCurrent
PROPERTIES
  EveryCallReturns
