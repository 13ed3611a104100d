\* One client that saves, with one crash or failing write; and three clients
\* that only load.
CONSTANTS
  Client = {c1, c2, c3}
  Sole = c1
  Savers = {c1}
  Setting = {default, s1, s2}
  Default = default
  Absent = Absent
  Empty = Empty
  Garbled = Garbled
  MaxFaults = 1
SPECIFICATION MCSpec
INVARIANT
  JsonKept
PROPERTY LoadsReturnKept
