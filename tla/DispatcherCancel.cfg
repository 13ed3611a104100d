CONSTANTS
  Request = {r1, r2}
  Model = {m1}
  None = None
  Slots = 2
  Capacity = 1
  MaxTokens = 2
SPECIFICATION SafeSpec
PROPERTY
  CancelStopsOwnGeneration
