\* Two requests, two models: model switches, triggers and the shared flag.
CONSTANTS
  Request = {r1, r2}
  Model = {m1, m2}
  None = None
  Slots = 2
  Capacity = 1
  MaxTokens = 2
SPECIFICATION SafeSpec
SYMMETRY Symmetry
INVARIANTS
  OneEngineResident
  GeneratesOnResolvedModel
  TriggerDelivered
  NoTextAfterTrigger
  StreamsEndWithDone
  CancelBeforeFirstToken
PROPERTIES
  QueueSafety
