\* A streaming session with two rounds: the first answer, one resumption that
\* is read and one that is not; the three of them share two slots.
CONSTANTS
  Request = {r1, r2, r3}
  Model = {m1}
  None = None
  Slots = 2
  Capacity = 1
  MaxTokens = 1
  Session = {s1}
  Streaming = {s1}
  MaxIters = 2
SPECIFICATION ChatSpec
INVARIANT
  ChatTypeOK
PROPERTIES
  EverySessionEnds
  EngineReleased
  QueueSpec
