\* A client of the native interface and one of the legacy interface, which
\* share the aperture and the render engine.
SPECIFICATION Spec
CHECK_DEADLOCK FALSE
CONSTANTS
  Clients = {c1, c2}
  None = None
  Engines = {0, 1}
  Slots = {0, 1}
  ContextSlots = {0}
  Sizes = {1, 2}
  GttSize = 3
  VirtualSize = 2
  MemoryLimit = 3
  ApertureLimit = 2
  HandleModulus = 3
  Legacy = {c2}
  Native = {c1}
  CompletedLimit = 1
VIEW Relevant
INVARIANTS
  DmaTargetsLive VirtualExact ApertureExact AccountsBalance
