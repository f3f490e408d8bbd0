\* A client of the legacy interface whose batch times out.
SPECIFICATION Spec
CONSTANTS
  Clients = {c1}
  None = None
  Engines = {0, 1}
  Slots = {0}
  ContextSlots = {0}
  Sizes = {1}
  GttSize = 3
  VirtualSize = 0
  MemoryLimit = 3
  ApertureLimit = 2
  HandleModulus = 4
  Legacy = {c1}
  Native = {}
  CompletedLimit = 0
INVARIANT
  WedgedGpuKeepsItsMemory
