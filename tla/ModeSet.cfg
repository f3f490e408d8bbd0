\* Two modes, a graphics memory in which both cannot always have room.
SPECIFICATION Spec
CONSTANTS
  Machines <- MCMachines
  Modes <- MCModes
  MemorySize = 4
  MaxOthers = 2
  Server = Server
  Clone = Clone
  None = None
INVARIANTS
  ShowsTheFrameBuffer PlanesNeedPipes LitAsAsked
PROPERTY
  ClocksChangeInOrder
