\* Two painters and a player of videos; the longest program takes six of the
\* ring's seven cells.
SPECIFICATION Spec
CONSTANTS
  p1 = p1
  p2 = p2
  v = v
  b1 = b1
  b2 = b2
  None = None
  Threads <- MCThreads
  Painters <- MCPainters
  Locks <- MCLocks
  Player = v
  Size = 7
  Fills = {1}
  Buffers = {b1, b2}
  MaxInterrupts = 1
SYMMETRY PainterSymmetry
VIEW FromHead
CONSTRAINT NoTrespass
INVARIANTS
  MutualExclusion NothingLost OverlayShowsWhatIsLive
PROPERTY
  FlipsInTurn
CHECK_DEADLOCK FALSE
