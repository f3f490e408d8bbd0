\* Two contexts on the render engine, whose Init takes forcewake without the
\* lock; a ring the command does not divide, so that the rest of it is padded.
\* No symmetry, since CallsReturn is a liveness property.
SPECIFICATION FairSpec
CONSTANTS
  Contexts = {c1, c2}
  None = None
  Scheduler = Scheduler
  UsesPipeControl = TRUE
  RingSize = 5
  CommandSize = 2
  SeqnoLimit = 4
  TickModulus = 3
  RunLengths = {2}
  MaxCreated = 3
INVARIANTS
  NoStaleFetch RunsOnlyTheNewCommand FreedContextUnused
  TicksExact
PROPERTIES
  NothingStartsAfterAFault ImplementsBatchService CallsReturn
