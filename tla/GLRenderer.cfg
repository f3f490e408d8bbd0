\* Two views, two displays one after the other.
SPECIFICATION FairSpec
CONSTANTS
  Renderers = {r1, r2}
  Nobody = Nobody
  MaxDisplays = 2
INVARIANT
  DisplayLivesWhileUsed
PROPERTY
  CallsReturn
CHECK_DEADLOCK FALSE
