\* Two files of one program, two initialisations, no submission after a unit of GPU time.
SPECIFICATION FairSpec
CONSTANTS
  f1 = f1
  f2 = f2
  t1 = t1
  None = None
  Files = {f1, f2}
  Teams = {t1}
  Team <- MCTeam
  Interrupts = {{"messages"}}
  Made = {{"blitter", "render"}}
  Contexts <- MCContexts
  Slots = {1, 2}
  MaxInits = 2
  MaxTicks = 1
INVARIANTS
  DeviceHeldWhileOpen
  NoVisitAfterFree
  ReportWithinTruth
PROPERTIES
  ReportsReturn
CHECK_DEADLOCK FALSE
