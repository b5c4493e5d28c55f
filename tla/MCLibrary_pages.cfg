\* Every page with two rows and two handlers at a time.
CONSTANTS
  Items = {i1, i2}
  NoItem = NoItem
  Pages = {"sources", "recipients", "runs", "dashboard", "connectors", "workflows"}
  Requests = {q1, q2}
  MaxFaults = 1
  MaxClicks = 2
SPECIFICATION FairSpec
CHECK_DEADLOCK FALSE
INVARIANT ListIsCurrent
INVARIANT ChunksOfPreview
PROPERTY FilterShown
