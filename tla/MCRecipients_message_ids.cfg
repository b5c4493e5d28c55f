\* A provider that sends no event_id: the events of a message share its id.
SPECIFICATION Spec
SYMMETRY Symmetry
CONSTANTS
  Ids = {1, 2}
  Workspaces = {w1, w2}
  Emails = {e1}
  Requests = {q1, q2}
  OwnEventId = FALSE
  Faults = {}
  MaxFaults = 0
  MaxRequests = 2
  MaxMails = 1
CHECK_DEADLOCK FALSE
INVARIANT TerminalEventsStopSends
