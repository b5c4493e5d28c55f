\* Two workspaces with the same reader, and a provider that names its events.
SPECIFICATION Spec
SYMMETRY Symmetry
CONSTANTS
  Ids = {1, 2}
  Workspaces = {w1, w2}
  Emails = {e1}
  Requests = {q1, q2}
  OwnEventId = TRUE
  Faults = {"db", "crash"}
  MaxFaults = 1
  MaxRequests = 3
  MaxMails = 1
CHECK_DEADLOCK FALSE
INVARIANT MailedAgreed
INVARIANT AppliedOnce
PROPERTY DeliveredIsFinal
INVARIANT FinalEventSuppresses
