\* Cancellation, deletion and changes of the audience against a send of two handlers.
CONSTANTS
  Schedules = {s1}
  Pollers = {p1}
  Handlers = {h1, h2}
  Recipients = {r1, r2}
  Requests = {q1}
  Owner = owner
  MaxAttempts = 2
  Faults = {"refuse", "backlog"}
  MaxFaults = 1
  MaxQueued = 1
  MaxMails = 3
  Operations = {"cancel", "pause", "delete", "audience"}
  MaxRequests = 1
SPECIFICATION ControlSpec
SYMMETRY Symmetry
CHECK_DEADLOCK FALSE
PROPERTY ImplementsSendOnce
