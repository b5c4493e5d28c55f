\* Approving an issue again while its send starts.
CONSTANTS
  Schedules = {s1}
  Pollers = {p1}
  Handlers = {h1, h2}
  Recipients = {r1}
  Requests = {q1}
  Owner = owner
  MaxAttempts = 2
  Faults = {}
  MaxFaults = 0
  MaxQueued = 1
  MaxMails = 3
  Operations = {"approve"}
  MaxRequests = 1
SPECIFICATION ControlSpec
CHECK_DEADLOCK FALSE
INVARIANT OneLiveSender
