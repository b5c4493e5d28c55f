\* Two requests of every kind against each other and against a send.
CONSTANTS
  Schedules = {s1, s2}
  Pollers = {p1}
  Handlers = {h1}
  Recipients = {r1}
  Requests = {q1, q2}
  Owner = owner
  MaxAttempts = 1
  Faults = {"enqueue", "lost_enqueue", "refuse", "crash"}
  MaxFaults = 1
  MaxQueued = 1
  MaxMails = 3
  Operations = {"approve", "reschedule", "cancel", "regenerate", "persist"}
  MaxRequests = 2
SPECIFICATION ControlSpec
SYMMETRY Symmetry
CHECK_DEADLOCK FALSE
INVARIANT ApprovedHasSchedule
