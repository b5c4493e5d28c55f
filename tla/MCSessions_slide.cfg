\* One browser with two requests at a time, of every kind, and a fault.
CONSTANTS
  Browsers = {b1}
  Requests = {q1, q2}
  Links = {l1}
  NoToken = none
  NoBrowser = nobody
  Kinds = {"me", "page", "logout", "login", "verify", "reset", "password", "revoke", "delete"}
  Faults = {"refresh", "db", "backend"}
  MaxFaults = 1
  MaxVersion = 2
  MaxVisits = 1
SPECIFICATION FairSpec
CHECK_DEADLOCK FALSE
INVARIANT FirstVisitAccepted
PROPERTY ActiveStaysSignedIn
PROPERTY RevokedStops
