\* A plan, its issue and a source; every request and every fault.
CONSTANTS
  Issues = {i1}
  Sources = {a1}
  Plan = plan
  Slots = {k1, k2}
  NoSlot = none
  Requests = {q1}
  Operations = {"plan", "issue", "source", "cancel"}
  Tiers = {TRUE}
  MaxGen = 1
  Faults = {"redis", "db", "crash", "backlog"}
  MaxFaults = 1
SPECIFICATION FairSpec
CHECK_DEADLOCK FALSE
INVARIANT JobKept
INVARIANT OneTaskPerJob
PROPERTY AcceptedJobsEnd
