\* One tab, two threads, both kinds of card, a fault and a change of thread.
CONSTANTS
  Threads = {t1, t2}
  Local = local
  NoThread = none
  Faults = {"stream", "action", "sync", "load"}
  MaxFaults = 1
  MaxMessages = 5
  MaxChanges = 1
SPECIFICATION FairSpec
CHECK_DEADLOCK FALSE
INVARIANT LastSaveWins
INVARIANT StopReachesStream
PROPERTY DecidedStays
PROPERTY NothingLost
PROPERTY DecisionEnds
