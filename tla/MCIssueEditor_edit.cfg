\* One page with two handlers at a time, a worker, and a request that fails.
CONSTANTS
  Requests = {q1, q2}
  Handlers = {"save", "leave", "generate", "restore", "approve", "test", "reschedule", "cancelSend", "cancelGeneration"}
  Times = {0, 1}
  Untidy = {2}
  MaxFaults = 1
  MaxDrafts = 2
  MaxClicks = 2
SPECIFICATION FairSpec
CHECK_DEADLOCK FALSE
INVARIANT SavedWhenClean
INVARIANT FlushedBeforeUse
INVARIANT DraftRestorable
PROPERTY EditsSaved
PROPERTY GenerationShown
