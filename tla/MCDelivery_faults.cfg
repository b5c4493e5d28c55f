\* Two handlers of one row, two recipients, every fault but a failed enqueue.
CONSTANTS
  Schedules = {s1}
  Pollers = {p1}
  Handlers = {h1, h2}
  Recipients = {r1, r2}
  Owner = owner
  MaxAttempts = 2
  Faults = {"enqueue", "db", "refuse", "lost_reply", "timeout", "backlog", "crash"}
  MaxFaults = 1
  MaxQueued = 2
  MaxMails = 4
SPECIFICATION FairSpec
CHECK_DEADLOCK FALSE
INVARIANT TypeOK
INVARIANT LiveSenderOwnsRow
INVARIANT OneLiveSender
INVARIANT AttemptsWithinBudget
INVARIANT DuplicatesCostFaults
INVARIANT FinishedRunReachedAll
PROPERTY TerminalIsFinal
PROPERTY InProgressReleased
PROPERTY EventuallySettled
