\* A series from its form to its page, one handler of the page at a time.
CONSTANTS
  StartDays = {1}
  Toggles = {1, 3, 5}
  Cadences = {"daily", "weekly", "biweekly"}
  MaxSources = 1
  MaxFaults = 1
  MaxMade = 2
  Requests = {q1}
  MaxIssues = 2
  Buttons = {"generatePlan", "createIssue", "retry", "retryAll", "addSource", "deleteSource", "pause", "settings", "context", "test", "deleteSeries"}
  MaxClicks = 1
SPECIFICATION FairSpec
CHECK_DEADLOCK FALSE
INVARIANT PreviewIsSchedule
INVARIANT PageIsCurrent
PROPERTY ValidWhenSubmitted
PROPERTY PlanShown
PROPERTY RetryAsksAll
