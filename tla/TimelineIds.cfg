SPECIFICATION TimelineSpec
CONSTANTS
  Tasks = {d1, d2}
  Kinds <- EventKinds
  TimelineAttempts = 2
  MaxReplays = 1
  MaxEvents = 2
INVARIANTS DistinctEventsKept
CHECK_DEADLOCK FALSE
