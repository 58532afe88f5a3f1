SPECIFICATION Spec
CONSTANTS
  Modulus = 128
  MINUTE = 2
  HOUR = 4
  DAY = 8
  DAYS = 3
  DAY_OF_WEEK_BASE = 1
  Clocks <- MCClocks
  Garbage <- MCGarbage
  MaxId = 1
  Maximum = 2
  EventRequests <- MCEvents
  WeeklyRequests <- MCWeekly
  ProgramRequests <- MCPrograms
  MaxLevel = 1
  MaxRuns = 3
CONSTRAINT Apart
INVARIANTS TypeOK IdsUnique RunsOncePerPeriod WeeklyOnTheDay
PROPERTY CatchesUp
