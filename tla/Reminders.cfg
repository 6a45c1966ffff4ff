CONSTANTS
  r1 = r1  r2 = r2  s1 = s1  s2 = s2
  Reminder = {r1}
  Scheduler = {s1, s2}
  Kinds <- OnceOrOften
  Joined = TRUE
  MaxTime = 2
  MaxCalls = 3
  MaxFaults = 1
  NoRow = NoRow  NoTime = NoTime  NoOffset = NoOffset
  Schedules <- SomeSchedules
  Moments <- SomeMoments
  Offsets <- SomeOffsets
  Never = Never
SPECIFICATION FairSpec
INVARIANTS TypeOK AskedIsKept DeletedIsSilent NoRunaway AtLeastOnce ScheduleIsKept
PROPERTIES CatchesUp
CHECK_DEADLOCK FALSE
