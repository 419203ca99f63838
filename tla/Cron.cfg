SPECIFICATION FairSpec
CONSTANTS
  Jobs = {j1}
  NoJob = NoJob
  MaxRuns = 3
  MaxInstances = 1
INVARIANT OneRunPerJob
INVARIANT MarkHonest
INVARIANT ScheduleMatchesTable
PROPERTY RunsEnd
PROPERTY EnabledKeepsRunning
