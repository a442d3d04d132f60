SPECIFICATION Spec
CONSTANTS
    good = good  better = better  bad = bad
    None = None
    Jobs = {1}
    TaskOf <- OneTask
    ConfigOf <- OneConfig
    Config = {good, better, bad}
    Valid = {good, better}
    Default = good
    MaxRuns = 2
CHECK_DEADLOCK FALSE
INVARIANT RunningIsSaved
