SPECIFICATION Spec
CONSTANTS
    good = good  better = better  bad = bad
    None = None
    Jobs = {1, 2, 3, 4}
    TaskOf <- ServiceTasks
    ConfigOf <- ServiceConfigs
    Config = {good, better, bad}
    Valid = {good, better}
    Default = good
    MaxRuns = 1
CHECK_DEADLOCK FALSE
INVARIANT TypeOK
INVARIANT LastWriterRuns
