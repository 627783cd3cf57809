SPECIFICATION FairSpec
CONSTANTS
    Members <- TwoMembers
    MaxRuns = 2
    MaxCrashes = 2
    MaxFailures = 2
INVARIANTS Recorded
PROPERTIES CleanupEnds
CHECK_DEADLOCK FALSE
