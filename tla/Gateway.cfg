SPECIFICATION FairSpec
CONSTANTS
    Scenarios <- AllScenarios
    MaxUID = 2
    MaxClassLag = 2
INVARIANTS BoundGraph ProgrammedHonest
PROPERTIES EnsureAuthorized CleanupAuthorized BundleFence Converges
CHECK_DEADLOCK FALSE
