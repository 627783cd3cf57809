SPECIFICATION FairSpec
CONSTANTS
    Scenarios <- LiveScenarios
PROPERTIES Converges RepairHappens
CHECK_DEADLOCK FALSE
