SPECIFICATION FairSpec
CONSTANTS
    Names <- MCNames
    Services <- MCServices
    Slices <- MCSlices
    Nodes <- MCNodes
    Scenarios <- MCScenarios
INVARIANTS
    NoLostWakeUp
PROPERTIES
    SteadyMembersStay
    Converges
    ResyncRepairs
CHECK_DEADLOCK FALSE
