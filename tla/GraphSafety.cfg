SPECIFICATION Spec
CONSTANTS
    Members = {1, 2}
    Nets = {"ext"}
    Scenarios <- AllScenarios
    NoGateway = NoGateway
    NoRoute = NoRoute
    Requests <- MCRequests
INVARIANTS NeverRefused NoDuplicates NoMixedTraffic
PROPERTIES TrafficStartsComplete ReadyMeansDone RepairAfterValidation ConflictFreezes
CHECK_DEADLOCK FALSE
