SPECIFICATION Spec
CONSTANTS
    Members = {1, 2}
    Nets = {"ext"}
    Scenarios <- OneDrift
    NoGateway = NoGateway
    NoRoute = NoRoute
    Requests <- MCRequests
INVARIANTS CleanupLeavesNothing
CHECK_DEADLOCK FALSE
