SPECIFICATION FairSpec
CONSTANTS
    Members = {1, 2}
    Nets = {"ext"}
    Scenarios <- OneDrift
    NoGateway = NoGateway
    NoRoute = NoRoute
    Requests <- MCRequests
PROPERTIES Converges
CHECK_DEADLOCK FALSE
