SPECIFICATION Spec
CONSTANTS
    Scenarios <- DetachScenarios
INVARIANTS BoundRoute
PROPERTIES DetachAuthorized BundleFence
CHECK_DEADLOCK FALSE
