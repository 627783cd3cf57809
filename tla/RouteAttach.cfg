SPECIFICATION Spec
CONSTANTS
    Scenarios <- AttachScenarios
INVARIANTS BoundRoute OneRoute
PROPERTIES EnsureAuthorized WithdrawnFirst
CHECK_DEADLOCK FALSE
