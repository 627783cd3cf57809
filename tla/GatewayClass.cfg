SPECIFICATION FairSpec
CONSTANTS
    g1 = g1
    g2 = g2
    Gateways <- TwoGateways
    MaxClasses = 2
    MaxEdits = 1
    MaxReferences = 2
    MaxBundleChanges = 1
    MaxTampers = 1
    MaxFailures = 1
INVARIANTS VerdictsAgree ForeignUntouched
PROPERTIES Converges
CHECK_DEADLOCK FALSE
