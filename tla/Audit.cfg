SPECIFICATION Spec
CONSTANTS
  Gateways <- MCGateways
  Routes <- MCRoutes
  PolicyRoles <- MCPolicyRoles
  Scenarios <- MCScenarios
  MaxUID = 2
INVARIANTS BoundIsNeverOrphan MatchedIsProven UntouchedIsExact NothingMissed CleanAtRest
CHECK_DEADLOCK FALSE
