SPECIFICATION Spec
CONSTANTS
  None = None
  Ready = Ready
  Once = {"worker"}
  Upstream <- MCUpstream
  Deployments <- MCDeployments
  Issuer <- MCIssuer
  Bundle <- MCBundle
  MaxFails = 1
  MaxSignals = 2
  MaxKills = 1
  MaxCuts = 2
  MaxChecks = 1
  MaxLosses = 1
CONSTRAINT Bounds
\* TLC stops at the first that is violated: check one at a time.
INVARIANT HandshakeNeverFails
PROPERTY WorkerHandshakeNeverFails
INVARIANT MigrationsNeverOverlap
CHECK_DEADLOCK FALSE
