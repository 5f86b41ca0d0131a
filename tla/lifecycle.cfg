SPECIFICATION MCFairSpec
CONSTANTS
  None = None
  Ready = Ready
  Once = {"worker"}
  Upstream <- MCUpstream
  Deployments <- MCDeployments
  Issuer <- MCIssuer
  Bundle <- MCBundle
  MaxFails = 1
  MaxSignals = 2
  MaxKills = 1
  MaxCuts = 2
  MaxChecks = 1
  MaxLosses = 1
CONSTRAINT Bounds
INVARIANTS
  MigrationsSerial
  AcceptedCallsFinish
  RotationTakesEffect
PROPERTIES
  HandshakeSucceeds
  EveryServiceStarts
  EveryStopEnds
CHECK_DEADLOCK FALSE
