SPECIFICATION Spec
CONSTANTS
    m0 = m0
    m1 = m1
    m2 = m2
    m3 = m3
    Messages = {m0, m1, m2, m3}
    Log <- MCLog
    Foreign <- MCForeign
    Effects <- MCEffects
    MaxTopic = 5
    MaxRuns = 0
    MaxCrashes = 0
    MaxErrors = 1
INVARIANTS NeverLosesPoison
CHECK_DEADLOCK FALSE
