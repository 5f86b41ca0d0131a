SPECIFICATION FairSpec
CONSTANTS
    m0 = m0
    m1 = m1
    m2 = m2
    m3 = m3
    Messages = {m0, m1, m2, m3}
    Log <- MCLog
    Foreign <- MCForeign
    Effects <- MCEffects
    MaxTopic = 5
    MaxRuns = 3
    MaxCrashes = 1
    MaxErrors = 1
INVARIANTS NoMessageLost CommitOnlyIfDecided
PROPERTIES EveryMessageHandled
CHECK_DEADLOCK FALSE
