SPECIFICATION FairSpec
CONSTANTS
    Users = {u1, u2}
    Keys = {k1, k2}
    NoKey = NoKey
    Sessions = {s1, s2}
    Free = Free
    Mode = "rules"
    MaxFaults = 1
INVARIANTS OneTrueEvent KeyHasOneOwner
PROPERTIES EveryDecisionAnnounced
