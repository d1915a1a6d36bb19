SPECIFICATION Spec
CONSTANTS
    Users = {u1, u2}
    Devices = {d1}
    FlowCalls = {c1, c2}
    FlowExpiration = 3
    MaxTokens = 1
    TimePerToken = 3
    KeyExpiration = 3
    MaxToPrune = 2
    MaxIdentities = 2
    MaxFlowTime = 7
    MaxStarts = 3
    MaxCleared = 2
    ModeCalls = {c1}
    Sessions = {s1}
    RegIds = {r1}
    NoId = NoId
    Duration = 1
    MaxModes = 2
    MaxAttempts = 2
    MaxModeTime = 2
SYMMETRY Symmetry
INVARIANTS
    FlowsArePaid
    EveryFinishIsCleared
    LookupIsSound
PROPERTIES
    NoSubstitution
