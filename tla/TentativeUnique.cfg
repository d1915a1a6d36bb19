SPECIFICATION Spec
CONSTANTS
    Users = {u1, u2}
    Devices = {d1}
    FlowCalls = {c1}
    FlowExpiration = 1
    MaxTokens = 1
    TimePerToken = 1
    KeyExpiration = 1
    MaxToPrune = 1
    MaxIdentities = 1
    MaxFlowTime = 0
    MaxStarts = 0
    MaxCleared = 0
    ModeCalls = {c1}
    Sessions = {s1}
    RegIds = {r1}
    NoId = NoId
    Duration = 2
    MaxModes = 3
    MaxAttempts = 3
    MaxModeTime = 3
SYMMETRY Symmetry
INVARIANTS
    PasskeysAreUnique
