SPECIFICATION Spec
CONSTANTS
    Configs <- MCConfigs
    ChallengeKeys = {c1, c2}
    ChallengeLifetime = 2
    RatesMaxToPrune = 1
    Principals = {p1}
    Devices = {d1, d2}
    KeyExpiration = 2
    MaxToPrune = 2
    MaxIdentities = 1
    MaxAdded = 2
    MaxTime = 3
    MaxIssued = 2
    MaxRegistrations = 3
    MaxUpgrades = 1
SYMMETRY Symmetry
INVARIANTS
    AttemptsArePaid
    RatesAreComplete
    KeysLeave
