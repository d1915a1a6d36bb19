SPECIFICATION Spec
CONSTANTS
    Day = 2
    Delegations <- MCDelegations
    Hostnames = {1, 2}
    Keys = {"p1", "p2", "oidc"}
    AnchorOf <- MCAnchorOf
    MethodOf <- MCMethodOf
    OriginsOf <- MCOriginsOf
    Retention = 3
    MaxToProcess = 2
    CounterMax = 2
    RetrieveLimit = 5
    MaxEventTime = 7
    MaxEvents = 4
    MonthDays = 2
    Modulus = 8
    MaxActivityTime = 8
    MaxUses = 4
    MaxChanges = 1
INVARIANTS
    TotalRemainsTheSame
CHECK_DEADLOCK FALSE
