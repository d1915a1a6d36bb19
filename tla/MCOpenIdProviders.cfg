SPECIFICATION ProvidersSpec
CONSTANTS
    None = None
    Unreadable = Unreadable
    Placeholders = {"tid"}
    MaxValidityWindow = 2
    PersonalTenant = "t1"
    TooLong = {}
    StaticConfigs <- MCStaticConfigs
    Domains = {"d"}
    Documents <- MCDocuments
    HostOf <- MCHostOf
    Malformed = {}
    HttpHost <- MCHttpHost
    Allowlists = {None}
    DefaultDomains = {"d"}
    MinDelay = 1
    MaxDelay = 1
    MaxRuns = 1
    MaxChains = 3
    MaxRestarts = 1
INVARIANTS
    ProvidersAreWhole
PROPERTIES
    KeysAreRenewed
