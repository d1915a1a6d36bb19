SPECIFICATION Spec
CONSTANTS
    None = None
    BadIssuerParts = {"?"}
    BlankParts = {" "}
    Lowercase <- MCLowercase
    MaxIssuer = 3
    MaxDomain = 2
    MaxAttributes = 3
    LongOrigins = {}
    LongValues = {}
    Placeholders = {"tid"}
    MaxValidityWindow = 1
    PersonalTenant = "personal"
    TooLong = {}
    StaticProviders <- MCStaticProviders
    SsoProviders <- MCSsoProviders
    Credentials <- MCCredentials
    Tokens <- MCTokens
    Requests <- MCRequests
    SpecLists <- MCSpecLists
    Origins <- MCOrigins
    Ttls = {None}
    DefaultExpiration = 2
    MaxExpiration = 3
    SessionDuration = 2
    AttributeDuration = 2
    SignatureLifetime = 1
    MaxTime = 1
    MaxCredentials = 2
    MaxChanges = 1
    MaxPrepared = 2
    MaxCalls = 1
    MaxUpgrades = 1
INVARIANTS PreparedIsReturned CertifiedIsTrue CertifiableIsListed ScopeAgrees
CHECK_DEADLOCK FALSE
