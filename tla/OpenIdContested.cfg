SPECIFICATION StorageSpec
CONSTANTS
    Keys = {k1}
    CredIds = {x}
    NoCred = NoCred
    Other = Other
    MaxDevices = 1
    MaxEntries = 1
    MaxAnchorNumber = 1
    RecordKeys = {r}
    RecordOrigins = {LegacyOrigin}
    Dummy = Dummy
    LegacyOrigin = LegacyOrigin
    NoOrigin = NoOrigin
    KeyTypes = {"platform", "seed_phrase", "browser_storage_key"}
    Anchors = {a}
    Origins = {o}
    MaxAccounts = 1
    MaxNumber = 1
    MaxRebuilds = 0
    Persons = {i}
    Auds = {u, v}
    MaxAnchors = 2
    MaxLinked = 2
    BatchSize = 1
    Calls = {c1}
    NoSalt = NoSalt
    OldSalt = OldSalt
INVARIANTS
    ExistsInOneAnchor
