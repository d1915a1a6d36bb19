SPECIFICATION FairStorageSpec
CONSTANTS
    Keys = {k1, k2}
    CredIds = {x}
    NoCred = NoCred
    Other = Other
    MaxDevices = 2
    MaxEntries = 2
    MaxAnchorNumber = 3
    RecordKeys = {r, s}
    RecordOrigins = {LegacyOrigin}
    Dummy = Dummy
    LegacyOrigin = LegacyOrigin
    NoOrigin = NoOrigin
    KeyTypes = {"platform", "seed_phrase", "browser_storage_key"}
    Anchors = {a, b}
    Origins = {o, p}
    MaxAccounts = 2
    MaxNumber = 3
    MaxRebuilds = 2
    Persons = {i, j}
    Auds = {u, v}
    MaxAnchors = 2
    MaxLinked = 2
    BatchSize = 1
    Calls = {c1, c2}
    NoSalt = NoSalt
    OldSalt = OldSalt
SYMMETRY Symmetry
INVARIANTS
    IndicesAreSound
    DevicesAreKept
    SeedsAreUnique
    CountersAreExact
    IndexIsExact
    AnswersAreCurrent
PROPERTIES
    EntriesAreKept
    PrincipalsAreKept
    LegacyIsMigrated
