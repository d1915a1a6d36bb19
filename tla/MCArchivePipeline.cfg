SPECIFICATION Spec
CONSTANTS
    Anchors = {a}
    Polls = {p, q}
    Configs <- MCConfigs
    ErrorLimit = 1
    MaxOps = 2
    MaxUpgrades = 1
INVARIANTS
    GapFreeLog
    AcknowledgedIsArchived
    IndexMatchesLog
PROPERTIES
    ArchivesExactlyOnceInOrder
    BufferDrains
