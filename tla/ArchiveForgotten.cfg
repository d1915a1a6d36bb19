SPECIFICATION Spec
CONSTANTS
    Calls = {e, f}
    Modules = {v}
    Inits = {i}
    Canisters = {c1, c2}
    MaxUpgrades = 1
    MaxDays = 1
    None = None
PROPERTY
    ArchiveIsKept
CHECK_DEADLOCK FALSE
