SPECIFICATION Spec
CONSTANTS
    None = None
    ImmutableParts = {"immutable", "immutable-x"}
    MaxChanges = 3
    Releases <- MCReleases
    Arguments <- MCArguments
    MaxReleases = 2
    ImmutableStems = {"immutable", "immutable-x"}
    CanisterOrigins <- MCOrigins
    OpenIds = {{"google"}, {"google", "apple"}}
    Domains = {d}
    Values = {1}
    Ranges <- MCRanges
    PairedRanges <- MCPairedRanges
    MAX_ENTRIES = 3
    MaxCanisterUpgrades = 2
    MaxUses = 1
    Calls = {e, f, g}
    Modules = {v, w}
    Inits = {i, j}
    Canisters = {c1, c2}
    MaxArchiveUpgrades = 2
    MaxDays = 1
    Anchors = {1, 2}
    Readers = {r}
    Limits = {0, 1, 3}
    max_entries_per_call = 2
    MaxEntries = 5
    MaxTime = 2
SYMMETRY Symmetry
INVARIANTS
    OneCreates
    OldResponsesAreRejected
    ScriptsAreAllowed
    CachesAreCurrent
    ConfigIsInForce
    PagesAreComplete
PROPERTIES
    SuccessIsTrue
    NothingIsForgotten
CHECK_DEADLOCK FALSE
