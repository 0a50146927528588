CONSTANTS
    all = all
    etf = etf
    left = left
    right = right
    young = young
    old = old
    MetadataFilters = {all, etf}
    Everything = all
    Predicates = {young, old}
    Tabs = {left, right}
    NoRow = NoRow
    MaxClicks = 4
    MaxReads = 2
    MaxRefreshes = 1
    MaxFailures = 1
    MaxDeletes = 1
    page = page
    Measured <- SmallMeasured
    FilterTabs = {page}
    MaxToggles = 2
    MaxNights = 1
SPECIFICATION MCSpec
SYMMETRY Symmetry
INVARIANTS
    SavesActivate
    ReadyIsOneRevision
    LineageResolves
PROPERTIES
    VersionsOrderActivations
    ClicksStoreWhatIsChecked
CHECK_DEADLOCK FALSE
