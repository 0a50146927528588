CONSTANTS
    all = all
    left = left
    young = young
    old = old
    MetadataFilters = {all}
    Everything = all
    Predicates = {young, old}
    Tabs = {left}
    NoRow = NoRow
    MaxClicks = 6
    MaxReads = 2
    MaxRefreshes = 0
    MaxFailures = 0
    MaxDeletes = 0
    page = page
    Measured <- SmallMeasured
    FilterTabs = {page}
    MaxToggles = 2
    MaxNights = 1
SPECIFICATION PageSpec
PROPERTIES
    PageIsOneRevision
CHECK_DEADLOCK FALSE
