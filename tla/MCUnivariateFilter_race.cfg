CONSTANTS
    Measured <- SmallMeasured
    FilterTabs = {left}
    MaxToggles = 2
    MaxNights = 1
SPECIFICATION FilterSpec
PROPERTIES
    NewerClicksPrevail
CHECK_DEADLOCK FALSE
