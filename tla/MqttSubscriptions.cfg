SPECIFICATION SubsFairSpec
CONSTANTS
    c1 = c1
    c2 = c2
    c3 = c3
    f1 = f1
    f2 = f2
    f3 = f3
    NoCaller = NoCaller
    NoFilter = NoFilter
    FilterCalls <- ThreeCalls
    Kind <- LastUnsubscribes
    Filter <- OwnFilter
    Filters <- ThreeFilters
    Remembered <- OneRemembered
    Denied <- SecondDenied
    MaxSubs = 3
    MaxSubacks = 4
    MaxBreaks = 2
    Apart = TRUE
INVARIANTS
    FiltersSound
PROPERTIES
    RememberedBecomesActive
