\* One LoggedInApp lifetime; the projection is checked in every reachable
\* store state and filter.
CONSTANTS
    CrIds = {1, 2}
    VrIds = {1, 2}
    KdUids = {1}
    CrValues <- MCCrValues
    VrValues <- MCVrValues
    KdValues <- MCKdValues
    Filters <- MCFilters
    MaxMounts = 1
    MaxServerOps = 3
    Reorder = FALSE
    DisplayedCards = 4
SPECIFICATION DSpec
\* The dashboard idles once the server stops changing and nobody clicks.
CHECK_DEADLOCK FALSE
INVARIANTS HistoryHidesDrawer
