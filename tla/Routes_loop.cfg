CONSTANTS
    Routers = {1, 2, 3, 4, 5}
    Links = {{1, 3}, {1, 4}, {2, 4}, {2, 5}, {3, 4}, {3, 5}, {4, 5}}
    Indirect = {{2, 4}, {3, 4}, {4, 5}}
    Weights = {1, 4}
    StickyPct = 133
    MaxChanges = 0
SPECIFICATION RoutesSpec
INVARIANTS NextHopsArrive
CHECK_DEADLOCK FALSE
