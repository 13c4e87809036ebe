SPECIFICATION FairSpec
CONSTANTS
    Nodes = {a, b, c}
    Links = {{a, b}, {b, c}, {a, c}}
    Up = {{a, b}, {b, c}}
    Attrs = {1}
    MaxChanges = 2
    SeenCap = 3
    FloodLimited = TRUE
    Spacing = "burst"
INVARIANTS TypeOK OwnEdges
PROPERTY FloodEnds
CHECK_DEADLOCK FALSE
