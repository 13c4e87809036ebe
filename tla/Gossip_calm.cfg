SPECIFICATION Spec
CONSTANTS
    Nodes = {a, b, c}
    Links = {{a, b}, {b, c}, {a, c}}
    Up = {{a, b}, {b, c}}
    Attrs = {1, 2}
    MaxChanges = 4
    SeenCap = 20
    FloodLimited = FALSE
    Spacing = "mesh"
INVARIANT Converged
CHECK_DEADLOCK FALSE
