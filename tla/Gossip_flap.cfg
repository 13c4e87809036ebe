SPECIFICATION Spec
CONSTANTS
    Nodes = {a, b, c}
    Links = {{a, b}, {b, c}}
    Up = {{a, b}, {b, c}}
    Attrs = {1}
    MaxChanges = 3
    SeenCap = 20
    FloodLimited = FALSE
    Spacing = "none"
INVARIANT Converged
CHECK_DEADLOCK FALSE
