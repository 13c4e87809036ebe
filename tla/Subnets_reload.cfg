CONSTANTS
    Switches = {1, 2, 3}
    Cables = {{1, 2}, {1, 3}}
    Macs = {7}
    MaxLeases = 2
    Crowded = {2}
    MaxMoves = 0
    MaxBreaks = 1
    MaxPurges = 0
SPECIFICATION SubnetSpec
INVARIANT LeaseClaimed
CHECK_DEADLOCK FALSE
