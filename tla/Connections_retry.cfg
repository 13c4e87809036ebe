CONSTANTS
    ConnectTo = {1, 2}
    Addrs = 1
    Streams = {1, 2, 3}
    MaxPending = 1
    MaxTroubles = 1
SPECIFICATION ConnSpec
INVARIANTS SlotKept
CHECK_DEADLOCK FALSE
