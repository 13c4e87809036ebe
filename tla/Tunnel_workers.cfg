CONSTANTS
    None = None
    PingInterval = 1
    KeyLifetime = 2
    MaxFaults = 2
    MaxMeta = 2
    MaxUdp = 1
SPECIFICATION Spec
INVARIANT WorkersStop
