CONSTANTS
    SeqSpace = 13
    Slots = 3
    FarLimit = 2
    SealLimit = 6
    Batch = 2
    KeyBase = 2
    BurnBound = 8
    PuntCap = 1
    ConnectTo = {1, 2}
    Addrs = 1
    Streams = {1, 2, 3}
    MaxPending = 1
    MaxTroubles = 1
    MTU = 5
    MINMTU = 3
    MIN_PROBE_SIZE = 2
    MaxProbes = 4
    Cycle = 3
    MaxUpsets = 1
    Routers = {1, 2, 3, 4}
    Links = {{1, 2}, {2, 3}, {3, 4}, {1, 4}, {2, 4}}
    Indirect = {{1, 2}, {3, 4}}
    Weights = {3, 4}
    StickyPct = 133
    MaxChanges = 2
    Switches = {1, 2, 3}
    Cables = {{1, 2}, {1, 3}}
    Macs = {7}
    MaxLeases = 2
    Crowded = {2}
    MaxMoves = 1
    MaxBreaks = 1
    MaxPurges = 1
    Cookies = {1, 2}
    Names = {1, 2}
    Joiners = {1, 2}
SPECIFICATION PartsSpec
INVARIANTS
    TypeOK NoReplay NonceUnique WindowExact
    ConnTypeOK OneActive PendingExact
    PmtuTypeOK UsableOrNothing NeverTooLarge
    PartNextHopsArrive PartTreeSpans
    MacTableBacked
    SingleUse Vouched OutstandingUsable
PROPERTIES PartSettles PartConverges PartStaleClaimsGo PartStationsFound
CHECK_DEADLOCK FALSE
