SPECIFICATION Spec
CONSTANTS
    None = None
    Reserved = Reserved
    a1 = a1
    a2 = a2
    Requests = {"r1", "r2"}
    Gets = {"r1"}
    Certs = {"k1", "k2"}
    CAs = {"a1", "a2"}
    LoadableCerts = {"k1", "k2"}
    LoadableCAs = {"a1"}
    MaxTries = 2
    MaxUpdates = 2
    MaxChanges = 1
    Notes = {"n1", "n2"}
    Mode = "enforce"
    MaxWindows = 2
    MaxSwaps = 1
    Items <- EditionItems
    Features = {"limits"}
    MaxReads = 2
    Calls <- DispatchCalls
    Modes = {"m1", "m2"}
    MeteredCalls = {"metered"}
    Gated = {"default"}
    Ttl = 2
    MaxTransient = 1
    MaxFails = 1
    MaxCancels = 1
    Intervals <- PriceIntervals
    Pollers = {"poll", "note"}
    MaxTime = 1
    MaxPolls = 1
    MaxAttempts = 2
    MaxRequests = 1
    MaxRediscovers = 1
    Scopes = {"a", "b"}
    TimeHrefs <- ClockHrefs
    HrefOf <- ClockFsas
    PollTicks = 1
    FloorTicks = 2
    MaxClock = 8
    MaxTurns = 2
    Servers <- DnsServers
    Transports <- DnsTransports
    MaxReplies = 4
    MAX_INSTANCES = 3
    ANNOUNCE_COUNT = 2
    ANNOUNCE_INTERVAL = 2
    MULTICAST_MIN_INTERVAL = 2
    UNICAST_WINDOW = 2
    UNICAST_BURST = 1
    MaxTicks = 6
    MaxQueries = 3
    MaxOutages = 2
    MaxRedis = 3
    MaxLost = 1
    HostCalls = {"c"}
    MaxPasses = 3
INVARIANTS
    TypeOK
    WritesHold
    ControlsTold
    ReportsTrue
    RecordsTrue
    ClockTrue
    ExchangesAgree
    PresenceTrue
    HistoryIsDevice
    AckedOnce
    EndsInOrder
CHECK_DEADLOCK FALSE
