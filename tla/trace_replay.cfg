SPECIFICATION ReplaySpec
CONSTANTS
    Standard = "hbm2"
    Timing <- FastTiming
    None = None
    PseudoChannels = 1
    BankGroups = 1
    BanksPerGroup = 2
    SchedulerKind = "FrFcfs"
    RowPolicy = "Open"
    RefreshPolicy = "AllBank"
    HighWatermark = 2
    LowWatermark = 0
    ReadCapacity = 2
    WriteCapacity = 1
    MergeReads = TRUE
    RefreshInterval = 12
    RfmThreshold = 0
    BurstTime = 2
    KeepRecords = TRUE
    MaxIdle = 26
    Channels = {0}
    Ids = {1, 2, 3}
    Transactions <- ReplayTransactions
    MaxActive = 2
    NoTransaction = NoTransaction
    MaxGap = 26
    Traces <- AllTraces
INVARIANTS
    LatencyIsPartitioned
    StatsAgree
PROPERTIES
    ReplayIsClient
    ReplayCompletes
