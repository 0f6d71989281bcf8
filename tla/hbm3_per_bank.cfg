SPECIFICATION Spec
CONSTANTS
    Standard = "hbm3"
    Timing <- FastTiming
    None = None
    PseudoChannels = 2
    BankGroups = 1
    BanksPerGroup = 1
    SchedulerKind = "FrFcfs"
    RowPolicy = "Open"
    RefreshPolicy = "PerBank"
    HighWatermark = 2
    LowWatermark = 0
    ReadCapacity = 1
    WriteCapacity = 1
    MergeReads = TRUE
    RefreshInterval = 8
    RfmThreshold = 0
    BurstTime = 1
    KeepRecords = FALSE
    MaxIdle = 10
    Channels = {0}
    Ids = {1, 2}
    Transactions <- ConflictingTransactions
    MaxActive = 2
    NoTransaction = NoTransaction
    MaxGap = 10
INVARIANTS
    TimingIsLegal
    HistoryIsOrdered
PROPERTIES
    NoRefreshIsLost
CHECK_DEADLOCK FALSE
