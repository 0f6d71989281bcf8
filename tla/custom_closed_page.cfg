SPECIFICATION Spec
CONSTANTS
    Standard = "custom"
    Timing <- CompactTiming
    None = None
    PseudoChannels = 1
    BankGroups = 1
    BanksPerGroup = 2
    SchedulerKind = "FrFcfs"
    RowPolicy = "Closed"
    RefreshPolicy = "AllBank"
    HighWatermark = 2
    LowWatermark = 0
    ReadCapacity = 1
    WriteCapacity = 1
    MergeReads = TRUE
    RefreshInterval = 0
    RfmThreshold = 0
    BurstTime = 1
    KeepRecords = FALSE
    MaxIdle = 10
    Channels = {0}
    Ids = {1, 2}
    Transactions <- ConflictingTransactions
    MaxActive = 2
    NoTransaction = NoTransaction
    MaxGap = 1
PROPERTIES
    DrainsWhenQuiet
CHECK_DEADLOCK FALSE
