SPECIFICATION Spec
CONSTANTS
    Standard = "hbm4"
    Timing <- CompactTiming
    None = None
    PseudoChannels = 1
    BankGroups = 4
    BanksPerGroup = 1
    SchedulerKind = "FrFcfsRowHit"
    RowPolicy = "Closed"
    RefreshPolicy = "AllBank"
    HighWatermark = 2
    LowWatermark = 0
    ReadCapacity = 2
    WriteCapacity = 2
    MergeReads = TRUE
    RefreshInterval = 8
    RfmThreshold = 2
    BurstTime = 1
    KeepRecords = FALSE
    MaxIdle = 10
    Channels = {0}
    Ids = {1, 2}
    Transactions <- MergingTransactions
    MaxActive = 2
    NoTransaction = NoTransaction
    MaxGap = 10
INVARIANTS
    TimingIsLegal
    RfmBeforeActivation
    AccessesAreConserved
PROPERTIES
    DrainsWhenQuiet
CHECK_DEADLOCK FALSE
