SPECIFICATION Spec
CONSTANTS
    Standard = "hbm2"
    Timing <- FastTiming
    None = None
    PseudoChannels = 1
    BankGroups = 1
    BanksPerGroup = 1
    SchedulerKind = "FrFcfs"
    RowPolicy = "Open"
    RefreshPolicy = "AllBank"
    HighWatermark = 2
    LowWatermark = 0
    ReadCapacity = 1
    WriteCapacity = 1
    MergeReads = TRUE
    RefreshInterval = 0
    RfmThreshold = 0
    BurstTime = 2
    KeepRecords = FALSE
    MaxIdle = 0
    Channels = {0, 1}
    Ids = {1, 2, 3}
    Transactions <- SpanningTransactions
    MaxActive = 2
    NoTransaction = NoTransaction
    MaxGap = 1
INVARIANTS
    TypeOK
    AccessesAreConserved
    NoAdmissibleAccessLeft
    CapacitiesHold
PROPERTIES
    KeepsProtocol
    BackpressureIsHinted
    DrainsWhenQuiet
CHECK_DEADLOCK FALSE
