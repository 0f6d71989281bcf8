SPECIFICATION LifetimeFairSpec
CONSTANTS
    MaxTime = 2
    MaxEvents = 3
    Systems = {s1, s2}
    Client = Client
INVARIANTS
    TypeOK
    MapsAgree
    NothingInThePast
    RunsInOrder
    PendingEventsAgree
    NothingCallsDestroyedSystems
PROPERTIES
    KeepsContract
    RunFunctionsReturn
