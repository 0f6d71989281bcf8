SPECIFICATION Spec
CONSTANTS
    RefreshInterval = 3
    Delays = {0, 1, 2}
    MaxOutstanding = 2
    MaxOverdue = 4
    None = None
INVARIANTS
    TypeOK
    WorkIsWoken
    RefreshIsArmed
