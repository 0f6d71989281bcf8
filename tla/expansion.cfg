SPECIFICATION Spec
CONSTANTS
    MaxWord <- LastWord
    Overflow = Overflow
    Devices <- AllDevices
INVARIANTS
    TypeOK
    BytesAreTiled
    AccessStaysInOneRow
    AccessIsBounded
    LocationsAreDistinct
    TransferTimeIsExact
PROPERTIES
    ExpansionEnds
CHECK_DEADLOCK FALSE
