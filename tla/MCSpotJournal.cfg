SPECIFICATION Spec
CONSTANTS
    MaxRecords = 4
    None = None
INVARIANTS
    TypeOK
    StoreIsChained
    WriteAhead
    RestoreDescends
PROPERTIES
    NeverRewinds
    FailedIsFrozen
