SPECIFICATION FairSpec
CONSTANTS
    Keys <- MCKeys
    EventIds <- MCEventIds
    Hashes <- MCHashes
    Records <- MCRecords
    Batches <- MCDeliveries
    MaxCrashes = 1
CHECK_DEADLOCK FALSE
INVARIANTS
    TypeOK
    ContiguousLog
    CommittedIsApplied
    PoisonBarrier
PROPERTIES
    RedeliveryIsNoOp
    ImplementsExactlyOnceLog
    IsolatedProgress
