CONSTANTS
    near = near
    far = far
    lan = lan
    IPs <- MCIPs
    LocalIPs <- MCLocal
    Times <- MCTimes
    Filters <- MCFilters
    NoGeo = NoGeo
    MaxRows = 3
    BatchSize = 2
    PageSize = 1
SPECIFICATION MCSpec
INVARIANTS TypeOK LookedUpOnce OffEndsWithBatch MissedArePassedOver
PROPERTIES EveryAddressResolved
