SPECIFICATION FairSpec
CONSTANTS
    Deliveries = {1, 2}
    Leases = {1}
    MaxAttempts = 2
    RetryBase = 1
    RetryMax = 2
    MaxClaims = 2
INVARIANTS
    ClaimsAreConsistent
PROPERTIES
    ClaimsAreLeases
    EveryDeliverySettles
CHECK_DEADLOCK FALSE
