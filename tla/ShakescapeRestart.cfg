SPECIFICATION SyncingSpec
CONSTANTS
    Offers = {o1}
    Clients = {c1}
    Capacity = 2
    MaxRetry = 2
    Backoff = 1
    Lifetime = 1
    None = None
    MaxTime = 1
    Foreign = {f1}
    Workers = {t1, t2}
    Setups <- RelayOnly
    o1 = o1
    f1 = f1
    t1 = t1
    t2 = t2
    BoardCapacity = 1
    PageLimit = 2
    Skew = 1
    Interrupts = FALSE
    MaxInstance = 2
    MaxLog = 3
PROPERTY RelayRestartRecovered
CHECK_DEADLOCK FALSE
