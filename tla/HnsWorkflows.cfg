SPECIFICATION Spec
CONSTANTS
    s1 = s1
    s2 = s2
    x1 = x1
    f1 = f1
    u1 = u1
    p1 = p1
    k1 = k1
    t1 = t1
    t2 = t2
    Coins = {c1}
    Names = {n1}
    Sends = {s1, s2}
    Transfers = {x1}
    Finalizes = {f1}
    Updates = {u1}
    Locks = {p1, k1}
    Packages = {p1}
    Setups <- AllSetups
    Threads = {t1, t2}
    None = None
    Foreign = Foreign
    Lifetime = 1
    Grace = 1
    MaxTime = 1
INVARIANTS TypeOK NameRowsKept LockRowsKept PublicIsJournaled
