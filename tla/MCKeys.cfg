CONSTANTS
    Procs = {p1, p2}
    Nobody = Nobody
    Orphan = Orphan
    TTL = 3
    Every = 1
    MaxHang = 1
    MaxLag = 0
    MaxFaults = 2
    WaitMax = 6
SPECIFICATION FairSpec
INVARIANTS LeaseInv OneWithinLease OverrunBounded OneKeyWithinLease BootInv
PROPERTY BootEnds
CHECK_DEADLOCK FALSE
