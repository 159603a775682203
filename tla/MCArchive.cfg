CONSTANTS
    c1 = c1
    c2 = c2
    t1 = t1
    m1 = m1
    m2 = m2
    Procs = {p1, p2}
    Nobody = Nobody
    Orphan = Orphan
    TTL = 3
    Every = 1
    MaxHang = 1
    MaxLag = 0
    MaxFaults = 1
    Tenants = {t1}
    Convs = {c1}
    NoConv = NoConv
    TenantOf <- OneTenant
    Msgs = {m1}
    ConvOf <- OneConv
    NoTomb = NoTomb
    Limit = 1
    MaxErrors = 1
SPECIFICATION FairSpec
INVARIANTS NothingLost ArchiveInv
PROPERTY EventuallyArchived
