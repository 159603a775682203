CONSTANTS
    d1 = d1
    u1 = u1
    u2 = u2
    Rows = {r1}
    NoRow = NoRow
    Workers = {w1, w2}
    Tokens = {1, 2, 3, 4}
    NoToken = 0
    ClaimTTL = 3
    RenewAfter = 1
    Backoff <- Backoff2
    MaxGap = 1
    MaxSkew = 0
    MaxFaults = 1
    Creds = {c1, c2}
    NoCred = NoCred
    Devices = {d1, d2}
    Users = {u1, u2}
    Owner <- OwnerTwo
SPECIFICATION PushSpec
INVARIANTS DeliveredMeansReached PushInv
SYMMETRY CredsAlike
