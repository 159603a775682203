CONSTANTS
    r1 = r1
    r2 = r2
    e1 = e1
    e2 = e2
    Rows = {r1}
    NoRow = NoRow
    Workers = {w1, w2}
    Tokens = {1, 2, 3, 4}
    NoToken = 0
    ClaimTTL = 4
    RenewAfter = 2
    Backoff <- Backoff2
    MaxGap = 1
    MaxSkew = 0
    MaxFaults = 2
    Endpoints = {e1, e2}
    Subscribed <- SubscribedOne
SPECIFICATION FairStallingSpec
PROPERTY EventuallySettled
