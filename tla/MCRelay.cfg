CONSTANTS
    r1 = r1
    r2 = r2
    e1 = e1
    e2 = e2
    Rows = {r1, r2}
    NoRow = NoRow
    Workers = {w1, w2}
    Tokens = {1, 2, 3, 4}
    NoToken = 0
    ClaimTTL = 3
    RenewAfter = 1
    Backoff <- Backoff2
    MaxGap = 1
    MaxSkew = 0
    MaxFaults = 1
    Endpoints = {e1, e2}
    Subscribed <- SubscribedTwo
SPECIFICATION Spec
INVARIANTS QueueInv OneWorkerPerRow DeliveredMeansAcknowledged RelayInv
PROPERTIES SettledIsFinal ImplementsWorkQueue
SYMMETRY WorkersAlike
