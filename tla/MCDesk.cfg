CONSTANTS
    c1 = c1
    c2 = c2
    u1 = u1
    u2 = u2
    ag = ag
    op = op
    rq = rq
    Queues = {"support", "it"}
    Projects = {}
    Locales = {}
    Convs = {c1, c2}
    Users = {u1, u2}
    Admins = {ag, op, rq}
    Key = Key
    Held <- HeldTeam
    Requeues = {"it"}
    Silent = {"it"}
    Reqs = {q1, q2}
    Seeds <- SeedsDesk
    MaxRequests = 3
    MaxFaults = 1
SPECIFICATION Spec
INVARIANTS DeskInv OneOpenRequest QueuedOnce OneClaimWins JoinNotedOnce CloseAnnounced
PROPERTY ReceiptForward
SYMMETRY Symmetry
CHECK_DEADLOCK FALSE
