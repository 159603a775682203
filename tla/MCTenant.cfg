CONSTANTS
    o1 = o1
    a1 = a1
    vis = vis
    f1 = f1
    m1 = m1
    m2 = m2
    pa = pa
    pb = pb
    Queues = {"support", "it"}
    Projects = {"app"}
    Locales = {"en", "de"}
    Crew = {o1, a1}
    Grant <- GrantTenant
    Visitor = vis
    TeamSeeds <- SeedsTeam
    Calls = {i, j}
    MaxCalls = 3
    Staff = {f1, f2}
    Service = svc
    Subs = {s1}
    NoSub = none
    Exchanges = {i, j}
    Writers = {x, y}
    EmbedTTL = 1
    TokenTTL = 1
    MaxClock = 2
    MaxSignIns = 3
    Project = "app"
    Catalogs <- CatalogsTenant
    Keys = {"k"}
    Words = {x, y}
    Editors <- EditorsTenant
    Edits = {i, j}
    MaxEdits = 3
    Tabs = {t1}
    Pulls = {i, j}
    DevicePrefs <- PrefsTenant
    MaxPulls = 2
    Mails = {m1, m2}
    Letter <- LetterTenant
    Attempts = {i, j}
    ClaimStale = 0
    MaxMailClock = 1
    MaxDeliveries = 3
    RowSeeds <- SeedsRows
    KindOf <- KindsTenant
    Filters = {"any", "plain"}
    RawLimits = {0, 2, 5}
    LimitMax = 2
    Pinned = 2
    MaxRowId = 4
    MaxRowClock = 2
    MaxChanges = 2
    Profiles = {pa, pb}
    NameIn <- NamesTenant
    NoProfile = noprofile
    Langs = {"de"}
    Puts = {i, j}
    MaxPuts = 3
    Labels = {x, y}
    StepStates = {"running", "needs_approval"}
    Slots = {i, j}
    Turns = {i, j}
    Approvers = {i, j}
    Minters = {i, j}
    MaxApproved = 1
    MaxAssertions = 1
    MaxTime = 3
    MaxMade = 3
SPECIFICATION TenantSpec
INVARIANTS
    TeamInv SocketFollowsRoles ShownIsReadable VouchedByCurrent NeverOutlives
    PublishedIsLive MailInv WalkSeesAll ContactWhole ApprovalCovers
    ShowsTheRelease
SYMMETRY Symmetry
CHECK_DEADLOCK FALSE
