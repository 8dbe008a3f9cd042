\* A superseded copy fails after the newer one published.
SPECIFICATION ApiSpec
CONSTANTS
    o1 = o1
    c1 = c1
    c2 = c2
    k1 = k1
    p1 = p1
    p2 = p2
    w1 = w1
    w2 = w2
    Posts = {p1}
    Workers = {w1, w2}
    NoPost = NoPost
    Orgs <- OneOrg
    Contents <- OneContent
    Channels <- OneChannel
    OrgOf <- SameOrg
    ContentOf <- SameContent
    ChannelOf <- SameChannel
    PhotoChannels = {}
    MaxAttempts = 2
    RetryDelay = 1
    LockTimeout = 1
    StuckAfter = 2
    HardLimit = 1
    ImageWait = 2
    DispatchBatch = 2
    PerOrgPerTick = 1
    CallTries = 2
    DueTimes = {0}
    InitialContent = {"SCHEDULED"}
    InitialMedia = {"none"}
    MaxTime = 4
    MaxUpsets = 1
    Ops = {}
    PlanPosts = {}
PROPERTY RealOutcomeKept
CHECK_DEADLOCK FALSE
