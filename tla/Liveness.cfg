\* One post alone with failures, or two posts of one workspace whose images may never
\* come, on a clock without end.
SPECIFICATION LiveSpec
CONSTANTS
    o1 = o1
    c1 = c1
    c2 = c2
    k1 = k1
    p1 = p1
    p2 = p2
    w1 = w1
    w2 = w2
    Posts = {p1, p2}
    Workers = {w1}
    NoPost = NoPost
    Orgs <- OneOrg
    Contents <- TwoContents
    Channels <- OneChannel
    OrgOf <- SameOrg
    ContentOf <- OwnContent
    ChannelOf <- SameChannel
    PhotoChannels = {}
    MaxAttempts = 2
    RetryDelay = 1
    LockTimeout = 1
    StuckAfter = 2
    HardLimit = 1
    ImageWait = 2
    DispatchBatch = 2
    PerOrgPerTick = 1
    CallTries = 2
    DueTimes = {0, 1}
    InitialContent = {"SCHEDULED"}
    InitialMedia = {"coming", "ready"}
    MaxTime = 3
    MaxUpsets = 2
    Ops = {}
    PlanPosts = {}
PROPERTIES NeverStaysClaimed EventuallySettles
