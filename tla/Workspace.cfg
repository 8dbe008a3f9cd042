\* One part at a time; the bounds on time and counters end behaviours.
SPECIFICATION Spec
CONSTANTS
    Parts = {"backoff", "limits", "person", "sockets", "account", "composer", "another", "calendar", "pictures", "films", "fixes", "checks",
             "slots", "deaths", "plans", "kit", "profile", "products", "bots"}
    t1 = t1
    t2 = t2
    Tasks = {t1, t2}
    Processes = {"p1", "p2"}
    Passwords = {"a", "b"}
    Breached = {"breached"}
    Addresses = {"old", "new"}
    FirstAddress = "old"
    MaxWrites = 3
    MaxLinks = 1
    MaxSessions = 1
    Crashes = TRUE
    CacheTtl = 1
    Every = 2
    MaxAge = 4
    MaxVersion = 2
    MaxRevisions = 1
    Channels = {1, 2}
    TikToks = {1, 2}
    Offers <- SomeAudiences
    Reviews = {"submit", "approve", "reject"}
    MaxRuns = 2
    MaxPosts = 2
    MaxFlips = 1
    MaxEdits = 1
    Accounts = {"a1", "a2"}
    Clients = {"i1", "i2"}
    Me = "me"
    MyAccount = "a1"
    MyAddress = "i1"
    Others = {"else"}
    FreeAttempts = 1
    BaseDelay = 1
    MaxDelay = 2
    WindowLength = 3
    MaxCount = 3
    MaxFailures = 2
    StoreCuts = TRUE
    UserNames = {"n", "m"}
    Emails = {"x", "y", "z"}
    Elsewhere = {"z"}
    AccountSends = 3
    Callers = {"c1"}
    Servers = {"p1", "p2"}
    Routes = {"image", "video"}
    Tiers <- SpendTier
    TierLimit <- LimitOf
    TierTtl <- TtlOf
    Cost <- CostOf
    MaxHits = 5
    Outages = TRUE
    MaxImages = 2
    MaxAgents = 1
    MaxAssets = 2
    MaxDied = 1
    FixKinds = {"page", "file"}
    CheckKinds = {"page"}
    Website = "mine"
    Hosts = {"other"}
    MaxAudits = 1
    MaxFixes = 2
    MaxChecks = 1
    MaxMoved = 1
    MaxKilled = 1
    Timings = {"am", "pm"}
    SlotsOf <- MorningOrNoon
    ChannelSets <- OneOrOther
    Editors = {1}
    Messages = {1}
    Horizon = 2
    Grace = 1
    PerRun = 2
    LastHour = 3
    MaxReplans = 2
    MaxPlanCrashes = 1
    Platforms = {"tt"}
    PlanTimes = {1}
    Looks = {30, 45}
    FirstLook = 30
    MaxPlans = 2
    MaxSaves = 3
    Colours = {"red", "blue"}
    Files = {"f", "g"}
    Websites = {"none", "w"}
    CardSlots = {1, 2}
    MaxSends = 3
    ShopPages = {"p1", "p2"}
    ShopTexts = {"x", "nothing"}
    Makers = {1, 2}
    Repost = 1
    LastDay = 2
    MaxImports = 2
    MaxShopChanges = 1
    MaxLostWorkers = 1
    BotKinds = {"telegram", "discord"}
    OAuthButtons = {"meta"}
    MaxRequests = 3
INVARIANTS
    LimitsHold LinkSetsOnePassword NoSocketOutlivesItsRight PageKnowsItsUser
    AudienceWasChosen BookedAfterApproval
    GridShowsWhatWasReported VerifiedWasSeen
    EditReachesWhatIsBooked CardsTellWhatIsStored
PROPERTIES
    NotRepeatedTooSoon FormsReachTheirTarget
CHECK_DEADLOCK FALSE
