\* One part at a time; the bounds on time and counters end behaviours.
SPECIFICATION Spec
CONSTANTS
    Parts = {"guard", "rotation", "ends", "team", "totp", "recovery", "page",
             "channels"}
    t1 = t1
    t2 = t2
    r1 = r1
    r2 = r2
    anna = anna
    ben = ben
    Tasks = {t1, t2}
    Processes = {r1, r2}
    Others = {anna, ben}
    Grants = {"ADMIN"}
    SeatLimit = 3
    MaxInvites = 2
    MaxRows = 2
    Keepers = {"r1"}
    CodeCount = 1
    Window = 3
    MaxSecrets = 1
    MaxSets = 2
    MaxTime = 3
    Requests = {1, 2}
    Orgs = {1, 2}
    Home = 1
    MaxTokens = 4
    MaxExpiries = 2
    Browsers = {"mine"}
    Providers = {"meta", "x"}
    Direct = {"telegram"}
    Limit = 1
    MaxFlows = 2
    MaxChannels = 3
    MaxChanges = 1
SYMMETRY Alike
INVARIANTS
    AdmissionIsFresh MovedOnlyWhenRemoved
    MembersWereInvited OneTabStaysSignedIn
    EachCodeWorksOnce StateWorksOnce
PROPERTY DeadFamilyStaysDead
CHECK_DEADLOCK FALSE
