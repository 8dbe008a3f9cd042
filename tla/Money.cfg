\* One part at a time; the bounds on time and counters end behaviours.
SPECIFICATION Spec
CONSTANTS
    Parts = {"payments", "limits", "lock", "letters", "deliveries", "repeats", "billing"}
    t1 = t1
    t2 = t2
    p1 = p1
    Tasks = {t1, t2}
    Processes = {p1}
    Refs = {"r1", "r2"}
    Kind <- CardAndMonth
    Exempt = FALSE
    PayTime = 4
    Codes = {"PRO", "VIP"}
    Entry = "PRO"
    Limit <- OneAndTwo
    Tokens <- OneAndTwo
    Batch = 2
    Cost = 1
    MaxSpend = 4
    Servers = {"s1", "s2", "s3"}
    LockTtl = 2
    MaxRuns = 5
    LockTime = 5
    Letters = {"l1", "l2", "l3"}
    Templates = {"reset"}
    Addresses = {"o1"}
    MaxHour = 2
    Events = {"post", "again", "forged", "huge", "anonymous"}
    Named = {"post", "again", "forged", "huge"}
    Signed = {"post", "again", "huge", "anonymous"}
    Big = {"huge"}
    MaxRows = 2
SYMMETRY Alike
INVARIANTS
    EachDeliveryCountsOnce
    PostsOvershootIsBounded
    KeepsItsLock
    LettersArriveAsTold
    PaidTimeStands
CHECK_DEADLOCK FALSE
