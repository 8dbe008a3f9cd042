SPECIFICATION PersonSpec
CONSTANTS
    Tasks = {t1}
    Replicas = {r1}
    CodeCount = 2
    Window = 3
    MaxSecrets = 1
    MaxSets = 1
    MaxTime = 2
PROPERTY LostPhoneGetsIn
CHECK_DEADLOCK FALSE
