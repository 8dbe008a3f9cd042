\* One part at a time; the bounds on time and counters end behaviours.
SPECIFICATION Spec
CONSTANT
    Parts = {"backoff", "limits", "books", "page", "engine", "arrival", "tokens"}
PROPERTIES
    NobodyIsShutOut ChannelsStayAlive
    EveryPaymentIsSeen RecoversOnItsOwn
CHECK_DEADLOCK FALSE
