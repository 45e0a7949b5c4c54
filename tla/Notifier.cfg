SPECIFICATION Spec
CONSTANTS
    r1 = r1
    r2 = r2
    main = main
    a = a
    b = b
    Clients <- MCClients
    Closers <- MCClosers
    Channels <- MCChannels
    MaxInbox = 1
INVARIANTS
    TypeOK
    RefCountsAgree
    SubscribersAreHeard
    NoWakeupLost
PROPERTIES
    OwedAreWoken
    CallsEnd
CHECK_DEADLOCK FALSE
