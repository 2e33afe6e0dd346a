CONSTANTS
    None = None
    Callers = {"r1", "r2"}
    ChainServed = {"CreateNotification", "GetNotification"}
    ChainValues = 1
    LoneCallers = {"r1"}
    LoneValues = 2
    Requests = {"r1", "r2", "r3"}
    Keys = {"k"}
    Bodies = {"b1", "b2"}
    Endpoints = {"create"}
    Guarded = {"create"}
    Old = "old"
    MaxFaults = 1
    MaxExpiries = 1
    Conns = {"c1", "c2"}
    Notifs = {"n"}
    Garbage = "garbage"
    MaxPublished = 3
    Capacity = 2
    TemplateRequests = {"r1", "r2", "r3"}
    TemplateIds = {"t1", "t2"}
    Names = {"a", "b"}
    TemplateBodies = {"greeting", "plain", "broken"}
    Malformed = {"broken"}
    Parametric = {"greeting"}
    Ids = {1, 2, 3}
    MaxTime = 1
    DefaultListLimit = 1
    MaxListLimit = 2
SPECIFICATION Spec
INVARIANTS
    TypeOK
    SameStatus
    ClientIdIsKept
    RefusedWroteNothing
    IndexesAgree
    InOrder
    AtMostOneLate
    
    ListedOnce
PROPERTIES
    Answered
    ImplementsOncePerKey
    SubscriberHears
    DeletedStaysDeleted
CHECK_DEADLOCK FALSE
