CONSTANTS
    c1 = c1
    c2 = c2
    s1 = s1
    s2 = s2
    Conns = {c1}
    Workers = {w1}
    Subs = {s1, s2}
    Requests <- LiveRequests
    NoRequest = NoRequest
    Subscribed = {s1}
    QueueLimit = 1
    KeepAlives = {TRUE, FALSE}
    Impatient = {c1}
    MaxSends = 1
    MaxEvents = 1
SPECIFICATION FairSpec
CHECK_DEADLOCK FALSE
INVARIANT Unblocked
PROPERTIES ImplementsGateway BatchStopsAtTimeout WakeupReturns EventEndsPoll TimeoutAnswers ShutdownEnds
