CONSTANTS
    c1 = c1
    c2 = c2
    s1 = s1
    s2 = s2
    Conns = {c1, c2}
    Workers = {w1}
    Subs = {s1}
    Requests <- EventRequests
    NoRequest = NoRequest
    Subscribed = {}
    QueueLimit = 1
    KeepAlives = {TRUE}
    Impatient = {}
    MaxSends = 2
    MaxEvents = 3
SPECIFICATION Spec
SYMMETRY Symmetry
CHECK_DEADLOCK FALSE
INVARIANTS TypeOK OnceInOrder InOneAnswer
