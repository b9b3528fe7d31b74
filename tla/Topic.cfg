CONSTANTS
    Link = {tcp, loc}
    Local = {loc}
    tcp = tcp
    loc = loc
    Thread = {t1, t2}
    t1 = t1
    t2 = t2
    MaxQueue = 1
    QueueSize = 1
    SocketRoom = 1
    MaxPublished = 3
    LocalComesLate = FALSE
SPECIFICATION MCSpec
INVARIANTS GivenAndScheduled
CHECK_DEADLOCK FALSE
PROPERTIES ImplementsChannel NewestArrives
