CONSTANTS
    t1 = t1
    t2 = t2
    p1 = p1
    p2 = p2
    s1 = s1
    s2 = s2
    A = A
    X = X
    Y = Y
    AnyMd5sum = AnyMd5sum
    Thread = {t1, t2}
    Publisher = {p1, p2}
    Subscriber = {s1, s2}
    topic <- OneTopic
    Typing <- Types
    Overlap <- Harmless
    Caller = {1, 2}
    Client = {1, 2}
    Conn = {1, 2, 3}
    Room = 2
    RpcBounds <- MCBounds
SPECIFICATION MCSpec
INVARIANTS TablesAgree AnsweredOnce
PROPERTIES CallsReturn ExecuteReturns
CHECK_DEADLOCK FALSE
