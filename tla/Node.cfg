CONSTANTS
    a = a
    x = x
    y = y
    root = root
    t1 = t1
    t2 = t2
    Thread = {t1, t2}
    Leaf = {x, y}
    Namespace = {a, root}
    Root <- root
    Bounds <- AllBounds
    Under <- UnderA
    Value = {1, 2}
    NoValue = 0
    Nobody = Nobody
SPECIFICATION Spec
INVARIANTS CacheFollowsServer RunsWhileWanted
PROPERTIES CallsEnd
CHECK_DEADLOCK FALSE
