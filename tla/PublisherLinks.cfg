CONSTANTS
    p1 = p1
    NoPublisher = NoPublisher
    Publisher = {p1}
    MaxUpdates = 3
    MaxFaults = 3
SPECIFICATION Spec
INVARIANTS OnePerPublisher
PROPERTIES ServedInTheEnd ShutdownClosesAll
CHECK_DEADLOCK FALSE
