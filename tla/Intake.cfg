CONSTANTS
    s1 = s1  s2 = s2  a = a  b = b  r = r
    Sessions = {s1, s2}
    Subs = {a, b}
    Streams = {r}
    Owner <- TwoOwners
    Rooms <- TwoRooms
    Movers = {a}
    MaxPub = 2
    MaxFaults = 2
    Faults = {"crash", "drop", "refused", "ack_lost", "ack_failed", "append", "skip"}
SPECIFICATION MCSpec
INVARIANTS
    AcksAreSafe
    StoredInOrder
PROPERTIES
    IntakeProgresses
CHECK_DEADLOCK FALSE
