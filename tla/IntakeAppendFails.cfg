CONSTANTS
    s1 = s1  s2 = s2  a = a  b = b  r = r
    Sessions = {s1, s2}
    Subs = {a, b}
    Streams = {r}
    Owner <- TwoOwners
    Rooms <- TwoRooms
    Movers = {}
    MaxPub = 2
    MaxFaults = 1
    Faults = {"append"}
SPECIFICATION MCSpec
INVARIANT AckMeansStored
CHECK_DEADLOCK FALSE
