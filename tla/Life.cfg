CONSTANTS
    Nobody = Nobody
    Launchers = {l1, l2}
    Servers = {p1, p2}
    Faults = {}
SPECIFICATION MCSpec
PROPERTIES
    ServedAndEnded
CHECK_DEADLOCK FALSE
