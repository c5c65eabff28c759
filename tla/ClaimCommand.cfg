SPECIFICATION FairSpec
CONSTANTS
    s1 = s1 s2 = s2 c1 = c1 c2 = c2 c3 = c3 u1 = u1
    None = None
    Sessions = {s1}
    Runs = {c1, c2, u1}
    Commands = {c1, c2}
    Addressed = {c1, c2}
    SessionOf <- OneSession
    MaxFaults = 0
    MaxHands = 0
PROPERTIES CommandEnds
CHECK_DEADLOCK FALSE
