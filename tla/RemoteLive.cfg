SPECIFICATION FairSpec
CONSTANTS
    s1 = s1 s2 = s2 c1 = c1 c2 = c2 c3 = c3 u1 = u1
    None = None
    Sessions = {s1}
    Runs = {c1, c2, u1}
    Commands = {c1, c2}
    Addressed = {c1, c2}
    SessionOf <- OneSession
    MaxFaults = 1
    MaxHands = 1
PROPERTIES EndsOrLost RunsEnd Serves
CHECK_DEADLOCK FALSE
