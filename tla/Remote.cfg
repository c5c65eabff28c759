SPECIFICATION Spec
CONSTANTS
    s1 = s1 s2 = s2 c1 = c1 c2 = c2 c3 = c3 u1 = u1
    None = None
    Sessions = {s1, s2}
    Runs = {c1, c2, c3, u1}
    Commands = {c1, c2, c3}
    Addressed = {c1, c2}
    SessionOf <- TwoSessions
    MaxFaults = 1
    MaxHands = 1
SYMMETRY Twins
INVARIANTS TypeOK OneRunPerSession ExecutedOnce FinalIsTrue
CHECK_DEADLOCK FALSE
