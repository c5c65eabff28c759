SPECIFICATION Spec
CONSTANTS
    Rooms = {r1}
    Home = r1
    Titles = {t1}
    None = None
    MaxVersion = 2
    MaxLives = 1
    MaxTries = 2
    MaxHands = 2
    MaxFaults = 0
INVARIANT FilesForgotten
CHECK_DEADLOCK FALSE
