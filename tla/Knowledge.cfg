\* One document, two Rooms and two titles; the user acts twice, two things fail.
SPECIFICATION Spec
CONSTANTS
    Rooms = {r1, r2}
    Home = r1
    Titles = {t1, t2}
    None = None
    MaxVersion = 2
    MaxLives = 2
    MaxTries = 2
    MaxHands = 2
    MaxFaults = 2
INVARIANTS
    TypeOK
    CleanupIsFinal
PROPERTIES
    QueueEmpties
    IndexedInTheEnd
CHECK_DEADLOCK FALSE
