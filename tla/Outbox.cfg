\* One document through saves, the trash, deletion and re-import, with failures
\* and a crash.
SPECIFICATION Spec
CONSTANTS
    Docs = {d1}
    Contents = {c1, c2, c3}
    Empty = c3
    Nothing = Nothing
    MaxAttempts = 2
    MaxJobs = 3
    MaxCrashes = 1
INVARIANTS
    TypeOK
    InOrder
    Forgotten
    ImportedIsCurrent
PROPERTIES
    Drained
CHECK_DEADLOCK FALSE
