SPECIFICATION Spec
CONSTANTS
    NItems = 2
    Edits = {e1}
    Loops = {l1, l2}
    MaxFaults = 1
INVARIANTS
    TypeOK
    SourceFirst
    BindingAgrees
    ToldTrue
PROPERTIES
    LostOnlyInSave
    RejectRetried
    PatchedSettles
CHECK_DEADLOCK FALSE
