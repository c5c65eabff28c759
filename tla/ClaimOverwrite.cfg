SPECIFICATION Spec
CONSTANTS
    NItems = 1
    Edits = {e1}
    Loops = {l1}
    MaxFaults = 0
PROPERTY NoOverwrite
CHECK_DEADLOCK FALSE
