\* Three invocations of two agents; one key is dispatched twice.
SPECIFICATION Spec
CONSTANTS
    i1 = i1 i2 = i2 i3 = i3
    a1 = a1 a2 = a2
    k1 = k1 k2 = k2 k3 = k3 k4 = k4
    Invocations = {i1, i2, i3}
    Agents = {a1, a2}
    AgentOf <- AgentsOf
    Calls = {k1, k2, k3, k4}
    KeyOf <- KeysOf
    Detached = {k4}
    MaxConcurrent = 2
    MaxPerAgent = 1
    MaxFaults = 2
    None = None
INVARIANTS
    TypeOK
    SlotsHeld
    AnswersAgree
PROPERTIES
    CallsAnswered
CHECK_DEADLOCK FALSE
