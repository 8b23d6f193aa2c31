SPECIFICATION Spec
CONSTANTS
    Callers = {a, b}
    MaxCalls = 4
    MaxTime = 3
    Numbers = {1}
    Target <- OneMinuteEach
    Approvers = {u, v}
    MaxMin = 2
    a = a
    b = b
    u = u
    v = v
SYMMETRY Alike
INVARIANTS
    ApprovedByEnough
PROPERTIES
    FirstTimesKept
    ClocksTurnInOrder
CHECK_DEADLOCK FALSE
