\* Two rows of whatever kind, two servers that may take both, and two things cut short.
SPECIFICATION Spec
CONSTANTS
    NumRows = 2
    Servers = {s1, s2}
    Calls = {c1}
    Batch = 2
    MaxCrashes = 2
INVARIANT CompletedIsStored
PROPERTY QueueDrains
CHECK_DEADLOCK FALSE
