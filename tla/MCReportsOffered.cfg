\* A report an organization asked for comes to its turn.
SPECIFICATION Spec
CONSTANTS
    NumRows = 1
    Servers = {s1}
    Calls = {c1}
    Batch = 2
    MaxCrashes = 0
INVARIANT OfferedReportsRun
CHECK_DEADLOCK FALSE
