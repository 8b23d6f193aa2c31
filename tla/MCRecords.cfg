SPECIFICATION ServicesSpec
CONSTANTS
    Rows = {1, 2, 3}
    Uppers = {9}
    Keys = {1, 2}
    Numbers = {1, 2, 3, 4}
    Callers = {a, b}
    MaxCalls = 4
    Tickets = {1, 2, 3, 4}
    Requests = {p, q}
    TICKET_NUMBER_MAX_ATTEMPTS = 2
    MaxSupportCalls = 5
    a = a
    b = b
    p = p
    q = q
SYMMETRY Alike
INVARIANTS
    NothingOfferedFails
    KeysApart
    ChildrenKeepParents
    DefaultStandsAlone
    DatesFollowStatus
    RefusedByOthers
PROPERTIES ImplementsNumbering DoneUntilReopened
CHECK_DEADLOCK FALSE
