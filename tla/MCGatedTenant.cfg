\* An archiving behind one approval, with credentials, and with calls cut short.
SPECIFICATION Spec
CONSTANTS
    Staff = {p1}
    Owners = {}
    Scope = "archive"
    Requests = {r1}
    Approvers = {u1}
    Calls = {c1}
    NoRequest = NoRequest
    Nobody = Nobody
    MaxMin = 1
    MaxCrashes = 1
    NumSteps = 1
    MaxCuts = 1
    Issued = {"key"}
INVARIANTS
    GateHolds
    ApprovedWasEnacted
PROPERTIES
    ImplementsGate
    ImplementsTenant
