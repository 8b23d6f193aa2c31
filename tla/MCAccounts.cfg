\* Two requests at once on one account, one of them possibly cut short.
SPECIFICATION Spec
CONSTANTS
    Calls = {c1, c2}
    MaxSessions = 3
    MaxCodes = 1
    MaxAborts = 1
INVARIANTS
    ClosedMeansLate
    OneSuccessor
    OneAdmission
    RotationKeepsSignedIn
SYMMETRY CallSymmetry
PROPERTIES
    OnlyStaleReopens
