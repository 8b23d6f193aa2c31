\* Three requests at once on one tenant.
SPECIFICATION TenantSpec
CONSTANTS
    Ops = {p1, p2, p3}
    NumSteps = 2
    MaxCuts = 1
SYMMETRY TenantSymmetry
INVARIANTS
    ClosingCutsOff
    CompletedIsConfigured
    ActiveIsConfigured
