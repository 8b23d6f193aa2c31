\* One row, every kind of dispatcher racing for it, one call or publisher cut short.
SPECIFICATION Spec
CONSTANTS
    Webhooks = {w1}
    Events = {e1}
    Sweepers = {s1}
    Admins = {a1}
    NoWebhook = NoWebhook
    MaxDeliveries = 1
    MaxAttempts = 2
    BatchLimit = 1
    MaxRetries = 2
    MaxAborts = 1
INVARIANTS
    SuccessWasAccepted
    NotGivenUpEarly
    AttemptsBounded
SYMMETRY Symmetry
PROPERTIES
    ImplementsAtLeastOnce
