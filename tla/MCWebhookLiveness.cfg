\* Two rows, a publisher that may stop at any point, a sweep of one row at a time.
SPECIFICATION FairSpec
CONSTANTS
    Webhooks = {w1}
    Events = {e1}
    Sweepers = {s1}
    Admins = {}
    NoWebhook = NoWebhook
    MaxDeliveries = 2
    MaxAttempts = 2
    BatchLimit = 1
    MaxRetries = 0
    MaxAborts = 0
PROPERTIES
    EventuallySettledForGood
