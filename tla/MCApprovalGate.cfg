\* One request, three approvers in two concurrent calls, a quorum that changes,
\* and a call cut short, under the fairness of time and of the maintenance job.
SPECIFICATION FairGateSpec
CONSTANTS
    Requests = {r1}
    Approvers = {u1, u2, u3}
    Calls = {c1, c2}
    NoRequest = NoRequest
    Nobody = Nobody
    MaxMin = 2
    MaxCrashes = 1
INVARIANTS
    QuorumBehindExecution
    ClosedForReason
PROPERTIES
    EveryRequestCloses
