\* A payload that never asks whether the caller is gone.
SPECIFICATION MCSpec
CONSTANTS
    MaxUpstreamAttempts = 2
    MaxCandidateProbes = 2
    MaxCandidates = 2
    MaxKeys = 1
    ArrivalAdmissions = 1
    PricedAdmissions = 1
    Statuses = {200, 500}
    Batches <- MCBatches
    Payloads = {"translated"}
    MaxInt = 1000
    MaxSaid = 0
    Plain <- MCPlain
    Costly <- MCCostly
CHECK_DEADLOCK FALSE
INVARIANTS
    CallersAreNotBlamed
