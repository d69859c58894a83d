\* Three attempts, two probes, five candidates of two keys; answers of up to five
\* utterances, between any two protocols.
SPECIFICATION MCSpec
CONSTANTS
    MaxUpstreamAttempts = 3
    MaxCandidateProbes = 2
    MaxCandidates = 5
    MaxKeys = 2
    ArrivalAdmissions = 1
    PricedAdmissions = 1
    Statuses = {200, 400, 401, 404, 429, 500}
    Batches <- MCBatches
    Payloads = {"passthrough", "translated", "stream", "translated_stream", "image",
                "kling", "image_stream", "audio", "careless"}
    MaxInt = 1000
    MaxSaid = 5
    Plain <- MCPlain
    Costly <- MCCostly
CHECK_DEADLOCK FALSE
INVARIANTS
    CallerWireIsWellFormed
    CallerHearsTheUpstream
    AnswersAgree
    WalkIsBounded
    AnswerIsOfItsFacts
    BlameIsFair
    EndsOnce
