\* Two edits of a key of two models, whose models are deleted.
SPECIFICATION ApiKeysSpec
CONSTANTS
    Models = {a, b}
    Edits = {c1, c2}
    Requests = {r1}
    MaxInstant = 3
CHECK_DEADLOCK FALSE
INVARIANTS
    CustomKeysHaveModels
