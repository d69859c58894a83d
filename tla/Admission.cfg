\* Three caller keys on two models that share their providers, with room for two, one
\* request at a time or two on one model, where a mapping is made again;
\* three requests on a key with edited limits, over a minute's end; three keys of a
\* provider, six walks, benches of one and two ticks; two requests of two clients, one of
\* them mapped at a time, over three windows before a login; two clicks and one command
\* that update the binary over three releases and three replacements.
CONSTANTS
    p1 = p1
    p2 = p2
    m1 = m1
    m2 = m2
    k1 = k1
    k2 = k2
    k3 = k3
    q1 = q1
    q2 = q2
    CallerKeys = {k1, k2, k3}
    Models = {m1, m2}
    Providers = {p1, p2}
    Candidates = {1, 2, 3, 4, 5}
    ModelOf <- MCModelOf
    ProviderOf <- MCProviderOf
    Capacity = 2
    Cooldown = 1
    Requests = {q1, q2}
    MaxTime = 2
    Admissions = {k1, k2, k3}
    Limits <- MCLimits
    Usages <- MCUsages
    MaxInt = 5
    MaxMinute = 1
    PoolKeys = {1, 2, 3}
    Benches = {1, 2}
    MaxTicks = 3
    MaxWalks = 6
    Clients = {c1, c2}
    Askers = {a1, a2}
    WindowLimit = 2
    ClientLimit = 1
    WindowSpan = 3
    MaxWait = 2
    perClientMapCap = 1
    SemaphoreSlots = 1
    WindowClock = 9
    Posts = {u1, u2}
    Commands = {u3}
    MaxRelease = 3
    MaxInstalls = 3
SPECIFICATION MCSpec
VIEW MCView
SYMMETRY MCSymmetry
CHECK_DEADLOCK FALSE
INVARIANTS
    WindowsAreExact
    TurnsAreFair
    BurstsAreBounded
PROPERTIES
    BindingsAreBalanced
    RebindMovesOnlyTheDeadEnd
    UpdatesAreReversible
