\* One mapping, the two workers of the queue, three requests at once and five in all, a
\* database failure, a crash or an acknowledgment lost.
CONSTANTS
    Names = {"a", "b"}
    Workers = {1, 2}
    Admins = {3, 4, 5}
    MaxRequests = 5
    MaxTroubles = 1
SPECIFICATION MCSpec
VIEW UpToStamps
CHECK_DEADLOCK FALSE
INVARIANTS DisableStands VerdictIsOfTarget QueueIsSound
