\* Fair behaviours of two requests over trips, a recovery and a repair of the destination.
CONSTANTS
    FailureThreshold = 2
    SuccessThreshold = 2
    OpenTimeout = 2
    Destinations = {1, 2}
    Requests = {r1, r2}
    MaxFaults = 4
    r1 = r1
    r2 = r2
SPECIFICATION FairSpec
PROPERTIES OpensAtThreshold Recovers RefinesEras
