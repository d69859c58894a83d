\* One task under two polls, the reaper, two moves and crashes; priced or not, with an
\* upstream that delivers less or more than was asked.
SPECIFICATION FairSpec
CONSTANTS
    Tasks = {t1}
    Submits = {s1}
    Gets = {g1, g2}
    Lengths = {2}
    Units = {0, 1}
    Usages = {1, 3}
    Limit = 2
    Interval = 1
    Horizon = 1
    SweepLimit = 1
    MaxVersion = 2
    MaxTime = 3
INVARIANTS
    SpentIsBilled
PROPERTIES
    RowsAreKept
    EveryTaskSettles
