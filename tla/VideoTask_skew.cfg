\* One create call and one poll, with room in the budget for one task.
SPECIFICATION Spec
CONSTANTS
    Tasks = {t1, t2}
    Submits = {s1}
    Gets = {g1}
    Lengths = {1}
    Units = {1}
    Usages = {1}
    Limit = 1
    Interval = 1
    Horizon = 0
    SweepLimit = 1
    MaxVersion = 1
    MaxTime = 2
INVARIANTS
    BudgetBounds
