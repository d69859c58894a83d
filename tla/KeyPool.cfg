\* Two attempts and two overlapping tests of a key replaced once; benches of one tick and of two.
CONSTANTS
    Attempts = {a1, a2}
    Tests = {t1, t2}
    Windows = {1}
    MaxTime = 2
    MaxConfig = 2
    MaxGeneration = 3
    a1 = a1
    a2 = a2
    t1 = t1
    t2 = t2
SPECIFICATION Spec
SYMMETRY Symmetry
CHECK_DEADLOCK FALSE
INVARIANTS BenchesAreHonest
PROPERTIES BenchIsNotCutShort VerdictsAreCurrent
