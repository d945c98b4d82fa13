SPECIFICATION FairSpec
CONSTANTS
    d1 = d1
    d2 = d2
    h1 = h1
    m1 = m1
    m2 = m2
    c1 = c1
    c2 = c2
    r1 = r1
    Workers = {w1, w2}
    Tasks = {d1, m1, c1}
    NoWorker = NoWorker
    NoTask = NoTask
    KindOf <- MCKindOf
    EarlyFaults = FALSE
    AtExitWindow = FALSE
    MaxDeaths = 0
INVARIANTS NoStaleCancel CancelEffective
PROPERTIES RunsEnd TestSettles
CHECK_DEADLOCK FALSE
