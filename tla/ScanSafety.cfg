SPECIFICATION Spec
CONSTANTS
    d1 = d1
    d2 = d2
    h1 = h1
    m1 = m1
    m2 = m2
    c1 = c1
    c2 = c2
    r1 = r1
    Workers = {w1, w2}
    Tasks = {h1, m1, r1}
    NoWorker = NoWorker
    NoTask = NoTask
    KindOf <- MCKindOf
    EarlyFaults = FALSE
    AtExitWindow = TRUE
    MaxDeaths = 1
PROPERTY
    ImplementsSingleScan
SYMMETRY SymWorkers
CHECK_DEADLOCK FALSE
