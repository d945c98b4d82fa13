SPECIFICATION FairSpec
CONSTANTS
    c1 = c1  c2 = c2  c3 = c3  c4 = c4  c5 = c5
    d1 = d1  d2 = d2  d3 = d3
    Cands = {c1, c2, c3, c4, c5}
    DefOf <- Outbounds
    Unsupported = Unsupported
    Udp = {c4}
    Policies <- Calls
    Procs = 2
    SizeStart = 2
    SizeMin = 1
    SizeMax = 4
INVARIANTS MeasuredOnce Flushed FullRun EarnedStop
PROPERTY Ends
CHECK_DEADLOCK FALSE
