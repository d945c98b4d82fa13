SPECIFICATION FairSpec
CONSTANTS
    a1 = a1  a2 = a2  b1 = b1  k1 = k1  k2 = k2
    Configs = {a1, a2, b1}
    NoConfig = NoConfig
    KeyOf <- MCKeyOf
    Lists <- MCLists
    Ports = {p1, p2}
    NoPort = NoPort
    Broken = {a1}
    MaxFailures = 2
    MaxKeys = 1
    MaxPushes = 3
INVARIANTS Truthful
PROPERTIES FailoverEarned
