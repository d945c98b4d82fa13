SPECIFICATION Spec
CONSTANTS
    t1 = t1
    t2 = t2
    n1 = n1
    n2 = n2
    NoTime = NoTime
    NoNet = NoNet
    Threads = {t1}
    Nets = {n1}
    Days = {1, 2}
    MaxDays = 3
    MaxTime = 4
    MaxDevices = 1
    Window = 1
    Grace = 0
    Retention = 2
PROPERTIES RenewalPays
CHECK_DEADLOCK FALSE
