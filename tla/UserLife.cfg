SPECIFICATION Spec
CONSTANTS
    t1 = t1
    t2 = t2
    n1 = n1
    n2 = n2
    NoTime = NoTime
    NoNet = NoNet
    Threads = {t1, t2}
    Nets = {n1, n2}
    Days = {0, 1}
    MaxDays = 2
    MaxTime = 2
    MaxDevices = 1
    Window = 1
    Grace = 1
    Retention = 1
INVARIANTS GrantedDaysAlone NoFreeDays
PROPERTIES PauseIsFair NewDeviceHasSlot ActivatedOnce
CONSTRAINT OverlapDays
SYMMETRY Symmetric
CHECK_DEADLOCK FALSE
