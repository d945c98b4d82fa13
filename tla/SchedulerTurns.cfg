SPECIFICATION SchedulerSpec
CONSTANTS
    Workers = {w1, w2}
    NoWorker = NoWorker
    ScanInterval = 2
    HealthInterval = 4
    BackupInterval = 5
    MaxRun = 4
    MaxIdle = 9
    MaxDeaths = 2
INVARIANTS
    HealthWithin
    DiscoveryNextInterval
PROPERTY
    BackupSpacing
