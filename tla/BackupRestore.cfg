SPECIFICATION FairSpec
CONSTANTS
    w1 = w1
    w2 = w2
    Workers = {w1, w2}
    Users = {1, 2}
    Secrets = {"t"}
    Blank = Blank
    Paths = {"storage", ".env"}
    Code = {".env"}
    Versions = {1, 2}
    Installed <- MCInstalled
    Absent = Absent
    Brought <- MCBrought
    MaxKeep = 1
    telegram_enabled = TRUE
    Retries = 1
    MaxRequests = 2
    MaxFaults = 1
    MaxEdits = 1
INVARIANTS AllOrNothing BeforeIsSaved
PROPERTIES DeliverySettles
CHECK_DEADLOCK FALSE
