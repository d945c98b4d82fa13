SPECIFICATION FairSpec
CONSTANTS
    Keys = {1, 2}
    Sources = {1, 2}
    Doc <- Documents
    HttpSources = {1}
    Lats <- Latencies
    Settings <- Small
    FirstSettings <- Starts
    MaxEvents = 2
INVARIANTS IdleInSync PersistedAsPublished FirstSourceWins
PROPERTIES ServingKept RefreshEnds LatestConfigApplied
CHECK_DEADLOCK FALSE
