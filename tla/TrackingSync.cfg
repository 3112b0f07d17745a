SPECIFICATION FairSpec
CONSTANTS
    Subs = {s1}
    Workers = {w1, w2}
    NoJob = NoJob
    Free = Free
    Lingering = Lingering
    Requests = {"sync", "refresh", "answer"}
    MaxQueued = 1
    MaxFailures = 1
    MaxCrashes = 1
INVARIANTS
    OneLockedRun
    SyncingMeansRunning
    CompletedIsUnscheduled
PROPERTIES
    CrashedSyncRecovers
    DueIsSynced
    DeliveredCompletes
