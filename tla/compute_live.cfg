SPECIFICATION ComputeFairSpec
CONSTANTS
    s1 = s1  s2 = s2  u1 = u1  l1 = l1
    Surveys = {s1}
    Users = {u1}
    Ledgers = {l1}
    UserOf <- OneUser
    LedgerOf <- OneLedger
    Workers = {1, 2, 3}
    DraftWorkers = {}
    NoWorker = 0
    DailyLimit = 2
    GlobalConcurrency = 2
    PerUserConcurrency = 2
    DraftGlobalConcurrency = 1
    DraftPerUserConcurrency = 1
    MaxRevision = 1
    Hosts = {1, 2, 3}
    HostOf <- OwnDisk
    DurableHosts = {}
    NoSurveyId = NoSurveyId
    NotifyChoices = {FALSE}
    Reports = {"clean", "cancelled"}
    MaxComputeAttempts = 2
    ExtraArchiveAttempts = 1
INVARIANTS OneTaskPerJob
PROPERTIES TrackedStopIsRecorded LateStopIsHarmless StepsOfLifecycle
CHECK_DEADLOCK FALSE
