SPECIFICATION ComputeSpec
CONSTANTS
    s1 = s1  s2 = s2  u1 = u1  l1 = l1
    Surveys = {s1, s2}
    Users = {u1}
    Ledgers = {l1}
    UserOf <- OneUser
    LedgerOf <- OneLedger
    Workers = {1, 2}
    DraftWorkers = {}
    NoWorker = 0
    DailyLimit = 2
    GlobalConcurrency = 1
    PerUserConcurrency = 1
    DraftGlobalConcurrency = 1
    DraftPerUserConcurrency = 1
    MaxRevision = 1
    Hosts = {1, 2}
    HostOf <- OwnDisk
    DurableHosts = {}
    NoSurveyId = NoSurveyId
    NotifyChoices = {FALSE}
    Reports = {"clean"}
    MaxComputeAttempts = 1
    ExtraArchiveAttempts = 1
INVARIANT TasksWithinLimits
CHECK_DEADLOCK FALSE
