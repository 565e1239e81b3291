SPECIFICATION Spec
CONSTANTS
    s1 = s1  s2 = s2  u1 = u1  l1 = l1  w1 = w1  w2 = w2  d1 = d1  h1 = h1  h2 = h2
    Surveys = {s1}
    Users = {u1}
    Ledgers = {l1}
    UserOf <- OneUser
    LedgerOf <- OneLedger
    Workers = {w1, w2}
    DraftWorkers = {d1}
    NoWorker = NoWorker
    DailyLimit = 1
    GlobalConcurrency = 2
    PerUserConcurrency = 1
    DraftGlobalConcurrency = 1
    DraftPerUserConcurrency = 1
    MaxRevision = 2
    Hosts = {h1, h2}
    HostOf <- OwnHost
    DurableHosts = {}
    NoSurveyId = NoSurveyId
    NotifyChoices = {TRUE, FALSE}
    Reports = {"clean", "degraded", "contract", "broken", "cancelled"}
INVARIANTS RowsAgree NotificationTruthful ExecutedOnce
PROPERTIES LiveLeaseFences ArchiveNeverOrphaned ImplementsLifecycle
CHECK_DEADLOCK FALSE
