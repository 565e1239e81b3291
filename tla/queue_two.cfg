SPECIFICATION Spec
CONSTANTS
    s1 = s1  s2 = s2  u1 = u1  l1 = l1  w1 = w1  w2 = w2  d1 = d1  h1 = h1  h2 = h2
    Surveys = {s1, s2}
    Users = {u1}
    Ledgers = {l1}
    UserOf <- OneUser
    LedgerOf <- OneLedger
    Workers = {w1, w2}
    DraftWorkers = {d1}
    NoWorker = NoWorker
    DailyLimit = 1
    GlobalConcurrency = 1
    PerUserConcurrency = 1
    DraftGlobalConcurrency = 1
    DraftPerUserConcurrency = 1
    MaxRevision = 1
    Hosts = {h1}
    HostOf <- OneHost
    DurableHosts = {h1}
    NoSurveyId = NoSurveyId
    NotifyChoices = {FALSE}
    Reports = {"clean", "contract"}
INVARIANTS LedgerBalanced DailyLimitHolds ChargedMeansDelivered
CHECK_DEADLOCK FALSE
SYMMETRY Alike
