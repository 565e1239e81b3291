SPECIFICATION PublicSpec
CONSTANTS
    u1 = u1  a1 = a1  a2 = a2  c1 = c1
    Searches = {u1, a1, a2}
    Users = {u1}
    Limit <- SmallLimits
    MinuteLimit = 1
    QueueSize = 1
    MaxDay = 2
    MaxMinutes = 2
    Requests <- SomeRequests
    Queries <- SomeQueries
    Histories <- SomeHistories
    FusedScores = {1, 2}
    PaperCandidates = 3
    CoarseTopK = 3
    RefineTopK = 3
    RrfK = 1
    Beta = 3
    NoAnswer = NoAnswer
INVARIANTS QuotaIsKept UsageIsTruthful AnswersAreSound
CHECK_DEADLOCK FALSE
