SPECIFICATION FairSpec
CONSTANTS
    q1 = q1
    q2 = q2
    p1 = p1
    p2 = p2
    g = g
    NoRequest = NoRequest
    Requests <- TwoProbesTwoQueries
    Kind <- KindByName
    FromHandler <- TheHandler
    Patient <- TheQuery
INVARIANTS
    AnswersSound
    AnswerWakesCaller
    AnsweredInTime
PROPERTIES
    AnsweredReturns
