SPECIFICATION ServerFairSpec
CONSTANTS
    c1 = c1
    s1 = s1
    r1 = r1
    r2 = r2
    Nobody = Nobody
    Calls <- OneCall
    Statuses <- OneStatus
    Results <- TwoResults
    Of <- OfTheFirst
INVARIANTS
    OutcomeSound
    HandlesSound
PROPERTIES
    ServerAnswers
