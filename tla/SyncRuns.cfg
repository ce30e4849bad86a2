CONSTANTS
    p1 = p1
    p2 = p2
    p3 = p3
    NoPid = NoPid
    Pids = {p1, p2, p3}
    Scheduled = TRUE
    TokenSet = TRUE
    LongLines = TRUE
    ByHand = TRUE
SPECIFICATION LiveSpec
INVARIANTS TypeOK WorkIsReported StatusConsistent
PROPERTIES EveryRunEnds SchedulerKeepsGoing
