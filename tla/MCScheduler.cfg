SPECIFICATION FairSpec
CONSTANTS
    w1 = w1
    w2 = w2
    w3 = w3
    NoWorker = NoWorker
    Workers = {w1, w2}
    Plans <- AllPlans
    MaxTaken = 4
    Horizon = 7
INVARIANTS TypeOK NumbersKept InTime RateRespected CountReached StopHolds
PROPERTY WorkersEnd
