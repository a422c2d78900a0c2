SPECIFICATION RunSpec
CONSTANTS
    w1 = w1
    w2 = w2
    s1 = s1
    s2 = s2
    NoSession = NoSession
    Main = Main
    Timer = Timer
    Closers = {Main, Timer}
    Threads = {w1, w2}
    TimedThreads = {w1, w2}
    Sessions = {s1, s2}
    Max = 1
    FactoryProducts = {"open", "spent"}
    Count = 2
    Plans <- MixedPlans
SYMMETRY Symmetry
INVARIANTS RunTypeOK AttemptConservation TimingMixesOnlyUnsent NoLeaseOutlivesAttempt ReportComplete
