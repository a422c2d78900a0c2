SPECIFICATION FairSpec
CONSTANTS
    t1 = t1
    t2 = t2
    t3 = t3
    t4 = t4
    t5 = t5
    c1 = c1
    c2 = c2
    s1 = s1
    s2 = s2
    s3 = s3
    NoSession = NoSession
    Threads = {t1, t2, t3}
    TimedThreads = {t1, t2}
    Closers = {c1}
    Sessions = {s1, s2}
    Max = 1
    FactoryProducts = {"open", "spent"}
PROPERTIES CloseDrains TimedAcquireReturns
