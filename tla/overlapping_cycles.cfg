SPECIFICATION FairSpec
CONSTANTS
    w1 = w1  w2 = w2  w3 = w3  p1 = p1  p2 = p2
    Job = {j1}
    Worker = {w1, w2}
    WorkerId = {p1, p2}
    IdOf <- OverlappingCycles
    Mortal = {p2}
    Ask = {s1, s2}
    MaxAttempts = 2
    Ttl = 2
    MaxDelay = 1
    NoWorker = NoWorker
PROPERTIES StalePassesRejected
CHECK_DEADLOCK FALSE
