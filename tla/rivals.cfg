SPECIFICATION Spec
CONSTANTS
    north = north
    ana = ana  chair = chair  bench = bench
    c1 = c1  c2 = c2  c3 = c3  m1 = m1  k1 = k1
    w1 = w1  w2 = w2  w3 = w3
    key1 = key1  key2 = key2  none = none
    Branch = {north}
    Resource = {ana}
    Instant = {1, 2}
    Day <- MCDay
    Cap <- One
    Create = {c1, c2, c3}
    Move = {m1}
    Block = {k1}
    Writer = {w1, w2, w3}
    Guarded = {w1, w3}
    Transacted = {w1, w2}
    Sent <- Encounters
    Home <- AllNorth
    Scope <- OnlyNorth
    Options <- MoveOptions
    BlockFor <- NoOne
    BlockTimes <- Day1Only
    Target <- MoveTarget
    IdemKey <- PairKeys
    NeedsAdvance <- Held
    KeyRank <- MCKeyRank
    Ttl <- LockTimes
    LeaseTtl = 2
    Window <- TwoTicks
    HoldTime = 2
    NoProc = none
INVARIANTS NoOverbooking NoMutualRefusal NoBookingInBlock
PROPERTIES LostLockNeverCommits ConfigStable
CHECK_DEADLOCK FALSE
