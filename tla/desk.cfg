SPECIFICATION FairSpec
CONSTANTS
    p1 = p1  p2 = p2  i1 = i1  q1 = q1  q2 = q2  e1 = e1
    Customer = {p1}
    Staff = {p1,p2}
    ByHand = {"reviewing"}
    QuoteWorker = QuoteWorker
    EntryWorker = EntryWorker
    Inquiry = {i1}
    Quote = {q1, q2}
    Entry = {e1}
    Past <- MCPast
    Drafted = {q1}
    Schedulable = {q1}
    Validity = 1
    Horizon = 1
    NoOne = NoOne
    Of <- MCOf
    WindowEnd <- MCWindowEnd
INVARIANTS TypeOK OneOpenOffer BookedOnce
PROPERTIES DecidedOnce DueRecordsLapse
CHECK_DEADLOCK FALSE
