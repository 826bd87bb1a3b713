CONSTANTS
    Task = {t1, t2}
    PageRows = 2
    MaxRows = 4
    Ttl = 1
    MaxTotal = 5
    MaxBatch = 3
    MaxSequence = 3
    Faults = {"disconnect", "stream", "serialize"}
    NoPage = NoPage
SPECIFICATION FairSpec
INVARIANTS TypeOK RowAccounting FailureRemoves
PROPERTIES Answered KeepsContract
