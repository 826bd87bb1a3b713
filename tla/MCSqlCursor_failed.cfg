CONSTANTS
    Task = {t1, t2}
    PageRows = 2
    MaxRows = 4
    Ttl = 2
    MaxTotal = 5
    MaxBatch = 3
    MaxSequence = 3
    Faults = {"stream", "serialize"}
    NoPage = NoPage
SPECIFICATION Spec
PROPERTY FailedServesNothing
