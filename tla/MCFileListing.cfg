CONSTANTS
    Task = {t1, t2}
    Limits = {1, 2}
    ChannelSize = 2
    MaxTotal = 3
    MaxListings = 2
    Faults = {"disconnect", "store"}
    None = None
SPECIFICATION FairSpec
INVARIANTS TypeOK EntryAccounting OffsetsInOrder
PROPERTY Answered
