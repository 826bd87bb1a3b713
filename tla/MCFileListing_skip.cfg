CONSTANTS
    Task = {t1, t2}
    Limits = {1, 2}
    ChannelSize = 2
    MaxTotal = 4
    MaxListings = 2
    Faults = {"disconnect"}
    None = None
SPECIFICATION Spec
INVARIANT NoEntrySkipped
