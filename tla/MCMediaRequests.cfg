CONSTANTS
    Task = {t1, t2}
    Connection = {c1, c2}
    Row = {r1}
    Capacity = 1
    MaxSlots = 3
    Faults = {"load", "disconnect"}
    None = None
    MaxWord = 3
    Numbers = {0, 1, 2, 3, 4}
    Empty = Empty
    Garbage = Garbage
    Absent = Absent
    Malformed = Malformed
SPECIFICATION FairSpec
INVARIANTS TypeOK ServedItsOwn LoadedOncePerSlot RangeIsExact SliceIsSound
PROPERTY Answered
CHECK_DEADLOCK FALSE
