SPECIFICATION OrderlySpec
CONSTANTS
    Names = {"milk"}
    Ids = {i1, i2}
    Icons = {x}
    Threads = {t1}
    Tasks = {k1}
    Fetches = {f1}
    ProbeAfter = 2
    MaxQueue = 4
    MaxChanges = 3
    MaxFetches = 0
    NoRow = NoRow
    NoIcon = NoIcon
INVARIANT InSync
SYMMETRY Interchangeable
CHECK_DEADLOCK FALSE
