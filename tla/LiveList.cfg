SPECIFICATION Spec
CONSTANTS
    Names = {"milk"}
    Ids = {i1, i2}
    Icons = {x}
    Threads = {t1, t2}
    Tasks = {k1}
    Fetches = {f1, f2}
    ProbeAfter = 2
    MaxQueue = 2
    MaxChanges = 3
    MaxFetches = 2
    NoRow = NoRow
    NoIcon = NoIcon
INVARIANT TypeOK
INVARIANT ShowsTheList
SYMMETRY Interchangeable
CHECK_DEADLOCK FALSE
