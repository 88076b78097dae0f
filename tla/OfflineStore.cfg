SPECIFICATION Spec
CONSTANTS
    Names <- TwoNames
    KeyOf <- OneKey
    ShopIds = {s1, s2}
    HouseIds = {h1}
    Procs = {p1, p2}
    TapKinds = {"add", "toggle", "remove", "clear"}
    Limits <- Trouble
    NoRow = NoRow
    NoId = NoId
    NoName = NoName
INVARIANT TypeOK
INVARIANT RunIsFrontOfQueue
INVARIANT SameAsOnline
INVARIANT DroppedOnlyWhenDeleted
INVARIANT PhantomsAreMarked
SYMMETRY Interchangeable
CHECK_DEADLOCK FALSE
