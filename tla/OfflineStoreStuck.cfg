SPECIFICATION Spec
CONSTANTS
    Names <- TwoNames
    KeyOf <- OneKey
    ShopIds = {s1, s2}
    HouseIds = {h1}
    Procs = {p1, p2}
    TapKinds = {"toggle", "clear"}
    Limits <- OneRefusal
    NoRow = NoRow
    NoId = NoId
    NoName = NoName
INVARIANT RecoveryArmed
SYMMETRY Interchangeable
CHECK_DEADLOCK FALSE
