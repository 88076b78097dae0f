SPECIFICATION FairSpec
CONSTANTS
    Names <- TwoNames
    KeyOf <- OneKey
    ShopIds = {s1, s2}
    HouseIds = {h1}
    Procs = {p1, p2}
    TapKinds = {"add", "toggle"}
    Limits <- OneLoss
    NoRow = NoRow
    NoId = NoId
    NoName = NoName
PROPERTY QueueDrains
CHECK_DEADLOCK FALSE
