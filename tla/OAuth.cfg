SPECIFICATION Spec
CONSTANTS
    Uids = {u1, u2}
    Names = {anna}
    Registrable = {dcr}
    Known = {desk}
    Cimd = {app}
    Uris = {"web", "loop", "loop:5000", "other"}
    Loopback = {"loop", "loop:5000", "other"}
    Base <- MCBase
    Documents <- MCDocuments
    KnownUris <- MCKnownUris
    Secrets = {s1, s2}
    Mcp = Mcp
    Other = Other
    Codes = {k1}
    Issues = {i1, i2}
    MaxEvents = 2
    Pages = {p1}
    Nobody = Nobody
SYMMETRY MCSymmetry
CHECK_DEADLOCK FALSE
INVARIANTS
    OneLiveRefresh
    HonouredMeansConsented
    SentWhereTheClientIs
    ClientKeepsUp
