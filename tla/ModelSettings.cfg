SPECIFICATION Spec
CONSTANTS
    Cloud = {"anthropic", "openai"}
    Local = {"custom"}
    Anthropic = "anthropic"
    Custom = "custom"
    Keys = {"ka", "ko", "kc"}
    KeyFor <- MCKeyFor
    EnvKey = "ke"
    Urls = {home, away}
    Secrets = {s1, s2}
    Threads = {t1, t2}
    MaxChanges = 3
    MaxRestarts = 2
    None = None
SYMMETRY MCSymmetry
CHECK_DEADLOCK FALSE
INVARIANTS
    InUseIsSaved
    PageTellsTheTruth
    SavedIsUsable
    KeyStaysWithItsProvider
    NeverOffWithAnEnvKey
