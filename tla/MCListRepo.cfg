CONSTANTS
    lemon = lemon
    lemons = lemons
    blank = blank
    known = known
    learned = learned
    Keys = {lemon, lemons}
    Plurals <- MCPlurals
    Blank = blank
    Ids = {1, 2}
    Segments = {n1}
    Icons = {known, learned}
    NoIcon = NoIcon
    BuiltinIcon <- MCBuiltinIcon
    Threads = {t1, t2}
    Window = 0
    MaxTime = 1
    MaxCount = 2
    NoRow = NoRow
    Idle = Idle
SPECIFICATION Spec
INVARIANTS TypeOK OneRowPerName StashedNameIsOffTheList
PROPERTIES UndoneWholeOrFinal LearnedOnce StartUpKeepsNamesAndNotes KeepsPromise
SYMMETRY TwoThreads
