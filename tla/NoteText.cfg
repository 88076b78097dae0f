CONSTANTS
    Phrases = {"s1", "s2", "s3"}
    MaxIncoming = 2
    MaxNote = 6
SPECIFICATION NoteSpec
INVARIANT NoteDoesNotStutter
CHECK_DEADLOCK FALSE
