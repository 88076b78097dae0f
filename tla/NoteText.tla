------------------------------ MODULE NoteText ------------------------------
(***************************************************************************)
(* The text of a note as it absorbs the notes of re-adds (_merge_notes in  *)
(* server/trug/repo.py).  A note is segments joined by "; "; it is the     *)
(* sequence of those segments here, each an opaque value.  ListRepo keeps  *)
(* only the set of segments; NothingWrittenIsLost is what allows that.     *)
(***************************************************************************)
EXTENDS Naturals, Sequences, Functions

CONSTANTS
    Phrases,        \* what one segment can say
    MaxIncoming,    \* bound on the segments of one incoming note
    MaxNote         \* bound on the segments of the stored text

VARIABLES text, written

noteVars == <<text, written>>

(* A note somebody types says each thing once, and may say several.        *)
Incoming == {n \in UNION {[1..len -> Phrases] : len \in 0..MaxIncoming} : IsInjective(n)}

(* Nothing to add, nothing there yet, or the whole incoming note is one of *)
(* the segments already stored; otherwise it is appended.                  *)
MergeNotes(existing, incoming) ==
    IF incoming = <<>> THEN existing
    ELSE IF existing = <<>> THEN incoming
    ELSE IF Len(incoming) = 1 /\ incoming[1] \in Range(existing) THEN existing
    ELSE existing \o incoming

NoteInit == text = <<>> /\ written = {}

ReAdd(incoming) ==
    /\ Len(text) + Len(incoming) <= MaxNote
    /\ text' = MergeNotes(text, incoming)
    /\ written' = written \cup Range(incoming)

NoteNext == \E incoming \in Incoming : ReAdd(incoming)

NoteSpec == NoteInit /\ [][NoteNext]_noteVars
-----------------------------------------------------------------------------
(* Merging loses nothing anybody wrote and invents nothing: the note says  *)
(* exactly the segments of all the notes it absorbed (repo.py:72-83).      *)
NothingWrittenIsLost == Range(text) = written

(* "skipping an incoming segment that is already present so re-adds don't  *)
(* stutter the note" (repo.py:73-75): no segment is stored twice.          *)
NoteDoesNotStutter == IsInjective(text)
=============================================================================
