------------------------------ MODULE ListRepo ------------------------------
(***************************************************************************)
(* The household's list and its catalogue of shortcuts                     *)
(* (server/trug/repo.py).  One SQLite connection sits behind one lock;     *)
(* every public method is one lock hold and one commit, so it is one       *)
(* action, except add_item, which folds its name against the catalogue     *)
(* BEFORE it takes the lock: AddStart and the four outcomes of the commit  *)
(* are separate steps of a request thread.                                 *)
(*                                                                         *)
(* Data abstracted: a note is the set of its segments (NoteText models the *)
(* joined text); an icon stands for the icon and the aisle filed with it;  *)
(* rows are numbered in the order of (created_at, id), the only use the    *)
(* code makes of either; sort_key and display names order and decorate the *)
(* list and are left out.  Mutants of a definition, used by no action,     *)
(* stand just above it: what the runs must be able to tell from it.        *)
(***************************************************************************)
EXTENDS Naming, Integers

CONSTANTS
    Ids,            \* item ids, numbered newest row first
    Segments,       \* what a note can say
    Icons,          \* icon slugs
    NoIcon,         \* SQL NULL in an icon column
    BuiltinIcon,    \* [Keys -> Icons \cup {NoIcon}], the tier-0 map
    Threads,        \* request threads that may be inside add_item
    Window,         \* STASH_WINDOW_SECONDS, in ticks of the clock
    MaxTime,        \* bound on the clock
    MaxCount,       \* bound on times_added
    NoRow,          \* no row under this key
    Idle            \* a thread that is not inside add_item

Null == -1          \* SQL NULL in retired_at
Statuses == {"active", "checked"}
Notes == SUBSET Segments

Item == [key : Keys, status : Statuses, note : Notes, icon : Icons \cup {NoIcon}]
Shortcut == [count : Nat \ {0}, icon : Icons \cup {NoIcon}, retired : Nat \cup {Null}]
LegacyShortcut == [count : 1..MaxCount, icon : Icons \cup {NoIcon}, retired : {Null}]
Folded == [name : Keys, key : Keys]

ASSUME ListRepoAssumption ==
    /\ Ids \subseteq Nat
    /\ Window \in Nat /\ MaxTime \in Nat /\ MaxCount \in Nat \ {0}
    /\ BuiltinIcon \in [Keys -> Icons \cup {NoIcon}]
    /\ NoIcon \notin Icons
    /\ NoRow \notin Item /\ NoRow \notin Shortcut
    /\ Idle \notin Folded

VARIABLES
    items,      \* items[i]: the items row with that id, or NoRow
    catalog,    \* catalog[k]: the catalog row under that key, or NoRow
    now,        \* the clock behind _now()
    boot,       \* the migration about to run, or "up" once requests are served
    adding      \* adding[t]: the name thread t folded and has not committed yet

vars == <<items, catalog, now, boot, adding>>
-----------------------------------------------------------------------------
(* What the queries select.                                                *)

Present == {i \in Ids : items[i] # NoRow}
RowsOf(k) == {i \in Present : items[i].key = k}
Active(k) == {i \in RowsOf(k) : items[i].status = "active"}
Checked(k) == {i \in RowsOf(k) : items[i].status = "checked"}
Newest(S) == CHOOSE i \in S : \A j \in S : i <= j

Live(k) == catalog[k] # NoRow /\ catalog[k].retired = Null
Stashed(k) == catalog[k] # NoRow /\ catalog[k].retired # Null
KnownNorms == {k \in Keys : Live(k)}
ExpiredOneTickEarly(k) == Stashed(k) /\ catalog[k].retired <= now - Window
Expired(k) == Stashed(k) /\ catalog[k].retired < now - Window

(* The catalogue once _purge_stale_stashes has run.                        *)
Purged == [k \in Keys |-> IF Expired(k) THEN NoRow ELSE catalog[k]]

(* The catalogue once an add of key has been counted: a row that survived  *)
(* the purge, live or stashed, counts on; otherwise a new one starts.      *)
CountedFromZero(old) ==
    IF old = NoRow THEN [count |-> 0, icon |-> NoIcon, retired |-> Null]
                   ELSE [old EXCEPT !.count = old.count + 1, !.retired = Null]
CountedStillStashed(old) ==
    IF old = NoRow THEN [count |-> 1, icon |-> NoIcon, retired |-> Null]
                   ELSE [old EXCEPT !.count = old.count + 1]
Counted(old) ==
    IF old = NoRow THEN [count |-> 1, icon |-> NoIcon, retired |-> Null]
                   ELSE [old EXCEPT !.count = old.count + 1, !.retired = Null]
Bumped(key) == [Purged EXCEPT ![key] = Counted(Purged[key])]

(* ... and once tier 0 has filed it, which only ever fills a NULL.         *)
RefiledByBuiltin(cat, key) == [cat EXCEPT ![key].icon = BuiltinIcon[key]]
FiledByBuiltin(cat, key) ==
    [cat EXCEPT ![key].icon = IF @ = NoIcon THEN BuiltinIcon[key] ELSE @]

(* ... or once a delete has stashed the key, if it still has a shortcut.   *)
RetiredForGood(cat, key) == [cat EXCEPT ![key] = NoRow]
Retired(cat, key) ==
    [cat EXCEPT ![key] = IF @ = NoRow THEN NoRow ELSE [@ EXCEPT !.retired = now]]

(* An add inserts only when no row with the key can take it.               *)
NoActiveRow(key) == Active(key) = {}
NoRowToReuse(key) == Active(key) = {} /\ Checked(key) = {}

CountsBelowBound(key) == Purged[key] # NoRow => Purged[key].count < MaxCount
-----------------------------------------------------------------------------
(* Adding.                                                                 *)

(* normalise(name, self.known_norms()), outside the lock.                  *)
AddStart(t, name) ==
    /\ boot = "up"
    /\ adding[t] = Idle
    /\ adding' = [adding EXCEPT ![t] =
                    [name |-> name, key |-> Normalise(name, KnownNorms)]]
    /\ UNCHANGED <<items, catalog, now, boot>>

AddEnds(t) ==
    /\ boot = "up"
    /\ adding[t] # Idle
    /\ adding' = [adding EXCEPT ![t] = Idle]
    /\ UNCHANGED <<now, boot>>

(* The request named an id that is already there: nothing is written.      *)
AddFindsId(t) ==
    /\ AddEnds(t)
    /\ Present # {}
    /\ UNCHANGED <<items, catalog>>

(* An active row with the key absorbs the note; the add is not counted.    *)
AddMerges(t, note) ==
    /\ AddEnds(t)
    /\ \E i \in Active(adding[t].key) :
          items' = [items EXCEPT ![i].note = @ \cup note]
    /\ UNCHANGED catalog

(* A checked row with the key comes back to the list, counted as an add.   *)
AddReactivates(t, note) ==
    LET k == adding[t].key
        i == Newest(Checked(k))
    IN /\ AddEnds(t)
       /\ Active(k) = {} /\ Checked(k) # {}
       /\ CountsBelowBound(k)
       /\ catalog' = Bumped(k)
       /\ items' = [items EXCEPT ![i] =
                      [@ EXCEPT !.status = "active", !.note = items[i].note \cup note]]

(* A new row, filed as its shortcut is.  The id is the client's, or fresh. *)
AddInserts(t, i, note) ==
    LET k == adding[t].key
    IN /\ AddEnds(t)
       /\ i \notin Present
       /\ NoRowToReuse(k)
       /\ CountsBelowBound(k)
       /\ catalog' = FiledByBuiltin(Bumped(k), k)
       /\ items' = [items EXCEPT ![i] = [key |-> k, status |-> "active",
                                         note |-> note, icon |-> catalog'[k].icon]]
-----------------------------------------------------------------------------
(* The other operations.                                                   *)

UpdateItem(i, status, note, icon) ==
    /\ boot = "up"
    /\ i \in Present
    /\ items' = [items EXCEPT ![i] =
                   [@ EXCEPT !.status = status, !.note = note, !.icon = icon]]
    /\ UNCHANGED <<catalog, now, boot, adding>>

(* PATCH /items/{id}: a field left out of the request keeps its value.     *)
PatchItem(i, status, note) == UpdateItem(i, status, note, items[i].icon)

(* The enricher files an item; NULL when the model named no known icon.    *)
FileItem(i, icon) == UpdateItem(i, items[i].status, items[i].note, icon)

DeleteItem(i) ==
    /\ boot = "up"
    /\ i \in Present
    /\ items' = [items EXCEPT ![i] = NoRow]
    /\ catalog' = Retired(Purged, items[i].key)
    /\ UNCHANGED <<now, boot, adding>>

ClearChecked ==
    /\ boot = "up"
    /\ items' = [i \in Ids |-> IF i \in Present /\ items[i].status = "checked"
                                 THEN NoRow ELSE items[i]]
    /\ UNCHANGED <<catalog, now, boot, adding>>

ForgetCatalog(k) ==
    /\ boot = "up"
    /\ catalog[k] # NoRow
    /\ catalog' = [catalog EXCEPT ![k] = NoRow]
    /\ UNCHANGED <<items, now, boot, adding>>

(* The enricher records what it learned, once: WHERE icon IS NULL.         *)
SetEnrichment(k, icon) ==
    /\ boot = "up"
    /\ catalog[k] # NoRow /\ catalog[k].icon = NoIcon
    /\ catalog' = [catalog EXCEPT ![k].icon = icon]
    /\ UNCHANGED <<items, now, boot, adding>>
-----------------------------------------------------------------------------
(* Start-up, in the migrations that move a row or file one anew; the two   *)
(* that rename an icon for another are left out.  Each is a commit of its  *)
(* own, so the process may stop in between and starts from the first again.*)

KeeperNewest(k) == Newest(RowsOf(k))
Keeper(k) == IF Active(k) # {} THEN Newest(Active(k)) ELSE Newest(RowsOf(k))

CollapseDuplicates ==
    /\ boot = "collapse"
    /\ boot' = "refile"
    /\ items' = [i \in Ids |->
                   IF i \notin Present THEN NoRow
                   ELSE LET k == items[i].key IN
                        IF i # Keeper(k) THEN NoRow
                        ELSE [items[i] EXCEPT !.note =
                                UNION {items[j].note : j \in RowsOf(k)}]]
    /\ UNCHANGED <<catalog, now, adding>>

(* The refiled rows are those without an icon, less the ones somebody has  *)
(* dragged out of the catch-all aisle.                                     *)
BuiltinMapRefile ==
    /\ boot = "refile"
    /\ boot' = "up"
    /\ \E refiled \in SUBSET {i \in Present : items[i].icon = NoIcon} :
          items' = [i \in Ids |->
                      IF i \in refiled
                        THEN [items[i] EXCEPT !.icon = BuiltinIcon[items[i].key]]
                        ELSE items[i]]
    /\ catalog' = [k \in Keys |->
                     IF catalog[k] # NoRow /\ BuiltinIcon[k] # NoIcon
                       THEN [catalog[k] EXCEPT !.icon = BuiltinIcon[k]]
                       ELSE catalog[k]]
    /\ UNCHANGED <<now, adding>>

(* The process stops, at any point, and starts again.                      *)
Restart ==
    /\ boot' = "collapse"
    /\ adding' = [t \in Threads |-> Idle]
    /\ UNCHANGED <<items, catalog, now>>

Tick ==
    /\ now < MaxTime
    /\ now' = now + 1
    /\ UNCHANGED <<items, catalog, boot, adding>>
-----------------------------------------------------------------------------
(* A database an older release left behind: a key may have several rows,   *)
(* nothing is stashed.                                                     *)
Init ==
    /\ items \in [Ids -> Item \cup {NoRow}]
    /\ catalog \in [Keys -> LegacyShortcut \cup {NoRow}]
    /\ now = 0
    /\ boot = "collapse"
    /\ adding = [t \in Threads |-> Idle]

AddItem(t) ==
    \/ \E name \in Keys : AddStart(t, name)
    \/ AddFindsId(t)
    \/ \E note \in Notes : \/ AddMerges(t, note)
                           \/ AddReactivates(t, note)
                           \/ \E i \in Ids : AddInserts(t, i, note)

ChangeItem(i) ==
    \/ \E status \in Statuses, note \in Notes : PatchItem(i, status, note)
    \/ \E icon \in Icons \cup {NoIcon} : FileItem(i, icon)
    \/ DeleteItem(i)

ChangeShortcut(k) ==
    \/ ForgetCatalog(k)
    \/ \E icon \in Icons \cup {NoIcon} : SetEnrichment(k, icon)

Next ==
    \/ \E t \in Threads : AddItem(t)
    \/ \E i \in Ids : ChangeItem(i)
    \/ \E k \in Keys : ChangeShortcut(k)
    \/ ClearChecked
    \/ CollapseDuplicates
    \/ BuiltinMapRefile
    \/ Restart
    \/ Tick

Spec == Init /\ [][Next]_vars
=============================================================================
