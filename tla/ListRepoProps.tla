--------------------------- MODULE ListRepoProps ---------------------------
(***************************************************************************)
(* What must hold of the list and its catalogue (ListRepo).                *)
(***************************************************************************)
EXTENDS ListRepo

(* Every column keeps its domain; an absent row is NoRow.                  *)
TypeOK ==
    /\ items \in [Ids -> Item \cup {NoRow}]
    /\ catalog \in [Keys -> Shortcut \cup {NoRow}]
    /\ now \in Nat
    /\ boot \in {"collapse", "refile", "up"}
    /\ adding \in [Threads -> Folded \cup {Idle}]

(***************************************************************************)
(* No name is on the list twice.  The collapse at start-up establishes it  *)
(* for whatever an older release left; after that it rests on add_item     *)
(* looking for an active row, then a checked one, inside the lock hold     *)
(* that inserts, however stale the key its thread folded (repo.py:344-443).*)
(***************************************************************************)
OneRowPerName ==
    boot # "collapse" => \A i, j \in Present : items[i].key = items[j].key => i = j

(***************************************************************************)
(* A stashed shortcut belongs to a name that is nowhere on the list:       *)
(* nothing the shopper can see is missing from the tray because an earlier *)
(* delete of the same name is still stashed (repo.py:536-601, 445-476).    *)
(***************************************************************************)
StashedNameIsOffTheList == \A k \in Keys : Stashed(k) => RowsOf(k) = {}

RevivedWell(k) ==
    Stashed(k) /\ Live(k)' =>
      IF now - catalog[k].retired <= Window
        THEN /\ catalog'[k].count = catalog[k].count + 1
             /\ catalog[k].icon # NoIcon => catalog'[k].icon = catalog[k].icon
        ELSE catalog'[k].count = 1

(***************************************************************************)
(* A delete is undone whole or it is final.  When a stashed shortcut is    *)
(* offered again, either it was revived inside its window, one add richer  *)
(* and with the icon it had learned, or the window had closed and the name *)
(* starts again at one (repo.py:445-500).                                  *)
(***************************************************************************)
UndoneWholeOrFinal == [][\A k \in Keys : RevivedWell(k)]_vars

(***************************************************************************)
(* What is learned about a name is learned once: while a shortcut lives on *)
(* and the server is up, its icon is never replaced, whichever of two      *)
(* enrichments lands last and whatever is deleted and undone in between    *)
(* (repo.py:695-708, 411-430).                                             *)
(***************************************************************************)
LearnedOnce ==
    [][\A k \in Keys :
         /\ boot = "up" /\ ~Expired(k)
         /\ catalog[k] # NoRow /\ catalog'[k] # NoRow
         /\ catalog[k].icon # NoIcon
         => catalog'[k].icon = catalog[k].icon]_vars

(***************************************************************************)
(* No start-up costs the household a name or a note: whatever rows a key   *)
(* had before the migrations, it still has one, on the list if any of them *)
(* was, carrying every note of every one of them (repo.py:270-304).        *)
(***************************************************************************)
StartUpKeepsNamesAndNotes ==
    [][boot # "up" =>
         \A k \in Keys :
           /\ RowsOf(k) # {} => RowsOf(k)' # {}
           /\ Active(k) # {} <=> Active(k)' # {}
           /\ UNION {items'[i].note : i \in RowsOf(k)'}
                = UNION {items[i].note : i \in RowsOf(k)}]_vars
-----------------------------------------------------------------------------
(* The list as the household sees it.                                      *)
Place == [k \in Keys |-> IF Active(k) # {} THEN "list"
                         ELSE IF Checked(k) # {} THEN "basket" ELSE "nowhere"]
Offer == [k \in Keys |-> IF catalog[k] = NoRow THEN "none"
                         ELSE IF Live(k) THEN "offered" ELSE "stashed"]

Promise == INSTANCE ShoppingList WITH place <- Place, shortcut <- Offer

(***************************************************************************)
(* The repository implements the household's view: ids, duplicate rows,    *)
(* the fold outside the lock, the purge, restarts and migrations never     *)
(* show as anything but a want, a move, a drop, an emptied basket or a     *)
(* forgotten shortcut.                                                     *)
(***************************************************************************)
KeepsPromise == Promise!Spec
=============================================================================
