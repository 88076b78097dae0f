---------------------------- MODULE ShoppingList ----------------------------
(***************************************************************************)
(* What the household is promised, with no ids, rows, threads, clock or    *)
(* start-up in it: a name is on the list, in the basket or on neither, and *)
(* there is or is not a shortcut offering it.  ListRepo implements this.   *)
(***************************************************************************)
CONSTANT Keys

VARIABLES
    place,      \* where each name is: "nowhere", "list" or "basket"
    shortcut    \* each name's shortcut: "none", "offered" or "stashed"

vars == <<place, shortcut>>

TypeOK ==
    /\ place \in [Keys -> {"nowhere", "list", "basket"}]
    /\ shortcut \in [Keys -> {"none", "offered", "stashed"}]

(* A stashed shortcut may be lost at the next add or delete of any name.   *)
StashesMayLapse(kept) ==
    \A k \in Keys : \/ kept[k] = shortcut[k]
                    \/ shortcut[k] = "stashed" /\ kept[k] = "none"

Want(k) ==
    /\ place[k] # "list"
    /\ place' = [place EXCEPT ![k] = "list"]
    /\ \E kept \in [Keys -> {"none", "offered", "stashed"}] :
          /\ StashesMayLapse(kept)
          /\ shortcut' = [kept EXCEPT ![k] = "offered"]

Move(k, to) ==
    /\ place[k] # "nowhere"
    /\ place' = [place EXCEPT ![k] = to]
    /\ UNCHANGED shortcut

(* Deleting a name stops it being offered at once.                         *)
Drop(k) ==
    /\ place[k] # "nowhere"
    /\ place' = [place EXCEPT ![k] = "nowhere"]
    /\ \E kept \in [Keys -> {"none", "offered", "stashed"}] :
          /\ StashesMayLapse(kept)
          /\ shortcut' = [kept EXCEPT ![k] = IF @ = "none" THEN "none" ELSE "stashed"]

(* Emptying the basket costs no name its shortcut.                         *)
EmptyBasket ==
    /\ place' = [k \in Keys |-> IF place[k] = "basket" THEN "nowhere" ELSE place[k]]
    /\ UNCHANGED shortcut

(* Forgetting a shortcut takes nothing off the list.                       *)
Forget(k) ==
    /\ shortcut[k] # "none"
    /\ shortcut' = [shortcut EXCEPT ![k] = "none"]
    /\ UNCHANGED place

Init ==
    /\ place \in [Keys -> {"nowhere", "list", "basket"}]
    /\ shortcut \in [Keys -> {"none", "offered"}]

Next ==
    \/ \E k \in Keys : \/ Want(k) \/ Drop(k) \/ Forget(k)
                       \/ \E to \in {"list", "basket"} : Move(k, to)
    \/ EmptyBasket

Spec == Init /\ [][Next]_vars
=============================================================================
