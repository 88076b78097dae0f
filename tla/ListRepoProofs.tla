--------------------------- MODULE ListRepoProofs ---------------------------
(***************************************************************************)
(* Proofs about ListRepo, for every set of names, rows, threads and notes, *)
(* every stash window and every built-in map: its types, its rows and      *)
(* shortcuts, what its steps never do, and that it implements ShoppingList.*)
(* Last, of the text of a note (NoteText), which ListRepo has as a set.    *)
(***************************************************************************)
EXTENDS ListRepoProps, NoteText, SequenceTheorems, WellFoundedInduction, TLAPS

(* A name is always filed under a key: itself, or a known one.             *)
LEMMA NormaliseInKeys ==
    ASSUME NEW key \in Keys, NEW known
    PROVE  Normalise(key, known) \in Keys
<1>1. CASE SingularsOf(key) \cap known # {}
  <2>1. (CHOOSE s \in SingularsOf(key) : s \in known) \in SingularsOf(key)
    BY <1>1
  <2>2. QED BY <2>1, <1>1 DEF Normalise, SingularsOf, PluralsOf
<1>2. CASE PluralsOf(key) \cap known # {}
  <2>1. (CHOOSE p \in PluralsOf(key) : p \in known) \in PluralsOf(key)
    BY <1>2
  <2>2. CASE SingularsOf(key) \cap known # {}
    BY <2>2, <1>1
  <2>3. CASE SingularsOf(key) \cap known = {}
    BY <2>1, <2>3 DEF Normalise, PluralsOf
  <2>4. QED BY <2>2, <2>3
<1>3. CASE SingularsOf(key) \cap known = {} /\ PluralsOf(key) \cap known = {}
  BY <1>3 DEF Normalise
<1>4. QED BY <1>1, <1>2, <1>3

(* The purge leaves a catalogue behind, and only ever takes stashed rows.  *)
LEMMA PurgedTyped ==
    ASSUME TypeOK
    PROVE  /\ Purged \in [Keys -> Shortcut \cup {NoRow}]
           /\ \A k \in Keys : Purged[k] = catalog[k] \/ (Stashed(k) /\ Purged[k] = NoRow)
BY DEF TypeOK, Purged, Expired

(* Counting an add leaves its key offered and no other key newly stashed.  *)
LEMMA CountedTyped ==
    ASSUME NEW old \in Shortcut \cup {NoRow}
    PROVE  Counted(old) \in Shortcut /\ Counted(old).retired = Null
<1>1. CASE old = NoRow
  BY <1>1 DEF Counted, Shortcut, Null
<1>2. CASE old # NoRow
  <2>1. old \in [count : Nat \ {0}, icon : Icons \cup {NoIcon}, retired : Nat \cup {Null}]
    BY <1>2 DEF Shortcut
  <2>2. old.count + 1 \in Nat \ {0} /\ Null \in Nat \cup {Null}
    BY <2>1
  <2>3. QED BY <1>2, <2>1, <2>2 DEF Counted, Shortcut
<1>3. QED BY <1>1, <1>2

LEMMA BumpedTyped ==
    ASSUME TypeOK, NEW key \in Keys
    PROVE  /\ Bumped(key) \in [Keys -> Shortcut \cup {NoRow}]
           /\ Bumped(key)[key] \in Shortcut
           /\ Bumped(key)[key].retired = Null
           /\ \A k \in Keys \ {key} : Bumped(key)[k] = Purged[k]
BY PurgedTyped, CountedTyped DEF Bumped

LEMMA FiledTyped ==
    ASSUME TypeOK, NEW key \in Keys
    PROVE  /\ FiledByBuiltin(Bumped(key), key) \in [Keys -> Shortcut \cup {NoRow}]
           /\ FiledByBuiltin(Bumped(key), key)[key] \in Shortcut
           /\ FiledByBuiltin(Bumped(key), key)[key].retired = Null
           /\ \A k \in Keys \ {key} :
                 FiledByBuiltin(Bumped(key), key)[k] = Purged[k]
<1> DEFINE cat == Bumped(key)
           icon == IF cat[key].icon = NoIcon THEN BuiltinIcon[key] ELSE cat[key].icon
<1>1. FiledByBuiltin(cat, key) = [cat EXCEPT ![key] = [cat[key] EXCEPT !.icon = icon]]
  BY BumpedTyped DEF FiledByBuiltin
<1>2. icon \in Icons \cup {NoIcon}
  BY BumpedTyped, ListRepoAssumption DEF Shortcut
<1>3. /\ [cat[key] EXCEPT !.icon = icon] \in Shortcut
      /\ [cat[key] EXCEPT !.icon = icon].retired = Null
  BY <1>2, BumpedTyped DEF Shortcut
<1>4. QED BY <1>1, <1>3, BumpedTyped

(* The newest of some rows is one of them.                                 *)
LEMMA NewestIsOne ==
    ASSUME NEW S \in SUBSET Ids, S # {}
    PROVE  Newest(S) \in S
<1>1. S \subseteq Nat
  BY ListRepoAssumption
<1> DEFINE Less == OpToRel(<, Nat)
<1>2. Less = {ss \in Nat \X Nat : ss[1] < ss[2]}
  BY DEF OpToRel
<1>3. IsWellFoundedOn(Less, Nat)
  BY NatLessThanWellFounded
<1> HIDE DEF Less
<1>4. PICK i \in S : \A j \in S : <<j, i>> \notin Less
  BY <1>1, <1>3, WFMin
<1>5. ASSUME NEW j \in S
      PROVE  i <= j
  <2>1. i \in Nat /\ j \in Nat /\ <<j, i>> \notin Less
    BY <1>1, <1>4
  <2>2. <<j, i>> \in Less <=> j < i
    BY <1>2, <2>1
  <2>3. QED BY <2>1, <2>2
<1>6. QED BY <1>5 DEF Newest

-----------------------------------------------------------------------------
(* Type correctness.                                                       *)

LEMMA AddKeepsTypes ==
    ASSUME TypeOK, NEW t \in Threads, AddItem(t)
    PROVE  TypeOK'
<1>1. ASSUME NEW name \in Keys, AddStart(t, name)
      PROVE  TypeOK'
  <2>1. Normalise(name, KnownNorms) \in Keys
    BY NormaliseInKeys
  <2>2. [name |-> name, key |-> Normalise(name, KnownNorms)] \in Folded
    BY <2>1 DEF Folded
  <2>3. QED BY <1>1, <2>2 DEF TypeOK, AddStart
<1>2. ASSUME AddFindsId(t)
      PROVE  TypeOK'
  BY <1>2 DEF TypeOK, AddFindsId, AddEnds
<1>3. ASSUME AddEnds(t)
      PROVE  /\ adding[t].key \in Keys
             /\ now' \in Nat /\ boot' \in {"collapse", "refile", "up"}
             /\ adding' \in [Threads -> Folded \cup {Idle}]
  BY <1>3 DEF TypeOK, AddEnds, Folded
<1>4. ASSUME NEW note \in Notes, AddMerges(t, note)
      PROVE  TypeOK'
  <2>1. PICK i \in Active(adding[t].key) :
           items' = [items EXCEPT ![i].note = items[i].note \cup note]
    BY <1>4 DEF AddMerges
  <2>2. i \in Ids /\ items[i] \in Item
    BY <2>1 DEF Active, RowsOf, Present, TypeOK
  <2>3. [items[i] EXCEPT !.note = items[i].note \cup note] \in Item
    BY <2>2 DEF Item, Notes
  <2>4. items' \in [Ids -> Item \cup {NoRow}]
    BY <2>1, <2>2, <2>3 DEF TypeOK
  <2>5. QED BY <1>4, <2>4, <1>3 DEF TypeOK, AddMerges
<1>5. ASSUME NEW note \in Notes, AddReactivates(t, note)
      PROVE  TypeOK'
  <2> DEFINE k == adding[t].key
             i == Newest(Checked(k))
             row == [items[i] EXCEPT !.status = "active", !.note = items[i].note \cup note]
  <2>1. i \in Checked(k)
    BY <1>5, NewestIsOne DEF AddReactivates, Checked, RowsOf, Present
  <2>2. i \in Ids /\ items[i] \in Item
    BY <2>1 DEF Checked, RowsOf, Present, TypeOK
  <2>3. row \in Item
    BY <2>2 DEF Item, Notes, Statuses
  <2>4. items' = [items EXCEPT ![i] = row]
    BY <1>5 DEF AddReactivates
  <2>5. items' \in [Ids -> Item \cup {NoRow}]
    BY <2>2, <2>3, <2>4 DEF TypeOK
  <2>6. catalog' \in [Keys -> Shortcut \cup {NoRow}]
    BY <1>3, <1>5, BumpedTyped DEF AddReactivates
  <2>7. QED BY <1>3, <1>5, <2>5, <2>6 DEF TypeOK, AddReactivates
<1>6. ASSUME NEW i \in Ids, NEW note \in Notes, AddInserts(t, i, note)
      PROVE  TypeOK'
  <2> DEFINE k == adding[t].key
             row == [key |-> k, status |-> "active", note |-> note, icon |-> catalog'[k].icon]
  <2>1. k \in Keys
    BY <1>3, <1>6 DEF AddInserts
  <2>2. /\ catalog' \in [Keys -> Shortcut \cup {NoRow}]
        /\ catalog'[k] \in Shortcut
    BY <1>6, <2>1, FiledTyped DEF AddInserts
  <2>3. row \in Item
    BY <2>1, <2>2 DEF Item, Shortcut, Statuses
  <2>4. items' = [items EXCEPT ![i] = row]
    BY <1>6 DEF AddInserts
  <2>5. items' \in [Ids -> Item \cup {NoRow}]
    BY <2>3, <2>4 DEF TypeOK
  <2>6. QED BY <1>3, <1>6, <2>2, <2>5 DEF TypeOK, AddInserts
<1>7. QED BY <1>1, <1>2, <1>4, <1>5, <1>6 DEF AddItem

LEMMA ChangeKeepsTypes ==
    ASSUME TypeOK
    PROVE  /\ \A i \in Ids : ChangeItem(i) => TypeOK'
           /\ \A k \in Keys : ChangeShortcut(k) => TypeOK'
<1>1. ASSUME NEW i \in Ids, NEW status \in Statuses, NEW note \in Notes,
             NEW icon \in Icons \cup {NoIcon}, UpdateItem(i, status, note, icon)
      PROVE  TypeOK'
  <2>1. items[i] \in Item
    BY <1>1 DEF UpdateItem, Present, TypeOK
  <2>2. [items[i] EXCEPT !.status = status, !.note = note, !.icon = icon] \in Item
    BY <2>1 DEF Item
  <2>3. QED BY <1>1, <2>2 DEF UpdateItem, TypeOK
<1>2. ASSUME NEW i \in Ids, NEW status \in Statuses, NEW note \in Notes,
             PatchItem(i, status, note)
      PROVE  TypeOK'
  <2>1. i \in Present
    BY <1>2 DEF PatchItem, UpdateItem
  <2>2. items[i].icon \in Icons \cup {NoIcon}
    BY <2>1 DEF Present, TypeOK, Item
  <2>3. QED BY <1>1, <1>2, <2>2 DEF PatchItem
<1>3. ASSUME NEW i \in Ids, NEW icon \in Icons \cup {NoIcon}, FileItem(i, icon)
      PROVE  TypeOK'
  <2>1. i \in Present
    BY <1>3 DEF FileItem, UpdateItem
  <2>2. items[i].status \in Statuses /\ items[i].note \in Notes
    BY <2>1 DEF Present, TypeOK, Item
  <2>3. QED BY <1>1, <1>3, <2>2 DEF FileItem
<1>4. ASSUME NEW i \in Ids, DeleteItem(i)
      PROVE  TypeOK'
  <2>1. items[i].key \in Keys
    BY <1>4 DEF DeleteItem, Present, TypeOK, Item
  <2>2. ASSUME NEW r \in Shortcut
        PROVE  [r EXCEPT !.retired = now] \in Shortcut
    BY <2>2 DEF TypeOK, Shortcut
  <2>3. catalog' \in [Keys -> Shortcut \cup {NoRow}]
    BY <1>4, <2>1, <2>2, PurgedTyped DEF DeleteItem, Retired
  <2>4. QED BY <1>4, <2>3 DEF DeleteItem, TypeOK
<1>5. ASSUME NEW k \in Keys, ForgetCatalog(k)
      PROVE  TypeOK'
  BY <1>5 DEF ForgetCatalog, TypeOK
<1>6. ASSUME NEW k \in Keys, NEW icon \in Icons \cup {NoIcon}, SetEnrichment(k, icon)
      PROVE  TypeOK'
  <2>1. catalog[k] \in Shortcut
    BY <1>6 DEF SetEnrichment, TypeOK
  <2>2. [catalog[k] EXCEPT !.icon = icon] \in Shortcut
    BY <2>1 DEF Shortcut
  <2>3. QED BY <1>6, <2>2 DEF SetEnrichment, TypeOK
<1>7. QED BY <1>2, <1>3, <1>4, <1>5, <1>6 DEF ChangeItem, ChangeShortcut

LEMMA StartUpKeepsTypes ==
    ASSUME TypeOK, CollapseDuplicates \/ BuiltinMapRefile \/ Restart
    PROVE  TypeOK'
<1>1. CASE CollapseDuplicates
  <2>1. ASSUME NEW i \in Present
        PROVE  [items[i] EXCEPT !.note =
                  UNION {items[j].note : j \in RowsOf(items[i].key)}] \in Item
    <3>1. items[i] \in Item
      BY DEF Present, TypeOK
    <3>2. \A j \in RowsOf(items[i].key) : items[j].note \in Notes
      BY DEF RowsOf, Present, TypeOK, Item
    <3>3. UNION {items[j].note : j \in RowsOf(items[i].key)} \in Notes
      BY <3>2 DEF Notes
    <3>4. QED BY <3>1, <3>3 DEF Item
  <2>2. items' \in [Ids -> Item \cup {NoRow}]
    BY <1>1, <2>1 DEF CollapseDuplicates
  <2>3. QED BY <1>1, <2>2 DEF CollapseDuplicates, TypeOK
<1>2. CASE BuiltinMapRefile
  <2>1. ASSUME NEW i \in Present
        PROVE  [items[i] EXCEPT !.icon = BuiltinIcon[items[i].key]] \in Item
    BY ListRepoAssumption DEF Present, TypeOK, Item
  <2>2. items' \in [Ids -> Item \cup {NoRow}]
    BY <1>2, <2>1 DEF BuiltinMapRefile, TypeOK, Present
  <2>3. ASSUME NEW k \in Keys, catalog[k] # NoRow
        PROVE  [catalog[k] EXCEPT !.icon = BuiltinIcon[k]] \in Shortcut
    <3>1. catalog[k] \in Shortcut /\ BuiltinIcon[k] \in Icons \cup {NoIcon}
      BY <2>3, ListRepoAssumption DEF TypeOK
    <3>2. QED BY <3>1 DEF Shortcut
  <2>4. catalog' \in [Keys -> Shortcut \cup {NoRow}]
    BY <1>2, <2>3 DEF BuiltinMapRefile, TypeOK
  <2>5. QED BY <1>2, <2>2, <2>4 DEF BuiltinMapRefile, TypeOK
<1>3. CASE Restart
  BY <1>3 DEF Restart, TypeOK
<1>4. QED BY <1>1, <1>2, <1>3

LEMMA TypeStep == TypeOK /\ [Next]_vars => TypeOK'
<1> SUFFICES ASSUME TypeOK, [Next]_vars
             PROVE  TypeOK'
  OBVIOUS
<1>1. ASSUME NEW t \in Threads, AddItem(t)
      PROVE  TypeOK'
  BY <1>1, AddKeepsTypes
<1>2. CASE ClearChecked
  BY <1>2 DEF ClearChecked, TypeOK
<1>3. CASE Tick
  BY <1>3 DEF Tick, TypeOK
<1>4. CASE UNCHANGED vars
  BY <1>4 DEF vars, TypeOK
<1>5. QED
  BY <1>1, <1>2, <1>3, <1>4, ChangeKeepsTypes, StartUpKeepsTypes DEF Next

(* Every value the repository stores keeps its domain, in every behaviour. *)
THEOREM TypeCorrect == Spec => []TypeOK
<1>1. Init => TypeOK
  <2>1. LegacyShortcut \subseteq Shortcut
    BY ListRepoAssumption DEF LegacyShortcut, Shortcut
  <2>2. QED BY <2>1 DEF Init, TypeOK
<1>2. QED BY <1>1, TypeStep, PTL DEF Spec

-----------------------------------------------------------------------------
(* One row per name, and nothing stashed that is on the list.  Neither is  *)
(* inductive alone: deleting the only row of a name is what makes it safe  *)
(* to stash its shortcut, and only one row per name makes it the only one. *)

IInv == TypeOK /\ OneRowPerName /\ StashedNameIsOffTheList

LEMMA AddKeepsIInv ==
    ASSUME IInv, NEW t \in Threads, AddItem(t)
    PROVE  OneRowPerName' /\ StashedNameIsOffTheList'
<1> USE DEF IInv
<1>1. ASSUME NEW name \in Keys, AddStart(t, name)
      PROVE  OneRowPerName' /\ StashedNameIsOffTheList'
  BY <1>1 DEF AddStart, OneRowPerName, StashedNameIsOffTheList, Stashed, RowsOf, Present
<1>2. ASSUME AddFindsId(t)
      PROVE  OneRowPerName' /\ StashedNameIsOffTheList'
  BY <1>2 DEF AddFindsId, AddEnds, OneRowPerName, StashedNameIsOffTheList, Stashed,
              RowsOf, Present
<1>3. ASSUME AddEnds(t)
      PROVE  adding[t].key \in Keys /\ boot = "up" /\ boot' = "up"
  BY <1>3 DEF AddEnds, TypeOK, Folded
<1>4. ASSUME NEW note \in Notes, AddMerges(t, note)
      PROVE  OneRowPerName' /\ StashedNameIsOffTheList'
  <2>1. PICK i \in Active(adding[t].key) :
           items' = [items EXCEPT ![i].note = items[i].note \cup note]
    BY <1>4 DEF AddMerges
  <2>2. i \in Ids /\ items[i] \in Item
    BY <2>1 DEF Active, RowsOf, Present, TypeOK
  <2>3. items'[i] \in Item /\ items'[i].key = items[i].key
    BY <2>1, <2>2 DEF TypeOK, Item, Notes
  <2>4. Present' = Present /\ \A j \in Present : items'[j].key = items[j].key
    BY <2>1, <2>2, <2>3, ListRepoAssumption DEF Present, TypeOK
  <2>5. QED BY <1>3, <1>4, <2>4 DEF AddMerges, OneRowPerName, StashedNameIsOffTheList,
                                    Stashed, RowsOf
<1>5. ASSUME NEW note \in Notes, AddReactivates(t, note)
      PROVE  OneRowPerName' /\ StashedNameIsOffTheList'
  <2> DEFINE k == adding[t].key
             i == Newest(Checked(k))
             row == [items[i] EXCEPT !.status = "active", !.note = items[i].note \cup note]
  <2>1. i \in Checked(k)
    BY <1>5, NewestIsOne DEF AddReactivates, Checked, RowsOf, Present
  <2>2. i \in Ids /\ items[i] \in Item /\ items[i].key = k
    BY <2>1 DEF Checked, RowsOf, Present, TypeOK
  <2>3. row \in Item /\ row.key = k
    BY <2>2 DEF Item, Notes, Statuses
  <2>4. items' = [items EXCEPT ![i] = row]
    BY <1>5 DEF AddReactivates
  <2>5. Present' = Present /\ \A j \in Present : items'[j].key = items[j].key
    BY <2>2, <2>3, <2>4, ListRepoAssumption DEF Present, TypeOK
  <2>6. \A n \in Keys : Stashed(n)' => Stashed(n)
    <3>1. catalog' = Bumped(k) /\ k \in Keys
      BY <1>3, <1>5 DEF AddReactivates
    <3>2. QED BY <3>1, BumpedTyped, PurgedTyped DEF Stashed
  <2>7. QED BY <1>3, <1>5, <2>5, <2>6 DEF AddReactivates, OneRowPerName,
                                          StashedNameIsOffTheList, RowsOf
<1>6. ASSUME NEW i \in Ids, NEW note \in Notes, AddInserts(t, i, note)
      PROVE  OneRowPerName' /\ StashedNameIsOffTheList'
  <2> DEFINE k == adding[t].key
             row == [key |-> k, status |-> "active", note |-> note, icon |-> catalog'[k].icon]
  <2>1. k \in Keys /\ boot = "up" /\ RowsOf(k) = {} /\ i \notin Present
    <3>1. NoRowToReuse(k) /\ i \notin Present
      BY <1>6 DEF AddInserts
    <3>2. \A j \in Present : items[j].status \in Statuses
      BY DEF Present, TypeOK, Item
    <3>3. RowsOf(k) = {}
      BY <3>1, <3>2 DEF NoRowToReuse, Active, Checked, RowsOf, Statuses
    <3>4. QED BY <1>3, <1>6, <3>1, <3>3 DEF AddInserts
  <2>2. catalog' = FiledByBuiltin(Bumped(k), k) /\ items' = [items EXCEPT ![i] = row]
    BY <1>6 DEF AddInserts
  <2>3. items'[i].key = k /\ \A j \in Ids \ {i} : items'[j] = items[j]
    BY <2>2 DEF TypeOK
  <2>4. OneRowPerName'
    BY <2>1, <2>3 DEF OneRowPerName, RowsOf, Present
  <2>5. ASSUME NEW n \in Keys, Stashed(n)'
        PROVE  Stashed(n) /\ n # k
    BY <2>1, <2>2, <2>5, FiledTyped, PurgedTyped DEF Stashed
  <2>6. StashedNameIsOffTheList'
    BY <2>3, <2>5 DEF StashedNameIsOffTheList, RowsOf, Present
  <2>7. QED BY <2>4, <2>6
<1>7. QED BY <1>1, <1>2, <1>4, <1>5, <1>6 DEF AddItem

(* A step that leaves every row's presence and key alone, and stashes      *)
(* nothing, keeps both invariants.                                         *)
LEMMA SameKeysKeepIInv ==
    ASSUME IInv, boot' = boot \/ boot' = "collapse",
           Present' = Present, \A j \in Present : items'[j].key = items[j].key,
           \A n \in Keys : Stashed(n)' => Stashed(n)
    PROVE  OneRowPerName' /\ StashedNameIsOffTheList'
BY DEF IInv, OneRowPerName, StashedNameIsOffTheList, RowsOf

LEMMA ChangeKeepsIInv ==
    ASSUME IInv
    PROVE  /\ \A i \in Ids : ChangeItem(i) => OneRowPerName' /\ StashedNameIsOffTheList'
           /\ \A k \in Keys : ChangeShortcut(k) => OneRowPerName' /\ StashedNameIsOffTheList'
<1> USE DEF IInv
<1>1. ASSUME NEW i \in Ids, NEW status, NEW note, NEW icon, UpdateItem(i, status, note, icon)
      PROVE  OneRowPerName' /\ StashedNameIsOffTheList'
  <2> DEFINE row == [items[i] EXCEPT !.status = status, !.note = note, !.icon = icon]
  <2>1. items[i] \in Item /\ items' = [items EXCEPT ![i] = row]
    BY <1>1 DEF UpdateItem, Present, TypeOK
  <2>2. row.key = items[i].key
    BY <2>1 DEF Item
  <2>3. \A j \in Present' : j \in Present /\ items'[j].key = items[j].key
    BY <1>1, <2>1, <2>2 DEF UpdateItem, Present, TypeOK
  <2>4. QED BY <1>1, <2>3 DEF UpdateItem, OneRowPerName, StashedNameIsOffTheList,
                              Stashed, RowsOf
<1>2. ASSUME NEW i \in Ids, DeleteItem(i)
      PROVE  OneRowPerName' /\ StashedNameIsOffTheList'
  <2>1. PICK k \in Keys : k = items[i].key /\ i \in Present /\ boot = "up"
    BY <1>2 DEF DeleteItem, Present, TypeOK, Item
  <2>2. Present' = Present \ {i} /\ \A j \in Present' : items'[j] = items[j]
    BY <1>2 DEF DeleteItem, Present, TypeOK
  <2>3. OneRowPerName'
    BY <1>2, <2>2 DEF DeleteItem, OneRowPerName
  <2>4. RowsOf(k)' = {}
    BY <2>1, <2>2 DEF OneRowPerName, RowsOf
  <2>5. ASSUME NEW n \in Keys \ {k}, Stashed(n)'
        PROVE  Stashed(n)
    <3>1. catalog'[n] = Purged[n]
      BY <1>2, <2>1, PurgedTyped DEF DeleteItem, Retired
    <3>2. QED BY <2>5, <3>1, PurgedTyped DEF Stashed
  <2>6. StashedNameIsOffTheList'
    BY <2>2, <2>4, <2>5 DEF StashedNameIsOffTheList, RowsOf
  <2>7. QED BY <2>3, <2>6
<1>3. ASSUME NEW k \in Keys, ForgetCatalog(k)
      PROVE  OneRowPerName' /\ StashedNameIsOffTheList'
  <2>1. \A n \in Keys : Stashed(n)' => Stashed(n)
    BY <1>3 DEF ForgetCatalog, Stashed, TypeOK
  <2>2. QED BY <1>3, <2>1, SameKeysKeepIInv DEF ForgetCatalog, Present
<1>4. ASSUME NEW k \in Keys, NEW icon \in Icons \cup {NoIcon}, SetEnrichment(k, icon)
      PROVE  OneRowPerName' /\ StashedNameIsOffTheList'
  <2>1. catalog[k] \in Shortcut /\ catalog[k] # NoRow
    BY <1>4 DEF SetEnrichment, TypeOK
  <2>2. [catalog[k] EXCEPT !.icon = icon].retired = catalog[k].retired
    BY <2>1 DEF Shortcut
  <2>3. \A n \in Keys : Stashed(n)' => Stashed(n)
    BY <1>4, <2>1, <2>2 DEF SetEnrichment, Stashed, TypeOK
  <2>4. QED BY <1>4, <2>3, SameKeysKeepIInv DEF SetEnrichment, Present
<1>5. QED BY <1>1, <1>2, <1>3, <1>4 DEF ChangeItem, ChangeShortcut, PatchItem, FileItem

LEMMA StartUpKeepsIInv ==
    ASSUME IInv, CollapseDuplicates \/ BuiltinMapRefile \/ Restart
    PROVE  OneRowPerName' /\ StashedNameIsOffTheList'
<1> USE DEF IInv
<1>1. CASE CollapseDuplicates
  <2>1. ASSUME NEW i \in Present'
        PROVE  i \in Present /\ i = Keeper(items[i].key) /\ items'[i].key = items[i].key
    BY <1>1, <2>1 DEF CollapseDuplicates, Present, TypeOK, Item
  <2>2. QED BY <1>1, <2>1 DEF CollapseDuplicates, OneRowPerName, StashedNameIsOffTheList,
                              Stashed, RowsOf
<1>2. CASE BuiltinMapRefile
  <2>1. ASSUME NEW i \in Present'
        PROVE  i \in Present /\ items'[i].key = items[i].key
    <3>1. i \in Ids /\ items'[i] # NoRow
      BY <2>1 DEF Present
    <3>2. i \in Present
      BY <1>2, <3>1 DEF BuiltinMapRefile, Present
    <3>3. items[i] \in Item
      BY <3>2 DEF Present, TypeOK
    <3>4. QED BY <1>2, <3>1, <3>2, <3>3 DEF BuiltinMapRefile, Item
  <2>2. ASSUME NEW k \in Keys, Stashed(k)'
        PROVE  Stashed(k)
    <3>1. CASE catalog[k] = NoRow
      BY <1>2, <2>2, <3>1 DEF BuiltinMapRefile, Stashed
    <3>2. CASE catalog[k] # NoRow
      <4>1. catalog[k] \in Shortcut
        BY <3>2 DEF TypeOK
      <4>2. catalog'[k].retired = catalog[k].retired
        BY <1>2, <3>2, <4>1 DEF BuiltinMapRefile, Shortcut
      <4>3. QED BY <2>2, <3>2, <4>2 DEF Stashed
    <3>3. QED BY <3>1, <3>2
  <2>3. boot = "refile"
    BY <1>2 DEF BuiltinMapRefile
  <2>4. QED BY <2>1, <2>2, <2>3 DEF OneRowPerName, StashedNameIsOffTheList, RowsOf
<1>3. CASE Restart
  BY <1>3 DEF Restart, OneRowPerName, StashedNameIsOffTheList, Stashed, RowsOf, Present
<1>4. QED BY <1>1, <1>2, <1>3

LEMMA IInvStep == IInv /\ [Next]_vars => IInv'
<1> SUFFICES ASSUME IInv, [Next]_vars
             PROVE  OneRowPerName' /\ StashedNameIsOffTheList'
  BY TypeStep DEF IInv
<1>1. CASE ClearChecked
  <2>1. Present' \subseteq Present /\ \A j \in Present' : items'[j] = items[j]
    BY <1>1 DEF ClearChecked, Present
  <2>2. QED BY <1>1, <2>1 DEF ClearChecked, IInv, OneRowPerName, StashedNameIsOffTheList,
                              Stashed, RowsOf
<1>2. CASE Tick \/ UNCHANGED vars
  BY <1>2 DEF Tick, vars, IInv, OneRowPerName, StashedNameIsOffTheList, Stashed, RowsOf, Present
<1>3. QED BY <1>1, <1>2, AddKeepsIInv, ChangeKeepsIInv, StartUpKeepsIInv DEF Next

LEMMA IInvHolds == Spec => []IInv
<1>1. Init => IInv
  <2>1. ASSUME Init
        PROVE  \A k \in Keys : ~Stashed(k)
    BY <2>1 DEF Init, Stashed, LegacyShortcut
  <2>2. LegacyShortcut \subseteq Shortcut
    BY ListRepoAssumption DEF LegacyShortcut, Shortcut
  <2>3. Init => TypeOK
    BY <2>2 DEF Init, TypeOK
  <2>4. QED BY <2>1, <2>3 DEF Init, IInv, OneRowPerName, StashedNameIsOffTheList
<1>2. QED BY <1>1, IInvStep, PTL DEF Spec

(* No name is ever on the list twice, whatever races or restarts.          *)
THEOREM NameIsListedOnce == Spec => []OneRowPerName
BY IInvHolds, PTL DEF IInv

(* Nothing on the list has its shortcut hidden in the stash.               *)
THEOREM StashIsOffTheList == Spec => []StashedNameIsOffTheList
BY IInvHolds, PTL DEF IInv

-----------------------------------------------------------------------------
(* The stash.                                                              *)

(* Only an add brings a stashed shortcut back.                             *)
LEMMA OnlyAddsRevive ==
    ASSUME TypeOK, [Next]_vars, NEW k \in Keys, Stashed(k), Live(k)'
    PROVE  \E t \in Threads, note \in Notes :
              \/ AddReactivates(t, note)
              \/ \E i \in Ids : AddInserts(t, i, note)
<1>1. catalog[k] \in Shortcut
  BY DEF TypeOK, Stashed
<1>2. catalog'[k] # catalog[k]
  BY DEF Stashed, Live
<1>3. ASSUME NEW t \in Threads, AddItem(t)
      PROVE  \E note \in Notes : \/ AddReactivates(t, note)
                                 \/ \E i \in Ids : AddInserts(t, i, note)
  BY <1>2, <1>3 DEF AddItem, AddStart, AddFindsId, AddMerges
<1>4. ASSUME NEW i \in Ids, ChangeItem(i)
      PROVE  FALSE
  <2>1. CASE DeleteItem(i)
    <3>1. \/ catalog'[k] = Purged[k]
          \/ catalog'[k] = NoRow
          \/ Purged[k] # NoRow /\ catalog'[k] = [Purged[k] EXCEPT !.retired = now]
      BY <2>1, PurgedTyped DEF DeleteItem, Retired
    <3>2. Purged[k] = catalog[k] \/ Purged[k] = NoRow
      BY PurgedTyped
    <3>3. catalog'[k] = [catalog[k] EXCEPT !.retired = now] => catalog'[k].retired = now
      BY <1>1 DEF Shortcut
    <3>4. now # Null
      BY DEF TypeOK, Null
    <3>5. QED BY <1>2, <3>1, <3>2, <3>3, <3>4 DEF Live
  <2>2. QED BY <1>2, <1>4, <2>1 DEF ChangeItem, PatchItem, FileItem, UpdateItem
<1>5. ASSUME NEW n \in Keys, ChangeShortcut(n)
      PROVE  FALSE
  <2>1. CASE ForgetCatalog(n)
    BY <1>2, <2>1 DEF ForgetCatalog, Live, TypeOK
  <2>2. ASSUME NEW icon \in Icons \cup {NoIcon}, SetEnrichment(n, icon)
        PROVE  FALSE
    <3>1. catalog'[k] = [catalog[k] EXCEPT !.icon = icon]
      BY <1>2, <2>2 DEF SetEnrichment, TypeOK
    <3>2. catalog'[k].retired = catalog[k].retired
      BY <1>1, <3>1 DEF Shortcut
    <3>3. QED BY <3>2 DEF Stashed, Live
  <2>3. QED BY <1>5, <2>1, <2>2 DEF ChangeShortcut
<1>6. CASE BuiltinMapRefile
  <2>1. catalog'[k] = [catalog[k] EXCEPT !.icon = BuiltinIcon[k]]
    BY <1>2, <1>6 DEF BuiltinMapRefile
  <2>2. catalog'[k].retired = catalog[k].retired
    BY <1>1, <2>1 DEF Shortcut
  <2>3. QED BY <2>2 DEF Stashed, Live
<1>7. QED
  BY <1>2, <1>3, <1>4, <1>5, <1>6
     DEF Next, ClearChecked, CollapseDuplicates, Restart, Tick, vars

LEMMA RevivedWhole ==
    ASSUME TypeOK, NEW key \in Keys, NEW k \in Keys, Stashed(k),
           \/ catalog' = Bumped(key)
           \/ catalog' = FiledByBuiltin(Bumped(key), key),
           Live(k)'
    PROVE  IF now - catalog[k].retired <= Window
             THEN /\ catalog'[k].count = catalog[k].count + 1
                  /\ catalog[k].icon # NoIcon => catalog'[k].icon = catalog[k].icon
             ELSE catalog'[k].count = 1
<1>1. catalog[k] \in Shortcut /\ catalog[k].retired \in Nat
  BY DEF TypeOK, Stashed, Shortcut
<1>2. key = k
  <2>1. SUFFICES ASSUME key # k
                 PROVE  FALSE
    OBVIOUS
  <2>2. catalog'[k] = Purged[k]
    BY <2>1, BumpedTyped, FiledTyped
  <2>3. QED BY <2>2, PurgedTyped DEF Stashed, Live
<1>3. Purged[k] = IF now - catalog[k].retired <= Window THEN catalog[k] ELSE NoRow
  BY <1>1, ListRepoAssumption DEF Purged, Expired, Stashed, TypeOK
<1>4. Bumped(k)[k] = Counted(Purged[k]) /\ Bumped(k)[k] \in Shortcut
  BY PurgedTyped, BumpedTyped DEF Bumped
<1>5. /\ catalog'[k].count = Counted(Purged[k]).count
      /\ Counted(Purged[k]).icon # NoIcon => catalog'[k].icon = Counted(Purged[k]).icon
  <2>1. CASE catalog' = Bumped(key)
    BY <1>2, <1>4, <2>1
  <2>2. CASE catalog' = FiledByBuiltin(Bumped(key), key)
    <3> DEFINE row == Bumped(k)[k]
               icon == IF row.icon = NoIcon THEN BuiltinIcon[k] ELSE row.icon
    <3>1. catalog'[k] = [row EXCEPT !.icon = icon]
      BY <1>2, <2>2, BumpedTyped DEF FiledByBuiltin
    <3>2. catalog'[k].count = row.count /\ catalog'[k].icon = icon
      BY <1>4, <3>1 DEF Shortcut
    <3>3. QED BY <1>4, <3>2
  <2>3. QED BY <2>1, <2>2
<1>6. CASE now - catalog[k].retired <= Window
  <2>1. Counted(Purged[k]) = [catalog[k] EXCEPT !.count = catalog[k].count + 1, !.retired = Null]
    BY <1>3, <1>6 DEF Counted, Stashed
  <2>2. /\ Counted(Purged[k]).count = catalog[k].count + 1
        /\ Counted(Purged[k]).icon = catalog[k].icon
    BY <1>1, <2>1 DEF Shortcut
  <2>3. QED BY <1>5, <1>6, <2>2
<1>7. CASE ~(now - catalog[k].retired <= Window)
  BY <1>3, <1>5, <1>7 DEF Counted
<1>8. QED BY <1>6, <1>7

(* A delete inside the window is undone whole; past it, it is final.       *)
THEOREM DeleteUndoneWholeOrFinal == Spec => UndoneWholeOrFinal
<1>1. ASSUME TypeOK, [Next]_vars, NEW k \in Keys, Stashed(k), Live(k)'
      PROVE  RevivedWell(k)
  <2>1. PICK t \in Threads, note \in Notes :
              \/ AddReactivates(t, note)
              \/ \E i \in Ids : AddInserts(t, i, note)
    BY <1>1, OnlyAddsRevive
  <2>2. adding[t].key \in Keys
    BY <1>1, <2>1 DEF AddReactivates, AddInserts, AddEnds, TypeOK, Folded
  <2>3. \/ catalog' = Bumped(adding[t].key)
        \/ catalog' = FiledByBuiltin(Bumped(adding[t].key), adding[t].key)
    BY <2>1 DEF AddReactivates, AddInserts
  <2>4. QED BY <1>1, <2>2, <2>3, RevivedWhole DEF RevivedWell
<1>2. TypeOK /\ [Next]_vars => [\A k \in Keys : RevivedWell(k)]_vars
  BY <1>1 DEF RevivedWell
<1>3. QED BY <1>2, TypeCorrect, PTL DEF Spec, UndoneWholeOrFinal
-----------------------------------------------------------------------------
(* Learned once.                                                           *)

(* Counting an add of a name that has a shortcut keeps its icon.           *)
LEMMA CountedKeepsIcon ==
    ASSUME NEW old \in Shortcut, old # NoRow
    PROVE  Counted(old).icon = old.icon
BY DEF Counted, Shortcut

LEMMA BumpedKeepsIcon ==
    ASSUME TypeOK, NEW key \in Keys, NEW k \in Keys, ~Expired(k),
           catalog[k] # NoRow, catalog[k].icon # NoIcon
    PROVE  /\ Bumped(key)[k].icon = catalog[k].icon
           /\ FiledByBuiltin(Bumped(key), key)[k].icon = catalog[k].icon
<1>1. catalog[k] \in Shortcut /\ Purged[k] = catalog[k]
  BY DEF TypeOK, Purged
<1>2. Bumped(key)[k].icon = catalog[k].icon
  <2>1. CASE k = key
    <3>1. Bumped(key)[k] = Counted(catalog[k])
      BY <1>1, <2>1, PurgedTyped DEF Bumped
    <3>2. QED BY <1>1, <3>1, CountedKeepsIcon
  <2>2. CASE k # key
    BY <1>1, <2>2, BumpedTyped
  <2>3. QED BY <2>1, <2>2
<1>3. FiledByBuiltin(Bumped(key), key)[k].icon = catalog[k].icon
  <2>1. CASE k = key
    <3> DEFINE row == Bumped(key)[key]
    <3>1. row \in Shortcut /\ row.icon = catalog[k].icon /\ row.icon # NoIcon
      BY <1>2, <2>1, BumpedTyped
    <3>2. FiledByBuiltin(Bumped(key), key)[key] = [row EXCEPT !.icon = row.icon]
      BY <3>1, BumpedTyped DEF FiledByBuiltin
    <3>3. QED BY <2>1, <3>1, <3>2 DEF Shortcut
  <2>2. CASE k # key
    BY <1>1, <2>2, FiledTyped
  <2>3. QED BY <2>1, <2>2
<1>4. QED BY <1>2, <1>3

(* What a delete leaves of a shortcut that had an icon keeps it.           *)
LEMMA RetiredKeepsIcon ==
    ASSUME TypeOK, NEW key \in Keys, NEW k \in Keys, ~Expired(k), catalog[k] # NoRow
    PROVE  Retired(Purged, key)[k].icon = catalog[k].icon
<1>1. catalog[k] \in Shortcut /\ Purged[k] = catalog[k]
  BY DEF TypeOK, Purged
<1>2. CASE k = key
  <2>1. Retired(Purged, key)[k] = [catalog[k] EXCEPT !.retired = now]
    BY <1>1, <1>2, PurgedTyped DEF Retired
  <2>2. QED BY <1>1, <2>1 DEF Shortcut
<1>3. CASE k # key
  BY <1>1, <1>3, PurgedTyped DEF Retired
<1>4. QED BY <1>2, <1>3

LEMMA IconStep ==
    ASSUME TypeOK, [Next]_vars, NEW k \in Keys, boot = "up", ~Expired(k),
           catalog[k] # NoRow, catalog'[k] # NoRow, catalog[k].icon # NoIcon
    PROVE  catalog'[k].icon = catalog[k].icon
<1>1. CASE catalog'[k] = catalog[k]
  BY <1>1
<1>2. ASSUME NEW t \in Threads, AddItem(t), catalog'[k] # catalog[k]
      PROVE  catalog'[k].icon = catalog[k].icon
  <2>1. PICK note \in Notes : \/ AddReactivates(t, note)
                              \/ \E i \in Ids : AddInserts(t, i, note)
    BY <1>2 DEF AddItem, AddStart, AddFindsId, AddMerges
  <2>2. adding[t].key \in Keys
    BY <2>1 DEF AddReactivates, AddInserts, AddEnds, TypeOK, Folded
  <2>3. \/ catalog' = Bumped(adding[t].key)
        \/ catalog' = FiledByBuiltin(Bumped(adding[t].key), adding[t].key)
    BY <2>1 DEF AddReactivates, AddInserts
  <2>4. QED BY <2>2, <2>3, BumpedKeepsIcon
<1>3. ASSUME NEW i \in Ids, ChangeItem(i), catalog'[k] # catalog[k]
      PROVE  catalog'[k].icon = catalog[k].icon
  <2>1. DeleteItem(i)
    BY <1>3 DEF ChangeItem, PatchItem, FileItem, UpdateItem
  <2>2. items[i].key \in Keys /\ catalog' = Retired(Purged, items[i].key)
    BY <2>1 DEF DeleteItem, Present, TypeOK, Item
  <2>3. QED BY <2>2, RetiredKeepsIcon
<1>4. ASSUME NEW n \in Keys, ChangeShortcut(n), catalog'[k] # catalog[k]
      PROVE  FALSE
  BY <1>4 DEF ChangeShortcut, ForgetCatalog, SetEnrichment, TypeOK
<1>5. QED
  BY <1>1, <1>2, <1>3, <1>4
     DEF Next, ClearChecked, CollapseDuplicates, BuiltinMapRefile, Restart, Tick, vars

(* An icon a name has is never replaced while the server is up.            *)
THEOREM IconsAreLearnedOnce == Spec => LearnedOnce
<1>1. TypeOK /\ [Next]_vars =>
        [\A k \in Keys :
           /\ boot = "up" /\ ~Expired(k)
           /\ catalog[k] # NoRow /\ catalog'[k] # NoRow
           /\ catalog[k].icon # NoIcon
           => catalog'[k].icon = catalog[k].icon]_vars
  BY IconStep
<1>2. QED BY <1>1, TypeCorrect, PTL DEF Spec, LearnedOnce

-----------------------------------------------------------------------------
(* A start-up costs nothing.                                               *)

(* The row the collapse keeps is one of the key's, and on the list if any  *)
(* of them is.                                                             *)
LEMMA KeeperIsOne ==
    ASSUME NEW k \in Keys, RowsOf(k) # {}
    PROVE  /\ Keeper(k) \in RowsOf(k)
           /\ Active(k) # {} => Keeper(k) \in Active(k)
<1>1. RowsOf(k) \in SUBSET Ids /\ Active(k) \in SUBSET Ids /\ Active(k) \subseteq RowsOf(k)
  BY DEF RowsOf, Active, Present
<1>2. QED BY <1>1, NewestIsOne DEF Keeper

LEMMA CollapsedRows ==
    ASSUME TypeOK, CollapseDuplicates, NEW k \in Keys, RowsOf(k) # {}
    PROVE  /\ RowsOf(k)' = {Keeper(k)}
           /\ items'[Keeper(k)].status = items[Keeper(k)].status
           /\ items'[Keeper(k)].note = UNION {items[j].note : j \in RowsOf(k)}
<1> DEFINE all(n) == UNION {items[j].note : j \in RowsOf(n)}
<1>1. ASSUME NEW i \in Ids
      PROVE  items'[i] = IF i \notin Present THEN NoRow
                         ELSE IF i # Keeper(items[i].key) THEN NoRow
                         ELSE [items[i] EXCEPT !.note = all(items[i].key)]
  BY <1>1 DEF CollapseDuplicates
<1> HIDE DEF all
<1>2. ASSUME NEW i \in Present
      PROVE  /\ items[i] \in Item /\ i \in Ids
             /\ [items[i] EXCEPT !.note = all(items[i].key)].key = items[i].key
             /\ [items[i] EXCEPT !.note = all(items[i].key)].status = items[i].status
             /\ [items[i] EXCEPT !.note = all(items[i].key)].note = all(items[i].key)
  <2>1. items[i] \in Item /\ i \in Ids
    BY <1>2 DEF Present, TypeOK
  <2>2. QED BY <2>1 DEF Item
<1>3. Keeper(k) \in RowsOf(k) /\ Keeper(k) \in Present /\ items[Keeper(k)].key = k
  BY KeeperIsOne DEF RowsOf
<1>4. /\ items'[Keeper(k)] # NoRow
      /\ items'[Keeper(k)].key = k
      /\ items'[Keeper(k)].status = items[Keeper(k)].status
      /\ items'[Keeper(k)].note = all(k)
  <2>1. items'[Keeper(k)] = [items[Keeper(k)] EXCEPT !.note = all(k)]
    BY <1>1, <1>2, <1>3
  <2>2. all(k) \in Notes
    <3>1. \A j \in RowsOf(k) : items[j].note \in Notes
      BY DEF RowsOf, Present, TypeOK, Item
    <3>2. QED BY <3>1 DEF all, Notes
  <2>3. items'[Keeper(k)] \in Item
    BY <1>2, <1>3, <2>1, <2>2 DEF Item
  <2>4. QED BY <1>2, <1>3, <2>1, <2>3, ListRepoAssumption
<1>5. ASSUME NEW i \in Ids, items'[i] # NoRow, items'[i].key = k
      PROVE  i = Keeper(k)
  <2>1. i \in Present /\ i = Keeper(items[i].key)
    BY <1>1, <1>5
  <2>2. items'[i].key = items[i].key
    BY <1>1, <1>2, <2>1
  <2>3. QED BY <1>5, <2>1, <2>2
<1>6. RowsOf(k)' = {i \in Ids : items'[i] # NoRow /\ items'[i].key = k}
  BY DEF RowsOf, Present
<1>7. RowsOf(k)' = {Keeper(k)}
  BY <1>2, <1>3, <1>4, <1>5, <1>6
<1>8. QED BY <1>4, <1>7 DEF all

(* What a key's rows say when every row keeps its key, status and note.    *)
LEMMA SameRows ==
    ASSUME NEW k \in Keys, Present' = Present,
           \A i \in Present : /\ items'[i].key = items[i].key
                              /\ items'[i].status = items[i].status
    PROVE  /\ RowsOf(k)' = RowsOf(k)
           /\ Active(k)' = Active(k)
           /\ Checked(k)' = Checked(k)
<1>1. RowsOf(k)' = RowsOf(k) /\ RowsOf(k) \subseteq Present
  BY DEF RowsOf
<1>2. Active(k)' = Active(k)
  BY <1>1 DEF Active
<1>3. Checked(k)' = Checked(k)
  BY <1>1 DEF Checked
<1>4. QED BY <1>1, <1>2, <1>3

LEMMA RefiledRows ==
    ASSUME TypeOK, BuiltinMapRefile
    PROVE  /\ Present' = Present
           /\ \A i \in Present : /\ items'[i].key = items[i].key
                                 /\ items'[i].status = items[i].status
                                 /\ items'[i].note = items[i].note
<1>1. PICK refiled \in SUBSET {i \in Present : items[i].icon = NoIcon} :
        items' = [i \in Ids |-> IF i \in refiled
                                  THEN [items[i] EXCEPT !.icon = BuiltinIcon[items[i].key]]
                                  ELSE items[i]]
  BY DEF BuiltinMapRefile
<1>2. ASSUME NEW i \in Present
      PROVE  /\ i \in Ids /\ items[i] \in Item
             /\ [items[i] EXCEPT !.icon = BuiltinIcon[items[i].key]] \in Item
  BY <1>2, ListRepoAssumption DEF Present, TypeOK, Item
<1>3. ASSUME NEW i \in Present
      PROVE  /\ items'[i].key = items[i].key
             /\ items'[i].status = items[i].status
             /\ items'[i].note = items[i].note
             /\ items'[i] # NoRow
  <2>1. i \in Ids /\ items[i] \in Item /\ items[i] # NoRow
    BY <1>2 DEF Present
  <2>2. CASE i \in refiled
    <3>1. items'[i] = [items[i] EXCEPT !.icon = BuiltinIcon[items[i].key]]
      BY <1>1, <2>1, <2>2
    <3>2. items'[i] \in Item
      BY <1>2, <3>1
    <3>3. items'[i] # NoRow
      BY <3>2, ListRepoAssumption
    <3>4. QED BY <2>1, <3>1, <3>3 DEF Item
  <2>3. CASE i \notin refiled
    BY <1>1, <2>1, <2>3
  <2>4. QED BY <2>2, <2>3
<1>4. Present' = Present
  <2>1. \A i \in Ids : items'[i] # NoRow => i \in Present
    BY <1>1 DEF Present
  <2>2. QED BY <1>3, <2>1 DEF Present
<1>5. QED BY <1>3, <1>4

Kept(k) ==
    /\ RowsOf(k) # {} => RowsOf(k)' # {}
    /\ Active(k) # {} <=> Active(k)' # {}
    /\ UNION {items'[i].note : i \in RowsOf(k)'} = UNION {items[i].note : i \in RowsOf(k)}

LEMMA CollapseKeeps ==
    ASSUME TypeOK, CollapseDuplicates, NEW k \in Keys
    PROVE  Kept(k)
<1>1. CASE RowsOf(k) = {}
  <2>1. RowsOf(k)' = {}
    <3>1. ASSUME NEW i \in Ids, items'[i] # NoRow
          PROVE  i \in Present /\ items'[i].key = items[i].key
      BY <3>1 DEF CollapseDuplicates, Present, TypeOK, Item
    <3>2. QED BY <1>1, <3>1 DEF RowsOf, Present
  <2>2. Active(k) = {} /\ Active(k)' = {}
    BY <1>1, <2>1 DEF Active
  <2>3. {items'[i].note : i \in RowsOf(k)'} = {} /\ {items[i].note : i \in RowsOf(k)} = {}
    BY <1>1, <2>1
  <2>4. QED BY <1>1, <2>2, <2>3 DEF Kept
<1>2. CASE RowsOf(k) # {}
  <2>1. /\ RowsOf(k)' = {Keeper(k)}
        /\ items'[Keeper(k)].status = items[Keeper(k)].status
        /\ items'[Keeper(k)].note = UNION {items[j].note : j \in RowsOf(k)}
    BY <1>2, CollapsedRows
  <2>2. Active(k) # {} <=> Active(k)' # {}
    <3>1. Active(k)' = {i \in {Keeper(k)} : items'[i].status = "active"}
      BY <2>1 DEF Active
    <3>2. Keeper(k) \in RowsOf(k) /\ (Active(k) # {} => Keeper(k) \in Active(k))
      BY <1>2, KeeperIsOne
    <3>3. QED BY <2>1, <3>1, <3>2 DEF Active
  <2>3. UNION {items'[i].note : i \in RowsOf(k)'} = UNION {items[i].note : i \in RowsOf(k)}
    <3>1. {items'[i].note : i \in RowsOf(k)'} = {items'[Keeper(k)].note}
      BY <2>1
    <3>2. UNION {items'[Keeper(k)].note} = items'[Keeper(k)].note
      OBVIOUS
    <3>3. QED BY <2>1, <3>1, <3>2
  <2>4. QED BY <2>1, <2>2, <2>3 DEF Kept
<1>3. QED BY <1>1, <1>2

LEMMA RefileKeeps ==
    ASSUME TypeOK, BuiltinMapRefile, NEW k \in Keys
    PROVE  Kept(k)
<1>1. RowsOf(k)' = RowsOf(k) /\ Active(k)' = Active(k)
  BY RefiledRows, SameRows
<1>2. \A i \in RowsOf(k) : items'[i].note = items[i].note
  BY RefiledRows DEF RowsOf
<1>3. QED BY <1>1, <1>2 DEF Kept

(* Until it is up again, the server loses no name and no note.             *)
THEOREM StartUpIsFree == Spec => StartUpKeepsNamesAndNotes
<1>1. ASSUME TypeOK, [Next]_vars, boot # "up", NEW k \in Keys
      PROVE  Kept(k)
  <2>1. CASE items' = items
    <3>1. RowsOf(k)' = RowsOf(k) /\ Active(k)' = Active(k)
      BY <2>1 DEF RowsOf, Active, Present
    <3>2. QED BY <2>1, <3>1 DEF Kept
  <2>2. CASE CollapseDuplicates
    BY <1>1, <2>2, CollapseKeeps
  <2>3. CASE BuiltinMapRefile
    BY <1>1, <2>3, RefileKeeps
  <2>4. CASE items' # items
    <3>1. ASSUME NEW t \in Threads, AddItem(t)
          PROVE  FALSE
      BY <1>1, <3>1 DEF AddItem, AddStart, AddFindsId, AddMerges, AddReactivates, AddInserts,
                        AddEnds
    <3>2. ASSUME NEW i \in Ids, ChangeItem(i)
          PROVE  FALSE
      BY <1>1, <3>2 DEF ChangeItem, PatchItem, FileItem, UpdateItem, DeleteItem
    <3>3. ASSUME NEW n \in Keys, ChangeShortcut(n)
          PROVE  FALSE
      BY <1>1, <3>3 DEF ChangeShortcut, ForgetCatalog, SetEnrichment
    <3>4. QED
      BY <1>1, <2>2, <2>3, <2>4, <3>1, <3>2, <3>3 DEF Next, ClearChecked, Restart, Tick, vars
  <2>5. QED BY <2>1, <2>4
<1>2. TypeOK /\ [Next]_vars =>
        [boot # "up" =>
           \A k \in Keys :
             /\ RowsOf(k) # {} => RowsOf(k)' # {}
             /\ Active(k) # {} <=> Active(k)' # {}
             /\ UNION {items'[i].note : i \in RowsOf(k)'}
                  = UNION {items[i].note : i \in RowsOf(k)}]_vars
  BY <1>1 DEF Kept
<1>3. QED BY <1>2, TypeCorrect, PTL DEF Spec, StartUpKeepsNamesAndNotes

-----------------------------------------------------------------------------
(* The promise.                                                            *)

Places == {"nowhere", "list", "basket"}
Offers == {"none", "offered", "stashed"}

LEMMA ViewTyped == Place \in [Keys -> Places] /\ Offer \in [Keys -> Offers]
BY DEF Place, Offer, Places, Offers

(* Where a key is, read off its rows, and what it offers, read off its     *)
(* catalogue row, before and after a step.                                 *)
LEMMA PlaceRead ==
    ASSUME NEW k \in Keys
    PROVE  /\ Place[k] = (IF Active(k) # {} THEN "list"
                          ELSE IF Checked(k) # {} THEN "basket" ELSE "nowhere")
           /\ Place'[k] = (IF Active(k)' # {} THEN "list"
                           ELSE IF Checked(k)' # {} THEN "basket" ELSE "nowhere")
BY DEF Place

LEMMA OfferRead ==
    ASSUME NEW k \in Keys
    PROVE  /\ Offer[k] = (IF catalog[k] = NoRow THEN "none"
                          ELSE IF catalog[k].retired = Null THEN "offered" ELSE "stashed")
           /\ Offer'[k] = (IF catalog'[k] = NoRow THEN "none"
                           ELSE IF catalog'[k].retired = Null THEN "offered" ELSE "stashed")
BY DEF Offer, Live

(* A step that changes neither view is no step of the promise.             *)
LEMMA SamePlaces ==
    ASSUME \A k \in Keys : /\ Active(k)' # {} <=> Active(k) # {}
                           /\ Checked(k)' # {} <=> Checked(k) # {}
    PROVE  Place' = Place
BY DEF Place

LEMMA SameOffers ==
    ASSUME \A k \in Keys : /\ catalog'[k] = NoRow <=> catalog[k] = NoRow
                           /\ catalog[k] # NoRow => catalog'[k].retired = catalog[k].retired
    PROVE  Offer' = Offer
BY DEF Offer, Live

(* One row a name: where it is, is its one row's status.                   *)
LEMMA OneRowPlace ==
    ASSUME TypeOK, OneRowPerName, boot # "collapse", NEW i \in Present
    PROVE  /\ items[i].key \in Keys /\ RowsOf(items[i].key) = {i}
           /\ Place[items[i].key] = (IF items[i].status = "active" THEN "list" ELSE "basket")
<1>1. items[i] \in Item /\ i \in Ids
  BY DEF Present, TypeOK
<1>2. items[i].key \in Keys /\ items[i].status \in {"active", "checked"}
  BY <1>1 DEF Item, Statuses
<1>3. RowsOf(items[i].key) = {i}
  BY DEF RowsOf, OneRowPerName
<1>4. /\ items[i].status = "active" => Active(items[i].key) = {i}
      /\ items[i].status = "checked" => Active(items[i].key) = {} /\ Checked(items[i].key) = {i}
  BY <1>3 DEF Active, Checked
<1>5. QED BY <1>2, <1>3, <1>4, PlaceRead

(* The purge takes shortcuts that are stashed, and an add then offers one. *)
LEMMA PurgeLapses ==
    ASSUME TypeOK
    PROVE  LET kept == [k \in Keys |-> IF Purged[k] = NoRow THEN "none" ELSE Offer[k]]
           IN kept \in [Keys -> Offers] /\ Promise!StashesMayLapse(kept)
<1> DEFINE kept == [k \in Keys |-> IF Purged[k] = NoRow THEN "none" ELSE Offer[k]]
<1>1. kept \in [Keys -> Offers]
  BY ViewTyped DEF Offers
<1>2. ASSUME NEW k \in Keys
      PROVE  kept[k] = Offer[k] \/ (Offer[k] = "stashed" /\ kept[k] = "none")
  <2>1. Purged[k] = catalog[k] \/ (Stashed(k) /\ Purged[k] = NoRow)
    BY PurgedTyped
  <2>2. CASE Purged[k] = catalog[k]
    BY <2>2, OfferRead
  <2>3. CASE Stashed(k) /\ Purged[k] = NoRow
    BY <2>3, OfferRead DEF Stashed
  <2>4. QED BY <2>1, <2>2, <2>3
<1>3. Promise!StashesMayLapse(kept)
  BY <1>2 DEF Promise!StashesMayLapse
<1>4. QED BY <1>1, <1>3

LEMMA AddOffers ==
    ASSUME TypeOK, NEW key \in Keys,
           \/ catalog' = Bumped(key)
           \/ catalog' = FiledByBuiltin(Bumped(key), key)
    PROVE  \E kept \in [Keys -> Offers] :
              /\ Promise!StashesMayLapse(kept)
              /\ Offer' = [kept EXCEPT ![key] = "offered"]
<1> DEFINE kept == [k \in Keys |-> IF Purged[k] = NoRow THEN "none" ELSE Offer[k]]
<1>1. kept \in [Keys -> Offers] /\ Promise!StashesMayLapse(kept)
  BY PurgeLapses
<1>2. /\ catalog'[key] \in Shortcut /\ catalog'[key].retired = Null
      /\ \A k \in Keys \ {key} : catalog'[k] = Purged[k]
  BY BumpedTyped, FiledTyped
<1>3. Offer'[key] = "offered"
  BY <1>2, OfferRead, ListRepoAssumption
<1>4. ASSUME NEW k \in Keys \ {key}
      PROVE  Offer'[k] = kept[k]
  <2>1. catalog'[k] = Purged[k]
    BY <1>2
  <2>2. Purged[k] = catalog[k] \/ Purged[k] = NoRow
    BY PurgedTyped
  <2>3. QED BY <2>1, <2>2, OfferRead
<1>5. Offer' \in [Keys -> Offers]
  BY ViewTyped DEF Offer, Offers
<1>6. Offer' = [kept EXCEPT ![key] = "offered"]
  <2> HIDE DEF kept
  <2>1. QED BY <1>1, <1>3, <1>4, <1>5
<1>7. QED BY <1>1, <1>6

LEMMA DeleteStashes ==
    ASSUME TypeOK, NEW key \in Keys, catalog' = Retired(Purged, key)
    PROVE  \E kept \in [Keys -> Offers] :
              /\ Promise!StashesMayLapse(kept)
              /\ Offer' = [kept EXCEPT ![key] = IF @ = "none" THEN "none" ELSE "stashed"]
<1> DEFINE kept == [k \in Keys |-> IF Purged[k] = NoRow THEN "none" ELSE Offer[k]]
<1>1. kept \in [Keys -> Offers] /\ Promise!StashesMayLapse(kept)
  BY PurgeLapses
<1>2. \A k \in Keys \ {key} : catalog'[k] = Purged[k]
  BY PurgedTyped DEF Retired
<1>3. Offer'[key] = IF kept[key] = "none" THEN "none" ELSE "stashed"
  <2>1. CASE Purged[key] = NoRow
    <3>1. catalog'[key] = NoRow
      BY <2>1, PurgedTyped DEF Retired
    <3>2. QED BY <2>1, <3>1, OfferRead
  <2>2. CASE Purged[key] # NoRow
    <3>1. Purged[key] \in Shortcut /\ Purged[key] = catalog[key]
      BY <2>2, PurgedTyped
    <3>2. catalog'[key] = [Purged[key] EXCEPT !.retired = now]
      BY <2>2, PurgedTyped DEF Retired
    <3>3. now \in Nat /\ now # Null
      BY DEF TypeOK, Null
    <3>4. catalog'[key] \in Shortcut /\ catalog'[key].retired = now
      BY <3>1, <3>2, <3>3 DEF Shortcut
    <3>5. Offer'[key] = "stashed"
      BY <3>3, <3>4, OfferRead, ListRepoAssumption
    <3>6. kept[key] # "none"
      BY <2>2, <3>1, OfferRead
    <3>7. QED BY <3>5, <3>6
  <2>3. QED BY <2>1, <2>2
<1>4. ASSUME NEW k \in Keys \ {key}
      PROVE  Offer'[k] = kept[k]
  <2>1. catalog'[k] = Purged[k]
    BY <1>2
  <2>2. Purged[k] = catalog[k] \/ Purged[k] = NoRow
    BY PurgedTyped
  <2>3. QED BY <2>1, <2>2, OfferRead
<1>5. Offer' \in [Keys -> Offers]
  BY ViewTyped DEF Offer, Offers
<1>6. Offer' = [kept EXCEPT ![key] = IF kept[key] = "none" THEN "none" ELSE "stashed"]
  <2> HIDE DEF kept
  <2>1. QED BY <1>1, <1>3, <1>4, <1>5
<1>7. QED BY <1>1, <1>6
-----------------------------------------------------------------------------
LEMMA AddKeepsPromise ==
    ASSUME IInv, IInv', NEW t \in Threads, AddItem(t)
    PROVE  [Promise!Next]_(Promise!vars)
<1> USE DEF IInv
<1>1. ASSUME AddEnds(t)
      PROVE  adding[t].key \in Keys /\ boot = "up" /\ boot' = "up"
  BY <1>1 DEF AddEnds, TypeOK, Folded
<1>2. CASE items' = items /\ catalog' = catalog
  <2>1. Place' = Place /\ Offer' = Offer
    BY <1>2 DEF Place, Offer, Active, Checked, RowsOf, Present, Live
  <2>2. QED BY <2>1 DEF Promise!vars
<1>3. ASSUME NEW note \in Notes, AddMerges(t, note)
      PROVE  [Promise!Next]_(Promise!vars)
  <2>1. PICK i \in Active(adding[t].key) :
           items' = [items EXCEPT ![i].note = items[i].note \cup note]
    BY <1>3 DEF AddMerges
  <2>2. i \in Ids /\ items[i] \in Item
    BY <2>1 DEF Active, RowsOf, Present, TypeOK
  <2>3. items'[i] = [items[i] EXCEPT !.note = items[i].note \cup note]
    BY <2>1, <2>2 DEF TypeOK
  <2>4. /\ items'[i] \in Item /\ items'[i].key = items[i].key
        /\ items'[i].status = items[i].status
    BY <2>2, <2>3 DEF Item, Notes
  <2>5. \A j \in Ids \ {i} : items'[j] = items[j]
    BY <2>1, <2>2 DEF TypeOK
  <2>6. /\ Present' = Present
        /\ \A j \in Present : items'[j].key = items[j].key /\ items'[j].status = items[j].status
    BY <2>2, <2>4, <2>5, ListRepoAssumption DEF Present
  <2>7. Place' = Place
    BY <2>6, SameRows, SamePlaces
  <2>8. Offer' = Offer
    BY <1>3 DEF AddMerges, Offer, Live
  <2>9. QED BY <2>7, <2>8 DEF Promise!vars
<1>4. ASSUME NEW k \in Keys, NEW i \in Ids, boot = "up", boot' = "up",
             Active(k) = {}, items'[i] # NoRow, items'[i].key = k, items'[i].status = "active",
             \A j \in Ids \ {i} : items'[j] = items[j],
             i \in Present => items[i].key = k,
             \/ catalog' = Bumped(k)
             \/ catalog' = FiledByBuiltin(Bumped(k), k)
      PROVE  Promise!Want(k)
  <2>1. Place[k] # "list"
    BY <1>4, PlaceRead
  <2>2. i \in Active(k)'
    BY <1>4 DEF Active, RowsOf, Present
  <2>3. Place'[k] = "list"
    BY <2>2, PlaceRead
  <2>4. ASSUME NEW n \in Keys \ {k}
        PROVE  Place'[n] = Place[n]
    <3>1. Active(n)' = Active(n) /\ Checked(n)' = Checked(n)
      BY <1>4 DEF Active, Checked, RowsOf, Present
    <3>2. QED BY <3>1, PlaceRead
  <2>5. Place' = [Place EXCEPT ![k] = "list"]
    <3>1. Place' \in [Keys -> Places]
      BY DEF Place, Places
    <3>2. QED BY <2>3, <2>4, <3>1, ViewTyped
  <2>6. QED BY <2>1, <2>5, <1>4, AddOffers DEF Promise!Want, Offers
<1>5. ASSUME NEW note \in Notes, AddReactivates(t, note)
      PROVE  [Promise!Next]_(Promise!vars)
  <2> DEFINE k == adding[t].key
             i == Newest(Checked(k))
             row == [items[i] EXCEPT !.status = "active", !.note = items[i].note \cup note]
  <2>1. i \in Checked(k)
    BY <1>5, NewestIsOne DEF AddReactivates, Checked, RowsOf, Present
  <2>2. i \in Ids /\ items[i] \in Item /\ items[i].key = k
    BY <2>1 DEF Checked, RowsOf, Present, TypeOK
  <2>3. row \in Item /\ row.key = k /\ row.status = "active"
    BY <2>2 DEF Item, Notes, Statuses
  <2>4. items' = [items EXCEPT ![i] = row]
    BY <1>5 DEF AddReactivates
  <2>5. items'[i] = row /\ \A j \in Ids \ {i} : items'[j] = items[j]
    BY <2>2, <2>4 DEF TypeOK
  <2>6. k \in Keys /\ boot = "up" /\ boot' = "up"
    BY <1>1, <1>5 DEF AddReactivates
  <2>7. Active(k) = {} /\ catalog' = Bumped(k)
    BY <1>5 DEF AddReactivates
  <2>8. items'[i] # NoRow /\ items'[i].key = k /\ items'[i].status = "active"
    BY <2>3, <2>5, ListRepoAssumption
  <2> HIDE DEF k, i, row
  <2>9. Promise!Want(k)
    BY <1>4, <2>2, <2>5, <2>6, <2>7, <2>8
  <2>10. QED BY <2>6, <2>9 DEF Promise!Next
<1>6. ASSUME NEW i \in Ids, NEW note \in Notes, AddInserts(t, i, note)
      PROVE  [Promise!Next]_(Promise!vars)
  <2> DEFINE k == adding[t].key
             row == [key |-> k, status |-> "active", note |-> note, icon |-> catalog'[k].icon]
  <2>1. k \in Keys /\ boot = "up" /\ boot' = "up"
    BY <1>1, <1>6 DEF AddInserts
  <2>2. Active(k) = {} /\ i \notin Present
    BY <1>6 DEF AddInserts, NoRowToReuse
  <2>3. catalog' = FiledByBuiltin(Bumped(k), k) /\ items' = [items EXCEPT ![i] = row]
    BY <1>6 DEF AddInserts
  <2>4. items'[i] = row /\ \A j \in Ids \ {i} : items'[j] = items[j]
    BY <2>3 DEF TypeOK
  <2>5. catalog'[k] \in Shortcut
    BY <2>1, <2>3, FiledTyped
  <2>6. row \in Item
    BY <2>1, <2>5 DEF Item, Shortcut, Statuses
  <2>7. items'[i] # NoRow /\ items'[i].key = k /\ items'[i].status = "active"
    BY <2>4, <2>6, ListRepoAssumption
  <2> HIDE DEF k, row
  <2>8. Promise!Want(k)
    BY <1>4, <2>1, <2>2, <2>3, <2>4, <2>7
  <2>9. QED BY <2>1, <2>8 DEF Promise!Next
<1>7. QED BY <1>2, <1>3, <1>5, <1>6 DEF AddItem, AddStart, AddFindsId

LEMMA UpdateKeepsPromise ==
    ASSUME IInv, NEW i \in Ids, NEW status \in Statuses, NEW note \in Notes,
           NEW icon \in Icons \cup {NoIcon}, UpdateItem(i, status, note, icon)
    PROVE  [Promise!Next]_(Promise!vars)
<1> DEFINE row == [items[i] EXCEPT !.status = status, !.note = note, !.icon = icon]
           to == IF status = "active" THEN "list" ELSE "basket"
<1>1. i \in Present /\ items[i] \in Item /\ boot = "up"
  BY DEF UpdateItem, Present, IInv, TypeOK
<1>2. PICK k \in Keys : k = items[i].key /\ RowsOf(k) = {i} /\ Place[k] # "nowhere"
  BY <1>1, OneRowPlace DEF IInv
<1>3. row \in Item /\ row.key = k /\ row.status = status
  BY <1>1, <1>2 DEF Item
<1>4. items'[i] = row /\ \A j \in Ids \ {i} : items'[j] = items[j]
  BY DEF UpdateItem, IInv, TypeOK
<1>5. items'[i] # NoRow /\ items'[i].key = k /\ items'[i].status = status
  BY <1>3, <1>4, ListRepoAssumption
<1> HIDE DEF row
<1>6. Place'[k] = to
  <2>1. RowsOf(k)' = {i}
    BY <1>2, <1>4, <1>5 DEF RowsOf, Present
  <2>2. Active(k)' = (IF status = "active" THEN {i} ELSE {})
    BY <1>5, <2>1 DEF Active
  <2>3. Checked(k)' = (IF status = "checked" THEN {i} ELSE {})
    BY <1>5, <2>1 DEF Checked
  <2>4. QED BY <1>2, <2>2, <2>3, PlaceRead DEF Statuses
<1>7. ASSUME NEW n \in Keys \ {k}
      PROVE  Place'[n] = Place[n]
  <2>1. Active(n)' = Active(n) /\ Checked(n)' = Checked(n)
    BY <1>1, <1>2, <1>4, <1>5 DEF Active, Checked, RowsOf, Present
  <2>2. QED BY <2>1, PlaceRead
<1>8. Place' = [Place EXCEPT ![k] = to]
  <2>1. Place' \in [Keys -> Places]
    BY DEF Place, Places
  <2>2. QED BY <1>6, <1>7, <2>1, ViewTyped
<1>9. Offer' = Offer
  BY DEF UpdateItem, Offer, Live
<1>10. Promise!Move(k, to) /\ to \in {"list", "basket"}
  BY <1>2, <1>8, <1>9 DEF Promise!Move
<1>11. QED BY <1>2, <1>10 DEF Promise!Next

LEMMA DeleteKeepsPromise ==
    ASSUME IInv, NEW i \in Ids, DeleteItem(i)
    PROVE  [Promise!Next]_(Promise!vars)
<1>1. i \in Present /\ boot = "up" /\ catalog' = Retired(Purged, items[i].key)
  BY DEF DeleteItem
<1>2. PICK k \in Keys : k = items[i].key /\ RowsOf(k) = {i} /\ Place[k] # "nowhere"
  BY <1>1, OneRowPlace DEF IInv
<1>3. items'[i] = NoRow /\ \A j \in Ids \ {i} : items'[j] = items[j]
  BY DEF DeleteItem, IInv, TypeOK
<1>4. Place'[k] = "nowhere"
  <2>1. RowsOf(k)' = {}
    BY <1>2, <1>3 DEF RowsOf, Present
  <2>2. Active(k)' = {} /\ Checked(k)' = {}
    BY <2>1 DEF Active, Checked
  <2>3. QED BY <1>2, <2>2, PlaceRead
<1>5. ASSUME NEW n \in Keys \ {k}
      PROVE  Place'[n] = Place[n]
  <2>1. Active(n)' = Active(n) /\ Checked(n)' = Checked(n)
    BY <1>1, <1>2, <1>3 DEF Active, Checked, RowsOf, Present
  <2>2. QED BY <2>1, PlaceRead
<1>6. Place' = [Place EXCEPT ![k] = "nowhere"]
  <2>1. Place' \in [Keys -> Places]
    BY DEF Place, Places
  <2>2. QED BY <1>4, <1>5, <2>1, ViewTyped
<1>7. \E kept \in [Keys -> Offers] :
        /\ Promise!StashesMayLapse(kept)
        /\ Offer' = [kept EXCEPT ![k] = IF @ = "none" THEN "none" ELSE "stashed"]
  BY <1>1, <1>2, DeleteStashes DEF IInv
<1>8. Promise!Drop(k)
  BY <1>2, <1>6, <1>7 DEF Promise!Drop, Offers
<1>9. QED BY <1>2, <1>8 DEF Promise!Next

LEMMA ShortcutsKeepPromise ==
    ASSUME IInv, NEW k \in Keys, ChangeShortcut(k)
    PROVE  [Promise!Next]_(Promise!vars)
<1>1. items' = items
  BY DEF ChangeShortcut, ForgetCatalog, SetEnrichment
<1>2. Place' = Place
  BY <1>1 DEF Place, Active, Checked, RowsOf, Present
<1>3. CASE ForgetCatalog(k)
  <2>1. catalog[k] # NoRow /\ catalog'[k] = NoRow
    BY <1>3 DEF ForgetCatalog, IInv, TypeOK
  <2>2. \A n \in Keys \ {k} : catalog'[n] = catalog[n]
    BY <1>3 DEF ForgetCatalog, IInv, TypeOK
  <2>3. Offer[k] # "none" /\ Offer'[k] = "none"
    BY <2>1, OfferRead
  <2>4. \A n \in Keys \ {k} : Offer'[n] = Offer[n]
    BY <2>2, OfferRead
  <2>5. Offer' \in [Keys -> Offers]
    BY DEF Offer, Offers
  <2>6. Offer' = [Offer EXCEPT ![k] = "none"]
    BY <2>3, <2>4, <2>5, ViewTyped
  <2>7. QED BY <1>2, <2>3, <2>6 DEF Promise!Forget, Promise!Next
<1>4. ASSUME NEW icon \in Icons \cup {NoIcon}, SetEnrichment(k, icon)
      PROVE  [Promise!Next]_(Promise!vars)
  <2>1. catalog[k] \in Shortcut /\ catalog[k] # NoRow
    BY <1>4 DEF SetEnrichment, IInv, TypeOK
  <2>2. catalog'[k] = [catalog[k] EXCEPT !.icon = icon]
    BY <1>4 DEF SetEnrichment, IInv, TypeOK
  <2>3. catalog'[k] \in Shortcut /\ catalog'[k].retired = catalog[k].retired
    BY <2>1, <2>2 DEF Shortcut
  <2>4. \A n \in Keys \ {k} : catalog'[n] = catalog[n]
    BY <1>4 DEF SetEnrichment, IInv, TypeOK
  <2>5. Offer' = Offer
    BY <2>1, <2>3, <2>4, SameOffers, ListRepoAssumption
  <2>6. QED BY <1>2, <2>5 DEF Promise!vars
<1>5. QED BY <1>3, <1>4 DEF ChangeShortcut

LEMMA ClearKeepsPromise ==
    ASSUME IInv, ClearChecked
    PROVE  Promise!EmptyBasket
<1>1. ASSUME NEW i \in Ids
      PROVE  items'[i] = IF i \in Present /\ items[i].status = "checked" THEN NoRow ELSE items[i]
  BY <1>1 DEF ClearChecked
<1>2. ASSUME NEW k \in Keys
      PROVE  Active(k)' = Active(k) /\ Checked(k)' = {}
  <2>1. \A i \in Ids : i \in Active(k)' <=> i \in Active(k)
    BY <1>1 DEF Active, RowsOf, Present
  <2>2. \A i \in Ids : i \notin Checked(k)'
    BY <1>1 DEF Checked, RowsOf, Present
  <2>3. Active(k)' \subseteq Ids /\ Active(k) \subseteq Ids /\ Checked(k)' \subseteq Ids
    BY DEF Active, Checked, RowsOf, Present
  <2>4. QED BY <2>1, <2>2, <2>3
<1>3. ASSUME NEW k \in Keys
      PROVE  Place'[k] = IF Place[k] = "basket" THEN "nowhere" ELSE Place[k]
  BY <1>2, PlaceRead
<1>4. Place' = [k \in Keys |-> IF Place[k] = "basket" THEN "nowhere" ELSE Place[k]]
  <2>1. Place' \in [Keys -> Places]
    BY DEF Place, Places
  <2>2. QED BY <1>3, <2>1
<1>5. Offer' = Offer
  BY DEF ClearChecked, Offer, Live
<1>6. QED BY <1>4, <1>5 DEF Promise!EmptyBasket

LEMMA StartUpKeepsPromise ==
    ASSUME IInv, CollapseDuplicates \/ BuiltinMapRefile
    PROVE  Place' = Place /\ Offer' = Offer
<1>1. CASE CollapseDuplicates
  <2>1. ASSUME NEW k \in Keys
        PROVE  Place'[k] = Place[k]
    <3>1. CASE RowsOf(k) = {}
      <4>1. RowsOf(k)' = {}
        <5>1. ASSUME NEW i \in Ids, items'[i] # NoRow
              PROVE  i \in Present /\ items'[i].key = items[i].key
          BY <1>1, <5>1 DEF CollapseDuplicates, Present, IInv, TypeOK, Item
        <5>2. QED BY <3>1, <5>1 DEF RowsOf, Present
      <4>2. QED BY <3>1, <4>1, PlaceRead DEF Active, Checked
    <3>2. CASE RowsOf(k) # {}
      <4>1. /\ RowsOf(k)' = {Keeper(k)}
            /\ items'[Keeper(k)].status = items[Keeper(k)].status
        BY <1>1, <3>2, CollapsedRows DEF IInv
      <4>2. /\ Keeper(k) \in RowsOf(k)
            /\ Active(k) # {} => Keeper(k) \in Active(k)
        BY <3>2, KeeperIsOne
      <4>3. items[Keeper(k)].status \in {"active", "checked"}
        BY <4>2 DEF RowsOf, Present, IInv, TypeOK, Item, Statuses
      <4>4. /\ Active(k)' = {i \in {Keeper(k)} : items'[i].status = "active"}
            /\ Checked(k)' = {i \in {Keeper(k)} : items'[i].status = "checked"}
        BY <4>1 DEF Active, Checked
      <4>5. CASE Active(k) # {}
        <5>1. items[Keeper(k)].status = "active"
          BY <4>2, <4>5 DEF Active
        <5>2. QED BY <4>1, <4>4, <4>5, <5>1, PlaceRead
      <4>6. CASE Active(k) = {}
        <5>1. items[Keeper(k)].status = "checked"
          BY <4>2, <4>3, <4>6 DEF Active
        <5>2. Keeper(k) \in Checked(k)
          BY <4>2, <5>1 DEF Checked
        <5>3. Active(k)' = {} /\ Checked(k)' # {}
          BY <4>1, <4>4, <5>1
        <5>4. QED BY <4>6, <5>2, <5>3, PlaceRead
      <4>7. QED BY <4>5, <4>6
    <3>3. QED BY <3>1, <3>2
  <2>2. Place' \in [Keys -> Places]
    BY DEF Place, Places
  <2>3. Place' = Place
    BY <2>1, <2>2, ViewTyped
  <2>4. Offer' = Offer
    BY <1>1 DEF CollapseDuplicates, Offer, Live
  <2>5. QED BY <2>3, <2>4
<1>2. CASE BuiltinMapRefile
  <2>1. Place' = Place
    BY <1>2, RefiledRows, SameRows, SamePlaces DEF IInv
  <2>2. ASSUME NEW k \in Keys
        PROVE  /\ catalog'[k] = NoRow <=> catalog[k] = NoRow
               /\ catalog[k] # NoRow => catalog'[k].retired = catalog[k].retired
    <3>1. CASE catalog'[k] = catalog[k]
      BY <3>1
    <3>2. CASE catalog'[k] # catalog[k]
      <4>1. catalog[k] # NoRow /\ catalog'[k] = [catalog[k] EXCEPT !.icon = BuiltinIcon[k]]
        BY <1>2, <3>2 DEF BuiltinMapRefile
      <4>2. catalog[k] \in Shortcut /\ BuiltinIcon[k] \in Icons \cup {NoIcon}
        BY <4>1, ListRepoAssumption DEF IInv, TypeOK
      <4>3. catalog'[k] \in Shortcut /\ catalog'[k].retired = catalog[k].retired
        BY <4>1, <4>2 DEF Shortcut
      <4>4. QED BY <4>1, <4>3, ListRepoAssumption
    <3>3. QED BY <3>1, <3>2
  <2>3. QED BY <2>1, <2>2, SameOffers
<1>3. QED BY <1>1, <1>2

LEMMA PromiseStep ==
    ASSUME IInv, IInv', [Next]_vars
    PROVE  [Promise!Next]_(Promise!vars)
<1>1. CASE items' = items /\ catalog' = catalog
  <2>1. Place' = Place /\ Offer' = Offer
    BY <1>1 DEF Place, Offer, Active, Checked, RowsOf, Present, Live
  <2>2. QED BY <2>1 DEF Promise!vars
<1>2. ASSUME NEW t \in Threads, AddItem(t)
      PROVE  [Promise!Next]_(Promise!vars)
  BY <1>2, AddKeepsPromise
<1>3. ASSUME NEW i \in Ids, ChangeItem(i)
      PROVE  [Promise!Next]_(Promise!vars)
  <2>1. ASSUME NEW status \in Statuses, NEW note \in Notes, PatchItem(i, status, note)
        PROVE  [Promise!Next]_(Promise!vars)
    <3>1. items[i].icon \in Icons \cup {NoIcon}
      BY <2>1 DEF PatchItem, UpdateItem, Present, IInv, TypeOK, Item
    <3>2. QED BY <2>1, <3>1, UpdateKeepsPromise DEF PatchItem
  <2>2. ASSUME NEW icon \in Icons \cup {NoIcon}, FileItem(i, icon)
        PROVE  [Promise!Next]_(Promise!vars)
    <3>1. items[i].status \in Statuses /\ items[i].note \in Notes
      BY <2>2 DEF FileItem, UpdateItem, Present, IInv, TypeOK, Item
    <3>2. QED BY <2>2, <3>1, UpdateKeepsPromise DEF FileItem
  <2>3. QED BY <1>3, <2>1, <2>2, DeleteKeepsPromise DEF ChangeItem
<1>4. ASSUME NEW k \in Keys, ChangeShortcut(k)
      PROVE  [Promise!Next]_(Promise!vars)
  BY <1>4, ShortcutsKeepPromise
<1>5. CASE ClearChecked
  BY <1>5, ClearKeepsPromise DEF Promise!Next
<1>6. CASE CollapseDuplicates \/ BuiltinMapRefile
  BY <1>6, StartUpKeepsPromise DEF Promise!vars
<1>7. CASE Restart \/ Tick \/ UNCHANGED vars
  BY <1>1, <1>7 DEF Restart, Tick, vars
<1>8. QED BY <1>2, <1>3, <1>4, <1>5, <1>6, <1>7 DEF Next

LEMMA PromiseInit ==
    ASSUME Init
    PROVE  Promise!Init
<1>1. \A k \in Keys : Offer[k] \in {"none", "offered"}
  BY OfferRead DEF Init, LegacyShortcut
<1>2. QED BY <1>1, ViewTyped DEF Promise!Init, Places

(* The repository, with its ids, rows, threads, restarts and clock,        *)
(* implements what the household is promised.                              *)
THEOREM RepositoryKeepsPromise == Spec => KeepsPromise
<1>1. Init => Promise!Init
  BY PromiseInit
<1>2. IInv /\ IInv' /\ [Next]_vars => [Promise!Next]_(Promise!vars)
  BY PromiseStep
<1>3. QED BY <1>1, <1>2, IInvHolds, PTL DEF Spec, KeepsPromise, Promise!Spec
-----------------------------------------------------------------------------
(* A note is a set of segments above.  What is stored is their text, one   *)
(* after the other, as NoteText has it.                                    *)

(* The segments of a merged text are those of both notes, as ListRepo has  *)
(* it of sets.                                                             *)
LEMMA MergedText ==
    ASSUME NEW a \in Seq(Phrases), NEW b \in Incoming
    PROVE  /\ MergeNotes(a, b) \in Seq(Phrases)
           /\ Range(MergeNotes(a, b)) = Range(a) \cup Range(b)
<1>1. PICK n \in 0 .. MaxIncoming : b \in [1 .. n -> Phrases] /\ IsInjective(b)
  BY DEF Incoming
<1>2. b \in Seq(Phrases)
  BY <1>1
<1>3. CASE b = <<>>
  BY <1>3 DEF MergeNotes, Range
<1>4. CASE b # <<>> /\ a = <<>>
  BY <1>1, <1>2, <1>4 DEF MergeNotes, Range
<1>5. CASE b # <<>> /\ a # <<>> /\ Len(b) = 1 /\ b[1] \in Range(a)
  BY <1>2, <1>5 DEF MergeNotes, Range
<1>6. CASE b # <<>> /\ a # <<>> /\ ~(Len(b) = 1 /\ b[1] \in Range(a))
  <2>1. MergeNotes(a, b) = a \o b /\ a \o b \in Seq(Phrases)
    BY <1>2, <1>6 DEF MergeNotes
  <2>2. /\ Len(a) \in Nat /\ DOMAIN a = 1 .. Len(a) /\ Len(b) \in Nat /\ DOMAIN b = 1 .. Len(b)
        /\ DOMAIN (a \o b) = 1 .. Len(a) + Len(b)
        /\ \A i \in 1 .. Len(a) + Len(b) :
              (a \o b)[i] = IF i <= Len(a) THEN a[i] ELSE b[i - Len(a)]
    BY <1>2, <2>1, ConcatProperties, LenProperties
  <2>3. Range(a \o b) = Range(a) \cup Range(b)
    <3>1. ASSUME NEW i \in DOMAIN b
          PROVE  Len(a) + i \in DOMAIN (a \o b) /\ (a \o b)[Len(a) + i] = b[i]
      BY <2>2
    <3>2. \A i \in DOMAIN a : i \in DOMAIN (a \o b) /\ (a \o b)[i] = a[i]
      BY <2>2
    <3>3. \A i \in DOMAIN (a \o b) :
            \/ i \in DOMAIN a /\ (a \o b)[i] = a[i]
            \/ i - Len(a) \in DOMAIN b /\ (a \o b)[i] = b[i - Len(a)]
      BY <2>2
    <3>4. \A v : v \in Range(a) \cup Range(b) => v \in Range(a \o b)
      BY <3>1, <3>2 DEF Range
    <3>5. \A v : v \in Range(a \o b) => v \in Range(a) \cup Range(b)
      BY <3>3 DEF Range
    <3>6. QED BY <3>4, <3>5
  <2>4. QED BY <2>1, <2>3
<1>7. QED BY <1>3, <1>4, <1>5, <1>6

LEMMA TextStep ==
    ASSUME NothingWrittenIsLost /\ text \in Seq(Phrases), [NoteNext]_noteVars
    PROVE  (NothingWrittenIsLost /\ text \in Seq(Phrases))'
<1>1. CASE UNCHANGED noteVars
  BY <1>1 DEF noteVars, NothingWrittenIsLost
<1>2. ASSUME NEW b \in Incoming, ReAdd(b)
      PROVE  (NothingWrittenIsLost /\ text \in Seq(Phrases))'
  BY <1>2, MergedText DEF ReAdd, NothingWrittenIsLost
<1>3. QED BY <1>1, <1>2 DEF NoteNext

(* A note says exactly what was written into it, however often it was      *)
(* added to: what lets ListRepo keep a note as a set (repo.py:72-83).      *)
THEOREM NotesKeepWhatWasWritten == NoteSpec => []NothingWrittenIsLost
<1>1. NoteInit => NothingWrittenIsLost /\ text \in Seq(Phrases)
  BY DEF NoteInit, NothingWrittenIsLost, Range
<1>2. QED BY <1>1, TextStep, PTL DEF NoteSpec
=============================================================================
