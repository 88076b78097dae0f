--------------------------- MODULE LiveListProofs ---------------------------
(***************************************************************************)
(* Proof that a quiet phone shows the list, for any number of threads,     *)
(* enrichments, rows and names, and a stream's queue of any length.        *)
(***************************************************************************)
EXTENDS LiveList, SequenceTheorems, WellFoundedInduction, TLAPS

(* What events do to one row: e says what row i is, or a clear takes it if *)
(* it is in the basket.                                                    *)
Writes(e, i) == e.kind \in {"row", "gone"} /\ i \in e.ids
Cleared(v) == IF v # NoRow /\ v.status = "checked" THEN NoRow ELSE v
Effect(e, i, v) ==
    IF Writes(e, i) THEN e.row ELSE IF e.kind = "clear" THEN Cleared(v) ELSE v

(* What row i is after the events of s, from v: what the last to write it  *)
(* wrote, but for a clear that came later.                                 *)
Writers(i, s) == {j \in DOMAIN s : Writes(s[j], i)}
Last(S) == CHOOSE j \in S : \A k \in S : k <= j
ClearedSince(j, s) == \E k \in DOMAIN s : s[k].kind = "clear" /\ k > j
Since(j, v, s) == IF ClearedSince(j, s) THEN Cleared(v) ELSE v
After(v, i, s) ==
    IF Writers(i, s) = {} THEN Since(0, v, s)
    ELSE Since(Last(Writers(i, s)), s[Last(Writers(i, s))].row, s)
-----------------------------------------------------------------------------
LEMMA LastIsLast ==
    ASSUME NEW n \in Nat, NEW S \in SUBSET (1 .. n), S # {}
    PROVE  Last(S) \in S /\ \A k \in S : k <= Last(S)
<1> DEFINE Less == OpToRel(<, Nat)
           T == {n - j : j \in S}
<1>1. Less = {ss \in Nat \X Nat : ss[1] < ss[2]}
  BY DEF OpToRel
<1>2. T \subseteq Nat /\ T # {}
  <2>1. \A j \in S : n - j \in Nat
    OBVIOUS
  <2>2. QED BY <2>1
<1>3. IsWellFoundedOn(Less, Nat)
  BY NatLessThanWellFounded
<1> HIDE DEF Less
<1>4. PICK x \in T : \A y \in T : <<y, x>> \notin Less
  BY <1>2, <1>3, WFMin
<1>5. PICK j \in S : x = n - j
  OBVIOUS
<1>6. ASSUME NEW k \in S
      PROVE  k <= j
  <2>1. n - k \in T /\ n - k \in Nat /\ x \in Nat
    BY <1>2
  <2>2. <<n - k, x>> \notin Less
    BY <1>4, <2>1
  <2>3. ~(n - k < n - j)
    BY <1>1, <1>5, <2>1, <2>2
  <2>4. QED BY <2>3
<1>7. QED BY <1>6 DEF Last

LEMMA ClearedTwice == \A v : Cleared(Cleared(v)) = Cleared(v)
BY DEF Cleared

LEMMA AfterNothing == \A v, i : After(v, i, <<>>) = v
BY DEF After, Writers, Since, ClearedSince

(* One event more.                                                         *)
LEMMA AfterOneMore ==
    ASSUME NEW s \in Seq(Event), NEW e \in Event, NEW i, NEW v
    PROVE  After(v, i, Append(s, e)) = Effect(e, i, After(v, i, s))
<1> DEFINE t == Append(s, e)
           n == Len(s)
<1>1. /\ n \in Nat /\ DOMAIN s = 1 .. n /\ DOMAIN t = 1 .. n + 1
      /\ t[n + 1] = e /\ \A j \in 1 .. n : t[j] = s[j]
  OBVIOUS
<1> HIDE DEF t, n
<1>2. CASE Writes(e, i)
  <2>1. n + 1 \in Writers(i, t) /\ \A j \in Writers(i, t) : j <= n + 1 /\ j \in Int
    BY <1>1, <1>2 DEF Writers
  <2>2. Last(Writers(i, t)) = n + 1
    BY <1>1, <2>1 DEF Last
  <2>3. ~ClearedSince(n + 1, t)
    BY <1>1 DEF ClearedSince
  <2>4. QED BY <1>1, <1>2, <2>1, <2>2, <2>3 DEF After, Since, Effect, t
<1>3. CASE ~Writes(e, i)
  <2>1. Writers(i, t) = Writers(i, s)
    BY <1>1, <1>3 DEF Writers
  <2>2. ASSUME NEW j \in 0 .. n, NEW w
        PROVE  Since(j, w, t) = Effect(e, i, Since(j, w, s))
    <3>1. ClearedSince(j, t) <=> ClearedSince(j, s) \/ e.kind = "clear"
      BY <1>1 DEF ClearedSince
    <3>2. QED BY <1>3, <3>1, ClearedTwice DEF Since, Effect
  <2>3. CASE Writers(i, s) = {}
    BY <1>1, <2>1, <2>2, <2>3 DEF After, t
  <2>4. CASE Writers(i, s) # {}
    <3> DEFINE j == Last(Writers(i, s))
    <3>1. Writers(i, s) \in SUBSET (1 .. n)
      BY <1>1 DEF Writers
    <3>2. j \in 1 .. n
      BY <1>1, <2>4, <3>1, LastIsLast
    <3>3. QED BY <1>1, <2>1, <2>2, <2>4, <3>2 DEF After, t
  <2>5. QED BY <2>3, <2>4
<1>4. QED BY <1>2, <1>3

(* One event fewer.                                                        *)
LEMMA AfterTheFirst ==
    ASSUME NEW s \in Seq(Event), s # <<>>, NEW i, NEW v
    PROVE  After(v, i, s) = After(Effect(Head(s), i, v), i, Tail(s))
<1> DEFINE t == Tail(s)
           n == Len(s)
<1>1. /\ n \in Nat \ {0} /\ DOMAIN s = 1 .. n /\ DOMAIN t = 1 .. n - 1
      /\ Head(s) = s[1] /\ \A j \in 1 .. n - 1 : t[j] = s[j + 1]
  OBVIOUS
<1> HIDE DEF t, n
<1>2. /\ Writers(i, s) \in SUBSET (1 .. n) /\ Writers(i, t) \in SUBSET (1 .. n - 1)
      /\ \A j \in 1 .. n - 1 : j \in Writers(i, t) <=> j + 1 \in Writers(i, s)
      /\ 1 \in Writers(i, s) <=> Writes(Head(s), i)
  BY <1>1 DEF Writers
<1>3. ASSUME NEW j \in 0 .. n - 1, NEW w
      PROVE  Since(j + 1, w, s) = Since(j, w, t)
  <2>1. ClearedSince(j + 1, s) => ClearedSince(j, t)
    <3> SUFFICES ASSUME NEW k \in DOMAIN s, s[k].kind = "clear", k > j + 1
                 PROVE  ClearedSince(j, t)
      BY DEF ClearedSince
    <3>1. k - 1 \in DOMAIN t /\ t[k - 1] = s[k] /\ k - 1 > j
      BY <1>1
    <3>2. QED BY <3>1 DEF ClearedSince
  <2>2. ClearedSince(j, t) => ClearedSince(j + 1, s)
    <3> SUFFICES ASSUME NEW k \in DOMAIN t, t[k].kind = "clear", k > j
                 PROVE  ClearedSince(j + 1, s)
      BY DEF ClearedSince
    <3>1. k + 1 \in DOMAIN s /\ t[k] = s[k + 1] /\ k + 1 > j + 1
      BY <1>1
    <3>2. QED BY <3>1 DEF ClearedSince
  <2>3. QED BY <2>1, <2>2 DEF Since
<1>4. CASE Writers(i, t) # {}
  <2> DEFINE j == Last(Writers(i, t))
  <2>1. j \in 1 .. n - 1 /\ j \in Writers(i, t) /\ \A k \in Writers(i, t) : k <= j
    <3>1. n - 1 \in Nat
      BY <1>1
    <3>2. j \in Writers(i, t) /\ \A k \in Writers(i, t) : k <= j
      BY <1>2, <1>4, <3>1, LastIsLast
    <3>3. QED BY <1>2, <3>2
  <2> HIDE DEF j
  <2>2. j + 1 \in Writers(i, s)
    BY <1>2, <2>1
  <2>3. ASSUME NEW k \in Writers(i, s)
        PROVE  k <= j + 1
    <3>1. k \in 1 .. n /\ (k # 1 => k - 1 \in Writers(i, t))
      BY <1>1, <1>2
    <3>2. QED BY <2>1, <3>1
  <2>4. Last(Writers(i, s)) = j + 1
    <3>1. Last(Writers(i, s)) \in Writers(i, s) /\ j + 1 <= Last(Writers(i, s))
      BY <1>1, <1>2, <2>2, LastIsLast
    <3>2. QED BY <1>2, <2>1, <2>3, <3>1
  <2>5. After(v, i, s) = Since(j + 1, s[j + 1].row, s)
    BY <2>2, <2>4 DEF After
  <2>6. \A w : After(w, i, t) = Since(j, t[j].row, t)
    BY <2>1 DEF After, j
  <2>7. QED BY <1>1, <1>3, <2>1, <2>5, <2>6 DEF t
<1>5. CASE Writers(i, t) = {}
  <2>1. \A w : After(w, i, t) = Since(1, w, s)
    BY <1>1, <1>3, <1>5 DEF After
  <2>2. CASE Writes(Head(s), i)
    <3>1. Writers(i, s) = {1}
      <4>1. \A j \in Writers(i, s) : j \in 1 .. n /\ (j # 1 => j - 1 \in Writers(i, t))
        BY <1>1, <1>2
      <4>2. QED BY <1>2, <1>5, <2>2, <4>1
    <3>2. Last(Writers(i, s)) = 1
      BY <3>1 DEF Last
    <3>3. After(v, i, s) = Since(1, Head(s).row, s)
      BY <1>1, <3>1, <3>2 DEF After
    <3>4. QED BY <2>1, <2>2, <3>3 DEF Effect, t
  <2>3. CASE ~Writes(Head(s), i)
    <3>1. Writers(i, s) = {}
      <4>1. \A j \in Writers(i, s) : j \in 1 .. n /\ (j # 1 => j - 1 \in Writers(i, t))
        BY <1>1, <1>2
      <4>2. QED BY <1>2, <1>5, <2>3, <4>1
    <3>2. After(v, i, s) = Since(0, v, s)
      BY <3>1 DEF After
    <3>3. ClearedSince(0, s) <=> ClearedSince(1, s) \/ Head(s).kind = "clear"
      BY <1>1 DEF ClearedSince
    <3>4. Since(0, v, s) = Since(1, Effect(Head(s), i, v), s)
      BY <2>3, <3>3, ClearedTwice DEF Since, Effect
    <3>5. QED BY <2>1, <3>2, <3>4 DEF t
  <2>4. QED BY <2>2, <2>3
<1>6. QED BY <1>4, <1>5

(* Events that are not about a row leave it alone.                         *)
LEMMA NotAbout ==
    ASSUME NEW e \in Event, NEW i \in Ids, i \notin e.ids
    PROVE  ~Writes(e, i) /\ e.kind # "clear" /\ \A v : Effect(e, i, v) = v
BY DEF Writes, Effect, Event

LEMMA AfterOthers ==
    ASSUME NEW s \in Seq(Event), NEW i \in Ids, \A j \in DOMAIN s : i \notin s[j].ids, NEW v
    PROVE  After(v, i, s) = v
<1>1. \A j \in DOMAIN s : s[j] \in Event
  OBVIOUS
<1>2. \A j \in DOMAIN s : ~Writes(s[j], i) /\ s[j].kind # "clear"
  BY <1>1, NotAbout
<1>3. QED BY <1>2 DEF After, Writers, Since, ClearedSince

LEMMA AfterAbsent == \A v, i, s : After(NoRow, i, s) \in {NoRow, After(v, i, s)}
BY DEF After, Since, Cleared

LEMMA AfterTwice == \A v, i, s : After(After(v, i, s), i, s) = After(v, i, s)
BY ClearedTwice DEF After, Since

(* What the events yet to come leave alone, all but the first do.          *)
LEMMA Steady ==
    ASSUME NEW s \in Seq(Event), s # <<>>, NEW i, NEW v, After(v, i, s) = v
    PROVE  After(v, i, Tail(s)) = v
BY AfterTheFirst, AfterTwice
-----------------------------------------------------------------------------
(* The invariant.                                                          *)

(* Who has something to publish: a request's thread or an enrichment.      *)
Voices == ({"thread"} \X Threads) \cup ({"task"} \X Tasks)
Of(v) == IF v[1] = "thread" THEN thread[v[2]] ELSE task[v[2]]
Speaks(v) == Of(v).pc = "publish"
About(v, i) == Speaks(v) /\ i \in Of(v).event.ids

(* What row i is to the phone, or will be when a list lands; and to the    *)
(* list a phone might ask for now.                                         *)
Lists(i) == {fetch[f].list[i] : f \in Served}
Bases(i) == {rows[i]} \cup Lists(i) \cup (IF closed THEN {} ELSE {view[i]})

(* From each of them, what is queued and what is yet to be published, by   *)
(* one voice at most, lead to the row as it is.                            *)
Leads(i) ==
    /\ \A v, w \in Voices : About(v, i) /\ About(w, i) => v = w
    /\ (\A v \in Voices : ~About(v, i)) => \A b \in Bases(i) : After(b, i, bus) = rows[i]
    /\ \A v \in Voices : About(v, i) =>
          \A b \in Bases(i) : After(b, i, Append(bus, Of(v).event)) = rows[i]

AllLead == \A i \in Ids \ doubt : Leads(i)

CalmIsCalm ==
    \A f \in Served : fetch[f].calm =>
        fetch[f].list = rows /\ bus = <<>> /\ \A v \in Voices : ~Speaks(v)

Ended ==
    /\ StreamTypeOK /\ OneStream
    /\ closed => \A f \in Fetches : fetch[f].pc = "none"

LiveInv == Typed /\ AllLead /\ CalmIsCalm /\ Ended

(* A step that leaves the lists on their way as they are, calm or not.     *)
SameLists ==
    \A f \in Fetches : fetch'[f].pc = fetch[f].pc /\ fetch'[f].list = fetch[f].list

LEMMA SameListsServed ==
    ASSUME SameLists
    PROVE  Served' = Served /\ \A i : Lists(i)' = Lists(i)
BY DEF SameLists, Served, Lists
-----------------------------------------------------------------------------
(* Who is changed by a step of one thread, or of one enrichment.           *)

LEMMA ThreadSteps ==
    ASSUME thread \in [Threads -> ThreadState], NEW t \in Threads, NEW r,
           thread' = [thread EXCEPT ![t] = r], UNCHANGED task
    PROVE  /\ <<"thread", t>> \in Voices /\ Of(<<"thread", t>>) = thread[t]
           /\ Of(<<"thread", t>>)' = r
           /\ \A v \in Voices \ {<<"thread", t>>} : Of(v)' = Of(v)
BY DEF Voices, Of

LEMMA TaskSteps ==
    ASSUME task \in [Tasks -> TaskState], NEW k \in Tasks, NEW r,
           task' = [task EXCEPT ![k] = r], UNCHANGED thread
    PROVE  /\ <<"task", k>> \in Voices /\ Of(<<"task", k>>) = task[k]
           /\ Of(<<"task", k>>)' = r
           /\ \A v \in Voices \ {<<"task", k>>} : Of(v)' = Of(v)
BY DEF Voices, Of

LEMMA VoicesTyped ==
    ASSUME Typed, NEW v \in Voices
    PROVE  Of(v).event \in Event
BY DEF Typed, Voices, Of, ThreadState, TaskState

LEMMA UnpublishedIsSpoken ==
    /\ \A i : (\E e \in Unpublished : i \in e.ids) <=> \E v \in Voices : About(v, i)
    /\ Unpublished = {} => \A v \in Voices : ~Speaks(v)
<1>1. ASSUME NEW e \in Unpublished
      PROVE  \E v \in Voices : Speaks(v) /\ Of(v).event = e
  <2>1. CASE \E t \in Threads : thread[t].pc = "publish" /\ thread[t].event = e
    <3>1. PICK t \in Threads : thread[t].pc = "publish" /\ thread[t].event = e
      BY <2>1
    <3>2. <<"thread", t>> \in Voices /\ Of(<<"thread", t>>) = thread[t]
      BY DEF Voices, Of
    <3>3. QED BY <3>1, <3>2 DEF Speaks
  <2>2. CASE \E k \in Tasks : task[k].pc = "publish" /\ task[k].event = e
    <3>1. PICK k \in Tasks : task[k].pc = "publish" /\ task[k].event = e
      BY <2>2
    <3>2. <<"task", k>> \in Voices /\ Of(<<"task", k>>) = task[k]
      BY DEF Voices, Of
    <3>3. QED BY <3>1, <3>2 DEF Speaks
  <2>3. QED BY <1>1, <2>1, <2>2 DEF Unpublished
<1>2. ASSUME NEW v \in Voices, Speaks(v)
      PROVE  Of(v).event \in Unpublished
  BY <1>2 DEF Unpublished, Voices, Of, Speaks
<1>3. QED BY <1>1, <1>2 DEF About
-----------------------------------------------------------------------------
(* The three kinds of step.                                                *)

(* A commit: x has e to publish about the rows it changed; a row that was  *)
(* still being talked about is in doubt.                                   *)
LEMMA CommitLeads ==
    ASSUME LiveInv, NEW x \in Voices, ~Speaks(x), Speaks(x)',
           NEW e \in Event, Of(x)'.event = e,
           \A v \in Voices \ {x} : Of(v)' = Of(v),
           NEW ids \in SUBSET Ids, e.ids \subseteq ids,
           doubt \cup {i \in ids : \E u \in Unpublished : i \in u.ids} \subseteq doubt',
           UNCHANGED <<bus, view, closed>>,
           SameLists,
           \A i \in Ids \ doubt' : rows'[i] = Effect(e, i, rows[i])
    PROVE  AllLead'
<1> SUFFICES ASSUME NEW i \in Ids, i \notin doubt'
             PROVE  Leads(i)'
  BY DEF AllLead
<1>1. Leads(i) /\ bus \in Seq(Event) /\ bus' = bus /\ Voices' = Voices
  BY DEF LiveInv, AllLead, Typed, Voices
<1>2. rows'[i] = Effect(e, i, rows[i])
  OBVIOUS
<1>3. \A b \in Bases(i)' : b \in Bases(i) \/ b = rows'[i]
  BY SameListsServed DEF Bases
<1>4. \A v \in Voices \ {x} : (About(v, i)' <=> About(v, i)) /\ Of(v)' = Of(v)
  BY DEF About, Speaks
<1>5. ~About(x, i) /\ (About(x, i)' <=> i \in e.ids)
  BY DEF About, Speaks
<1>6. CASE i \in e.ids
  <2>1. \A v \in Voices : ~About(v, i)
    BY <1>6, UnpublishedIsSpoken
  <2>2. \A b \in Bases(i) : After(b, i, bus) = rows[i]
    BY <1>1, <2>1 DEF Leads
  <2>3. After(rows[i], i, bus) = rows[i]
    BY <2>2 DEF Bases
  <2>4. \A b : After(b, i, Append(bus, e)) = Effect(e, i, After(b, i, bus))
    BY <1>1, AfterOneMore
  <2>5. After(rows'[i], i, Append(bus, e)) = rows'[i]
    <3>1. CASE Writes(e, i)
      BY <1>2, <2>4, <3>1 DEF Effect
    <3>2. CASE ~Writes(e, i) /\ e.kind = "clear"
      <4>1. rows'[i] = Cleared(rows[i]) /\ rows'[i] \in {NoRow, rows[i]}
        BY <1>2, <3>2 DEF Effect, Cleared
      <4>2. After(rows'[i], i, bus) \in {NoRow, rows[i]}
        BY <2>3, <4>1, AfterAbsent
      <4>3. Cleared(After(rows'[i], i, bus)) = rows'[i]
        BY <2>3, <4>1, <4>2 DEF Cleared
      <4>4. QED BY <2>4, <3>2, <4>3 DEF Effect
    <3>3. CASE ~Writes(e, i) /\ e.kind # "clear"
      BY <1>2, <2>3, <2>4, <3>3 DEF Effect
    <3>4. QED BY <3>1, <3>2, <3>3
  <2>6. \A b \in Bases(i)' : After(b, i, Append(bus, e)) = rows'[i]
    BY <1>2, <1>3, <2>2, <2>4, <2>5
  <2>7. \A v \in Voices : About(v, i)' <=> v = x
    BY <1>4, <1>5, <1>6, <2>1
  <2>8. QED BY <1>1, <2>6, <2>7 DEF Leads
<1>7. CASE i \notin e.ids
  <2>1. rows'[i] = rows[i]
    BY <1>2, <1>7, NotAbout
  <2>2. Bases(i)' \subseteq Bases(i)
    BY <1>3, <2>1 DEF Bases
  <2>3. \A v \in Voices : (About(v, i)' <=> About(v, i)) /\ (About(v, i) => Of(v)' = Of(v))
    BY <1>4, <1>5, <1>7
  <2>4. QED BY <1>1, <2>1, <2>2, <2>3 DEF Leads
<1>8. QED BY <1>6, <1>7

(* The lists on their way are none the worse for not being calm.           *)
LEMMA Uneasy ==
    ASSUME Typed, Ended, fetch' = Crossed
    PROVE  /\ fetch' \in [Fetches -> FetchState] /\ SameLists /\ CalmIsCalm'
           /\ UNCHANGED stream => Ended'
<1>1. fetch \in [Fetches -> FetchState]
  BY DEF Typed
<1>2. ASSUME NEW f \in Fetches
      PROVE  /\ fetch'[f] \in FetchState /\ ~fetch'[f].calm
             /\ fetch'[f].pc = fetch[f].pc /\ fetch'[f].list = fetch[f].list
  BY <1>1 DEF Crossed, FetchState
<1>3. fetch' \in [Fetches -> FetchState] /\ SameLists
  BY <1>2 DEF Crossed, SameLists
<1>4. CalmIsCalm'
  BY <1>2 DEF CalmIsCalm, Served
<1>5. UNCHANGED stream => Ended'
  BY <1>2 DEF Ended, StreamTypeOK, OneStream, stream
<1>6. QED BY <1>3, <1>4, <1>5

(* A publication: what x had to say is queued, or is in doubt.             *)
LEMMA PublishLeads ==
    ASSUME LiveInv, NEW x \in Voices, Speaks(x), ~Speaks(x)',
           \A v \in Voices \ {x} :
              (Speaks(v)' <=> Speaks(v)) /\ (Speaks(v) => Of(v)'.event = Of(v).event),
           Publish(Of(x).event),
           UNCHANGED <<rows, view, closed>>
    PROVE  AllLead'
<1> DEFINE e == Of(x).event
<1> SUFFICES ASSUME NEW i \in Ids, i \notin doubt'
             PROVE  Leads(i)'
  BY DEF AllLead
<1>1. e \in Event /\ bus \in Seq(Event) /\ Voices' = Voices
  BY VoicesTyped DEF LiveInv, Typed, Voices
<1>2. i \notin doubt /\ Leads(i)
  BY DEF LiveInv, AllLead, Publish
<1>3. Typed /\ Ended /\ fetch' = Crossed
  BY DEF LiveInv, Publish
<1>4. SameLists /\ rows' = rows
  BY <1>3, Uneasy
<1>5. Bases(i)' = Bases(i)
  BY <1>4, SameListsServed DEF Bases
<1>6. \A v \in Voices \ {x} :
         (About(v, i)' <=> About(v, i)) /\ (About(v, i) => Of(v)'.event = Of(v).event)
  BY DEF About
<1>7. ~About(x, i)' /\ (About(x, i) <=> i \in e.ids)
  BY DEF About
<1>8. CASE bus' = bus /\ doubt' = doubt \cup e.ids
  <2>1. \A v \in Voices :
           (About(v, i)' <=> About(v, i)) /\ (About(v, i) => Of(v)'.event = Of(v).event)
    BY <1>6, <1>7, <1>8
  <2>2. QED BY <1>1, <1>2, <1>4, <1>5, <1>8, <2>1 DEF Leads
<1>9. CASE bus' = Append(bus, e)
  <2>1. CASE i \in e.ids
    <3>1. \A v \in Voices : ~About(v, i)'
      BY <1>2, <1>6, <1>7, <2>1 DEF Leads
    <3>2. \A b \in Bases(i) : After(b, i, bus') = rows[i]
      BY <1>2, <1>7, <1>9, <2>1 DEF Leads
    <3>3. QED BY <1>1, <1>4, <1>5, <3>1, <3>2 DEF Leads
  <2>2. CASE i \notin e.ids
    <3>1. \A b : After(b, i, bus') = After(b, i, bus)
      BY <1>1, <1>9, <2>2, AfterOneMore, NotAbout
    <3>2. bus' \in Seq(Event)
      BY <1>1, <1>9
    <3>3. \A u \in Event : \A b : After(b, i, Append(bus', u)) = After(b, i, Append(bus, u))
      BY <1>1, <3>1, <3>2, AfterOneMore
    <3>4. \A v \in Voices : Of(v).event \in Event
      BY VoicesTyped DEF LiveInv
    <3>5. \A v \in Voices :
             (About(v, i)' <=> About(v, i)) /\ (About(v, i) => Of(v)'.event = Of(v).event)
      BY <1>6, <1>7, <2>2
    <3>6. QED BY <1>1, <1>2, <1>4, <1>5, <3>1, <3>3, <3>4, <3>5 DEF Leads
  <2>3. QED BY <2>1, <2>2
<1>10. QED BY <1>8, <1>9 DEF Publish

(* A step that nobody will hear of.                                        *)
LEMMA SilentLeads ==
    ASSUME LiveInv, UNCHANGED <<rows, bus>>, doubt \subseteq doubt',
           \A v \in Voices :
              (Speaks(v)' <=> Speaks(v)) /\ (Speaks(v) => Of(v)'.event = Of(v).event),
           \A i \in Ids : Bases(i)' \subseteq Bases(i)
    PROVE  AllLead'
<1> SUFFICES ASSUME NEW i \in Ids, i \notin doubt'
             PROVE  Leads(i)'
  BY DEF AllLead
<1>1. Leads(i) /\ Voices' = Voices /\ Bases(i)' \subseteq Bases(i)
  BY DEF LiveInv, AllLead, Voices
<1>2. \A v \in Voices :
         (About(v, i)' <=> About(v, i)) /\ (About(v, i) => Of(v)'.event = Of(v).event)
  BY DEF About
<1>3. QED BY <1>1, <1>2 DEF Leads

LEMMA SameVoices ==
    ASSUME UNCHANGED <<thread, task>>
    PROVE  \A v \in Voices : Of(v)' = Of(v) /\ (Speaks(v)' <=> Speaks(v))
BY DEF Of, Speaks

(* The phone applies the oldest event, over its list and under the list it *)
(* is waiting for.                                                         *)
LEMMA DeliverLeads ==
    ASSUME LiveInv, DeliverEvent
    PROVE  AllLead'
<1> DEFINE e == Head(bus)
<1> SUFFICES ASSUME NEW i \in Ids, i \notin doubt'
             PROVE  Leads(i)'
  BY DEF AllLead
<1>1. /\ bus \in Seq(Event) /\ bus # <<>> /\ bus' = Tail(bus) /\ e \in Event
      /\ view \in [Ids -> Value] /\ UNCHANGED <<rows, thread, task, closed>>
  BY DEF DeliverEvent, LiveInv, Typed, server, enricher, link, stream
<1>2. i \notin doubt /\ Leads(i) /\ (Served # {} => i \notin e.ids)
  BY DEF DeliverEvent, LiveInv, AllLead
<1>3. Lists(i)' = Lists(i)
  <2>1. SameLists
    BY Uneasy DEF DeliverEvent, LiveInv
  <2>2. QED BY <2>1, SameListsServed
<1>4. view'[i] = Effect(e, i, view[i])
  BY <1>1 DEF DeliverEvent, Effect, Writes, Without, Listed, Cleared, Event
<1>5. ~closed
  BY DEF DeliverEvent, LiveInv, Ended, OneStream
<1>6. ASSUME NEW t \in Seq(Event), t # <<>>, Head(t) = e,
             \A b \in Bases(i) : After(b, i, t) = rows[i],
             NEW b \in Bases(i)'
      PROVE  After(b, i, Tail(t)) = rows[i]
  <2>1. CASE b = rows[i]
    <3>1. After(rows[i], i, t) = rows[i]
      BY <1>6 DEF Bases
    <3>2. QED BY <1>6, <2>1, <3>1, Steady
  <2>2. CASE b = Effect(e, i, view[i])
    <3>1. After(view[i], i, t) = rows[i]
      BY <1>5, <1>6 DEF Bases
    <3>2. QED BY <1>6, <2>2, <3>1, AfterTheFirst
  <2>3. CASE b \in Lists(i)
    <3>1. After(b, i, t) = rows[i]
      BY <1>6, <2>3 DEF Bases
    <3>2. Effect(e, i, b) = b
      BY <1>1, <1>2, <2>3, NotAbout DEF Lists
    <3>3. QED BY <1>6, <3>1, <3>2, AfterTheFirst
  <2>4. QED BY <1>1, <1>3, <1>4, <1>6, <2>1, <2>2, <2>3 DEF Bases
<1>7. \A v \in Voices : (About(v, i)' <=> About(v, i)) /\ Of(v)' = Of(v)
  BY <1>1, SameVoices DEF About
<1>8. ASSUME \A v \in Voices : ~About(v, i), NEW b \in Bases(i)'
      PROVE  After(b, i, bus') = rows[i]
  <2>1. \A c \in Bases(i) : After(c, i, bus) = rows[i]
    BY <1>2, <1>8 DEF Leads
  <2>2. QED BY <1>1, <1>6, <1>8, <2>1
<1>9. ASSUME NEW v \in Voices, About(v, i), NEW b \in Bases(i)'
      PROVE  After(b, i, Append(bus', Of(v).event)) = rows[i]
  <2> DEFINE t == Append(bus, Of(v).event)
  <2>1. Of(v).event \in Event
    BY VoicesTyped DEF LiveInv
  <2>2. t \in Seq(Event) /\ t # <<>> /\ Head(t) = e /\ Tail(t) = Append(bus', Of(v).event)
    BY <1>1, <2>1
  <2>3. \A c \in Bases(i) : After(c, i, t) = rows[i]
    BY <1>2, <1>9 DEF Leads
  <2> HIDE DEF t
  <2>4. After(b, i, Tail(t)) = rows[i]
    BY <1>6, <1>9, <2>2, <2>3
  <2>5. QED BY <2>2, <2>4
<1>10. Voices' = Voices /\ rows' = rows
  BY <1>1 DEF Voices
<1>11. QED BY <1>2, <1>7, <1>8, <1>9, <1>10 DEF Leads

(* What the queue held is in doubt; the rest was where it should be.       *)
LEMMA LoseLeads ==
    ASSUME LiveInv, Lose
    PROVE  AllLead'
<1> SUFFICES ASSUME NEW i \in Ids, i \notin doubt'
             PROVE  Leads(i)'
  BY DEF AllLead
<1>1. /\ bus \in Seq(Event) /\ bus' = <<>>
      /\ UNCHANGED <<rows, thread, task, fetch, view, closed>>
  BY DEF Lose, Fails, LiveInv, Typed, server, enricher
<1>2. i \notin doubt /\ Leads(i) /\ \A j \in DOMAIN bus : i \notin bus[j].ids
  BY DEF Lose, LiveInv, AllLead
<1>3. \A b : After(b, i, bus) = b /\ After(b, i, bus') = b
  BY <1>1, <1>2, AfterOthers, AfterNothing
<1>4. \A e \in Event : \A b : After(b, i, Append(bus', e)) = After(b, i, Append(bus, e))
  <2>1. bus' \in Seq(Event)
    BY <1>1
  <2>2. \A e \in Event : \A b : After(b, i, Append(bus', e)) = Effect(e, i, b)
    BY <1>3, <2>1, AfterOneMore
  <2>3. \A e \in Event : \A b : After(b, i, Append(bus, e)) = Effect(e, i, b)
    BY <1>1, <1>3, AfterOneMore
  <2>4. QED BY <2>2, <2>3
<1>5. \A v \in Voices : /\ About(v, i)' <=> About(v, i)
                        /\ Of(v)' = Of(v) /\ Of(v).event \in Event
  BY <1>1, SameVoices, VoicesTyped DEF About, LiveInv
<1>6. Bases(i)' = Bases(i) /\ Voices' = Voices /\ rows' = rows
  BY <1>1 DEF Bases, Lists, Served, Voices
<1>7. QED BY <1>2, <1>3, <1>4, <1>5, <1>6 DEF Leads

(* One list less is on its way.                                            *)
LEMMA ListGone ==
    ASSUME Typed, NEW f \in Fetches, fetch' = [fetch EXCEPT ![f] = NoFetch]
    PROVE  /\ fetch' \in [Fetches -> FetchState] /\ Served' = Served \ {f}
           /\ \A g \in Served' : fetch'[g] = fetch[g]
           /\ \A i : Lists(i)' \subseteq Lists(i)
<1>1. fetch \in [Fetches -> FetchState] /\ NoFetch \in FetchState /\ NoFetch.pc = "none"
  BY DEF Typed, NoFetch, FetchState, Value
<1>2. fetch' \in [Fetches -> FetchState] /\ Served' = Served \ {f}
  BY <1>1 DEF Served
<1>3. \A g \in Served' : fetch'[g] = fetch[g]
  BY <1>1, <1>2 DEF Served
<1>4. QED BY <1>2, <1>3 DEF Lists

(* A list lands; one that nothing crossed is the list as it is.            *)
LEMMA LandLeads ==
    ASSUME LiveInv, NEW f \in Fetches, LandList(f)
    PROVE  AllLead'
<1>1. /\ UNCHANGED <<rows, thread, task, bus, closed>>
      /\ f \in Served /\ view' = fetch[f].list /\ fetch' = [fetch EXCEPT ![f] = NoFetch]
  BY DEF LandList, server, enricher, link, stream
<1>2. \A v \in Voices : (Speaks(v)' <=> Speaks(v)) /\ Of(v)' = Of(v)
  BY <1>1, SameVoices
<1>3. /\ Served' = Served \ {f} /\ \A g \in Served' : fetch'[g] = fetch[g]
      /\ \A i : Lists(i)' \subseteq Lists(i)
  BY <1>1, ListGone DEF LiveInv
<1>4. CASE ~fetch[f].calm
  <2>1. \A i \in Ids : view'[i] \in Lists(i)
    BY <1>1 DEF Lists
  <2>2. \A i \in Ids : Bases(i)' \subseteq Bases(i)
    BY <1>1, <1>3, <2>1 DEF Bases
  <2>3. doubt' = doubt
    BY <1>4 DEF LandList
  <2>4. QED BY <1>1, <1>2, <2>2, <2>3, SilentLeads
<1>5. CASE fetch[f].calm
  <2>1. fetch[f].list = rows /\ bus = <<>> /\ \A v \in Voices : ~Speaks(v)
    BY <1>1, <1>5 DEF LiveInv, CalmIsCalm
  <2>2. ASSUME NEW i \in Ids, i \notin doubt'
        PROVE  Leads(i)'
    <3>1. \A g \in Served : fetch[g].list[i] = rows[i]
      BY <1>5, <2>1, <2>2 DEF LandList
    <3>2. \A b \in Lists(i)' : b = rows[i]
      BY <1>3, <3>1 DEF Lists
    <3>3. \A b \in Bases(i)' : b = rows[i]
      BY <1>1, <2>1, <3>2 DEF Bases
    <3>4. \A v \in Voices : ~About(v, i)'
      BY <1>2, <2>1 DEF About
    <3>5. Voices' = Voices /\ rows' = rows /\ bus' = <<>>
      BY <1>1, <2>1 DEF Voices
    <3>6. QED BY <3>3, <3>4, <3>5, AfterNothing DEF Leads
  <2>3. QED BY <2>2 DEF AllLead
<1>6. QED BY <1>4, <1>5
-----------------------------------------------------------------------------
(* Types.                                                                  *)

LEMMA EventsTyped ==
    /\ \A i \in Ids, row \in Row : RowEvent(i, row) \in Event
    /\ \A i \in Ids : GoneEvent(i) \in Event
    /\ NullEvent \in Event /\ ClearEvent \in Event
BY DEF Event, Value, RowEvent, GoneEvent, NullEvent, ClearEvent

LEMMA StatesTyped ==
    /\ Idle \in ThreadState /\ NoTask \in TaskState /\ NoFetch \in FetchState
    /\ \A e \in Event, b \in BOOLEAN : (b => e.kind = "row") => ToPublish(e, b) \in ThreadState
    /\ \A e, b : ToPublish(e, b).pc = "publish" /\ ToPublish(e, b).event = e
<1>1. Idle \in ThreadState
  BY EventsTyped DEF Idle, ThreadState
<1>2. NoTask \in TaskState
  BY EventsTyped DEF NoTask, TaskState, Value
<1>3. NoFetch \in FetchState
  BY DEF NoFetch, FetchState, Value
<1>4. \A e \in Event, b \in BOOLEAN : (b => e.kind = "row") => ToPublish(e, b) \in ThreadState
  BY DEF ToPublish, ThreadState
<1>5. \A e, b : ToPublish(e, b).pc = "publish" /\ ToPublish(e, b).event = e
  BY DEF ToPublish
<1>6. QED BY <1>1, <1>2, <1>3, <1>4, <1>5

LEMMA ShortcutsTyped ==
    ASSUME catalog \in [Names -> Shortcut], NEW n \in Names
    PROVE  NoShortcut \in Shortcut /\ Stashed(n) \in Shortcut /\ Counted(n) \subseteq Shortcut
BY DEF NoShortcut, Stashed, Counted, Fresh, Shortcut

LEMMA RowsTyped ==
    ASSUME NEW row \in Row
    PROVE  /\ row # NoRow
           /\ \A s \in {"active", "checked"} : [row EXCEPT !.status = s] \in Row
           /\ \A icon \in Icons \cup {NoIcon} : [row EXCEPT !.icon = icon] \in Row
BY LiveListAssumption DEF Row

LEMMA EndedUnchanged ==
    ASSUME Ended, UNCHANGED stream,
           \A f \in Fetches : fetch'[f].pc = "none" \/ fetch'[f].pc = fetch[f].pc
    PROVE  Ended'
BY DEF Ended, StreamTypeOK, OneStream, stream
-----------------------------------------------------------------------------
(* Requests.                                                               *)

LEMMA HandleTyped ==
    ASSUME LiveInv, NEW t \in Threads, NEW todo \in ThreadState, NEW ids \in SUBSET Ids,
           Handle(t, todo, ids), rows' \in [Ids -> Value], minted' \subseteq Ids,
           catalog' \in [Names -> Shortcut]
    PROVE  Typed' /\ CalmIsCalm' /\ Ended' /\ SameLists
<1>1. Typed /\ Ended /\ Commits(ids) /\ UNCHANGED <<scheduled, task, bus, stream, subscribed, view>>
  BY DEF LiveInv, Handle, enricher, link
<1>2. fetch' \in [Fetches -> FetchState] /\ CalmIsCalm' /\ Ended' /\ SameLists
  BY <1>1, Uneasy DEF Commits
<1>3. thread' \in [Threads -> ThreadState]
  BY <1>1 DEF Typed, Handle
<1>4. doubt' \subseteq Ids
  BY <1>1 DEF Typed, Commits
<1>5. QED BY <1>1, <1>2, <1>3, <1>4 DEF Typed

LEMMA HandleKeeps ==
    ASSUME LiveInv, NEW t \in Threads, NEW e \in Event, NEW b \in BOOLEAN, b => e.kind = "row",
           NEW ids \in SUBSET Ids, e.ids \subseteq ids, Handle(t, ToPublish(e, b), ids),
           rows' \in [Ids -> Value], minted' \subseteq Ids, catalog' \in [Names -> Shortcut],
           \A i \in Ids : rows'[i] = Effect(e, i, rows[i])
    PROVE  LiveInv'
<1> DEFINE x == <<"thread", t>>
           todo == ToPublish(e, b)
<1>1. todo \in ThreadState /\ todo.pc = "publish" /\ todo.event = e
  BY StatesTyped
<1> HIDE DEF todo
<1>2. Handle(t, todo, ids)
  BY DEF todo
<1>3. Typed' /\ CalmIsCalm' /\ Ended' /\ SameLists
  BY <1>1, <1>2, HandleTyped
<1>4. /\ x \in Voices /\ Of(x) = thread[t] /\ Of(x)' = todo
      /\ \A v \in Voices \ {x} : Of(v)' = Of(v)
  BY <1>2, ThreadSteps DEF Handle, LiveInv, Typed, enricher
<1>5. ~Speaks(x) /\ Speaks(x)' /\ Of(x)'.event = e
  BY <1>1, <1>2, <1>4 DEF Speaks, Handle
<1>6. AllLead'
  <2>1. /\ doubt \cup {i \in ids : \E u \in Unpublished : i \in u.ids} \subseteq doubt'
        /\ UNCHANGED <<bus, view, closed>>
    BY <1>2 DEF Handle, Commits, link, stream
  <2>2. QED BY <1>3, <1>4, <1>5, <2>1, CommitLeads
<1>7. QED BY <1>3, <1>6 DEF LiveInv

LEMMA OneRowEffect ==
    ASSUME rows \in [Ids -> Value], NEW i \in Ids, NEW row \in Value,
           rows' = [rows EXCEPT ![i] = row]
    PROVE  /\ rows' \in [Ids -> Value]
           /\ \A j \in Ids : rows'[j] = Effect(RowEvent(i, row), j, rows[j])
           /\ row = NoRow => \A j \in Ids : rows'[j] = Effect(GoneEvent(i), j, rows[j])
BY DEF Effect, Writes, RowEvent, GoneEvent

LEMMA AddRowKeeps ==
    ASSUME LiveInv, NEW t \in Threads, NEW i \in Ids, NEW row \in Row, AddRow(t, i, row),
           catalog' \in [Names -> Shortcut]
    PROVE  LiveInv'
<1> DEFINE b == (row.icon = NoIcon)
<1>1. rows \in [Ids -> Value] /\ minted \subseteq Ids
  BY DEF LiveInv, Typed
<1>2. /\ rows' = [rows EXCEPT ![i] = row] /\ minted' = minted \cup {i}
      /\ Handle(t, ToPublish(RowEvent(i, row), b), {i})
  BY DEF AddRow
<1>3. /\ RowEvent(i, row) \in Event /\ RowEvent(i, row).kind = "row"
      /\ RowEvent(i, row).ids \subseteq {i}
  BY EventsTyped DEF RowEvent
<1>4. rows' \in [Ids -> Value] /\ \A j \in Ids : rows'[j] = Effect(RowEvent(i, row), j, rows[j])
  BY <1>1, <1>2, OneRowEffect DEF Value
<1>5. b \in BOOLEAN /\ minted' \subseteq Ids /\ {i} \in SUBSET Ids
  BY <1>1, <1>2
<1> HIDE DEF b
<1>6. QED BY <1>2, <1>3, <1>4, <1>5, HandleKeeps

LEMMA AddKeeps ==
    ASSUME LiveInv, NEW t \in Threads, NEW n \in Names, AddItem(t, n)
    PROVE  LiveInv'
<1>1. rows \in [Ids -> Value] /\ catalog \in [Names -> Shortcut]
  BY DEF LiveInv, Typed
<1>2. \A i \in Listed(rows) : i \in Ids /\ rows[i] \in Row
  BY <1>1 DEF Listed, Value
<1>3. ASSUME NEW i \in Named(n) \cap In("active"), AddRow(t, i, rows[i]), UNCHANGED catalog
      PROVE  LiveInv'
  <2>1. i \in Ids /\ rows[i] \in Row
    BY <1>2 DEF Named
  <2>2. QED BY <1>1, <1>3, <2>1, AddRowKeeps
<1>4. ASSUME NEW c \in Counted(n), catalog' = [catalog EXCEPT ![n] = c]
      PROVE  catalog' \in [Names -> Shortcut] /\ c \in Shortcut
  BY <1>1, <1>4, ShortcutsTyped
<1>5. ASSUME NEW c \in Counted(n), catalog' = [catalog EXCEPT ![n] = c],
             NEW i \in Named(n) \cap In("checked"),
             AddRow(t, i, [rows[i] EXCEPT !.status = "active"])
      PROVE  LiveInv'
  <2>1. i \in Ids /\ rows[i] \in Row
    BY <1>2 DEF Named
  <2>2. [rows[i] EXCEPT !.status = "active"] \in Row
    BY <2>1, RowsTyped
  <2>3. QED BY <1>4, <1>5, <2>1, <2>2, AddRowKeeps
<1>6. ASSUME NEW c \in Counted(n), catalog' = [catalog EXCEPT ![n] = c],
             NEW i \in Ids \ minted,
             AddRow(t, i, [name |-> n, status |-> "active", icon |-> c.icon])
      PROVE  LiveInv'
  <2>1. [name |-> n, status |-> "active", icon |-> c.icon] \in Row
    BY <1>4, <1>6 DEF Row, Shortcut
  <2>2. QED BY <1>4, <1>6, <2>1, AddRowKeeps
<1>7. QED BY <1>3, <1>5, <1>6 DEF AddItem

LEMMA PatchKeeps ==
    ASSUME LiveInv, NEW t \in Threads, NEW i \in Listed(rows),
           NEW status \in {"active", "checked"}, PatchItem(t, i, status)
    PROVE  LiveInv'
<1> DEFINE row == [rows[i] EXCEPT !.status = status]
<1>1. /\ rows \in [Ids -> Value] /\ minted' \subseteq Ids /\ catalog' \in [Names -> Shortcut]
      /\ i \in Ids /\ rows[i] \in Row
  BY DEF LiveInv, Typed, PatchItem, Listed, Value
<1>2. rows' = [rows EXCEPT ![i] = row] /\ Handle(t, ToPublish(RowEvent(i, row), FALSE), {i})
  BY DEF PatchItem
<1>3. row \in Row
  BY <1>1, RowsTyped
<1> HIDE DEF row
<1>4. RowEvent(i, row) \in Event /\ RowEvent(i, row).ids \subseteq {i} /\ {i} \in SUBSET Ids
  BY <1>1, <1>3, EventsTyped DEF RowEvent
<1>5. rows' \in [Ids -> Value] /\ \A j \in Ids : rows'[j] = Effect(RowEvent(i, row), j, rows[j])
  BY <1>1, <1>2, <1>3, OneRowEffect DEF Value
<1>6. QED BY <1>1, <1>2, <1>4, <1>5, HandleKeeps

LEMMA DeleteKeeps ==
    ASSUME LiveInv, NEW t \in Threads, NEW i \in Listed(rows), DeleteItem(t, i)
    PROVE  LiveInv'
<1>1. rows \in [Ids -> Value] /\ minted' \subseteq Ids /\ i \in Ids /\ rows[i].name \in Names
  BY DEF LiveInv, Typed, DeleteItem, Listed, Value, Row
<1>2. rows' = Without(rows, {i}) /\ Handle(t, ToPublish(GoneEvent(i), FALSE), {i})
  BY DEF DeleteItem
<1>3. GoneEvent(i) \in Event /\ GoneEvent(i).ids \subseteq {i} /\ {i} \in SUBSET Ids
  BY <1>1, EventsTyped DEF GoneEvent
<1>4. rows' \in [Ids -> Value] /\ \A j \in Ids : rows'[j] = Effect(GoneEvent(i), j, rows[j])
  BY <1>1, <1>2 DEF Without, Effect, Writes, GoneEvent, Value
<1>5. catalog' \in [Names -> Shortcut]
  BY <1>1, ShortcutsTyped DEF DeleteItem, LiveInv, Typed
<1>6. QED BY <1>1, <1>2, <1>3, <1>4, <1>5, HandleKeeps

LEMMA ForgetKeeps ==
    ASSUME LiveInv, NEW t \in Threads, NEW n \in Names, Forget(t, n)
    PROVE  LiveInv'
<1>1. /\ rows' \in [Ids -> Value] /\ rows' = rows /\ minted' \subseteq Ids
      /\ catalog' \in [Names -> Shortcut]
  BY ShortcutsTyped DEF LiveInv, Typed, Forget
<1>2. Handle(t, ToPublish(NullEvent, FALSE), {}) /\ {} \in SUBSET Ids
  BY DEF Forget
<1>3. NullEvent \in Event /\ NullEvent.ids \subseteq {}
  BY EventsTyped DEF NullEvent
<1>4. \A j \in Ids : rows'[j] = Effect(NullEvent, j, rows[j])
  BY <1>1 DEF Effect, Writes, NullEvent
<1>5. QED BY <1>1, <1>2, <1>3, <1>4, HandleKeeps

LEMMA ClearKeeps ==
    ASSUME LiveInv, NEW t \in Threads, ClearChecked(t)
    PROVE  LiveInv'
<1>1. rows \in [Ids -> Value] /\ minted' \subseteq Ids /\ catalog' \in [Names -> Shortcut]
  BY DEF LiveInv, Typed, ClearChecked
<1>2. rows' = Without(rows, In("checked")) /\ Handle(t, ToPublish(ClearEvent, FALSE), Ids)
  BY DEF ClearChecked
<1>3. ClearEvent \in Event /\ ClearEvent.ids \subseteq Ids /\ Ids \in SUBSET Ids
  BY EventsTyped DEF ClearEvent
<1>4. rows' \in [Ids -> Value] /\ \A j \in Ids : rows'[j] = Effect(ClearEvent, j, rows[j])
  BY <1>1, <1>2 DEF Without, Effect, Writes, ClearEvent, Cleared, In, Listed, Value
<1>5. QED BY <1>1, <1>2, <1>3, <1>4, HandleKeeps

LEMMA FindKeeps ==
    ASSUME LiveInv, NEW t \in Threads, NEW kind \in {"check", "uncheck", "remove"}, Find(t, kind)
    PROVE  LiveInv'
<1> DEFINE x == <<"thread", t>>
<1>1. PICK i \in Ids : Handle(t, [Idle EXCEPT !.pc = "found", !.kind = kind, !.id = i], {})
  BY DEF Find, In, Listed
<1> DEFINE todo == [Idle EXCEPT !.pc = "found", !.kind = kind, !.id = i]
<1>2. todo \in ThreadState /\ todo.pc = "found"
  BY StatesTyped DEF Idle, ThreadState
<1> HIDE DEF todo
<1>3. Handle(t, todo, {}) /\ UNCHANGED <<rows, catalog, minted>> /\ {} \in SUBSET Ids
  BY <1>1 DEF Find, todo, server
<1>4. rows' \in [Ids -> Value] /\ minted' \subseteq Ids /\ catalog' \in [Names -> Shortcut]
  BY <1>3 DEF LiveInv, Typed
<1>5. Typed' /\ CalmIsCalm' /\ Ended' /\ SameLists
  BY <1>2, <1>3, <1>4, HandleTyped
<1>6. /\ x \in Voices /\ Of(x) = thread[t] /\ Of(x)' = todo
      /\ \A v \in Voices \ {x} : Of(v)' = Of(v)
  BY <1>2, <1>3, ThreadSteps DEF Handle, LiveInv, Typed, enricher
<1>7. \A v \in Voices :
         (Speaks(v)' <=> Speaks(v)) /\ (Speaks(v) => Of(v)'.event = Of(v).event)
  BY <1>2, <1>3, <1>6 DEF Speaks, Handle
<1>8. UNCHANGED <<rows, bus, view, closed>> /\ doubt \subseteq doubt'
  BY <1>3 DEF Handle, Commits, link, stream
<1>9. \A j \in Ids : Bases(j)' \subseteq Bases(j)
  BY <1>5, <1>8, SameListsServed DEF Bases
<1>10. AllLead'
  BY <1>7, <1>8, <1>9, SilentLeads
<1>11. QED BY <1>5, <1>10 DEF LiveInv

LEMMA ActKeeps ==
    ASSUME LiveInv, NEW t \in Threads, ActOnFound(t)
    PROVE  LiveInv'
<1> DEFINE x == <<"thread", t>>
           i == thread[t].id
           row == IF rows[i] = NoRow THEN NoRow
                  ELSE [rows[i] EXCEPT !.status = IF thread[t].kind = "check" THEN "checked"
                                                  ELSE "active"]
           e == IF thread[t].kind = "remove" THEN GoneEvent(i)
                ELSE IF row = NoRow THEN NullEvent ELSE RowEvent(i, row)
           now == IF thread[t].kind = "remove" THEN NoRow ELSE row
           todo == ToPublish(e, FALSE)
<1>1. /\ thread[t].pc = "found" /\ rows' = [rows EXCEPT ![i] = now]
      /\ catalog' = IF thread[t].kind = "remove" /\ row # NoRow
                    THEN [catalog EXCEPT ![row.name] = Stashed(row.name)] ELSE catalog
      /\ thread' = [thread EXCEPT ![t] = todo] /\ Commits({i})
      /\ UNCHANGED <<minted, scheduled, task, bus, link, view>>
  BY DEF ActOnFound, enricher
<1>2. Typed /\ Ended /\ thread[t] \in ThreadState /\ i \in Ids /\ rows[i] \in Value
  BY <1>1 DEF LiveInv, Typed, ThreadState
<1>3. row \in Value /\ (rows[i] # NoRow => row \in Row) /\ (row = NoRow <=> rows[i] = NoRow)
  BY <1>2, RowsTyped DEF Value
<1> HIDE DEF row
<1>13. catalog' \in [Names -> Shortcut]
  <2>1. row # NoRow => row.name \in Names
    BY <1>3 DEF Row, Value
  <2>2. QED BY <1>1, <1>2, <2>1, ShortcutsTyped DEF Typed
<1>4. e \in Event /\ e.ids \subseteq {i} /\ now \in Value
  BY <1>2, <1>3, EventsTyped DEF RowEvent, GoneEvent, NullEvent, Value
<1>5. rows' \in [Ids -> Value] /\ \A j \in Ids : rows'[j] = Effect(e, j, rows[j])
  <2>1. rows \in [Ids -> Value]
    BY <1>2 DEF Typed
  <2>2. CASE thread[t].kind = "remove"
    BY <1>1, <1>2, <1>4, <2>1, <2>2, OneRowEffect
  <2>3. CASE thread[t].kind # "remove" /\ row # NoRow
    BY <1>1, <1>2, <1>4, <2>1, <2>3, OneRowEffect
  <2>4. CASE thread[t].kind # "remove" /\ row = NoRow
    <3>1. rows' = rows
      BY <1>1, <1>2, <1>3, <2>1, <2>4
    <3>2. \A j, v : Effect(NullEvent, j, v) = v
      BY DEF Effect, Writes, NullEvent
    <3>3. QED BY <2>1, <2>4, <3>1, <3>2
  <2>5. QED BY <2>2, <2>3, <2>4
<1> HIDE DEF e, now
<1>6. todo \in ThreadState /\ todo.pc = "publish" /\ todo.event = e
  BY <1>4, StatesTyped
<1> HIDE DEF todo
<1>7. fetch' \in [Fetches -> FetchState] /\ SameLists /\ CalmIsCalm' /\ Ended'
  BY <1>1, <1>2, Uneasy DEF Commits, link
<1>8. Typed'
  <2>1. thread' \in [Threads -> ThreadState] /\ doubt' \subseteq Ids
    BY <1>1, <1>2, <1>6 DEF Typed, Commits
  <2>2. QED BY <1>1, <1>2, <1>5, <1>7, <1>13, <2>1 DEF Typed, link
<1>9. /\ x \in Voices /\ Of(x) = thread[t] /\ Of(x)' = todo
      /\ \A v \in Voices \ {x} : Of(v)' = Of(v)
  BY <1>1, <1>2, ThreadSteps DEF Typed
<1>10. ~Speaks(x) /\ Speaks(x)' /\ Of(x)'.event = e
  BY <1>1, <1>6, <1>9 DEF Speaks
<1>11. AllLead'
  <2>1. /\ doubt \cup {j \in {i} : \E u \in Unpublished : j \in u.ids} \subseteq doubt'
        /\ UNCHANGED <<bus, view, closed>> /\ {i} \in SUBSET Ids
    BY <1>1, <1>2 DEF Commits, link, stream
  <2> HIDE DEF i
  <2>2. QED BY <1>4, <1>5, <1>7, <1>9, <1>10, <2>1, CommitLeads
<1>12. QED BY <1>7, <1>8, <1>11 DEF LiveInv
-----------------------------------------------------------------------------
(* Publications.                                                           *)

LEMMA PublishTyped ==
    ASSUME LiveInv, NEW e \in Event, Publish(e)
    PROVE  /\ bus' \in Seq(Event) /\ Len(bus') <= MaxQueue
           /\ doubt' \subseteq Ids /\ fetch' \in [Fetches -> FetchState] /\ CalmIsCalm'
           /\ UNCHANGED stream => Ended'
<1>1. Typed /\ Ended
  BY DEF LiveInv
<1>2. /\ fetch' \in [Fetches -> FetchState] /\ CalmIsCalm'
      /\ UNCHANGED stream => Ended'
  BY <1>1, Uneasy DEF Publish
<1>3. doubt' \subseteq Ids
  BY <1>1 DEF Typed, Publish, Event
<1>4. bus' \in Seq(Event) /\ Len(bus') <= MaxQueue
  <2>1. bus \in Seq(Event) /\ Len(bus) <= MaxQueue /\ Len(bus) \in Nat /\ MaxQueue \in Nat
    BY <1>1, LiveListAssumption DEF Typed
  <2>2. CASE bus' = bus
    BY <2>1, <2>2
  <2>3. CASE bus' = Append(bus, e) /\ Len(bus) < MaxQueue
    BY <2>1, <2>3
  <2>4. QED BY <2>2, <2>3 DEF Publish
<1>5. QED BY <1>2, <1>3, <1>4

LEMMA PublishRequestKeeps ==
    ASSUME LiveInv, NEW t \in Threads, PublishRequest(t)
    PROVE  LiveInv'
<1> DEFINE x == <<"thread", t>>
           e == thread[t].event
<1>1. /\ thread[t].pc = "publish" /\ Publish(e) /\ thread' = [thread EXCEPT ![t] = Idle]
      /\ UNCHANGED <<rows, catalog, minted, task, link, view>>
  BY DEF PublishRequest, server
<1>2. Typed /\ thread[t] \in ThreadState /\ e \in Event /\ (thread[t].enrich => e.kind = "row")
  BY DEF LiveInv, Typed, ThreadState
<1>3. /\ bus' \in Seq(Event) /\ Len(bus') <= MaxQueue /\ doubt' \subseteq Ids
      /\ fetch' \in [Fetches -> FetchState] /\ CalmIsCalm' /\ Ended'
  BY <1>1, <1>2, PublishTyped DEF link
<1>4. scheduled' \in Seq(Event) /\ \A j \in DOMAIN scheduled' : scheduled'[j].kind = "row"
  <2>1. scheduled \in Seq(Event) /\ \A j \in DOMAIN scheduled : scheduled[j].kind = "row"
    BY <1>2 DEF Typed
  <2>2. CASE scheduled' = scheduled
    BY <2>1, <2>2
  <2>3. CASE scheduled' = Append(scheduled, e) /\ thread[t].enrich
    BY <1>2, <2>1, <2>3
  <2>4. QED BY <2>2, <2>3 DEF PublishRequest
<1>5. Typed'
  <2>1. thread' \in [Threads -> ThreadState]
    BY <1>1, <1>2, StatesTyped DEF Typed
  <2>2. QED BY <1>1, <1>2, <1>3, <1>4, <2>1 DEF Typed, link
<1>6. /\ x \in Voices /\ Of(x) = thread[t] /\ Of(x)' = Idle
      /\ \A v \in Voices \ {x} : Of(v)' = Of(v)
  BY <1>1, <1>2, ThreadSteps DEF Typed
<1>7. /\ Speaks(x) /\ ~Speaks(x)' /\ Of(x).event = e
      /\ \A v \in Voices \ {x} :
            (Speaks(v)' <=> Speaks(v)) /\ (Speaks(v) => Of(v)'.event = Of(v).event)
  BY <1>1, <1>6 DEF Speaks, Idle
<1>8. AllLead'
  BY <1>1, <1>6, <1>7, PublishLeads DEF link, stream
<1>9. QED BY <1>3, <1>5, <1>8 DEF LiveInv

LEMMA PublishTaskKeeps ==
    ASSUME LiveInv, NEW k \in Tasks, PublishTask(k)
    PROVE  LiveInv'
<1> DEFINE x == <<"task", k>>
           e == task[k].event
<1>1. /\ task[k].pc = "publish" /\ Publish(e) /\ task' = [task EXCEPT ![k] = NoTask]
      /\ UNCHANGED <<rows, catalog, minted, thread, scheduled, link, view>>
  BY DEF PublishTask, server
<1>2. Typed /\ e \in Event
  BY DEF LiveInv, Typed, TaskState
<1>3. /\ bus' \in Seq(Event) /\ Len(bus') <= MaxQueue /\ doubt' \subseteq Ids
      /\ fetch' \in [Fetches -> FetchState] /\ CalmIsCalm' /\ Ended'
  BY <1>1, <1>2, PublishTyped DEF link
<1>4. Typed'
  <2>1. task' \in [Tasks -> TaskState]
    BY <1>1, <1>2, StatesTyped DEF Typed
  <2>2. QED BY <1>1, <1>2, <1>3, <2>1 DEF Typed, link
<1>5. /\ x \in Voices /\ Of(x) = task[k] /\ Of(x)' = NoTask
      /\ \A v \in Voices \ {x} : Of(v)' = Of(v)
  BY <1>1, <1>2, TaskSteps DEF Typed
<1>6. /\ Speaks(x) /\ ~Speaks(x)' /\ Of(x).event = e
      /\ \A v \in Voices \ {x} :
            (Speaks(v)' <=> Speaks(v)) /\ (Speaks(v) => Of(v)'.event = Of(v).event)
  BY <1>1, <1>5 DEF Speaks, NoTask
<1>7. AllLead'
  BY <1>1, <1>5, <1>6, PublishLeads DEF link, stream
<1>8. QED BY <1>3, <1>4, <1>7 DEF LiveInv
-----------------------------------------------------------------------------
(* Enrichments.                                                            *)

(* Enrichments still to be run.                                            *)
LEMMA ScheduleTyped ==
    ASSUME Typed, scheduled # <<>>, scheduled' = Tail(scheduled)
    PROVE  /\ Head(scheduled) \in Event /\ Head(scheduled).kind = "row"
           /\ scheduled' \in Seq(Event)
           /\ \A j \in DOMAIN scheduled' : scheduled'[j].kind = "row"
<1>1. scheduled \in Seq(Event) /\ \A j \in DOMAIN scheduled : scheduled[j].kind = "row"
  BY DEF Typed
<1>2. Len(scheduled) \in Nat \ {0} /\ DOMAIN scheduled = 1 .. Len(scheduled)
  BY <1>1
<1>3. Head(scheduled) = scheduled[1] /\ 1 \in DOMAIN scheduled /\ scheduled' \in Seq(Event)
  BY <1>1, <1>2
<1>4. \A j \in DOMAIN scheduled' : j + 1 \in DOMAIN scheduled /\ scheduled'[j] = scheduled[j + 1]
  BY <1>1, <1>2
<1>5. QED BY <1>1, <1>3, <1>4

(* A step of the enricher that has nothing to publish before or after it.  *)
LEMMA MusingKeeps ==
    ASSUME LiveInv, Typed', UNCHANGED <<rows, thread, bus, phone, doubt>>,
           \A k \in Tasks : task'[k] = task[k] \/ (task[k].pc # "publish" /\ task'[k].pc # "publish")
    PROVE  LiveInv'
<1>1. Ended /\ UNCHANGED <<subscribed, stream, fetch, view>>
  BY DEF LiveInv, phone, link
<1>2. \A v \in Voices :
         (Speaks(v)' <=> Speaks(v)) /\ (Speaks(v) => Of(v)'.event = Of(v).event)
  BY DEF Voices, Speaks, Of
<1>3. \A i \in Ids : Bases(i)' \subseteq Bases(i)
  BY <1>1 DEF Bases, Lists, Served, stream
<1>4. AllLead'
  BY <1>2, <1>3, SilentLeads
<1>5. CalmIsCalm'
  BY <1>1, <1>2 DEF CalmIsCalm, LiveInv, Voices, Served
<1>6. Ended'
  BY <1>1, EndedUnchanged
<1>7. QED BY <1>4, <1>5, <1>6 DEF LiveInv

LEMMA SkipKeeps ==
    ASSUME LiveInv, SkipModel
    PROVE  LiveInv'
<1>1. UNCHANGED <<rows, catalog, minted, thread, task, bus, phone, doubt>>
  BY DEF SkipModel, server
<1>2. Typed'
  BY <1>1, ScheduleTyped DEF SkipModel, LiveInv, Typed, phone, link
<1>3. QED BY <1>1, <1>2, MusingKeeps

LEMMA AskKeeps ==
    ASSUME LiveInv, NEW k \in Tasks, AskModel(k)
    PROVE  LiveInv'
<1> DEFINE s == Head(scheduled)
<1>1. /\ scheduled # <<>> /\ task[k].pc = "none" /\ scheduled' = Tail(scheduled)
      /\ UNCHANGED <<rows, catalog, minted, thread, bus, phone, doubt>>
  BY DEF AskModel, server
<1>2. s \in Event /\ s.kind = "row" /\ s.row \in Row
  BY <1>1, ScheduleTyped DEF LiveInv, Event
<1>3. PICK i \in s.ids : task' = [task EXCEPT ![k] =
                             [NoTask EXCEPT !.pc = "asked", !.id = i, !.row = s.row]]
  BY DEF AskModel
<1> DEFINE r == [NoTask EXCEPT !.pc = "asked", !.id = i, !.row = s.row]
<1>4. r \in TaskState /\ r.pc = "asked"
  <2>1. i \in Ids
    BY <1>2, <1>3 DEF Event
  <2>2. QED BY <1>2, <2>1, EventsTyped DEF NoTask, TaskState, Value
<1>5. task' = [task EXCEPT ![k] = r] /\ task \in [Tasks -> TaskState]
  BY <1>3 DEF LiveInv, Typed
<1> HIDE DEF r, s
<1>6. task' \in [Tasks -> TaskState]
  BY <1>4, <1>5
<1>7. Typed'
  BY <1>1, <1>6, ScheduleTyped DEF LiveInv, Typed, phone, link
<1>8. QED BY <1>1, <1>4, <1>5, <1>7, MusingKeeps

LEMMA ModelFailsKeeps ==
    ASSUME LiveInv, NEW k \in Tasks, ModelFails(k)
    PROVE  LiveInv'
<1>1. /\ task[k].pc = "asked" /\ task' = [task EXCEPT ![k] = NoTask]
      /\ UNCHANGED <<rows, catalog, minted, thread, scheduled, bus, phone, doubt>>
  BY DEF ModelFails, server
<1>2. task \in [Tasks -> TaskState] /\ NoTask \in TaskState /\ NoTask.pc = "none"
  BY StatesTyped DEF LiveInv, Typed, NoTask
<1>3. Typed'
  BY <1>1, <1>2 DEF LiveInv, Typed, phone, link
<1>4. QED BY <1>1, <1>2, <1>3, MusingKeeps

LEMMA LearnKeeps ==
    ASSUME LiveInv, NEW k \in Tasks, NEW icon \in Icons \cup {NoIcon}, Learn(k, icon)
    PROVE  LiveInv'
<1> DEFINE r == [task[k] EXCEPT !.pc = "learned", !.icon = icon]
<1>1. /\ task \in [Tasks -> TaskState] /\ task[k] \in TaskState /\ task[k].pc = "asked"
      /\ catalog \in [Names -> Shortcut]
  BY DEF LiveInv, Typed, Learn
<1>2. r \in TaskState /\ r.pc = "learned"
  BY <1>1 DEF TaskState
<1>3. catalog' \in [Names -> Shortcut]
  <2>1. \A n \in Names : [catalog[n] EXCEPT !.icon = icon] \in Shortcut
    BY <1>1 DEF Shortcut
  <2>2. task[k].row.name \in Names
    BY <1>1 DEF TaskState, Row
  <2>3. QED BY <1>1, <2>1, <2>2 DEF Learn, Shortcut
<1>4. /\ task' = [task EXCEPT ![k] = r]
      /\ UNCHANGED <<rows, minted, thread, scheduled, bus, phone, doubt>>
  BY DEF Learn
<1> HIDE DEF r
<1>5. Typed'
  BY <1>1, <1>2, <1>3, <1>4 DEF LiveInv, Typed, phone, link
<1>6. QED BY <1>1, <1>2, <1>4, <1>5, MusingKeeps

LEMMA FileKeeps ==
    ASSUME LiveInv, NEW k \in Tasks, FileRow(k)
    PROVE  LiveInv'
<1> DEFINE x == <<"task", k>>
           i == task[k].id
           gone == rows[i] = NoRow
           row == IF gone THEN task[k].row ELSE [rows[i] EXCEPT !.icon = task[k].icon]
           e == RowEvent(i, row)
           r == [task[k] EXCEPT !.pc = "publish", !.event = e]
<1>1. /\ task[k].pc = "learned" /\ rows' = IF gone THEN rows ELSE [rows EXCEPT ![i] = row]
      /\ task' = [task EXCEPT ![k] = r]
      /\ doubt' = doubt \cup {j \in {i} : gone \/ \E u \in Unpublished : j \in u.ids}
      /\ fetch' = Crossed
      /\ UNCHANGED <<catalog, minted, thread, scheduled, bus, link, view>>
  BY DEF FileRow
<1>2. Typed /\ Ended /\ task[k] \in TaskState /\ rows \in [Ids -> Value]
  BY DEF LiveInv, Typed
<1>3. i \in Ids /\ task[k].row \in Row /\ task[k].icon \in Icons \cup {NoIcon} /\ rows[i] \in Value
  BY <1>1, <1>2 DEF TaskState
<1>4. row \in Row
  <2>1. CASE gone
    BY <1>3, <2>1
  <2>2. CASE ~gone
    BY <1>3, <2>2, RowsTyped DEF Value
  <2>3. QED BY <2>1, <2>2
<1> HIDE DEF row
<1>5. e \in Event /\ e.ids = {i}
  BY <1>3, <1>4, EventsTyped DEF RowEvent
<1>6. r \in TaskState /\ r.pc = "publish" /\ r.event = e
  BY <1>1, <1>2, <1>5 DEF TaskState
<1>7. /\ rows' \in [Ids -> Value]
      /\ \A j \in Ids \ doubt' : rows'[j] = Effect(e, j, rows[j])
  <2>1. CASE gone
    <3>1. i \in doubt' /\ rows' = rows
      BY <1>1, <2>1
    <3>2. \A j \in Ids \ {i} : Effect(e, j, rows[j]) = rows[j]
      BY <1>5, NotAbout
    <3>3. QED BY <1>2, <3>1, <3>2
  <2>2. CASE ~gone
    <3>1. rows' = [rows EXCEPT ![i] = row] /\ row \in Value
      BY <1>1, <1>4, <2>2 DEF Value
    <3>2. QED BY <1>2, <1>3, <3>1, OneRowEffect
  <2>3. QED BY <2>1, <2>2
<1>8. fetch' \in [Fetches -> FetchState] /\ SameLists /\ CalmIsCalm' /\ Ended'
  BY <1>1, <1>2, Uneasy DEF link
<1> HIDE DEF r
<1>9. Typed'
  <2>1. task' \in [Tasks -> TaskState] /\ doubt' \subseteq Ids
    BY <1>1, <1>2, <1>3, <1>6 DEF Typed
  <2>2. QED BY <1>1, <1>2, <1>7, <1>8, <2>1 DEF Typed, link
<1>10. /\ x \in Voices /\ Of(x) = task[k] /\ Of(x)' = r
       /\ \A v \in Voices \ {x} : Of(v)' = Of(v)
  BY <1>1, <1>2, TaskSteps DEF Typed
<1>11. ~Speaks(x) /\ Speaks(x)' /\ Of(x)'.event = e
  BY <1>1, <1>6, <1>10 DEF Speaks
<1>12. /\ doubt \cup {j \in {i} : \E u \in Unpublished : j \in u.ids} \subseteq doubt'
       /\ UNCHANGED <<bus, view, closed>> /\ {i} \in SUBSET Ids
  BY <1>1, <1>3 DEF link, stream
<1> HIDE DEF e, i
<1>13. AllLead'
  BY <1>5, <1>7, <1>8, <1>10, <1>11, <1>12, CommitLeads
<1>14. QED BY <1>8, <1>9, <1>13 DEF LiveInv
-----------------------------------------------------------------------------
(* The phone.                                                              *)

(* A step of the phone alone that takes neither its list nor an event.     *)
LEMMA PhoneKeeps ==
    ASSUME LiveInv, UNCHANGED <<rows, catalog, minted, thread, scheduled, task, bus, doubt>>,
           view' \in [Ids -> Value], subscribed' \in BOOLEAN, fetch' \in [Fetches -> FetchState],
           \A i \in Ids : Bases(i)' \subseteq Bases(i), CalmIsCalm', Ended'
    PROVE  LiveInv'
<1>1. Typed'
  BY DEF LiveInv, Typed
<1>2. AllLead'
  BY SameVoices, SilentLeads
<1>3. QED BY <1>1, <1>2 DEF LiveInv

(* A list that is asked for has yet to be read.                            *)
LEMMA AskListTyped ==
    ASSUME LiveInv, NEW f \in Fetches, AskList(f), UNCHANGED <<rows, thread, task, bus>>
    PROVE  /\ fetch' \in [Fetches -> FetchState] /\ CalmIsCalm'
           /\ Served' = Served /\ \A i : Lists(i)' = Lists(i)
<1> DEFINE r == [NoFetch EXCEPT !.pc = "asked"]
<1>1. r \in FetchState /\ r.pc = "asked"
  BY StatesTyped DEF FetchState
<1>2. /\ fetch \in [Fetches -> FetchState] /\ fetch[f].pc = "none"
      /\ fetch' = [fetch EXCEPT ![f] = r]
  BY DEF LiveInv, Typed, AskList
<1> HIDE DEF r
<1>3. fetch' \in [Fetches -> FetchState] /\ Served' = Served
  BY <1>1, <1>2 DEF Served
<1>4. \A g \in Served : fetch'[g] = fetch[g]
  BY <1>2 DEF Served
<1>5. \A i : Lists(i)' = Lists(i)
  BY <1>3, <1>4 DEF Lists
<1>6. CalmIsCalm'
  BY <1>3, <1>4, SameVoices DEF LiveInv, CalmIsCalm, Voices
<1>7. QED BY <1>3, <1>5, <1>6

LEMMA RefreshKeeps ==
    ASSUME LiveInv, NEW f \in Fetches, Refresh(f)
    PROVE  LiveInv'
<1>1. /\ Typed /\ Ended /\ ~closed /\ AskList(f)
      /\ UNCHANGED <<rows, catalog, minted, thread, scheduled, task, bus, doubt, view,
                     subscribed, stream>>
  BY DEF LiveInv, Refresh, server, enricher, link
<1>2. /\ fetch' \in [Fetches -> FetchState] /\ CalmIsCalm'
      /\ \A i : Lists(i)' = Lists(i)
  BY <1>1, AskListTyped
<1>3. Ended'
  BY <1>1 DEF Ended, StreamTypeOK, OneStream, stream
<1>4. \A i \in Ids : Bases(i)' \subseteq Bases(i)
  BY <1>1, <1>2 DEF Bases, stream
<1>5. QED BY <1>1, <1>2, <1>3, <1>4, PhoneKeeps DEF Typed

LEMMA ConnectKeeps ==
    ASSUME LiveInv, Connect
    PROVE  LiveInv'
<1>1. /\ Typed /\ Ended /\ Opens
      /\ (\E f \in Fetches : AskList(f)) \/ UNCHANGED <<fetch, spent>>
      /\ UNCHANGED <<rows, catalog, minted, thread, scheduled, task, bus, doubt, view, subscribed>>
  BY DEF LiveInv, Connect, server, enricher
<1>2. /\ fetch' \in [Fetches -> FetchState] /\ CalmIsCalm'
      /\ \A i : Lists(i)' = Lists(i)
  <2>1. CASE \E f \in Fetches : AskList(f)
    BY <1>1, <2>1, AskListTyped
  <2>2. CASE UNCHANGED fetch
    BY <1>1, <2>2, SameVoices DEF LiveInv, Typed, CalmIsCalm, Voices, Served, Lists
  <2>3. QED BY <1>1, <2>1, <2>2
<1>3. ~closed /\ UNCHANGED closed
  BY <1>1 DEF Ended, OneStream, Opens
<1>4. Ended'
  BY <1>1, <1>3, StreamClientAssumption DEF Ended, StreamTypeOK, OneStream, Opens
<1>5. \A i \in Ids : Bases(i)' \subseteq Bases(i)
  BY <1>1, <1>2, <1>3 DEF Bases
<1>6. QED BY <1>1, <1>2, <1>4, <1>5, PhoneKeeps DEF Typed

LEMMA SubscribeKeeps ==
    ASSUME LiveInv, Subscribe
    PROVE  LiveInv'
<1>1. /\ Typed /\ Ended /\ subscribed' = TRUE
      /\ UNCHANGED <<rows, catalog, minted, thread, scheduled, task, bus, doubt, view, stream, fetch>>
  BY DEF LiveInv, Subscribe, server, enricher
<1>2. CalmIsCalm'
  BY <1>1, SameVoices DEF LiveInv, CalmIsCalm, Voices, Served
<1>3. \A i \in Ids : Bases(i)' \subseteq Bases(i)
  BY <1>1 DEF Bases, Lists, Served, stream
<1>4. QED BY <1>1, <1>2, <1>3, EndedUnchanged, PhoneKeeps DEF Typed

LEMMA AttemptKeeps ==
    ASSUME LiveInv, Attempt
    PROVE  LiveInv'
<1>1. /\ Typed /\ Ended
      /\ UNCHANGED <<rows, catalog, minted, thread, scheduled, task, bus, doubt, view,
                     subscribed, fetch>>
  BY DEF LiveInv, Attempt, server, enricher
<1>2. PICK has \in BOOLEAN : TimerFires(has)
  BY DEF Attempt
<1>3. Ended'
  BY <1>1, <1>2 DEF Ended, StreamTypeOK, OneStream, TimerFires, Open
<1>4. CalmIsCalm'
  BY <1>1, SameVoices DEF LiveInv, CalmIsCalm, Voices, Served
<1>5. \A i \in Ids : Bases(i)' \subseteq Bases(i)
  BY <1>1, <1>2 DEF Bases, Lists, Served, TimerFires
<1>6. QED BY <1>1, <1>3, <1>4, <1>5, PhoneKeeps DEF Typed

LEMMA ProbeKeeps ==
    ASSUME LiveInv, Probe
    PROVE  LiveInv'
<1> DEFINE none == [f \in Fetches |-> NoFetch]
<1>1. /\ Typed /\ Ended
      /\ UNCHANGED <<rows, catalog, minted, thread, scheduled, task, bus, doubt, subscribed>>
      /\ view' = IF closed' THEN [i \in Ids |-> NoRow] ELSE view
      /\ fetch' = IF closed' THEN none ELSE fetch
  BY DEF LiveInv, Probe, server, enricher
<1>2. PICK still \in BOOLEAN : ProbeAnswers(still)
  BY DEF Probe
<1>3. none \in [Fetches -> FetchState] /\ \A f \in Fetches : none[f].pc = "none"
  BY StatesTyped DEF NoFetch
<1> HIDE DEF none
<1>4. Ended'
  BY <1>1, <1>2, <1>3 DEF Ended, StreamTypeOK, OneStream, ProbeAnswers
<1>5. view' \in [Ids -> Value] /\ fetch' \in [Fetches -> FetchState]
  BY <1>1, <1>3 DEF Typed, Value
<1>6. CalmIsCalm'
  <2>1. CASE closed'
    BY <1>1, <1>3, <2>1 DEF CalmIsCalm, Served
  <2>2. CASE ~closed'
    BY <1>1, <2>2, SameVoices DEF LiveInv, CalmIsCalm, Voices, Served
  <2>3. QED BY <2>1, <2>2
<1>7. \A i \in Ids : Bases(i)' \subseteq Bases(i)
  <2>1. CASE closed'
    BY <1>1, <1>3, <2>1 DEF Bases, Lists, Served
  <2>2. CASE ~closed'
    <3>1. ~closed
      BY <1>2, <2>2 DEF ProbeAnswers
    <3>2. QED BY <1>1, <2>2, <3>1 DEF Bases, Lists, Served
  <2>3. QED BY <2>1, <2>2
<1>8. QED BY <1>1, <1>4, <1>5, <1>6, <1>7, PhoneKeeps DEF Typed

LEMMA ServeKeeps ==
    ASSUME LiveInv, NEW f \in Fetches, ServeList(f)
    PROVE  LiveInv'
<1> DEFINE r == [pc |-> "served", list |-> rows, calm |-> subscribed /\ Calm]
<1>1. /\ Typed /\ Ended /\ fetch[f].pc = "asked" /\ fetch' = [fetch EXCEPT ![f] = r]
      /\ UNCHANGED <<rows, catalog, minted, thread, scheduled, task, bus, doubt, view,
                     subscribed, stream>>
  BY DEF LiveInv, ServeList, server, enricher, link
<1>2. (subscribed /\ Calm) \in BOOLEAN
  BY DEF Calm
<1>3. r \in FetchState /\ r.pc = "served" /\ r.list = rows
  BY <1>1, <1>2 DEF FetchState, Typed
<1>4. r.calm => bus = <<>> /\ Unpublished = {}
  BY DEF Calm
<1> HIDE DEF r
<1>5. /\ fetch' \in [Fetches -> FetchState] /\ Served' = Served \cup {f} /\ fetch'[f] = r
      /\ \A g \in Served : fetch'[g] = fetch[g]
  BY <1>1, <1>3 DEF Typed, Served
<1>6. CalmIsCalm'
  <2>1. \A v \in Voices : Speaks(v)' <=> Speaks(v)
    BY <1>1, SameVoices
  <2>2. Voices' = Voices
    BY DEF Voices
  <2>3. ASSUME NEW g \in Served', fetch'[g].calm
        PROVE  fetch'[g].list = rows /\ bus = <<>> /\ \A v \in Voices : ~Speaks(v)
    <3>1. CASE g = f
      BY <1>3, <1>4, <1>5, <2>3, <3>1, UnpublishedIsSpoken
    <3>2. CASE g # f
      BY <1>5, <2>3, <3>2 DEF LiveInv, CalmIsCalm
    <3>3. QED BY <3>1, <3>2
  <2>4. Served' \subseteq Fetches
    BY DEF Served
  <2>5. QED BY <1>1, <2>1, <2>2, <2>3, <2>4 DEF CalmIsCalm
<1>7. Ended'
  BY <1>1 DEF Ended, StreamTypeOK, OneStream, stream
<1>8. \A i \in Ids : Bases(i)' \subseteq Bases(i)
  BY <1>1, <1>3, <1>5 DEF Bases, Lists, stream
<1>9. QED BY <1>1, <1>5, <1>6, <1>7, <1>8, PhoneKeeps DEF Typed

LEMMA DeliverKeeps ==
    ASSUME LiveInv, DeliverEvent
    PROVE  LiveInv'
<1>1. /\ Typed /\ Ended /\ bus # <<>> /\ bus' = Tail(bus) /\ fetch' = Crossed
      /\ UNCHANGED <<rows, catalog, minted, thread, scheduled, task, subscribed, stream>>
  BY DEF LiveInv, DeliverEvent, server, enricher, link
<1>2. fetch' \in [Fetches -> FetchState] /\ CalmIsCalm' /\ Ended'
  BY <1>1, Uneasy
<1>3. bus' \in Seq(Event) /\ Len(bus') <= MaxQueue /\ Head(bus) \in Event
  BY <1>1, LiveListAssumption DEF Typed
<1>4. view' \in [Ids -> Value]
  BY <1>1, <1>3 DEF DeliverEvent, Typed, Event, Without, Value
<1>5. doubt' \subseteq Ids
  BY <1>1, <1>3 DEF DeliverEvent, Typed, Event
<1>6. Typed'
  BY <1>1, <1>2, <1>3, <1>4, <1>5 DEF Typed
<1>7. QED BY <1>2, <1>6, DeliverLeads DEF LiveInv

LEMMA LoseKeeps ==
    ASSUME LiveInv, Lose
    PROVE  LiveInv'
<1>1. /\ Typed /\ Ended /\ Fails /\ bus' = <<>> /\ subscribed' = FALSE
      /\ UNCHANGED <<rows, catalog, minted, thread, scheduled, task, fetch, view>>
  BY DEF LiveInv, Lose, server, enricher
<1>2. Ended'
  <2>1. failures \in 0 .. ProbeAfter /\ ProbeAfter \in Nat
    BY <1>1, StreamClientAssumption DEF Ended, StreamTypeOK
  <2>2. failures' \in 0 .. ProbeAfter
    BY <1>1, <2>1 DEF Fails
  <2>3. QED
    BY <1>1, <2>2 DEF Ended, StreamTypeOK, OneStream, Fails, ScheduleRetry
<1>3. CalmIsCalm'
  BY <1>1, SameVoices DEF LiveInv, CalmIsCalm, Voices, Served
<1>4. doubt' \subseteq Ids
  <2>1. \A j \in DOMAIN bus : bus[j] \in Event
    BY <1>1 DEF Typed
  <2>2. QED BY <1>1, <2>1 DEF Lose, Typed, Event
<1>5. bus' \in Seq(Event) /\ Len(bus') <= MaxQueue
  <2>1. <<>> \in Seq(Event) /\ Len(<<>>) = 0
    BY EmptySeq
  <2>2. QED BY <1>1, <2>1, LiveListAssumption
<1>6. subscribed' \in BOOLEAN
  BY <1>1
<1>7. Typed'
  BY <1>1, <1>4, <1>5, <1>6 DEF Typed
<1>8. QED BY <1>2, <1>3, <1>7, LoseLeads DEF LiveInv

(* A list that has landed, or will not, is no longer on its way.           *)
LEMMA GoneKeeps ==
    ASSUME LiveInv, NEW f \in Fetches, fetch' = [fetch EXCEPT ![f] = NoFetch],
           UNCHANGED <<rows, thread, task, bus, stream>>
    PROVE  CalmIsCalm' /\ Ended'
<1>1. /\ Served' = Served \ {f} /\ \A g \in Served' : fetch'[g] = fetch[g]
      /\ Typed /\ Ended
  BY ListGone DEF LiveInv
<1>2. CalmIsCalm'
  BY <1>1, SameVoices DEF LiveInv, CalmIsCalm, Voices
<1>3. \A g \in Fetches : fetch'[g].pc = "none" \/ fetch'[g].pc = fetch[g].pc
  BY <1>1 DEF Typed, NoFetch
<1>4. QED BY <1>1, <1>2, <1>3, EndedUnchanged

LEMMA LandKeeps ==
    ASSUME LiveInv, NEW f \in Fetches, LandList(f)
    PROVE  LiveInv'
<1>1. /\ Typed /\ f \in Served /\ fetch' = [fetch EXCEPT ![f] = NoFetch] /\ view' = fetch[f].list
      /\ UNCHANGED <<rows, catalog, minted, thread, scheduled, task, bus, subscribed, stream>>
  BY DEF LiveInv, LandList, server, enricher, link
<1>2. fetch' \in [Fetches -> FetchState]
  BY <1>1, ListGone
<1>3. Ended' /\ CalmIsCalm'
  BY <1>1, GoneKeeps
<1>4. view' \in [Ids -> Value] /\ doubt' \subseteq Ids
  BY <1>1 DEF Typed, FetchState, LandList
<1>5. Typed'
  BY <1>1, <1>2, <1>4 DEF Typed
<1>6. QED BY <1>3, <1>5, LandLeads DEF LiveInv

LEMMA ListFailsKeeps ==
    ASSUME LiveInv, NEW f \in Fetches, ListFails(f)
    PROVE  LiveInv'
<1>1. /\ Typed /\ fetch' = [fetch EXCEPT ![f] = NoFetch]
      /\ UNCHANGED <<rows, catalog, minted, thread, scheduled, task, bus, doubt, view,
                     subscribed, stream>>
  BY DEF LiveInv, ListFails, server, enricher, link
<1>2. fetch' \in [Fetches -> FetchState] /\ \A i : Lists(i)' \subseteq Lists(i)
  BY <1>1, ListGone
<1>3. Ended' /\ CalmIsCalm'
  BY <1>1, GoneKeeps
<1>4. \A i \in Ids : Bases(i)' \subseteq Bases(i)
  BY <1>1, <1>2 DEF Bases, stream
<1>5. QED BY <1>1, <1>2, <1>3, <1>4, PhoneKeeps DEF Typed
-----------------------------------------------------------------------------
LEMMA InitLives == Init => LiveInv
<1> SUFFICES ASSUME Init PROVE LiveInv
  OBVIOUS
<1>1. /\ NoFetch \in FetchState /\ Served = {}
      /\ \A f \in Fetches : fetch[f] = NoFetch /\ fetch[f].pc = "none"
  BY StatesTyped DEF NoFetch, Init, Served
<1>2. Typed
  <2>1. NoShortcut \in Shortcut
    BY DEF NoShortcut, Shortcut
  <2>2. <<>> \in Seq(Event) /\ Len(<<>>) = 0 /\ DOMAIN <<>> = {}
    BY EmptySeq
  <2>3. QED BY <1>1, <2>1, <2>2, StatesTyped, LiveListAssumption DEF Init, Typed, Value
<1>3. \A v \in Voices : ~Speaks(v)
  BY DEF Init, Voices, Speaks, Of, Idle, NoTask
<1>4. AllLead
  <2>1. ASSUME NEW i \in Ids
        PROVE  Leads(i)
    <3>1. \A b \in Bases(i) : b = rows[i]
      BY <1>1 DEF Bases, Lists, Init
    <3>2. bus = <<>>
      BY DEF Init
    <3>3. QED BY <1>3, <3>1, <3>2, AfterNothing DEF Leads, About
  <2>2. QED BY <2>1 DEF AllLead
<1>5. CalmIsCalm
  BY <1>1 DEF CalmIsCalm
<1>6. Ended
  <2>1. /\ es = "open" /\ ~timer /\ ~probing /\ ~closed
        /\ timer \in BOOLEAN /\ probing \in BOOLEAN /\ closed \in BOOLEAN
    BY DEF Init
  <2>2. failures \in 0 .. ProbeAfter
    BY StreamClientAssumption DEF Init
  <2>3. StreamTypeOK /\ OneStream
    BY <2>1, <2>2 DEF StreamTypeOK, OneStream
  <2>4. QED BY <2>1, <2>3 DEF Ended
<1>7. QED BY <1>2, <1>4, <1>5, <1>6 DEF LiveInv

LEMMA LiveStep ==
    ASSUME LiveInv, [Next]_vars
    PROVE  LiveInv'
<1>1. ASSUME NEW t \in Threads, Serve(t)
      PROVE  LiveInv'
  BY <1>1, AddKeeps, ForgetKeeps, PatchKeeps, DeleteKeeps, ClearKeeps, FindKeeps, ActKeeps,
     PublishRequestKeeps DEF Serve
<1>2. ASSUME NEW k \in Tasks, Enrich(k)
      PROVE  LiveInv'
  BY <1>2, AskKeeps, ModelFailsKeeps, LearnKeeps, FileKeeps, PublishTaskKeeps DEF Enrich
<1>3. ASSUME NEW f \in Fetches, Fetch(f)
      PROVE  LiveInv'
  BY <1>3, RefreshKeeps, ServeKeeps, LandKeeps, ListFailsKeeps DEF Fetch
<1>4. CASE SkipModel \/ DeliverEvent \/ Attempt \/ Subscribe \/ Connect \/ Lose \/ Probe
  BY <1>4, SkipKeeps, DeliverKeeps, AttemptKeeps, SubscribeKeeps, ConnectKeeps, LoseKeeps,
     ProbeKeeps
<1>5. CASE UNCHANGED vars
  <2>1. /\ Typed /\ Ended
        /\ UNCHANGED <<rows, catalog, minted, thread, scheduled, task, bus, doubt, view,
                       subscribed, fetch, stream>>
    BY <1>5 DEF LiveInv, vars, server, enricher, phone, link
  <2>2. CalmIsCalm'
    BY <2>1, SameVoices DEF LiveInv, CalmIsCalm, Voices, Served
  <2>3. \A i \in Ids : Bases(i)' \subseteq Bases(i)
    BY <2>1 DEF Bases, Lists, Served, stream
  <2>4. QED BY <2>1, <2>2, <2>3, EndedUnchanged, PhoneKeeps DEF Typed
<1>6. QED BY <1>1, <1>2, <1>3, <1>4, <1>5 DEF Next

LEMMA LiveInvHolds == Spec => []LiveInv
BY InitLives, LiveStep, PTL DEF Spec

(* Every part of the live list holds a value of its type: above all, an    *)
(* event that announces a row carries one, with a name and a status.       *)
THEOREM PhoneTyped == Spec => []TypeOK
<1>1. LiveInv => TypeOK
  BY DEF LiveInv, Ended, TypeOK
<1>2. QED BY <1>1, LiveInvHolds, PTL

(* A quiet phone shows the list, row for row, but for the rows in doubt,   *)
(* however many fetches, requests and enrichments overlap.                 *)
THEOREM QuietPhoneShowsTheList == Spec => []ShowsTheList
<1>1. LiveInv => ShowsTheList
  <2> SUFFICES ASSUME LiveInv, Quiet, NEW i \in Ids \ doubt
               PROVE  view[i] = rows[i]
    BY DEF ShowsTheList
  <2>1. \A v \in Voices : ~About(v, i)
    BY DEF Quiet, Voices, About, Speaks, Of
  <2>2. \A b \in Bases(i) : After(b, i, bus) = rows[i]
    BY <2>1 DEF LiveInv, AllLead, Leads
  <2>3. bus = <<>> /\ view[i] \in Bases(i)
    BY DEF Quiet, LiveInv, Ended, OneStream, Bases
  <2>4. QED BY <2>2, <2>3, AfterNothing
<1>2. QED BY <1>1, LiveInvHolds, PTL
=============================================================================
