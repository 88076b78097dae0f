------------------------- MODULE OfflineStoreProofs -------------------------
(***************************************************************************)
(* Proofs about the offline store, for every set of names, ids and         *)
(* processes, whatever the network, the storage, the household and the     *)
(* shopper do:                                                             *)
(*                                                                         *)
(*   RunKeepsToTheDisk   a run works through the front of the queue;       *)
(*   StoreTyped          every component holds a value of its type;        *)
(*   DropsAreDeletions   a 404 drops only changes to rows that were;       *)
(*   PhantomsMarked      no row stays on screen that nothing will settle;  *)
(*   OfflineIsOnline     a drained queue leaves the list as it would be    *)
(*                       had every change been sent as it was made.        *)
(*                                                                         *)
(* For the first a change is a record that has a key, and nothing is       *)
(* assumed of the list it came from.  The others rest on an assignment K   *)
(* of a catalogue key to every id in use, which only grows: it is what ids *)
(* on screen, in the queue, on the wire and on the server agree on.        *)
(***************************************************************************)
EXTENDS OfflineStoreProps, SequenceTheorems, WellFoundedInduction, NaturalsInduction, TLAPS

Keyed(s) ==
    /\ s \in Seq({s[j] : j \in DOMAIN s})
    /\ \A j \in DOMAIN s : "key" \in DOMAIN s[j]

(* What the disk holds of a change the run has as op, in an id swap.       *)
OnDisk(op) ==
    IF replay.rewrote /\ Targets(op, Current.id) THEN [op EXCEPT !.id = replay.answer.id] ELSE op

(* RunIsFrontOfQueue with what an id swap has already done to the disk:    *)
(* the run's own copy is repointed by the swap's second step exactly where *)
(* the disk was by its first.                                              *)
FrontInv ==
    /\ Keyed(queue) /\ Keyed(replay.entries)
    /\ DOMAIN replay = {"phase", "entries", "answer", "moved", "rewrote"}
    /\ replay.phase # "swapping" => ~replay.rewrote
    /\ replay.phase # "idle" =>
          /\ replay.entries # <<>>
          /\ Len(replay.entries) <= Len(queue)
          /\ replay.phase = "swapping" =>
                /\ Current.kind = "add"
                /\ \A j \in DOMAIN replay.entries : queue[j] = OnDisk(replay.entries[j])
          /\ replay.phase # "swapping" =>
                \A j \in DOMAIN replay.entries : queue[j] = replay.entries[j]
-----------------------------------------------------------------------------
(* Queues of changes.                                                      *)

LEMMA EmptyKeyed == Keyed(<<>>)
BY DEF Keyed

(* A function on 1 .. n is a sequence over the values it takes.            *)
LEMMA OverItsValues ==
    ASSUME NEW n \in Nat, NEW s, s = [j \in 1 .. n |-> s[j]]
    PROVE  /\ s \in Seq({s[j] : j \in DOMAIN s})
           /\ Len(s) = n /\ DOMAIN s = 1 .. n
<1> DEFINE S == {s[j] : j \in 1 .. n}
<1>1. DOMAIN s = 1 .. n /\ s \in [1 .. n -> S]
  OBVIOUS
<1>2. s \in Seq(S)
  BY <1>1, SeqDef
<1>3. DOMAIN s = 1 .. Len(s) /\ Len(s) \in Nat
  BY <1>2, LenProperties
<1>4. Len(s) = n
  BY <1>1, <1>3
<1>5. QED BY <1>1, <1>2, <1>4

LEMMA SeqOverItsValues ==
    ASSUME NEW S, NEW s \in Seq(S)
    PROVE  s \in Seq({s[j] : j \in DOMAIN s})
<1>1. Len(s) \in Nat /\ s = [j \in 1 .. Len(s) |-> s[j]]
  BY LenProperties
<1>2. QED BY <1>1, OverItsValues

LEMMA AppendKeyed ==
    ASSUME NEW s, Keyed(s), NEW op, "key" \in DOMAIN op
    PROVE  /\ Keyed(Append(s, op))
           /\ Len(Append(s, op)) = Len(s) + 1
           /\ \A j \in DOMAIN s : Append(s, op)[j] = s[j]
<1> DEFINE S == {s[j] : j \in DOMAIN s}
           t == Append(s, op)
<1>1. s \in Seq(S) /\ s \in Seq(S \cup {op}) /\ DOMAIN s = 1 .. Len(s)
  BY DEF Keyed
<1>2. t \in Seq(S \cup {op}) /\ Len(t) = Len(s) + 1 /\ DOMAIN t = 1 .. Len(s) + 1
  BY <1>1
<1>3. \A j \in DOMAIN t : t[j] = IF j \in DOMAIN s THEN s[j] ELSE op
  BY <1>1, <1>2
<1>4. \A j \in DOMAIN t : "key" \in DOMAIN t[j]
  BY <1>3 DEF Keyed
<1>5. t \in Seq({t[j] : j \in DOMAIN t})
  BY <1>2, SeqOverItsValues
<1>6. QED BY <1>1, <1>2, <1>3, <1>4, <1>5 DEF Keyed

LEMMA TailKeyed ==
    ASSUME NEW s, Keyed(s), s # <<>>
    PROVE  /\ Keyed(Tail(s))
           /\ Len(Tail(s)) = Len(s) - 1
           /\ \A j \in DOMAIN Tail(s) : j + 1 \in DOMAIN s /\ Tail(s)[j] = s[j + 1]
<1> DEFINE S == {s[j] : j \in DOMAIN s}
           t == Tail(s)
<1>1. s \in Seq(S)
  BY DEF Keyed
<1>2. t \in Seq(S) /\ Len(t) = Len(s) - 1 /\ DOMAIN t = 1 .. Len(s) - 1
  BY <1>1
<1>3. \A j \in DOMAIN t : j + 1 \in DOMAIN s /\ t[j] = s[j + 1]
  BY <1>1, <1>2
<1>4. \A j \in DOMAIN t : "key" \in DOMAIN t[j]
  BY <1>3 DEF Keyed
<1>5. t \in Seq({t[j] : j \in DOMAIN t})
  BY <1>2, SeqOverItsValues
<1>6. QED BY <1>2, <1>3, <1>4, <1>5 DEF Keyed

LEMMA RepointedOne ==
    ASSUME NEW op, "key" \in DOMAIN op, NEW to
    PROVE  "key" \in DOMAIN [op EXCEPT !.id = to] /\ [op EXCEPT !.id = to].key = op.key
OBVIOUS

(* Repointing changes neither how many changes there are nor their keys.   *)
LEMMA RepointedKeyed ==
    ASSUME NEW s, Keyed(s), NEW from, NEW to
    PROVE  /\ Keyed(Repointed(s, from, to))
           /\ Len(Repointed(s, from, to)) = Len(s)
           /\ DOMAIN Repointed(s, from, to) = DOMAIN s
           /\ \A j \in DOMAIN s : Repointed(s, from, to)[j] =
                 IF Targets(s[j], from) THEN [s[j] EXCEPT !.id = to] ELSE s[j]
<1> DEFINE t == Repointed(s, from, to)
<1>1. s \in Seq({s[j] : j \in DOMAIN s}) /\ DOMAIN s = 1 .. Len(s) /\ Len(s) \in Nat
  BY DEF Keyed
<1>2. /\ t = [j \in 1 .. Len(s) |-> IF Targets(s[j], from) THEN [s[j] EXCEPT !.id = to] ELSE s[j]]
      /\ DOMAIN t = 1 .. Len(s)
  BY <1>1 DEF Repointed
<1>3. t \in Seq({t[j] : j \in DOMAIN t}) /\ Len(t) = Len(s)
  BY <1>1, <1>2, OverItsValues
<1>4. \A j \in DOMAIN t : "key" \in DOMAIN t[j]
  BY <1>1, <1>2, RepointedOne DEF Keyed
<1>5. QED BY <1>1, <1>2, <1>3, <1>4 DEF Keyed

(* Taking the first change with the head's key away leaves the tail.       *)
LEMMA HeadGoes ==
    ASSUME NEW s, Keyed(s), s # <<>>, NEW key, s[1].key = key
    PROVE  Without(s, key) = Tail(s)
<1> DEFINE I == { i \in 1 .. Len(s) : s[i].key = key }
<1>1. s \in Seq({s[j] : j \in DOMAIN s})
  BY DEF Keyed
<1>2. 1 \in I /\ \A i \in I : i \in Int /\ 1 <= i
  BY <1>1
<1>3. Min(I) = 1
  BY <1>2 DEF Min
<1>4. SelectInSeq(s, LAMBDA op : op.key = key) = 1
  BY <1>2, <1>3 DEF SelectInSeq
<1>5. RemoveAt(s, 1) = Tail(s)
  BY <1>1 DEF RemoveAt
<1>6. QED BY <1>2, <1>4, <1>5 DEF Without, RemoveFirstMatch
-----------------------------------------------------------------------------
(* The steps.                                                              *)

LEMMA StoppedKeeps ==
    ASSUME Keyed(queue)', replay' = NoReplay
    PROVE  FrontInv'
BY EmptyKeyed DEF FrontInv, NoReplay

LEMMA SameKeeps ==
    ASSUME FrontInv, UNCHANGED <<queue, replay>>
    PROVE  FrontInv'
BY DEF FrontInv, Keyed, OnDisk, Targets, Current

(* A change joins the end of the queue, whatever the run is doing.         *)
LEMMA JoinKeeps ==
    ASSUME FrontInv, NEW op, "key" \in DOMAIN op,
           queue' = Append(queue, op), UNCHANGED replay
    PROVE  FrontInv'
<1>1. Keyed(queue)' /\ Len(queue') = Len(queue) + 1 /\ Len(queue) \in Nat
  <2>1. Keyed(Append(queue, op)) /\ Len(Append(queue, op)) = Len(queue) + 1
    BY AppendKeyed DEF FrontInv
  <2>2. QED BY <2>1 DEF FrontInv, Keyed
<1>2. \A j \in DOMAIN queue : queue'[j] = queue[j]
  BY AppendKeyed DEF FrontInv
<1>3. Len(replay.entries) <= Len(queue) => DOMAIN replay.entries \subseteq DOMAIN queue
  BY DEF FrontInv, Keyed
<1>4. Len(replay.entries) \in Nat
  BY DEF FrontInv, Keyed
<1>5. Keyed(replay.entries)' /\ Current' = Current
  BY DEF FrontInv, Keyed, Current
<1>6. \A x : OnDisk(x)' = OnDisk(x)
  BY <1>5 DEF OnDisk, Targets
<1>7. QED
  BY <1>1, <1>2, <1>3, <1>4, <1>5, <1>6 DEF FrontInv

LEMMA DequeueKeeps ==
    ASSUME FrontInv, queue # <<>>, queue[1].key = Current.key,
           NEW rest, Keyed(rest), Len(rest) < Len(queue),
           \A j \in DOMAIN rest : queue[j + 1] = rest[j],
           Dequeue(queue, rest)
    PROVE  FrontInv'
<1>1. CASE StopRun /\ UNCHANGED queue
  BY <1>1, StoppedKeeps DEF StopRun, FrontInv, Keyed
<1>2. CASE queue' = Without(queue, Current.key) /\ replay' = Send(rest)
  <2>1. queue' = Tail(queue)
    BY <1>2, HeadGoes DEF FrontInv
  <2>2. /\ Keyed(queue') /\ Len(queue') = Len(queue) - 1
        /\ \A j \in DOMAIN queue' : queue'[j] = queue[j + 1]
    BY <2>1, TailKeyed DEF FrontInv
  <2>3. Len(queue) \in Nat /\ Len(rest) \in Nat /\ Keyed(queue)'
    BY <2>2 DEF FrontInv, Keyed
  <2>4. CASE rest = <<>>
    BY <1>2, <2>3, <2>4, StoppedKeeps DEF Send
  <2>5. CASE rest # <<>>
    <3>1. replay' = [NoReplay EXCEPT !.phase = "wire", !.entries = rest]
      BY <1>2, <2>5 DEF Send
    <3>2. /\ replay'.phase = "wire" /\ replay'.entries = rest /\ ~replay'.rewrote
          /\ DOMAIN replay' = {"phase", "entries", "answer", "moved", "rewrote"}
      BY <3>1 DEF NoReplay
    <3>3. Len(rest) <= Len(queue') /\ DOMAIN rest \subseteq DOMAIN queue'
      BY <2>2, <2>3 DEF Keyed
    <3>4. \A j \in DOMAIN rest : queue'[j] = rest[j]
      BY <2>2, <3>3
    <3>5. Keyed(replay.entries)'
      BY <3>2 DEF Keyed
    <3>6. QED BY <2>3, <2>5, <3>2, <3>3, <3>4, <3>5 DEF FrontInv
  <2>6. QED BY <2>4, <2>5
<1>3. QED BY <1>1, <1>2 DEF Dequeue

(* Out of a swap, the change on the wire is the oldest on disk and the     *)
(* rest of the run is what follows it there.                               *)
LEMMA RunOnDisk ==
    ASSUME FrontInv, replay.phase \notin {"idle", "swapping"}
    PROVE  /\ queue # <<>> /\ queue[1] = Current
           /\ Keyed(Rest) /\ Len(Rest) < Len(queue)
           /\ \A j \in DOMAIN Rest : queue[j + 1] = Rest[j]
<1>1. /\ Keyed(replay.entries) /\ replay.entries # <<>> /\ Len(replay.entries) <= Len(queue)
      /\ \A j \in DOMAIN replay.entries : queue[j] = replay.entries[j]
  BY DEF FrontInv
<1>2. Len(replay.entries) \in Nat \ {0} /\ DOMAIN replay.entries = 1 .. Len(replay.entries)
  BY <1>1, EmptySeq, LenProperties DEF Keyed
<1>3. queue[1] = Current
  BY <1>1, <1>2 DEF Current
<1>4. Len(queue) \in Nat /\ queue # <<>>
  BY <1>1, <1>2 DEF FrontInv, Keyed
<1>5. /\ Keyed(Rest) /\ Len(Rest) = Len(replay.entries) - 1
      /\ \A j \in DOMAIN Rest : j + 1 \in DOMAIN replay.entries
                                /\ Rest[j] = replay.entries[j + 1]
  BY <1>1, TailKeyed DEF Rest
<1>6. QED BY <1>1, <1>2, <1>3, <1>4, <1>5

LEMMA CountKeeps ==
    ASSUME FrontInv, NEW d \in Procs, Count(d)
    PROVE  FrontInv'
<1>1. UNCHANGED queue
  BY DEF Count, disk
<1>2. CASE replay' = Send(queue) /\ queue # <<>>
  <2>1. replay' = [NoReplay EXCEPT !.phase = "wire", !.entries = queue]
    BY <1>2 DEF Send
  <2>2. /\ replay'.phase = "wire" /\ replay'.entries = queue /\ ~replay'.rewrote
        /\ DOMAIN replay' = {"phase", "entries", "answer", "moved", "rewrote"}
    BY <2>1 DEF NoReplay
  <2>3. Keyed(queue)' /\ Keyed(replay.entries)' /\ Len(queue) \in Nat
    BY <1>1, <2>2 DEF FrontInv, Keyed
  <2>4. QED BY <1>1, <1>2, <2>2, <2>3 DEF FrontInv
<1>3. CASE UNCHANGED replay
  BY <1>1, <1>3, SameKeeps
<1>4. QED BY <1>2, <1>3 DEF Count

LEMMA TapKeeps ==
    ASSUME FrontInv, Shopper
    PROVE  FrontInv'
<1>1. ASSUME NEW kind, NEW i, NEW sent, NEW name, NEW key, NEW shown, NEW marked, NEW undo,
             Commit(Op(kind, i, sent, name, key), shown, marked, undo)
      PROVE  FrontInv'
  <2> DEFINE op == Op(kind, i, sent, name, key)
  <2>1. "key" \in DOMAIN op
    BY DEF Op
  <2>2. UNCHANGED replay /\ (queue' = Append(queue, op) \/ UNCHANGED queue)
    BY <1>1 DEF Commit
  <2>3. QED BY <2>1, <2>2, JoinKeeps, SameKeeps
<1>2. QED
  BY <1>1 DEF Shopper, TapAdd, TapToggle, TapRemove, TapClear

LEMMA ExecuteKeeps ==
    ASSUME FrontInv, ServerExecutes
    PROVE  FrontInv'
<1>1. UNCHANGED queue
  BY DEF ServerExecutes, disk
<1>2. \E answer : replay' = [replay EXCEPT !.phase = "answered", !.answer = answer]
  BY DEF ServerExecutes
<1>3. /\ replay'.phase = "answered" /\ replay'.entries = replay.entries
      /\ DOMAIN replay' = DOMAIN replay /\ (replay'.rewrote <=> replay.rewrote)
  BY <1>2 DEF FrontInv
<1>4. Keyed(queue)' /\ Keyed(replay.entries)'
  BY <1>1, <1>3 DEF FrontInv, Keyed
<1>5. replay.phase = "wire"
  BY DEF ServerExecutes
<1>6. QED BY <1>1, <1>3, <1>4, <1>5 DEF FrontInv

LEMMA AnswerKeeps ==
    ASSUME FrontInv, HandleOk \/ HandleGone
    PROVE  FrontInv'
<1>1. replay.phase = "answered" /\ Dequeue(queue, Rest)
  BY DEF HandleOk, HandleGone
<1>2. QED BY <1>1, RunOnDisk, DequeueKeeps

(* The swap's first step repoints the disk, or storage refuses.            *)
LEMMA SwapStartsKeeps ==
    ASSUME FrontInv, SwapStarts
    PROVE  FrontInv'
<1> DEFINE to == replay.answer.id
<1>1. replay.phase = "answered" /\ Current.kind = "add"
  BY DEF SwapStarts, Swaps
<1>2. /\ replay.entries # <<>> /\ Len(replay.entries) <= Len(queue)
      /\ \A j \in DOMAIN replay.entries : queue[j] = replay.entries[j]
      /\ DOMAIN replay.entries \subseteq DOMAIN queue
  BY <1>1 DEF FrontInv, Keyed
<1>3. CASE /\ queue' = Repointed(queue, Current.id, to)
           /\ \E moved : replay' = [replay EXCEPT
                 !.phase = "swapping", !.moved = moved,
                 !.rewrote = \E j \in DOMAIN queue : Targets(queue[j], Current.id)]
  <2>1. /\ replay'.phase = "swapping" /\ replay'.entries = replay.entries
        /\ replay'.answer = replay.answer /\ DOMAIN replay' = DOMAIN replay
        /\ replay'.rewrote <=> \E j \in DOMAIN queue : Targets(queue[j], Current.id)
    BY <1>3 DEF FrontInv
  <2>2. /\ Keyed(queue') /\ Len(queue') = Len(queue)
        /\ \A j \in DOMAIN queue : queue'[j] =
              IF Targets(queue[j], Current.id) THEN [queue[j] EXCEPT !.id = to] ELSE queue[j]
    BY <1>3, RepointedKeyed DEF FrontInv
  <2>3. Keyed(queue)' /\ Keyed(replay.entries)' /\ Current' = Current
    BY <2>1, <2>2 DEF FrontInv, Keyed, Current
  <2>4. \A j \in DOMAIN replay.entries : queue'[j] = OnDisk(replay.entries[j])'
    BY <1>2, <2>1, <2>2, <2>3 DEF OnDisk, Targets
  <2>5. QED BY <1>1, <1>2, <2>1, <2>2, <2>3, <2>4 DEF FrontInv
<1>4. CASE UNCHANGED queue /\ replay' = [replay EXCEPT !.phase = "swapping"]
  <2>1. /\ replay'.phase = "swapping" /\ replay'.entries = replay.entries
        /\ DOMAIN replay' = DOMAIN replay /\ (replay'.rewrote <=> replay.rewrote)
    BY <1>4 DEF FrontInv
  <2>2. Keyed(queue)' /\ Keyed(replay.entries)' /\ Current' = Current
    BY <1>4, <2>1 DEF FrontInv, Keyed, Current
  <2>3. ~replay.rewrote
    BY <1>1 DEF FrontInv
  <2>4. \A j \in DOMAIN replay.entries : queue'[j] = OnDisk(replay.entries[j])'
    BY <1>2, <1>4, <2>1, <2>3 DEF OnDisk
  <2>5. QED BY <1>1, <1>2, <1>4, <2>1, <2>2, <2>4 DEF FrontInv
<1>5. QED BY <1>3, <1>4 DEF SwapStarts

(* The second repoints the run's copy where the first repointed the disk.  *)
LEMMA SwapEndsKeeps ==
    ASSUME FrontInv, SwapEnds
    PROVE  FrontInv'
<1> DEFINE to == replay.answer.id
           rest == IF replay.rewrote THEN Repointed(Rest, Current.id, to) ELSE Rest
<1>1. replay.phase = "swapping" /\ Dequeue(queue, rest)
  BY DEF SwapEnds
<1>2. /\ Keyed(replay.entries) /\ replay.entries # <<>> /\ Len(replay.entries) <= Len(queue)
      /\ \A j \in DOMAIN replay.entries : queue[j] = OnDisk(replay.entries[j])
      /\ Current.kind = "add"
  BY <1>1 DEF FrontInv
<1>3. Len(replay.entries) \in Nat \ {0} /\ DOMAIN replay.entries = 1 .. Len(replay.entries)
  BY <1>2, EmptySeq, LenProperties DEF Keyed
<1>4. queue[1] = Current
  <2>1. Current = replay.entries[1] /\ 1 \in DOMAIN replay.entries
    BY <1>3 DEF Current
  <2>2. ~Targets(Current, Current.id)
    BY <1>2 DEF Targets
  <2>3. OnDisk(Current) = Current
    BY <2>2 DEF OnDisk
  <2>4. QED BY <1>2, <2>1, <2>3
<1>5. Len(queue) \in Nat /\ queue # <<>>
  BY <1>2, <1>3 DEF FrontInv, Keyed
<1>6. /\ Keyed(Rest) /\ Len(Rest) = Len(replay.entries) - 1
      /\ \A j \in DOMAIN Rest : j + 1 \in DOMAIN replay.entries
                                /\ Rest[j] = replay.entries[j + 1]
  BY <1>2, TailKeyed DEF Rest
<1>7. /\ Keyed(rest) /\ Len(rest) = Len(Rest) /\ DOMAIN rest = DOMAIN Rest
      /\ \A j \in DOMAIN Rest : rest[j] = OnDisk(Rest[j])
  BY <1>6, RepointedKeyed DEF OnDisk
<1>8. \A j \in DOMAIN rest : queue[j + 1] = rest[j]
  BY <1>2, <1>6, <1>7
<1> HIDE DEF rest
<1>9. QED BY <1>1, <1>3, <1>2, <1>4, <1>5, <1>6, <1>7, <1>8, DequeueKeeps

LEMMA NextKeeps ==
    ASSUME FrontInv, [Next]_vars
    PROVE  FrontInv'
<1>1. CASE Shopper
  BY <1>1, TapKeeps
<1>2. ASSUME NEW u \in unsaved, RollBack(u)
      PROVE  FrontInv'
  BY <1>2, SameKeeps DEF RollBack, disk
<1>3. ASSUME NEW d \in Procs, Syncing(d) \/ Retry(d) \/ ListFails(d)
      PROVE  FrontInv'
  <2>1. CASE Count(d)
    BY <2>1, CountKeeps
  <2>2. CASE Recount(d) \/ ListServed(d) \/ Land(d) \/ Reapply(d) \/ Retry(d) \/ ListFails(d)
    <3>1. UNCHANGED <<queue, replay>>
      BY <2>2 DEF Recount, ListServed, Land, Reapply, Retry, ListFails, disk
    <3>2. QED BY <3>1, SameKeeps
  <2>3. QED BY <1>3, <2>1, <2>2 DEF Syncing
<1>4. CASE Replaying
  BY <1>4, ExecuteKeeps, AnswerKeeps, SwapStartsKeeps, SwapEndsKeeps DEF Replaying
<1>5. CASE RequestFails \/ Reload
  <2>1. UNCHANGED queue /\ replay' = NoReplay
    BY <1>5 DEF RequestFails, StopRun, Reload, disk
  <2>2. Keyed(queue)'
    BY <2>1 DEF FrontInv, Keyed
  <2>3. QED BY <2>1, <2>2, StoppedKeeps
<1>6. ASSUME NEW op \in late, ServedLate(op)
      PROVE  FrontInv'
  BY <1>6, SameKeeps DEF ServedLate, disk, tasks
<1>7. ASSUME NEW op \in RemoteOps, RemoteChange(op)
      PROVE  FrontInv'
  BY <1>7, SameKeeps DEF RemoteChange, disk, tasks
<1>8. CASE DeliverEvent \/ Reconnect \/ Persist \/ Boot \/ UNCHANGED vars
  <2>1. UNCHANGED <<queue, replay>>
    BY <1>8 DEF DeliverEvent, Reconnect, Persist, Boot, vars, disk, tasks
  <2>2. QED BY <2>1, SameKeeps
<1>9. QED
  BY <1>1, <1>2, <1>3, <1>4, <1>5, <1>6, <1>7, <1>8 DEF Next

LEMMA FrontIsEnough == FrontInv => RunIsFrontOfQueue
<1> SUFFICES ASSUME FrontInv, replay.phase # "idle"
             PROVE  /\ Len(replay.entries) <= Len(queue)
                    /\ \A j \in DOMAIN replay.entries :
                          IF replay.phase = "swapping"
                          THEN replay.entries[j].key = queue[j].key
                          ELSE replay.entries[j] = queue[j]
  BY DEF RunIsFrontOfQueue
<1>1. Keyed(replay.entries) /\ Len(replay.entries) <= Len(queue)
  BY DEF FrontInv
<1>2. ASSUME NEW j \in DOMAIN replay.entries, replay.phase = "swapping"
      PROVE  replay.entries[j].key = queue[j].key
  <2> DEFINE op == replay.entries[j]
  <2>1. queue[j] = OnDisk(op) /\ "key" \in DOMAIN op
    BY <1>1, <1>2 DEF FrontInv, Keyed
  <2>2. OnDisk(op).key = op.key
    BY <2>1, RepointedOne DEF OnDisk
  <2>3. QED BY <2>1, <2>2
<1>3. QED BY <1>1, <1>2 DEF FrontInv

(* A run of the queue works through the front of what is on disk.          *)
THEOREM RunKeepsToTheDisk == Spec => []RunIsFrontOfQueue
<1>1. Init => FrontInv
  BY EmptyKeyed DEF Init, NoReplay, FrontInv
<1>2. FrontInv /\ [Next]_vars => FrontInv'
  BY NextKeeps
<1>3. QED BY <1>1, <1>2, FrontIsEnough, PTL DEF Spec
-----------------------------------------------------------------------------
(* Recursive functions.                                                    *)

LEMMA Climbs ==
    ASSUME NEW N \in Nat, NEW T, 0 \in T, \A n \in 1 .. N : n - 1 \in T => n \in T
    PROVE  \A n \in 0 .. N : n \in T
<1> DEFINE Less == OpToRel(<, Nat)
           Bad == {n \in 0 .. N : n \notin T}
<1>1. Less = {ss \in Nat \X Nat : ss[1] < ss[2]}
  BY DEF OpToRel
<1> HIDE DEF Less
<1>2. SUFFICES ASSUME Bad # {} PROVE FALSE
  OBVIOUS
<1>3. IsWellFoundedOn(Less, Nat)
  BY NatLessThanWellFounded DEF Less
<1>4. Bad \subseteq Nat
  OBVIOUS
<1>5. PICK x \in Bad : \A y \in Bad : <<y, x>> \notin Less
  BY <1>2, <1>3, <1>4, WFMin
<1>6. x \in 1 .. N /\ x - 1 \in 0 .. N /\ x - 1 \in Nat /\ x \in Nat /\ x - 1 < x
  BY <1>5
<1>7. x - 1 \notin Bad
  BY <1>1, <1>5, <1>6
<1>8. QED BY <1>5, <1>6, <1>7

Steps(S, N) == [1 .. N -> [S -> S]]
Run(S, N, base, step) ==
    \E g \in [0 .. N -> S] : g[0] = base /\ \A m \in 1 .. N : g[m] = step[m][g[m - 1]]

(* N steps can be taken from a start.                                      *)
LEMMA Iterated ==
    ASSUME NEW S, NEW N \in Nat, NEW base \in S, NEW step \in Steps(S, N)
    PROVE  Run(S, N, base, step)
<1>0. step \in [1 .. N -> [S -> S]]
  BY DEF Steps
<1> DEFINE T == {n \in 0 .. N : \E g \in [0 .. n -> S] :
                    g[0] = base /\ \A m \in 1 .. n : g[m] = step[m][g[m - 1]]}
<1>1. 0 \in T
  <2> DEFINE g == [m \in 0 .. 0 |-> base]
  <2>1. g \in [0 .. 0 -> S] /\ g[0] = base /\ \A m \in 1 .. 0 : g[m] = step[m][g[m - 1]]
    OBVIOUS
  <2>2. 0 \in 0 .. N
    OBVIOUS
  <2> HIDE DEF g
  <2>3. QED BY <2>1, <2>2
<1>2. ASSUME NEW n \in 1 .. N, n - 1 \in T
      PROVE  n \in T
  <2>1. PICK g \in [0 .. n - 1 -> S] :
           g[0] = base /\ \A m \in 1 .. n - 1 : g[m] = step[m][g[m - 1]]
    BY <1>2
  <2> DEFINE h == [m \in 0 .. n |-> IF m = n THEN step[n][g[n - 1]] ELSE g[m]]
  <2>2. n \in Nat /\ n # 0 /\ n - 1 \in 0 .. n - 1 /\ n \in 0 .. N
    OBVIOUS
  <2>3. g[n - 1] \in S /\ step[n][g[n - 1]] \in S
    BY <1>0, <2>2
  <2>4. \A m \in 0 .. n : m # n => m \in 0 .. n - 1
    BY <2>2
  <2>5. h \in [0 .. n -> S]
    BY <2>3, <2>4
  <2>6. h[0] = base
    BY <2>1, <2>2
  <2>7. ASSUME NEW m \in 1 .. n
        PROVE  h[m] = step[m][h[m - 1]]
    <3>1. m \in 0 .. n /\ m - 1 \in 0 .. n /\ m - 1 # n /\ h[m - 1] = g[m - 1]
      BY <2>2
    <3>2. CASE m = n
      BY <3>1, <3>2
    <3>3. CASE m # n
      <4>1. m \in 1 .. n - 1
        BY <2>2, <3>3
      <4>2. QED BY <2>1, <3>1, <3>3, <4>1
    <3>4. QED BY <3>2, <3>3
  <2> HIDE DEF h
  <2>8. QED BY <2>2, <2>5, <2>6, <2>7
<1>3. N \in T
  <2> HIDE DEF T
  <2>1. \A n \in 0 .. N : n \in T
    BY <1>1, <1>2, Climbs
  <2>2. QED BY <2>1
<1>4. QED BY <1>3 DEF Run

(* What every change keeps, a run of changes keeps.                        *)
LEMMA ReappliedStays ==
    ASSUME NEW Good, NEW v, NEW ids, [view |-> v, ids |-> ids] \in Good,
           NEW ops, Len(ops) \in Nat,
           \A s \in Good : \A j \in 1 .. Len(ops) : ApplyOptimistic(s, ops[j]) \in Good
    PROVE  Reapplied(v, ids, ops) \in Good
<1> DEFINE N == Len(ops)
           base == [view |-> v, ids |-> ids]
           step == [n \in 1 .. N |-> [s \in Good |-> ApplyOptimistic(s, ops[n])]]
           Is(f) == f = [n \in 0 .. N |-> IF n = 0 THEN base ELSE ApplyOptimistic(f[n - 1], ops[n])]
           after == CHOOSE f : Is(f)
<1>1. step \in Steps(Good, N) /\ N \in Nat /\ base \in Good
  BY DEF Steps
<1>2. PICK g \in [0 .. N -> Good] : g[0] = base /\ \A m \in 1 .. N : g[m] = step[m][g[m - 1]]
  <2> HIDE DEF step, N, base, Is, after
  <2>1. Run(Good, N, base, step)
    BY ONLY <1>1, Iterated
  <2>2. QED BY <2>1 DEF Run
<1>3. Is(g)
  <2>1. \A n \in 1 .. N : n - 1 \in 0 .. N /\ n # 0
    OBVIOUS
  <2>2. \A n \in 1 .. N : g[n] = ApplyOptimistic(g[n - 1], ops[n])
    BY <1>2, <2>1
  <2>3. \A n \in 0 .. N : n = 0 \/ n \in 1 .. N
    OBVIOUS
  <2>4. \A n \in 0 .. N : g[n] = IF n = 0 THEN base ELSE ApplyOptimistic(g[n - 1], ops[n])
    BY <1>2, <2>2, <2>3
  <2> HIDE DEF base
  <2>5. QED BY <2>4
<1>4. Is(after)
  <2> HIDE DEF Is
  <2>1. QED BY <1>3
<1>5. Reapplied(v, ids, ops) = after[N]
  BY DEF Reapplied
<1> DEFINE T == {n \in 0 .. N : after[n] \in Good}
<1> HIDE DEF after, base
<1>6. /\ after[0] = base
      /\ \A n \in 1 .. N : after[n] = ApplyOptimistic(after[n - 1], ops[n])
  BY <1>4
<1>7. \A n \in 0 .. N : n \in T
  <2>1. 0 \in T
    BY <1>1, <1>6
  <2>2. \A n \in 1 .. N : n - 1 \in T => n \in T
    BY <1>6
  <2> HIDE DEF T, N
  <2>3. QED BY <1>1, <2>1, <2>2, Climbs
<1>8. QED BY <1>5, <1>7

(* The changes about i, gathered one change at a time: Good[n] is what     *)
(* holds of those among the first n.                                       *)
LEMMA NamedByFollows ==
    ASSUME NEW O, NEW ops \in Seq(O), NEW i, NEW Good, <<>> \in Good[0],
           \A n \in 1 .. Len(ops) : \A s \in Seq(O) : s \in Good[n - 1] =>
              (IF Targets(ops[n], i) THEN Append(s, ops[n]) ELSE s) \in Good[n]
    PROVE  NamedBy(ops, i) \in Seq(O) /\ NamedBy(ops, i) \in Good[Len(ops)]
<1> DEFINE N == Len(ops)
           S == Seq(O)
           Next1(s, op) == IF Targets(op, i) THEN Append(s, op) ELSE s
           step == [n \in 1 .. N |-> [s \in S |-> Next1(s, ops[n])]]
           Is(f) == f = [n \in 0 .. N |-> IF n = 0 THEN <<>> ELSE Next1(f[n - 1], ops[n])]
           named == CHOOSE f : Is(f)
<1>1. N \in Nat /\ \A n \in 1 .. N : ops[n] \in O
  BY LenProperties
<1>2. step \in Steps(S, N) /\ <<>> \in S
  <2>1. \A n \in 1 .. N : \A s \in S : Next1(s, ops[n]) \in S
    BY <1>1
  <2> HIDE DEF Next1
  <2>2. QED BY <2>1 DEF Steps
<1>3. PICK g \in [0 .. N -> S] : g[0] = <<>> /\ \A m \in 1 .. N : g[m] = step[m][g[m - 1]]
  <2> HIDE DEF step, N, Is, named, S
  <2>1. Run(S, N, <<>>, step)
    BY ONLY <1>1, <1>2, Iterated
  <2>2. QED BY <2>1 DEF Run
<1>4. Is(g)
  <2>1. \A n \in 1 .. N : n - 1 \in 0 .. N /\ n # 0
    OBVIOUS
  <2>2. \A n \in 1 .. N : g[n] = Next1(g[n - 1], ops[n])
    BY <1>3, <2>1
  <2>3. \A n \in 0 .. N : n = 0 \/ n \in 1 .. N
    OBVIOUS
  <2> HIDE DEF Next1
  <2>4. \A n \in 0 .. N : g[n] = IF n = 0 THEN <<>> ELSE Next1(g[n - 1], ops[n])
    BY <1>3, <2>2, <2>3
  <2>5. QED BY <2>4
<1>5. Is(named)
  <2> HIDE DEF Is
  <2>1. QED BY <1>4
<1>6. NamedBy(ops, i) = named[N]
  BY DEF NamedBy
<1> DEFINE T == {n \in 0 .. N : named[n] \in S /\ named[n] \in Good[n]}
<1> HIDE DEF named
<1>7. /\ named[0] = <<>>
      /\ \A n \in 1 .. N : named[n] = Next1(named[n - 1], ops[n])
  <2> HIDE DEF Next1
  <2>1. QED BY <1>5
<1>8. \A n \in 0 .. N : n \in T
  <2>1. 0 \in T
    <3> HIDE DEF S, N
    <3>1. named[0] \in S /\ named[0] \in Good[0]
      BY <1>2, <1>7
    <3>2. 0 \in 0 .. N
      BY <1>1
    <3>3. QED BY <3>1, <3>2
  <2>2. \A n \in 1 .. N : n - 1 \in T => n \in T
    <3>1. \A n \in 1 .. N : \A s \in S : Next1(s, ops[n]) \in S
      BY <1>1
    <3>2. \A n \in 1 .. N : \A s \in S : s \in Good[n - 1] => Next1(s, ops[n]) \in Good[n]
      OBVIOUS
    <3> HIDE DEF Next1, S
    <3>3. QED BY <1>7, <3>1, <3>2
  <2> HIDE DEF T, N
  <2>3. QED BY <1>1, <2>1, <2>2, Climbs
<1>9. QED BY <1>1, <1>6, <1>8
-----------------------------------------------------------------------------
(* Types.  Each id in use stands for one catalogue key for good: K[i] is   *)
(* the key of the id i, and X the ids the server has had rows for.         *)

ListOf(K) == {v \in List : \A i \in Shown(v) : i \in DOMAIN K /\ KeyOf[v[i].name] = K[i]}

ChangeOf(K) ==
    {op \in OpSet :
        /\ op.kind = "add" =>
              /\ op.id \in DOMAIN K /\ op.sent \in DOMAIN K /\ op.name \in Names
              /\ K[op.id] = KeyOf[op.name] /\ K[op.sent] = KeyOf[op.name]
              /\ op.of = K[op.id]
        /\ op.kind \in {"check", "uncheck", "delete"} => op.id \in DOMAIN K /\ op.of = K[op.id]
        /\ op.kind = "clear" => op.id = NoId}

(* What the server is asked to do, by this phone or by another.            *)
Request(K, op) ==
    /\ op.kind \in {"add", "check", "uncheck", "delete", "clear"}
    /\ op.kind = "add" =>
          op.sent \in DOMAIN K /\ op.name \in Names /\ K[op.sent] = KeyOf[op.name]
    /\ op.kind \in {"check", "uncheck", "delete"} => op.id \in DOMAIN K

NamedRow(K, X, i, row) == i \in X /\ row \in Row /\ KeyOf[row.name] = K[i]

EventOf(K, X) ==
    {e \in [kind : {"row", "removed", "cleared"}, id : Ids \cup {NoId}, row : Row \cup {NoRow}] :
        /\ e.kind = "row" => NamedRow(K, X, e.id, e.row)
        /\ e.kind = "removed" => e.id \in Ids}

(* The answer a to the change op; of an add, the row it landed on has the  *)
(* key of the row it was rendered on.                                      *)
AnswerFor(K, X, op, a) ==
    \/ a.kind = "gone" /\ op.kind \in {"check", "uncheck", "delete"}
    \/ /\ a.kind = "ok"
       /\ op.kind # "add" => a.id = op.id
       /\ op.kind \in {"add", "check", "uncheck"} =>
             NamedRow(K, X, a.id, a.row) /\ K[a.id] = K[op.id]
       /\ op.kind = "delete" => a.row = NoRow

UndoOf(K, u) ==
    /\ u.op \in ChangeOf(K) /\ DOMAIN u.undo \subseteq Ids
    /\ \A i \in DOMAIN u.undo : u.undo[i] # NoRow =>
          u.undo[i] \in Row /\ i \in DOMAIN K /\ KeyOf[u.undo[i].name] = K[i]

(* K2 says of more ids what they stand for.                                *)
Extends(K, K2) == DOMAIN K \subseteq DOMAIN K2 /\ \A i \in DOMAIN K : K2[i] = K[i]
-----------------------------------------------------------------------------
(* Types: what more ids in use leave true.                                 *)

LEMMA ListGrows ==
    ASSUME NEW K, NEW K2, Extends(K, K2)
    PROVE  ListOf(K) \subseteq ListOf(K2)
BY DEF ListOf, Extends

LEMMA ChangeGrows ==
    ASSUME NEW K, NEW K2, Extends(K, K2)
    PROVE  ChangeOf(K) \subseteq ChangeOf(K2)
BY DEF ChangeOf, Extends

LEMMA EventGrows ==
    ASSUME NEW K, NEW K2, Extends(K, K2), NEW X, NEW X2, X \subseteq X2, X \subseteq DOMAIN K
    PROVE  EventOf(K, X) \subseteq EventOf(K2, X2)
BY DEF EventOf, NamedRow, Extends

LEMMA AnswerGrows ==
    ASSUME NEW K, NEW K2, Extends(K, K2), NEW X, NEW X2, X \subseteq X2, X \subseteq DOMAIN K,
           NEW op \in ChangeOf(K), NEW a, AnswerFor(K, X, op, a)
    PROVE  AnswerFor(K2, X2, op, a)
<1>1. op.kind \in {"add", "check", "uncheck"} => op.id \in DOMAIN K
  BY DEF ChangeOf
<1>2. QED BY <1>1 DEF AnswerFor, NamedRow, Extends

LEMMA UndoGrows ==
    ASSUME NEW K, NEW K2, Extends(K, K2), NEW u, UndoOf(K, u)
    PROVE  UndoOf(K2, u)
BY ChangeGrows DEF UndoOf, Extends

LEMMA SeqGrows ==
    ASSUME NEW S, NEW T, S \subseteq T
    PROVE  Seq(S) \subseteq Seq(T)
OBVIOUS
-----------------------------------------------------------------------------
(* Types: lists.                                                           *)

LEMMA ConstantFacts ==
    /\ Ids = ShopIds \cup HouseIds /\ NoId \notin Ids /\ NoRow \notin Row /\ NoName \notin Names
    /\ \A n \in Names : KeyOf[n] \in Keys
BY OfflineStoreAssumption DEF Ids, Keys

LEMMA PlaceTyped ==
    ASSUME NEW K, NEW v \in ListOf(K), NEW i \in Ids, NEW row,
           row = NoRow \/ (row \in Row /\ i \in DOMAIN K /\ KeyOf[row.name] = K[i])
    PROVE  /\ Place(v, i, row) \in ListOf(K)
           /\ Shown(Place(v, i, row)) = IF row = NoRow THEN Shown(v) \ {i} ELSE Shown(v) \cup {i}
BY DEF ListOf, List, Place, Shown

LEMMA RemoveTyped ==
    ASSUME NEW K, NEW v \in ListOf(K), NEW i
    PROVE  RemoveId(v, i) \in ListOf(K) /\ Shown(RemoveId(v, i)) = Shown(v) \ {i}
BY DEF ListOf, List, RemoveId, Shown

LEMMA EmptyTyped ==
    ASSUME NEW K, NEW v \in ListOf(K)
    PROVE  EmptyBasket(v) \in ListOf(K) /\ Shown(EmptyBasket(v)) \subseteq Shown(v)
BY DEF ListOf, List, EmptyBasket, Shown, Basket

LEMMA StatusTyped ==
    ASSUME NEW K, NEW v \in ListOf(K), NEW i \in Ids, NEW kind
    PROVE  /\ WithStatus(v, i, StatusOf(kind)) \in ListOf(K)
           /\ Shown(WithStatus(v, i, StatusOf(kind))) = Shown(v)
           /\ \A j \in Shown(v) : WithStatus(v, i, StatusOf(kind))[j].name = v[j].name
<1> DEFINE s == StatusOf(kind)
           w == WithStatus(v, i, s)
<1>1. s \in {"active", "checked"}
  BY DEF StatusOf
<1>2. CASE v[i] = NoRow
  BY <1>2 DEF WithStatus
<1>3. CASE v[i] # NoRow
  <2> DEFINE row == [v[i] EXCEPT !.status = s]
  <2>1. v[i] \in Row /\ i \in Shown(v) /\ v \in List
    BY <1>3 DEF ListOf, List, Shown
  <2>2. row \in Row /\ row.name = v[i].name
    BY <1>1, <2>1 DEF Row
  <2>3. w = [v EXCEPT ![i] = row]
    BY <1>3 DEF WithStatus
  <2>4. row # NoRow
    BY <2>2, ConstantFacts
  <2> HIDE DEF row, w
  <2>5. /\ w \in List /\ Shown(w) = Shown(v)
        /\ \A j \in Shown(v) : w[j].name = v[j].name
    BY <2>1, <2>2, <2>3, <2>4 DEF List, Shown
  <2>6. w \in ListOf(K)
    BY <2>5 DEF ListOf
  <2>7. QED BY <2>5, <2>6 DEF w
<1>4. QED BY <1>2, <1>3
-----------------------------------------------------------------------------
(* Types: changes put back over a list.                                    *)

States(K) == [view : ListOf(K), ids : SUBSET Ids]
NoAdds(ops) == \A j \in 1 .. Len(ops) : ops[j].kind # "add"

(* A change puts no row on screen but an add's own, which it marks.        *)
LEMMA OptimisticTyped ==
    ASSUME NEW K, DOMAIN K \subseteq Ids, NEW s \in States(K), NEW op \in ChangeOf(K)
    PROVE  LET t == ApplyOptimistic(s, op) IN
           /\ t \in States(K) /\ s.ids \subseteq t.ids
           /\ Shown(t.view) \subseteq Shown(s.view) \cup t.ids
           /\ op.kind # "add" => Shown(t.view) \subseteq Shown(s.view)
<1> DEFINE t == ApplyOptimistic(s, op)
<1>1. s.view \in ListOf(K) /\ s.ids \subseteq Ids
  BY DEF States
<1>2. op.kind \in {"add", "check", "uncheck", "delete", "clear"}
  BY DEF ChangeOf, OpSet
<1>3. CASE op.kind = "add"
  <2> DEFINE row == [name |-> op.name, status |-> "active"]
  <2>1. /\ op.id \in Ids /\ op.id \in DOMAIN K /\ op.name \in Names /\ KeyOf[op.name] = K[op.id]
    BY <1>3 DEF ChangeOf
  <2>2. row \in Row /\ row.name = op.name
    BY <2>1 DEF Row
  <2>3. row # NoRow
    BY <2>2, ConstantFacts
  <2> HIDE DEF row
  <2>4. /\ Place(s.view, op.id, row) \in ListOf(K)
        /\ Shown(Place(s.view, op.id, row)) = Shown(s.view) \cup {op.id}
    BY <1>1, <2>1, <2>2, <2>3, PlaceTyped
  <2>5. t = [view |-> IF s.view[op.id] # NoRow THEN s.view ELSE Place(s.view, op.id, row),
             ids |-> s.ids \cup {op.id}]
    BY <1>3 DEF ApplyOptimistic, row
  <2>6. t.ids = s.ids \cup {op.id} /\ t.view \in {s.view, Place(s.view, op.id, row)} /\ t \in States(K)
    BY <1>1, <2>1, <2>4, <2>5 DEF States
  <2>7. Shown(t.view) \subseteq Shown(s.view) \cup t.ids
    BY <2>4, <2>6
  <2>8. QED BY <1>3, <2>6, <2>7
<1>4. CASE op.kind \in {"check", "uncheck"}
  <2> DEFINE w == WithStatus(s.view, op.id, StatusOf(op.kind))
  <2>1. op.id \in Ids
    BY <1>4 DEF ChangeOf
  <2>2. w \in ListOf(K) /\ Shown(w) = Shown(s.view)
    BY <1>1, <2>1, StatusTyped
  <2>3. t = [view |-> w, ids |-> s.ids \cup {op.id}]
    BY <1>4 DEF ApplyOptimistic
  <2> HIDE DEF w
  <2>4. t.view = w /\ t.ids = s.ids \cup {op.id} /\ t \in States(K)
    BY <1>1, <2>1, <2>2, <2>3 DEF States
  <2>5. QED BY <2>2, <2>4
<1>5. CASE op.kind = "delete"
  <2> DEFINE w == RemoveId(s.view, op.id)
  <2>1. op.id \in Ids
    BY <1>5 DEF ChangeOf
  <2>2. w \in ListOf(K) /\ Shown(w) \subseteq Shown(s.view)
    BY <1>1, RemoveTyped
  <2>3. t = [view |-> w, ids |-> s.ids \cup {op.id}]
    BY <1>5 DEF ApplyOptimistic
  <2> HIDE DEF w
  <2>4. t.view = w /\ t.ids = s.ids \cup {op.id} /\ t \in States(K)
    BY <1>1, <2>1, <2>2, <2>3 DEF States
  <2>5. QED BY <2>2, <2>4
<1>6. CASE op.kind = "clear"
  <2> DEFINE w == EmptyBasket(s.view)
  <2>1. w \in ListOf(K) /\ Shown(w) \subseteq Shown(s.view)
    BY <1>1, EmptyTyped
  <2>2. t = [view |-> w, ids |-> s.ids]
    BY <1>6 DEF ApplyOptimistic
  <2> HIDE DEF w
  <2>3. t.view = w /\ t.ids = s.ids /\ t \in States(K)
    BY <1>1, <2>1, <2>2 DEF States
  <2>4. QED BY <2>1, <2>3
<1>7. QED BY <1>2, <1>3, <1>4, <1>5, <1>6

(* Nor do several.                                                         *)
LEMMA ReappliedTyped ==
    ASSUME NEW K, DOMAIN K \subseteq Ids, NEW v \in ListOf(K), NEW ids \in SUBSET Ids,
           NEW ops \in Seq(ChangeOf(K))
    PROVE  LET s == Reapplied(v, ids, ops) IN
           /\ s \in States(K) /\ ids \subseteq s.ids
           /\ Shown(s.view) \subseteq Shown(v) \cup s.ids
           /\ NoAdds(ops) => Shown(s.view) \subseteq Shown(v)
<1> DEFINE Good == {s \in States(K) :
                      /\ ids \subseteq s.ids
                      /\ Shown(s.view) \subseteq Shown(v) \cup s.ids
                      /\ NoAdds(ops) => Shown(s.view) \subseteq Shown(v)}
<1>1. Len(ops) \in Nat /\ \A j \in 1 .. Len(ops) : ops[j] \in ChangeOf(K)
  BY LenProperties
<1>2. [view |-> v, ids |-> ids] \in Good
  BY DEF States
<1>3. ASSUME NEW s \in Good, NEW j \in 1 .. Len(ops)
      PROVE  ApplyOptimistic(s, ops[j]) \in Good
  <2> DEFINE t == ApplyOptimistic(s, ops[j])
  <2>1. s \in States(K) /\ ops[j] \in ChangeOf(K)
    BY <1>1
  <2>2. /\ t \in States(K) /\ s.ids \subseteq t.ids
        /\ Shown(t.view) \subseteq Shown(s.view) \cup t.ids
        /\ ops[j].kind # "add" => Shown(t.view) \subseteq Shown(s.view)
    BY <2>1, OptimisticTyped
  <2> HIDE DEF t
  <2>3. t \in Good
    BY <2>2 DEF NoAdds
  <2>4. QED BY <2>3 DEF t
<1> HIDE DEF Good
<1>4. Reapplied(v, ids, ops) \in Good
  BY <1>1, <1>2, <1>3, ReappliedStays
<1>5. QED BY <1>4 DEF Good
-----------------------------------------------------------------------------
(* Types: changes repointed.                                               *)

NonAdds(K) == {op \in ChangeOf(K) : op.kind # "add"}

(* Those about i are the queued changes that name it, all of them.         *)
LEMMA NamedByAll ==
    ASSUME NEW O, NEW ops \in Seq(O), NEW i
    PROVE  LET named == NamedBy(ops, i) IN
           /\ named \in Seq(O)
           /\ \A j \in DOMAIN named : Targets(named[j], i)
           /\ \A n \in DOMAIN ops : Targets(ops[n], i) => \E j \in DOMAIN named : named[j] = ops[n]
<1> DEFINE IsGood(s, n) ==
             /\ \A j \in 1 .. Len(s) : Targets(s[j], i)
             /\ \A m \in 1 .. n : Targets(ops[m], i) => \E j \in 1 .. Len(s) : s[j] = ops[m]
           Good == [n \in 0 .. Len(ops) |-> {s \in Seq(O) : IsGood(s, n)}]
           named == NamedBy(ops, i)
<1>1. Len(ops) \in Nat /\ \A n \in 1 .. Len(ops) : ops[n] \in O
  BY LenProperties
<1>2. <<>> \in Good[0]
  BY <1>1
<1>3. ASSUME NEW n \in 1 .. Len(ops), NEW s \in Seq(O), s \in Good[n - 1]
      PROVE  (IF Targets(ops[n], i) THEN Append(s, ops[n]) ELSE s) \in Good[n]
  <2>1. n - 1 \in 0 .. Len(ops) /\ n \in 0 .. Len(ops) /\ Len(s) \in Nat
    BY <1>1
  <2>2. IsGood(s, n - 1)
    BY <1>3, <2>1
  <2>3. CASE Targets(ops[n], i)
    <3> DEFINE t == Append(s, ops[n])
    <3>1. /\ t \in Seq(O) /\ Len(t) = Len(s) + 1 /\ t[Len(s) + 1] = ops[n]
          /\ \A j \in 1 .. Len(s) : t[j] = s[j]
      BY <1>1
    <3> HIDE DEF t
    <3>2. \A j \in 1 .. Len(t) : Targets(t[j], i)
      <4>1. \A j \in 1 .. Len(t) : j \in 1 .. Len(s) \/ j = Len(s) + 1
        BY <2>1, <3>1
      <4>2. QED BY <2>2, <2>3, <3>1, <4>1
    <3>3. ASSUME NEW m \in 1 .. n, Targets(ops[m], i)
          PROVE  \E j \in 1 .. Len(t) : t[j] = ops[m]
      <4>1. CASE m = n
        <5>1. Len(s) + 1 \in 1 .. Len(t)
          BY <2>1, <3>1
        <5>2. QED BY <3>1, <4>1, <5>1
      <4>2. CASE m # n
        <5>1. m \in 1 .. n - 1
          BY <4>2
        <5>2. PICK j \in 1 .. Len(s) : s[j] = ops[m]
          BY <2>2, <3>3, <5>1
        <5>3. j \in 1 .. Len(t)
          BY <2>1, <3>1
        <5>4. QED BY <3>1, <5>2, <5>3
      <4>3. QED BY <4>1, <4>2
    <3>4. IsGood(t, n)
      BY <3>2, <3>3
    <3> HIDE DEF IsGood
    <3>5. t \in Good[n]
      BY <2>1, <3>1, <3>4
    <3>6. QED BY <2>3, <3>5 DEF t
  <2>4. CASE ~Targets(ops[n], i)
    <3>1. IsGood(s, n)
      <4>1. \A m \in 1 .. n : m \in 1 .. n - 1 \/ m = n
        OBVIOUS
      <4>2. QED BY <2>2, <2>4, <4>1
    <3> HIDE DEF IsGood
    <3>2. QED BY <2>1, <2>4, <3>1
  <2>5. QED BY <2>3, <2>4
<1> HIDE DEF Good
<1>4. named \in Seq(O) /\ named \in Good[Len(ops)]
  BY <1>2, <1>3, NamedByFollows
<1>5. IsGood(named, Len(ops)) /\ DOMAIN named = 1 .. Len(named) /\ DOMAIN ops = 1 .. Len(ops)
  BY <1>1, <1>4, LenProperties DEF Good
<1> HIDE DEF named
<1>6. QED BY <1>4, <1>5 DEF named

LEMMA NamedByTyped ==
    ASSUME NEW K, NEW ops \in Seq(ChangeOf(K)), NEW i
    PROVE  NamedBy(ops, i) \in Seq(NonAdds(K))
<1> DEFINE named == NamedBy(ops, i)
<1>1. named \in Seq(ChangeOf(K)) /\ \A j \in DOMAIN named : Targets(named[j], i)
  BY NamedByAll
<1> HIDE DEF named
<1>2. /\ Len(named) \in Nat /\ DOMAIN named = 1 .. Len(named)
      /\ named = [j \in 1 .. Len(named) |-> named[j]]
      /\ \A j \in 1 .. Len(named) : named[j] \in NonAdds(K)
  BY <1>1, LenProperties DEF NonAdds, Targets
<1>3. named \in Seq(NonAdds(K))
  BY <1>2, SeqDef
<1>4. QED BY <1>3 DEF named

(* One id for another that stands for the same key.                        *)
LEMMA RepointedTyped ==
    ASSUME NEW K, DOMAIN K \subseteq Ids, NEW ops \in Seq(ChangeOf(K)),
           NEW from \in DOMAIN K, NEW to \in DOMAIN K, K[to] = K[from]
    PROVE  /\ Repointed(ops, from, to) \in Seq(ChangeOf(K))
           /\ Len(Repointed(ops, from, to)) = Len(ops)
           /\ \A j \in DOMAIN ops :
                Repointed(ops, from, to)[j] =
                   IF Targets(ops[j], from) THEN [ops[j] EXCEPT !.id = to] ELSE ops[j]
           /\ \A j \in DOMAIN ops : Repointed(ops, from, to)[j].kind = ops[j].kind
<1> DEFINE r == Repointed(ops, from, to)
<1>1. Len(ops) \in Nat /\ DOMAIN ops = 1 .. Len(ops) /\ \A j \in 1 .. Len(ops) : ops[j] \in ChangeOf(K)
  BY LenProperties
<1>2. r = [j \in 1 .. Len(ops) |-> IF Targets(ops[j], from) THEN [ops[j] EXCEPT !.id = to] ELSE ops[j]]
  BY <1>1 DEF Repointed
<1>3. ASSUME NEW op \in ChangeOf(K), Targets(op, from)
      PROVE  [op EXCEPT !.id = to] \in ChangeOf(K) /\ [op EXCEPT !.id = to].kind = op.kind
  <2> DEFINE new == [op EXCEPT !.id = to]
  <2>1. op \in OpSet /\ op.kind # "add" /\ op.id = from /\ from \in Ids /\ to \in Ids
    BY <1>3 DEF ChangeOf, Targets
  <2>2. new \in OpSet /\ new.kind = op.kind /\ new.id = to /\ new.of = op.of
    BY <2>1 DEF OpSet
  <2>3. op.kind \in {"check", "uncheck", "delete"}
    BY <2>1, ConstantFacts DEF ChangeOf, OpSet
  <2>4. op.of = K[from]
    BY <2>1, <2>3 DEF ChangeOf
  <2> HIDE DEF new
  <2>5. new \in ChangeOf(K)
    BY <2>2, <2>3, <2>4 DEF ChangeOf
  <2>6. QED BY <2>2, <2>5 DEF new
<1>4. \A j \in 1 .. Len(ops) : r[j] \in ChangeOf(K) /\ r[j].kind = ops[j].kind
  BY <1>1, <1>2, <1>3
<1>5. r \in Seq(ChangeOf(K)) /\ Len(r) = Len(ops)
  <2>1. DOMAIN r = 1 .. Len(ops) /\ r = [j \in 1 .. Len(ops) |-> r[j]]
    BY <1>2
  <2> HIDE DEF r
  <2>2. r \in [1 .. Len(ops) -> ChangeOf(K)]
    BY <1>4, <2>1
  <2>3. r \in Seq(ChangeOf(K))
    BY <1>1, <2>2, SeqDef
  <2>4. QED BY <1>1, <2>1, <2>3, LenProperties
<1>6. QED BY <1>1, <1>2, <1>4, <1>5
-----------------------------------------------------------------------------
(* Types: what the server does with a request.                             *)

Upserted(items, i, row) ==
    [rows |-> Place(items, i, row), answer |-> Ok(i, row), events |-> <<RowEvent(i, row)>>]
NotFound(items) == [rows |-> items, answer |-> Gone, events |-> <<>>]

(* An add lands on the row of its id, on a row of its key, or on a new one.*)
LEMMA AddServed ==
    ASSUME NEW items \in List, NEW op, op.kind = "add", op.sent \in Ids, op.name \in Names
    PROVE  \E i \in Ids, row \in Row :
              /\ Served(items, op) = Upserted(items, i, row)
              /\ \/ i = op.sent /\ i \in Shown(items) /\ row = items[i]
                 \/ /\ i \in Shown(items) /\ row.name = items[i].name
                    /\ KeyOf[row.name] = KeyOf[op.name]
                 \/ i = op.sent /\ row.name = op.name
<1> DEFINE same == {i \in Shown(items) : KeyOf[items[i].name] = KeyOf[op.name]}
           k == SameKey(items, op.name)
<1>1. k = IF same = {} THEN NoId ELSE CHOOSE i \in same : TRUE
  BY DEF SameKey
<1>2. same \subseteq Ids /\ NoId \notin Ids
  BY ConstantFacts DEF Shown
<1>3. k = NoId \/ k \in same
  BY <1>1
<1>4. Served(items, op) =
        IF items[op.sent] # NoRow THEN Upserted(items, op.sent, items[op.sent])
        ELSE IF k # NoId THEN Upserted(items, k, [items[k] EXCEPT !.status = "active"])
        ELSE Upserted(items, op.sent, [name |-> op.name, status |-> "active"])
  BY DEF Served, Upserted
<1>5. CASE items[op.sent] # NoRow
  <2>1. items[op.sent] \in Row /\ op.sent \in Shown(items)
    BY <1>5 DEF List, Shown
  <2>2. QED BY <1>4, <1>5, <2>1
<1>6. CASE items[op.sent] = NoRow /\ k # NoId
  <2> DEFINE row == [items[k] EXCEPT !.status = "active"]
  <2>1. k \in Shown(items) /\ k \in Ids /\ items[k] \in Row /\ KeyOf[items[k].name] = KeyOf[op.name]
    BY <1>2, <1>3, <1>6 DEF List, Shown
  <2>2. row \in Row /\ row.name = items[k].name
    BY <2>1 DEF Row
  <2>3. Served(items, op) = Upserted(items, k, row)
    BY <1>4, <1>6
  <2> HIDE DEF row, k
  <2>4. QED BY <2>1, <2>2, <2>3
<1>7. CASE items[op.sent] = NoRow /\ k = NoId
  <2> DEFINE row == [name |-> op.name, status |-> "active"]
  <2>1. row \in Row /\ row.name = op.name
    BY DEF Row
  <2>2. Served(items, op) = Upserted(items, op.sent, row)
    BY <1>4, <1>7
  <2> HIDE DEF row
  <2>3. QED BY <2>1, <2>2
<1>8. QED BY <1>5, <1>6, <1>7

LEMMA ToggleServed ==
    ASSUME NEW items \in List, NEW op, op.kind \in {"check", "uncheck"}, op.id \in Ids
    PROVE  \/ Served(items, op) = NotFound(items)
           \/ /\ op.id \in Shown(items)
              /\ \E row \in Row : /\ row.name = items[op.id].name
                                  /\ Served(items, op) = Upserted(items, op.id, row)
<1> DEFINE row == [items[op.id] EXCEPT !.status = StatusOf(op.kind)]
<1>1. Served(items, op) =
        IF items[op.id] = NoRow THEN NotFound(items) ELSE Upserted(items, op.id, row)
  BY DEF Served, Upserted, NotFound
<1>2. CASE items[op.id] # NoRow
  <2>1. op.id \in Shown(items) /\ items[op.id] \in Row
    BY <1>2 DEF Shown, List
  <2>2. row \in Row /\ row.name = items[op.id].name
    BY <2>1 DEF Row, StatusOf
  <2> HIDE DEF row
  <2>3. QED BY <1>1, <1>2, <2>1, <2>2
<1>3. QED BY <1>1, <1>2

LEMMA DeleteServed ==
    ASSUME NEW items, NEW op, op.kind = "delete"
    PROVE  \/ Served(items, op) = NotFound(items)
           \/ Served(items, op) = [rows |-> RemoveId(items, op.id), answer |-> Ok(op.id, NoRow),
                                   events |-> <<GoneEvent(op.id)>>]
BY DEF Served, NotFound

LEMMA ClearServed ==
    ASSUME NEW items, NEW op, op.kind = "clear"
    PROVE  Served(items, op) = [rows |-> EmptyBasket(items), answer |-> Ok(NoId, NoRow),
                                events |-> <<ClearEvent>>]
BY DEF Served

(* What the server answers and broadcasts is about rows it has had.        *)
LEMMA ServedTyped ==
    ASSUME NEW K, DOMAIN K \subseteq Ids, NEW X, X \subseteq DOMAIN K,
           NEW items \in ListOf(K), Shown(items) \subseteq X, NEW op, Request(K, op)
    PROVE  LET s == Served(items, op)
               X2 == X \cup Shown(s.rows) IN
           /\ s.rows \in ListOf(K) /\ X2 \subseteq DOMAIN K
           /\ s.events \in Seq(EventOf(K, X2))
           /\ op \in ChangeOf(K) => AnswerFor(K, X2, op, s.answer)
<1> DEFINE s == Served(items, op)
           X2 == X \cup Shown(s.rows)
<1>1. items \in List /\ Shown(items) \subseteq DOMAIN K
  BY DEF ListOf
<1>2. ASSUME NEW i \in DOMAIN K, NEW row \in Row, KeyOf[row.name] = K[i],
             s = Upserted(items, i, row)
      PROVE  /\ s.rows \in ListOf(K) /\ X2 = X \cup {i}
             /\ s.answer.kind = "ok" /\ s.answer.id = i /\ s.answer.row = row
             /\ s.events \in Seq(EventOf(K, X2)) /\ X2 \subseteq DOMAIN K
             /\ NamedRow(K, X2, i, row)
    <2>1. /\ s.rows = Place(items, i, row) /\ s.answer = Ok(i, row)
          /\ s.events = <<RowEvent(i, row)>>
      BY <1>2 DEF Upserted
    <2>2. i \in Ids /\ row # NoRow
      BY ConstantFacts
    <2>3. s.rows \in ListOf(K) /\ Shown(s.rows) = Shown(items) \cup {i}
      BY <1>2, <2>1, <2>2, PlaceTyped
    <2> HIDE DEF s
    <2>4. X2 = X \cup {i} /\ NamedRow(K, X2, i, row)
      BY <1>2, <2>3 DEF NamedRow
    <2> HIDE DEF X2
    <2>5. RowEvent(i, row) \in EventOf(K, X2)
      BY <2>2, <2>4 DEF RowEvent, EventOf
    <2>6. s.events \in Seq(EventOf(K, X2))
      BY <2>1, <2>5
    <2>7. s.answer.kind = "ok" /\ s.answer.id = i /\ s.answer.row = row
      BY <2>1 DEF Ok
    <2>8. QED BY <2>3, <2>4, <2>6, <2>7
<1>3. ASSUME s = NotFound(items)
      PROVE  /\ s.rows \in ListOf(K) /\ X2 \subseteq DOMAIN K
             /\ s.events \in Seq(EventOf(K, X2)) /\ s.answer.kind = "gone"
  <2>1. s.rows = items /\ s.events = <<>> /\ s.answer.kind = "gone"
    BY <1>3 DEF NotFound, Gone
  <2> HIDE DEF s
  <2>2. QED BY <1>1, <2>1
<1>4. CASE op.kind = "add"
  <2>1. op.sent \in Ids /\ op.sent \in DOMAIN K /\ op.name \in Names /\ K[op.sent] = KeyOf[op.name]
    BY <1>4 DEF Request
  <2>2. PICK i \in Ids, row \in Row :
              /\ s = Upserted(items, i, row)
              /\ \/ i = op.sent /\ i \in Shown(items) /\ row = items[i]
                 \/ /\ i \in Shown(items) /\ row.name = items[i].name
                    /\ KeyOf[row.name] = KeyOf[op.name]
                 \/ i = op.sent /\ row.name = op.name
    BY <1>1, <1>4, <2>1, AddServed
  <2>3. i \in DOMAIN K /\ KeyOf[row.name] = K[i] /\ K[i] = K[op.sent]
    BY <1>1, <2>1, <2>2 DEF ListOf
  <2>4. op \in ChangeOf(K) => K[op.id] = K[op.sent]
    BY <1>4, <2>1 DEF ChangeOf
  <2> HIDE DEF s, X2
  <2>5. op \in ChangeOf(K) => AnswerFor(K, X2, op, s.answer)
    BY <1>2, <1>4, <2>2, <2>3, <2>4 DEF AnswerFor
  <2>6. s.rows \in ListOf(K) /\ X2 \subseteq DOMAIN K /\ s.events \in Seq(EventOf(K, X2))
    BY <1>2, <2>2, <2>3
  <2>7. QED BY <2>5, <2>6 DEF s, X2
<1>5. CASE op.kind \in {"check", "uncheck"}
  <2>1. op.id \in Ids /\ op.id \in DOMAIN K
    BY <1>5 DEF Request
  <2>2. \/ s = NotFound(items)
        \/ /\ op.id \in Shown(items)
           /\ \E row \in Row : row.name = items[op.id].name /\ s = Upserted(items, op.id, row)
    BY <1>1, <1>5, <2>1, ToggleServed
  <2>3. op.id \in Shown(items) => KeyOf[items[op.id].name] = K[op.id]
    BY DEF ListOf
  <2> HIDE DEF s, X2
  <2>4. CASE s = NotFound(items)
    <3>1. AnswerFor(K, X2, op, s.answer)
      BY <1>3, <1>5, <2>4 DEF AnswerFor
    <3>2. QED BY <1>3, <2>4, <3>1 DEF s, X2
  <2>5. ASSUME NEW row \in Row, row.name = items[op.id].name, op.id \in Shown(items),
               s = Upserted(items, op.id, row)
        PROVE  /\ s.rows \in ListOf(K) /\ X2 \subseteq DOMAIN K
               /\ s.events \in Seq(EventOf(K, X2)) /\ AnswerFor(K, X2, op, s.answer)
    <3>1. KeyOf[row.name] = K[op.id]
      BY <2>3, <2>5
    <3>2. QED BY <1>2, <1>5, <2>1, <2>5, <3>1 DEF AnswerFor
  <2>6. QED BY <2>2, <2>4, <2>5 DEF s, X2
<1>6. CASE op.kind = "delete"
  <2>1. op.id \in Ids
    BY <1>6 DEF Request
  <2> DEFINE r == RemoveId(items, op.id)
  <2>2. s = NotFound(items) \/ s = [rows |-> r, answer |-> Ok(op.id, NoRow), events |-> <<GoneEvent(op.id)>>]
    BY <1>6, DeleteServed
  <2>3. r \in ListOf(K) /\ Shown(r) \subseteq DOMAIN K
    BY <1>1, RemoveTyped
  <2>4. GoneEvent(op.id) \in EventOf(K, X2)
    BY <2>1 DEF GoneEvent, EventOf
  <2> HIDE DEF s, X2, r
  <2>5. CASE s = NotFound(items)
    <3>1. AnswerFor(K, X2, op, s.answer)
      BY <1>3, <1>6, <2>5 DEF AnswerFor
    <3>2. QED BY <1>3, <2>5, <3>1 DEF s, X2
  <2>6. CASE s = [rows |-> r, answer |-> Ok(op.id, NoRow), events |-> <<GoneEvent(op.id)>>]
    <3>1. s.rows = r /\ s.answer = Ok(op.id, NoRow) /\ s.events = <<GoneEvent(op.id)>>
      BY <2>6
    <3>2. AnswerFor(K, X2, op, s.answer)
      BY <1>6, <3>1 DEF AnswerFor, Ok
    <3>3. X2 \subseteq DOMAIN K
      BY <2>3, <3>1 DEF X2
    <3>4. s.events \in Seq(EventOf(K, X2))
      BY <2>4, <3>1
    <3>5. QED BY <2>3, <3>1, <3>2, <3>3, <3>4 DEF s, X2
  <2>7. QED BY <2>2, <2>5, <2>6
<1>7. CASE op.kind = "clear"
  <2> DEFINE r == EmptyBasket(items)
  <2>1. s = [rows |-> r, answer |-> Ok(NoId, NoRow), events |-> <<ClearEvent>>]
    BY <1>7, ClearServed
  <2>2. r \in ListOf(K) /\ Shown(r) \subseteq DOMAIN K
    BY <1>1, EmptyTyped
  <2>3. ClearEvent \in EventOf(K, X2)
    BY DEF ClearEvent, EventOf
  <2> HIDE DEF r
  <2>4. s.rows = r /\ s.answer = Ok(NoId, NoRow) /\ s.events = <<ClearEvent>>
    BY <2>1
  <2> HIDE DEF s
  <2>5. op \in ChangeOf(K) => AnswerFor(K, X2, op, s.answer)
    BY <1>7, <2>4 DEF AnswerFor, Ok, ChangeOf
  <2>6. X2 \subseteq DOMAIN K
    BY <2>2, <2>4
  <2> HIDE DEF X2
  <2>7. s.events \in Seq(EventOf(K, X2))
    BY <2>3, <2>4
  <2>8. QED BY <2>2, <2>4, <2>5, <2>6, <2>7 DEF s, X2
<1>8. QED BY <1>4, <1>5, <1>6, <1>7 DEF Request

(* The same of a list of which only the types are known.                   *)
LEMMA ServedList ==
    ASSUME NEW items \in List, NEW op,
           op.kind \in {"add", "check", "uncheck", "delete", "clear"},
           op.kind = "add" => op.sent \in Ids /\ op.name \in Names,
           op.kind \in {"check", "uncheck", "delete"} => op.id \in Ids
    PROVE  Served(items, op).rows \in List /\ (op.kind = "add" => Served(items, op).answer.id \in Ids)
<1> DEFINE s == Served(items, op)
<1>1. ASSUME NEW i \in Ids, NEW row \in Row, s = Upserted(items, i, row)
      PROVE  s.rows \in List /\ s.answer.id = i
  BY <1>1 DEF Upserted, Place, List, Ok
<1>2. s = NotFound(items) => s.rows \in List
  BY DEF NotFound
<1>3. CASE op.kind = "add"
  <2>1. \E i \in Ids, row \in Row : s = Upserted(items, i, row)
    BY <1>3, AddServed
  <2> HIDE DEF s
  <2>2. s.rows \in List /\ s.answer.id \in Ids
    BY <1>1, <2>1
  <2>3. QED BY <2>2 DEF s
<1>4. CASE op.kind \in {"check", "uncheck"}
  <2>1. s = NotFound(items) \/ \E row \in Row : s = Upserted(items, op.id, row)
    BY <1>4, ToggleServed
  <2> HIDE DEF s
  <2>2. s.rows \in List
    BY <1>1, <1>2, <1>4, <2>1
  <2>3. QED BY <1>4, <2>2 DEF s
<1>5. CASE op.kind = "delete"
  BY <1>2, <1>5, DeleteServed DEF RemoveId, List
<1>6. CASE op.kind = "clear"
  BY <1>6, ClearServed DEF EmptyBasket, List
<1>7. QED BY <1>3, <1>4, <1>5, <1>6
-----------------------------------------------------------------------------
(* Types: the invariant, for some K.                                       *)

Phases == {"idle", "wire", "answered", "swapping"}
Pcs == {"idle", "count", "waiting", "recount", "list", "listed", "landed"}
ProcOf(K, X) ==
    [pc : Pcs, before : Nat, then : {"idle", "list"},
     list : {v \in ListOf(K) : Shown(v) \subseteq X}, ops : Seq(ChangeOf(K))]

ServerTyped(K) ==
    /\ K \in [minted -> Keys] /\ minted \subseteq Ids /\ known \subseteq minted
    /\ rows \in ListOf(K) /\ Shown(rows) \subseteq known
    /\ events \in Seq(EventOf(K, known))
ScreenTyped(K) ==
    /\ view \in ListOf(K) /\ snap \in ListOf(K)
    /\ pending \subseteq Ids /\ online \in BOOLEAN
WaitingTyped(K) ==
    /\ queue \in Seq(ChangeOf(K)) /\ boot \in Seq(ChangeOf(K))
    /\ late \subseteq ChangeOf(K) /\ \A u \in unsaved : UndoOf(K, u)
RunTyped(K) ==
    /\ replay.phase \in Phases /\ replay.rewrote \in BOOLEAN
    /\ replay.entries \in Seq(ChangeOf(K)) /\ replay.moved \in Seq(NonAdds(K))
    /\ replay.phase \in {"answered", "swapping"} =>
          AnswerFor(K, known, Current, replay.answer)
ProcsTyped(K) == proc \in [Procs -> ProcOf(K, known)]
BoundsTyped == spent \in [limit : [Bounded -> Nat], used : [Bounded -> Nat]]
HistoryTyped == ideal \in List /\ alias \in [Ids -> Ids] /\ excused \subseteq Keys

Typed(K) ==
    /\ ServerTyped(K) /\ ScreenTyped(K) /\ WaitingTyped(K) /\ RunTyped(K)
    /\ ProcsTyped(K) /\ BoundsTyped /\ HistoryTyped
-----------------------------------------------------------------------------
(* Types: parts that a step leaves alone.                                  *)

LEMMA ExtendsItself == ASSUME NEW K PROVE Extends(K, K)
BY DEF Extends

LEMMA TypedIds ==
    ASSUME NEW K, Typed(K)
    PROVE  DOMAIN K = minted /\ DOMAIN K \subseteq Ids /\ known \subseteq DOMAIN K
BY DEF Typed, ServerTyped

LEMMA ScreenCarries ==
    ASSUME NEW K, NEW K2, Extends(K, K2), Typed(K), UNCHANGED <<view, snap, pending, online>>
    PROVE  ScreenTyped(K2)'
BY ListGrows DEF Typed, ScreenTyped

LEMMA WaitingCarries ==
    ASSUME NEW K, NEW K2, Extends(K, K2), Typed(K), UNCHANGED <<queue, boot, late, unsaved>>
    PROVE  WaitingTyped(K2)'
<1>1. ChangeOf(K) \subseteq ChangeOf(K2) /\ Seq(ChangeOf(K)) \subseteq Seq(ChangeOf(K2))
  BY ChangeGrows, SeqGrows
<1>2. QED BY <1>1, UndoGrows DEF Typed, WaitingTyped

(* What is on the wire is a change.                                        *)
LEMMA CurrentTyped ==
    ASSUME FrontInv, NEW K, Typed(K), replay.phase # "idle"
    PROVE  Current \in ChangeOf(K) /\ Rest \in Seq(ChangeOf(K)) /\ replay.entries # <<>>
BY DEF Typed, RunTyped, FrontInv, Current, Rest

LEMMA RunCarries ==
    ASSUME FrontInv, NEW K, NEW K2, Extends(K, K2), Typed(K), UNCHANGED replay, known \subseteq known'
    PROVE  RunTyped(K2)'
<1>1. /\ Seq(ChangeOf(K)) \subseteq Seq(ChangeOf(K2)) /\ Seq(NonAdds(K)) \subseteq Seq(NonAdds(K2))
  BY ChangeGrows, SeqGrows DEF NonAdds
<1>2. Current' = Current
  BY DEF Current
<1>3. replay.phase \in {"answered", "swapping"} => AnswerFor(K2, known', Current, replay.answer)
  BY CurrentTyped, AnswerGrows, TypedIds DEF Typed, RunTyped
<1>4. QED BY <1>1, <1>2, <1>3 DEF Typed, RunTyped

LEMMA ProcGrows ==
    ASSUME NEW K, NEW K2, Extends(K, K2), NEW X, NEW X2, X \subseteq X2
    PROVE  ProcOf(K, X) \subseteq ProcOf(K2, X2)
<1>1. ListOf(K) \subseteq ListOf(K2) /\ Seq(ChangeOf(K)) \subseteq Seq(ChangeOf(K2))
  BY ListGrows, ChangeGrows, SeqGrows
<1>2. QED BY <1>1 DEF ProcOf

LEMMA ProcsCarry ==
    ASSUME NEW K, NEW K2, Extends(K, K2), Typed(K), UNCHANGED proc, known \subseteq known'
    PROVE  ProcsTyped(K2)'
<1>1. ProcOf(K, known) \subseteq ProcOf(K2, known')
  BY ProcGrows
<1>2. QED BY <1>1 DEF Typed, ProcsTyped

LEMMA ServerCarries ==
    ASSUME NEW K, Typed(K), UNCHANGED <<rows, events, minted, known>>
    PROVE  ServerTyped(K)'
BY DEF Typed, ServerTyped

LEMMA HistoryCarries ==
    ASSUME NEW K, Typed(K), UNCHANGED <<ideal, alias, excused>>
    PROVE  HistoryTyped'
BY DEF Typed, HistoryTyped

LEMMA BoundsCarry ==
    ASSUME NEW K, Typed(K), UNCHANGED spent
    PROVE  BoundsTyped'
BY DEF Typed, BoundsTyped

(* Nothing has gone wrong with storage and the page was not reloaded.      *)
Quiet == spent.used.faults + spent.used.reloads = 0

LEMMA Spending ==
    ASSUME NEW K, Typed(K), NEW kinds, SpendAll(kinds)
    PROVE  /\ BoundsTyped'
           /\ Quiet' => Quiet /\ "faults" \notin kinds /\ "reloads" \notin kinds
<1> DEFINE used == [k \in Bounded |-> IF k \in kinds THEN spent.used[k] + 1 ELSE spent.used[k]]
<1>1. spent' = [spent EXCEPT !.used = used]
  BY DEF SpendAll
<1>2. spent.used \in [Bounded -> Nat] /\ spent \in [limit : [Bounded -> Nat], used : [Bounded -> Nat]]
  BY DEF Typed, BoundsTyped
<1>3. used \in [Bounded -> Nat]
  BY <1>2
<1>4. "faults" \in Bounded /\ "reloads" \in Bounded
  BY DEF Bounded
<1>5. /\ used["faults"] = IF "faults" \in kinds THEN spent.used["faults"] + 1 ELSE spent.used["faults"]
      /\ used["reloads"] = IF "reloads" \in kinds THEN spent.used["reloads"] + 1 ELSE spent.used["reloads"]
      /\ spent.used["faults"] \in Nat /\ spent.used["reloads"] \in Nat
  BY <1>2, <1>4
<1> HIDE DEF used
<1>6. spent'.used = used /\ BoundsTyped'
  BY <1>1, <1>2, <1>3 DEF BoundsTyped
<1>7. Quiet' => used["faults"] + used["reloads"] = 0
  BY <1>6 DEF Quiet
<1>8. QED BY <1>5, <1>6, <1>7 DEF Quiet

LEMMA SpendingOne ==
    ASSUME NEW K, Typed(K), NEW kind, Spend(kind)
    PROVE  BoundsTyped' /\ (Quiet' => Quiet /\ kind \notin {"faults", "reloads"})
BY Spending DEF Spend
-----------------------------------------------------------------------------
(* Types: processes.                                                       *)

LEMMA IdleTyped ==
    ASSUME NEW K, NEW X, NEW then \in {"idle", "list"}
    PROVE  Idle \in ProcOf(K, X) /\ Fetch \in ProcOf(K, X) /\ Drain(then) \in ProcOf(K, X)
<1> DEFINE none == [i \in Ids |-> NoRow]
<1>1. none \in ListOf(K) /\ Shown(none) = {}
  BY DEF ListOf, List, Shown
<1> HIDE DEF none
<1>2. Idle = [pc |-> "idle", before |-> 0, then |-> "idle", list |-> none, ops |-> <<>>]
  BY DEF Idle, none
<1>3. Fetch = [pc |-> "list", before |-> 0, then |-> "idle", list |-> none, ops |-> <<>>]
  BY <1>2 DEF Fetch
<1>4. Idle \in ProcOf(K, X) /\ Fetch \in ProcOf(K, X)
  BY <1>1, <1>2, <1>3 DEF ProcOf, Pcs
<1>5. Drain(then) = [Idle EXCEPT !.pc = "count", !.then = then]
  BY DEF Drain
<1>6. Drain(then) \in ProcOf(K, X)
  BY <1>4, <1>5 DEF ProcOf, Pcs
<1>7. QED BY <1>4, <1>6

LEMMA DrainedTyped ==
    ASSUME NEW K, NEW X, NEW d
    PROVE  Drained(d) \in ProcOf(K, X) /\ Drained(d).pc # "landed"
<1>1. Idle.pc = "idle" /\ Fetch.pc = "list"
  BY DEF Idle, Fetch
<1>2. QED BY <1>1, IdleTyped DEF Drained

LEMMA BecomeTyped ==
    ASSUME NEW K, Typed(K), NEW d \in Procs, NEW p \in ProcOf(K, known), Become(d, p),
           known' = known
    PROVE  ProcsTyped(K)'
BY DEF Typed, ProcsTyped, Become

LEMMA WokenTyped ==
    ASSUME NEW K, Typed(K)
    PROVE  Woken \in [Procs -> ProcOf(K, known)]
<1>1. ASSUME NEW d \in Procs
      PROVE  Woken[d] \in ProcOf(K, known)
  <2>1. proc[d] \in ProcOf(K, known)
    BY DEF Typed, ProcsTyped
  <2>2. [proc[d] EXCEPT !.pc = "recount"] \in ProcOf(K, known)
    BY <2>1 DEF ProcOf, Pcs
  <2>3. QED BY <2>1, <2>2 DEF Woken
<1>2. QED BY <1>1 DEF Woken
-----------------------------------------------------------------------------
(* Types: the shopper.                                                     *)

LEMMA SentTyped ==
    ASSUME NEW K, Typed(K), NEW K2, DOMAIN K2 \subseteq Ids, NEW op \in ChangeOf(K2)
    PROVE  SentAtOnce(op).rows \in List /\ AliasAfter(op) \in [Ids -> Ids]
<1>1. /\ op \in OpSet
      /\ op.kind = "add" => op.id \in Ids /\ op.sent \in Ids /\ op.name \in Names
      /\ op.kind \in {"check", "uncheck", "delete"} => op.id \in Ids
  BY DEF ChangeOf
<1>2. ideal \in List /\ alias \in [Ids -> Ids]
  BY DEF Typed, HistoryTyped
<1>3. CASE op.kind \in {"add", "clear"}
  <2>1. SentAtOnce(op) = Served(ideal, op)
    BY <1>3 DEF SentAtOnce
  <2>2. SentAtOnce(op).rows \in List /\ (op.kind = "add" => SentAtOnce(op).answer.id \in Ids)
    BY <1>1, <1>2, <1>3, <2>1, ServedList
  <2>3. QED BY <1>1, <1>2, <2>2 DEF AliasAfter
<1>4. CASE op.kind \in {"check", "uncheck", "delete"}
  <2> DEFINE sent == [op EXCEPT !.id = alias[op.id]]
  <2>1. sent.kind = op.kind /\ sent.id \in Ids
    BY <1>1, <1>2, <1>4 DEF OpSet
  <2>2. SentAtOnce(op) = Served(ideal, sent)
    BY <1>4 DEF SentAtOnce
  <2> HIDE DEF sent
  <2>3. SentAtOnce(op).rows \in List
    BY <1>2, <1>4, <2>1, <2>2, ServedList
  <2>4. QED BY <1>2, <1>4, <2>3 DEF AliasAfter
<1>5. QED BY <1>1, <1>3, <1>4 DEF OpSet

LEMMA CommitTyped ==
    ASSUME FrontInv, NEW K, Typed(K), NEW K2, Extends(K, K2),
           NEW op \in ChangeOf(K2), NEW shown \in ListOf(K2), NEW marked \in SUBSET Ids,
           NEW undo, UndoOf(K2, [op |-> op, undo |-> undo]),
           K2 \in [minted \cup ({op.sent} \ {NoId}) -> Keys],
           minted \cup ({op.sent} \ {NoId}) \subseteq Ids,
           Commit(op, shown, marked, undo)
    PROVE  Typed(K2)'
<1>1. /\ view' = shown /\ pending' = marked /\ minted' = minted \cup ({op.sent} \ {NoId})
      /\ UNCHANGED <<rows, events, late, snap, online, replay, boot, known>>
      /\ \/ /\ Spend("taps") /\ queue' = Append(queue, op)
            /\ \E d \in Free : Become(d, Drain("idle"))
            /\ ideal' = SentAtOnce(op).rows /\ alias' = AliasAfter(op)
            /\ excused' = excused \cup
                 {k \in {op.of} : Strays(op) \/ (op.kind \notin {"add", "clear"} /\ OutOfReach(op.id))}
            /\ UNCHANGED unsaved
         \/ /\ SpendAll({"taps", "faults"})
            /\ unsaved' = unsaved \cup {[op |-> op, undo |-> undo]}
            /\ UNCHANGED <<queue, proc, ideal, alias, excused>>
  BY DEF Commit, server
<1>2. BoundsTyped'
  BY <1>1, Spending, SpendingOne
<1>3. RunTyped(K2)'
  BY <1>1, RunCarries
<1>4. ScreenTyped(K2)'
  BY <1>1, ListGrows DEF ScreenTyped, Typed
<1>5. ServerTyped(K2)'
  <2>1. EventOf(K, known) \subseteq EventOf(K2, known)
    BY EventGrows, TypedIds
  <2>2. Seq(EventOf(K, known)) \subseteq Seq(EventOf(K2, known))
    BY <2>1, SeqGrows
  <2>3. /\ rows \in ListOf(K) /\ Shown(rows) \subseteq known /\ known \subseteq minted
        /\ events \in Seq(EventOf(K, known))
    BY DEF Typed, ServerTyped
  <2>4. QED BY <1>1, <2>2, <2>3, ListGrows DEF ServerTyped
<1>6. ProcOf(K, known) \subseteq ProcOf(K2, known)
  BY ProcGrows
<1>7. proc \in [Procs -> ProcOf(K2, known)]
  BY <1>6 DEF Typed, ProcsTyped
<1>8. /\ queue \in Seq(ChangeOf(K2)) /\ boot \in Seq(ChangeOf(K2))
      /\ late \subseteq ChangeOf(K2) /\ \A u \in unsaved : UndoOf(K2, u)
  <2>1. ChangeOf(K) \subseteq ChangeOf(K2) /\ Seq(ChangeOf(K)) \subseteq Seq(ChangeOf(K2))
    BY ChangeGrows, SeqGrows
  <2>2. QED BY <2>1, UndoGrows DEF Typed, WaitingTyped
<1>9. CASE /\ queue' = Append(queue, op)
           /\ \E d \in Free : Become(d, Drain("idle"))
           /\ ideal' = SentAtOnce(op).rows /\ alias' = AliasAfter(op)
           /\ excused' = excused \cup
                {k \in {op.of} : Strays(op) \/ (op.kind \notin {"add", "clear"} /\ OutOfReach(op.id))}
           /\ UNCHANGED unsaved
  <2>1. Append(queue, op) \in Seq(ChangeOf(K2))
    BY <1>8
  <2>2. WaitingTyped(K2)'
    BY <1>1, <1>8, <1>9, <2>1 DEF WaitingTyped
  <2>3. ProcsTyped(K2)'
    <3>1. Drain("idle") \in ProcOf(K2, known)
      BY IdleTyped
    <3>2. PICK d \in Free : Become(d, Drain("idle"))
      BY <1>9
    <3>3. QED BY <1>1, <1>7, <3>1, <3>2 DEF Become, ProcsTyped, Free
  <2>4. DOMAIN K2 \subseteq Ids
    BY <1>1
  <2>5. op.kind # "clear" => op.of \in Keys
    BY ConstantFacts DEF ChangeOf, OpSet
  <2>6. Strays(op) => op.kind # "clear"
    BY DEF Strays
  <2>7. excused' \subseteq Keys
    BY <1>9, <2>5, <2>6 DEF HistoryTyped, Typed
  <2>8. HistoryTyped'
    BY <1>9, <2>4, <2>7, SentTyped DEF HistoryTyped
  <2>9. QED BY <1>2, <1>3, <1>4, <1>5, <2>2, <2>3, <2>8 DEF Typed
<1>10. CASE /\ unsaved' = unsaved \cup {[op |-> op, undo |-> undo]}
            /\ UNCHANGED <<queue, proc, ideal, alias, excused>>
  <2>1. WaitingTyped(K2)'
    BY <1>1, <1>8, <1>10 DEF WaitingTyped
  <2>2. ProcsTyped(K2)'
    BY <1>1, <1>7, <1>10 DEF ProcsTyped
  <2>3. HistoryTyped'
    BY <1>10, HistoryCarries
  <2>4. QED BY <1>2, <1>3, <1>4, <1>5, <2>1, <2>2, <2>3 DEF Typed
<1>11. QED BY <1>1, <1>9, <1>10

(* An add mints an id, which stands for the name's key from then on.       *)
LEMMA TapAddTyped ==
    ASSUME FrontInv, NEW K, Typed(K), NEW name \in Names, TapAdd(name)
    PROVE  \E K2 : Extends(K, K2) /\ Typed(K2)'
<1> DEFINE sent == Fresh(ShopIds)
           row == [name |-> name, status |-> "active"]
<1>0. PICK K2 : K2 = [i \in minted \cup {sent} |-> IF i = sent THEN KeyOf[name] ELSE K[i]]
  OBVIOUS
<1>1. sent \in ShopIds \ minted
  BY DEF TapAdd, Fresh
<1>2. PICK i \in IF Matches(name) = {} THEN {sent} ELSE Matches(name) :
         Commit(Op("add", i, sent, name, KeyOf[name]), Place(view, i, row),
                pending \cup {i}, [j \in {i} |-> view[i]])
  BY DEF TapAdd
<1>3. /\ K \in [minted -> Keys] /\ minted \subseteq Ids
      /\ view \in ListOf(K) /\ pending \subseteq Ids
  BY DEF Typed, ServerTyped, ScreenTyped
<1>4. sent \in Ids /\ sent # NoId /\ KeyOf[name] \in Keys
  BY <1>1, ConstantFacts
<1>5. spent.used.taps \in Nat
  BY DEF Typed, BoundsTyped, Bounded
<1>6. row \in Row /\ row.name = name
  BY DEF Row
<1> HIDE DEF sent, row
<1>7. K2 \in [minted \cup {sent} -> Keys] /\ Extends(K, K2) /\ K2[sent] = KeyOf[name]
  BY <1>0, <1>1, <1>3, <1>4 DEF Extends
<1>8. i \in Ids /\ i \in DOMAIN K2 /\ K2[i] = KeyOf[name]
  <2>1. CASE i = sent
    BY <1>4, <1>7, <2>1
  <2>2. CASE i \in Matches(name)
    <3>1. i \in Shown(view) /\ view[i].name = name
      BY <2>2 DEF Matches
    <3>2. i \in DOMAIN K /\ K[i] = KeyOf[name]
      BY <1>3, <3>1 DEF ListOf
    <3>3. QED BY <1>3, <1>7, <3>2 DEF Extends
  <2>3. QED BY <1>2, <2>1, <2>2
<1> DEFINE op == Op("add", i, sent, name, KeyOf[name])
           undo == [j \in {i} |-> view[i]]
<1>9. view \in ListOf(K2)
  BY <1>3, <1>7, ListGrows
<1>10. op \in ChangeOf(K2) /\ op.sent = sent
  <2>1. op = [key |-> spent.used.taps, kind |-> "add", id |-> i, sent |-> sent, name |-> name,
              of |-> KeyOf[name]]
    BY DEF Op
  <2>2. QED BY <1>4, <1>5, <1>7, <1>8, <2>1 DEF ChangeOf, OpSet
<1>11. Place(view, i, row) \in ListOf(K2)
  BY <1>6, <1>8, <1>9, PlaceTyped
<1>12. UndoOf(K2, [op |-> op, undo |-> undo])
  <2>1. DOMAIN undo = {i} /\ undo[i] = view[i]
    OBVIOUS
  <2>2. view[i] # NoRow => view[i] \in Row /\ i \in DOMAIN K2 /\ KeyOf[view[i].name] = K2[i]
    BY <1>8, <1>9 DEF ListOf, List, Shown
  <2> HIDE DEF op, undo
  <2>3. QED BY <1>8, <1>10, <2>1, <2>2 DEF UndoOf
<1>13. /\ minted \cup ({op.sent} \ {NoId}) = minted \cup {sent}
       /\ minted \cup {sent} \subseteq Ids
  BY <1>3, <1>4, <1>10
<1>14. pending \cup {i} \in SUBSET Ids
  BY <1>3, <1>8
<1>15. Commit(op, Place(view, i, row), pending \cup {i}, undo)
  BY <1>2
<1> HIDE DEF op, undo
<1>16. Typed(K2)'
  BY <1>7, <1>10, <1>11, <1>12, <1>13, <1>14, <1>15, CommitTyped
<1>17. QED BY <1>7, <1>16

LEMMA TapRowTyped ==
    ASSUME FrontInv, NEW K, Typed(K), NEW i \in Shown(view), TapToggle(i) \/ TapRemove(i)
    PROVE  Typed(K)'
<1> DEFINE undo == [j \in {i} |-> view[i]]
<1>1. /\ K \in [minted -> Keys] /\ minted \subseteq Ids
      /\ view \in ListOf(K) /\ pending \subseteq Ids
  BY DEF Typed, ServerTyped, ScreenTyped
<1>2. /\ i \in Ids /\ i \in DOMAIN K /\ KeyOf[view[i].name] = K[i] /\ K[i] \in Keys
      /\ view[i] \in Row
  BY <1>1 DEF ListOf, List, Shown
<1>3. spent.used.taps \in Nat
  BY DEF Typed, BoundsTyped, Bounded
<1>4. PICK kind \in {"check", "uncheck", "delete"},
           shown \in {RemoveId(view, i)} \cup
                     {WithStatus(view, i, StatusOf(k)) : k \in {"check", "uncheck"}} :
        Commit(Op(kind, i, NoId, NoName, KeyOf[view[i].name]), shown, pending \cup {i}, undo)
  BY DEF TapToggle, TapRemove
<1> DEFINE op == Op(kind, i, NoId, NoName, KeyOf[view[i].name])
<1>5. op \in ChangeOf(K) /\ op.sent = NoId
  <2>1. op = [key |-> spent.used.taps, kind |-> kind, id |-> i, sent |-> NoId, name |-> NoName,
              of |-> K[i]]
    BY <1>2 DEF Op
  <2>2. QED BY <1>2, <1>3, <2>1 DEF ChangeOf, OpSet
<1>6. shown \in ListOf(K)
  BY <1>1, <1>2, RemoveTyped, StatusTyped
<1>7. UndoOf(K, [op |-> op, undo |-> undo])
  <2>1. DOMAIN undo = {i} /\ undo[i] = view[i]
    OBVIOUS
  <2> HIDE DEF op, undo
  <2>2. QED BY <1>2, <1>5, <2>1 DEF UndoOf
<1>8. minted \cup ({op.sent} \ {NoId}) = minted
  BY <1>5
<1>9. pending \cup {i} \in SUBSET Ids
  BY <1>1, <1>2
<1>10. Commit(op, shown, pending \cup {i}, undo)
  BY <1>4
<1> HIDE DEF op, undo
<1>11. QED
  BY <1>1, <1>5, <1>6, <1>7, <1>8, <1>9, <1>10, ExtendsItself, CommitTyped

LEMMA TapClearTyped ==
    ASSUME FrontInv, NEW K, Typed(K), TapClear
    PROVE  Typed(K)'
<1> DEFINE undo == [j \in Basket(view) |-> view[j]]
           op == Op("clear", NoId, NoId, NoName, NoName)
<1>1. /\ K \in [minted -> Keys] /\ minted \subseteq Ids
      /\ view \in ListOf(K) /\ pending \in SUBSET Ids
  BY DEF Typed, ServerTyped, ScreenTyped
<1>2. spent.used.taps \in Nat
  BY DEF Typed, BoundsTyped, Bounded
<1>3. op \in ChangeOf(K) /\ op.sent = NoId
  BY <1>2 DEF Op, ChangeOf, OpSet
<1>4. EmptyBasket(view) \in ListOf(K)
  BY <1>1, EmptyTyped
<1>5. UndoOf(K, [op |-> op, undo |-> undo])
  <2>1. DOMAIN undo = Basket(view) /\ \A j \in DOMAIN undo : undo[j] = view[j]
    OBVIOUS
  <2>2. \A j \in Basket(view) : j \in Ids /\ j \in Shown(view) /\ view[j] \in Row
    BY <1>1 DEF ListOf, List, Shown, Basket
  <2> HIDE DEF op, undo
  <2>3. QED BY <1>1, <1>3, <2>1, <2>2 DEF UndoOf, ListOf
<1>6. minted \cup ({op.sent} \ {NoId}) = minted
  BY <1>3
<1>7. Commit(op, EmptyBasket(view), pending, undo)
  BY DEF TapClear
<1> HIDE DEF op, undo
<1>8. QED BY <1>1, <1>3, <1>4, <1>5, <1>6, <1>7, ExtendsItself, CommitTyped

LEMMA ShopperTyped ==
    ASSUME FrontInv, NEW K, Typed(K), Shopper
    PROVE  \E K2 : Extends(K, K2) /\ Typed(K2)'
BY TapAddTyped, TapRowTyped, TapClearTyped, ExtendsItself DEF Shopper

LEMMA RollBackTyped ==
    ASSUME FrontInv, NEW K, Typed(K), NEW u \in unsaved, RollBack(u)
    PROVE  Typed(K)'
<1> DEFINE base == IF u.op.kind = "clear" THEN EmptyBasket(view) ELSE view
<1>1. /\ unsaved' = unsaved \ {u} /\ pending' = pending \ {u.op.id}
      /\ view' = [i \in Ids |-> IF i \in DOMAIN u.undo THEN u.undo[i] ELSE base[i]]
      /\ UNCHANGED <<rows, events, late, queue, snap, online, replay, proc, boot, spent,
                     minted, known, ideal, alias, excused>>
  BY DEF RollBack, server, disk, history
<1>2. UndoOf(K, u) /\ view \in ListOf(K)
  BY DEF Typed, WaitingTyped, ScreenTyped
<1>3. base \in ListOf(K)
  BY <1>2, EmptyTyped
<1> HIDE DEF base
<1>4. view' \in ListOf(K)
  BY <1>1, <1>2, <1>3 DEF ListOf, List, Shown, UndoOf
<1>5. ScreenTyped(K)'
  BY <1>1, <1>4 DEF Typed, ScreenTyped
<1>6. WaitingTyped(K)'
  BY <1>1 DEF Typed, WaitingTyped
<1>7. QED
  BY <1>1, <1>5, <1>6, ExtendsItself, ServerCarries, RunCarries, ProcsCarry, HistoryCarries,
     BoundsCarry DEF Typed
-----------------------------------------------------------------------------
(* Types: drains and refreshes.                                            *)

LEMMA NoReplayTyped ==
    ASSUME NEW K, replay' = NoReplay
    PROVE  RunTyped(K)'
BY DEF RunTyped, NoReplay, Phases

LEMMA SendTyped ==
    ASSUME NEW K, NEW entries \in Seq(ChangeOf(K)), replay' = Send(entries)
    PROVE  RunTyped(K)'
<1>1. CASE entries = <<>>
  BY <1>1, NoReplayTyped DEF Send
<1>2. CASE entries # <<>>
  <2>1. replay' = [NoReplay EXCEPT !.phase = "wire", !.entries = entries]
    BY <1>2 DEF Send
  <2>2. /\ replay'.phase = "wire" /\ replay'.entries = entries /\ replay'.moved = <<>>
    BY <2>1 DEF NoReplay
  <2>3. replay'.rewrote \in BOOLEAN
    <3>1. replay'.rewrote = NoReplay.rewrote
      BY <2>1 DEF NoReplay
    <3>2. NoReplay.rewrote = FALSE
      BY DEF NoReplay
    <3>3. QED BY <3>1, <3>2
  <2>4. replay'.entries \in Seq(ChangeOf(K)) /\ replay'.moved \in Seq(NonAdds(K))
    BY <2>2
  <2>5. replay'.phase \in Phases /\ replay'.phase \notin {"answered", "swapping"}
    BY <2>2 DEF Phases
  <2>6. QED BY <2>3, <2>4, <2>5 DEF RunTyped
<1>3. QED BY <1>1, <1>2

(* A process goes on, and its run starts or is left alone.                 *)
LEMMA ProcStepTyped ==
    ASSUME FrontInv, NEW K, Typed(K), NEW d \in Procs, NEW p \in ProcOf(K, known), Become(d, p),
           RunTyped(K)', ScreenTyped(K)', BoundsTyped',
           UNCHANGED <<rows, events, late, queue, unsaved, boot, minted, known, ideal, alias, excused>>
    PROVE  Typed(K)'
BY ExtendsItself, ServerCarries, WaitingCarries, HistoryCarries, BecomeTyped DEF Typed

LEMMA ProcFields ==
    ASSUME NEW K, Typed(K), NEW d \in Procs
    PROVE  /\ proc[d].pc \in Pcs /\ proc[d].before \in Nat /\ proc[d].then \in {"idle", "list"}
           /\ proc[d].list \in ListOf(K) /\ Shown(proc[d].list) \subseteq known
           /\ proc[d].ops \in Seq(ChangeOf(K)) /\ proc[d] \in ProcOf(K, known)
<1>1. proc[d] \in ProcOf(K, known)
  BY DEF Typed, ProcsTyped
<1>2. QED BY <1>1 DEF ProcOf

LEMMA RetryTyped ==
    ASSUME FrontInv, NEW K, Typed(K), NEW d \in Procs, Retry(d)
    PROVE  Typed(K)'
<1>1. Become(d, Drain("list")) /\ Drain("list") \in ProcOf(K, known)
  BY IdleTyped DEF Retry
<1>2. /\ UNCHANGED <<rows, events, late, queue, unsaved, boot, minted, known, ideal, alias, excused>>
      /\ UNCHANGED <<replay, view, snap, pending, online, spent>>
  BY DEF Retry, server, disk, page, history
<1>3. QED BY <1>1, <1>2, ProcStepTyped, ExtendsItself, RunCarries, ScreenCarries, BoundsCarry

LEMMA CountTyped ==
    ASSUME FrontInv, NEW K, Typed(K), NEW d \in Procs, Count(d)
    PROVE  Typed(K)'
<1>1. /\ UNCHANGED <<rows, events, late, queue, unsaved, boot, minted, known, ideal, alias, excused>>
      /\ UNCHANGED <<view, snap, pending, online>>
      /\ UNCHANGED spent \/ Spend("faults")
  BY DEF Count, CannotRead, server, disk, page, history
<1>2. queue \in Seq(ChangeOf(K)) /\ Len(queue) \in Nat
  BY LenProperties DEF Typed, WaitingTyped
<1>3. RunTyped(K)'
  <2>1. CASE UNCHANGED replay
    BY <1>1, <2>1, RunCarries, ExtendsItself
  <2>2. CASE replay' = Send(queue)
    BY <1>2, <2>2, SendTyped
  <2>3. replay' = replay \/ replay' = Send(queue)
    BY DEF Count
  <2>4. QED BY <2>1, <2>2, <2>3
<1>4. [proc[d] EXCEPT !.pc = "waiting", !.before = Len(queue)] \in ProcOf(K, known)
  <2>1. proc[d] \in ProcOf(K, known)
    BY ProcFields
  <2>2. QED BY <1>2, <2>1 DEF ProcOf, Pcs
<1>5. PICK p \in ProcOf(K, known) : Become(d, p)
  BY <1>4, IdleTyped, DrainedTyped DEF Count, CannotRead
<1>6. BoundsTyped'
  BY <1>1, SpendingOne, BoundsCarry
<1>7. QED BY <1>1, <1>3, <1>5, <1>6, ProcStepTyped, ExtendsItself, ScreenCarries

LEMMA RecountTyped ==
    ASSUME FrontInv, NEW K, Typed(K), NEW d \in Procs, Recount(d)
    PROVE  Typed(K)'
<1>1. /\ UNCHANGED <<rows, events, late, queue, unsaved, boot, minted, known, ideal, alias, excused>>
      /\ UNCHANGED <<replay, view, snap, pending, online>>
      /\ UNCHANGED spent \/ Spend("faults")
  BY DEF Recount, CannotRead, server, disk, page, history
<1>2. Drain(proc[d].then) \in ProcOf(K, known)
  BY ProcFields, IdleTyped
<1>3. PICK p \in ProcOf(K, known) : Become(d, p)
  BY <1>2, IdleTyped, DrainedTyped DEF Recount, CannotRead
<1>4. BoundsTyped'
  BY <1>1, SpendingOne, BoundsCarry
<1>5. QED
  BY <1>1, <1>3, <1>4, ProcStepTyped, ExtendsItself, RunCarries, ScreenCarries

LEMMA ListServedTyped ==
    ASSUME FrontInv, NEW K, Typed(K), NEW d \in Procs, ListServed(d)
    PROVE  Typed(K)'
<1> DEFINE p == [proc[d] EXCEPT !.pc = "listed", !.list = rows]
<1>1. /\ UNCHANGED <<rows, events, late, queue, unsaved, boot, minted, known, ideal, alias, excused>>
      /\ UNCHANGED <<replay, view, snap, pending, online, spent>>
  BY DEF ListServed, server, disk, page, history
<1>2. p \in ProcOf(K, known)
  <2>1. rows \in ListOf(K) /\ Shown(rows) \subseteq known
    BY DEF Typed, ServerTyped
  <2>2. proc[d] \in ProcOf(K, known)
    BY ProcFields
  <2>3. QED BY <2>1, <2>2 DEF ProcOf, Pcs
<1>3. Become(d, p)
  BY DEF ListServed
<1> HIDE DEF p
<1>4. QED
  BY <1>1, <1>2, <1>3, ProcStepTyped, ExtendsItself, RunCarries, ScreenCarries, BoundsCarry

LEMMA ListFailsTyped ==
    ASSUME FrontInv, NEW K, Typed(K), NEW d \in Procs, ListFails(d)
    PROVE  Typed(K)'
<1>1. /\ UNCHANGED <<rows, events, late, queue, unsaved, boot, minted, known, ideal, alias, excused>>
      /\ UNCHANGED <<replay, view, snap, pending>>
      /\ Become(d, Idle)
      /\ \/ Spend("losses") /\ online' = FALSE
         \/ Spend("refusals") /\ UNCHANGED online
  BY DEF ListFails, server, disk, history
<1>2. BoundsTyped'
  BY <1>1, SpendingOne
<1>3. ScreenTyped(K)'
  BY <1>1 DEF Typed, ScreenTyped
<1>4. Idle \in ProcOf(K, known)
  BY IdleTyped
<1>5. RunTyped(K)'
  BY <1>1, RunCarries, ExtendsItself
<1>6. QED BY <1>1, <1>2, <1>3, <1>4, <1>5, ProcStepTyped

LEMMA LandTyped ==
    ASSUME FrontInv, NEW K, Typed(K), NEW d \in Procs, Land(d)
    PROVE  Typed(K)'
<1> DEFINE p == [Idle EXCEPT !.pc = "landed", !.ops = queue]
<1>1. /\ UNCHANGED <<rows, events, late, queue, unsaved, boot, minted, known, ideal, alias, excused>>
      /\ UNCHANGED <<replay, snap, pending, spent>>
      /\ online' = TRUE /\ view' = proc[d].list
  BY DEF Land, server, disk, history
<1>2. p \in ProcOf(K, known)
  <2>1. queue \in Seq(ChangeOf(K))
    BY DEF Typed, WaitingTyped
  <2>2. Idle \in ProcOf(K, known)
    BY IdleTyped
  <2>3. QED BY <2>1, <2>2 DEF ProcOf, Pcs
<1>3. Become(d, p)
  BY DEF Land
<1>4. ScreenTyped(K)'
  BY <1>1, ProcFields DEF Typed, ScreenTyped
<1> HIDE DEF p
<1>5. QED
  BY <1>1, <1>2, <1>3, <1>4, ProcStepTyped, ExtendsItself, RunCarries, BoundsCarry

LEMMA ReapplyTyped ==
    ASSUME FrontInv, NEW K, Typed(K), NEW d \in Procs, Reapply(d)
    PROVE  Typed(K)'
<1> DEFINE s == Reapplied(view, {}, proc[d].ops)
<1>1. /\ UNCHANGED <<rows, events, late, queue, unsaved, boot, minted, known, ideal, alias, excused>>
      /\ UNCHANGED <<replay, online>>
      /\ Become(d, Idle)
      /\ \/ view' = s.view /\ pending' = s.ids /\ snap' = Saved(s.view) /\ UNCHANGED spent
         \/ Spend("faults") /\ UNCHANGED <<view, pending, snap>>
  BY DEF Reapply, server, history
<1>2. view \in ListOf(K) /\ snap \in ListOf(K) /\ online \in BOOLEAN
  BY DEF Typed, ScreenTyped
<1>3. s \in States(K)
  BY <1>2, ProcFields, TypedIds, ReappliedTyped
<1> HIDE DEF s
<1>4. CASE view' = s.view /\ pending' = s.ids /\ snap' = Saved(s.view) /\ UNCHANGED spent
  <2>1. ScreenTyped(K)'
    BY <1>1, <1>2, <1>3, <1>4 DEF ScreenTyped, States, Saved
  <2>2. QED BY <1>1, <1>4, <2>1, IdleTyped, ProcStepTyped, ExtendsItself, RunCarries, BoundsCarry
<1>5. CASE Spend("faults") /\ UNCHANGED <<view, pending, snap>>
  <2>1. BoundsTyped'
    BY <1>5, SpendingOne
  <2>2. QED
    BY <1>1, <1>5, <2>1, IdleTyped, ProcStepTyped, ExtendsItself, RunCarries, ScreenCarries
<1>6. QED BY <1>1, <1>4, <1>5

LEMMA ProcessTyped ==
    ASSUME FrontInv, NEW K, Typed(K), NEW d \in Procs, Syncing(d) \/ Retry(d) \/ ListFails(d)
    PROVE  Typed(K)'
BY CountTyped, RecountTyped, ListServedTyped, LandTyped, ReapplyTyped, RetryTyped, ListFailsTyped
   DEF Syncing
-----------------------------------------------------------------------------
(* Types: the change on the wire.                                          *)

(* A change is a request, and stays one with its id on the server.         *)
LEMMA ChangeAsked ==
    ASSUME NEW K, NEW op \in ChangeOf(K)
    PROVE  Request(K, op)
BY DEF ChangeOf, OpSet, Request

LEMMA JoinedTyped ==
    ASSUME NEW S, NEW s \in Seq(S), NEW t \in Seq(S)
    PROVE  s \o t \in Seq(S)
OBVIOUS

LEMMA ServeTyped ==
    ASSUME NEW K, Typed(K), NEW K2, Extends(K, K2),
           K2 \in [minted' -> Keys], minted' \subseteq Ids, NEW op, Request(K2, op),
           rows' = Served(rows, op).rows, events' = events \o Served(rows, op).events,
           known' = known \cup Shown(rows')
    PROVE  /\ ServerTyped(K2)' /\ known \subseteq known'
           /\ op \in ChangeOf(K2) => AnswerFor(K2, known', op, Served(rows, op).answer)
<1> DEFINE s == Served(rows, op)
<1>1. /\ known \subseteq DOMAIN K /\ DOMAIN K \subseteq DOMAIN K2 /\ DOMAIN K2 = minted'
      /\ rows \in ListOf(K2) /\ Shown(rows) \subseteq known
      /\ events \in Seq(EventOf(K, known))
  BY ListGrows, TypedIds DEF Typed, ServerTyped, Extends
<1>2. /\ s.rows \in ListOf(K2) /\ known \cup Shown(s.rows) \subseteq DOMAIN K2
      /\ s.events \in Seq(EventOf(K2, known \cup Shown(s.rows)))
      /\ op \in ChangeOf(K2) => AnswerFor(K2, known \cup Shown(s.rows), op, s.answer)
  BY <1>1, ServedTyped
<1>3. known' = known \cup Shown(s.rows)
  OBVIOUS
<1> HIDE DEF s
<1>4. EventOf(K, known) \subseteq EventOf(K2, known')
  BY <1>1, <1>3, EventGrows
<1>5. events \in Seq(EventOf(K2, known'))
  BY <1>1, <1>4, SeqGrows
<1>6. events' \in Seq(EventOf(K2, known'))
  <2>1. events' = events \o s.events
    BY DEF s
  <2>2. s.events \in Seq(EventOf(K2, known'))
    BY <1>2, <1>3
  <2>3. QED BY <1>5, <2>1, <2>2, JoinedTyped
<1>7. rows' = s.rows
  BY DEF s
<1>8. ServerTyped(K2)'
  BY <1>1, <1>2, <1>3, <1>6, <1>7 DEF ServerTyped
<1>9. QED BY <1>2, <1>3, <1>8 DEF s

LEMMA ExecuteTyped ==
    ASSUME FrontInv, NEW K, Typed(K), ServerExecutes
    PROVE  Typed(K)'
<1> DEFINE a == Served(rows, Current).answer
<1>1. /\ replay.phase = "wire"
      /\ rows' = Served(rows, Current).rows /\ events' = events \o Served(rows, Current).events
      /\ replay' = [replay EXCEPT !.phase = "answered", !.answer = a]
      /\ known' = known \cup Shown(rows')
      /\ UNCHANGED <<late, queue, snap, view, pending, online, proc, unsaved, boot, spent,
                     minted, ideal, alias, excused>>
  BY DEF ServerExecutes, disk, page
<1>2. Current \in ChangeOf(K)
  BY <1>1, CurrentTyped
<1>3. ServerTyped(K)' /\ known \subseteq known' /\ AnswerFor(K, known', Current, a)
  <2>1. K \in [minted' -> Keys] /\ minted' \subseteq Ids
    BY <1>1 DEF Typed, ServerTyped
  <2>2. QED BY <1>1, <1>2, <2>1, ChangeAsked, ServeTyped, ExtendsItself
<1>4. /\ replay'.phase = "answered" /\ replay'.entries = replay.entries
      /\ replay'.answer = a /\ replay'.moved = replay.moved /\ replay'.rewrote = replay.rewrote
  BY <1>1 DEF FrontInv
<1> HIDE DEF a
<1>5. Current' = Current
  BY <1>4 DEF Current
<1>6. RunTyped(K)'
  BY <1>3, <1>4, <1>5 DEF Typed, RunTyped, Phases
<1>7. QED
  BY <1>1, <1>3, <1>6, ExtendsItself, ScreenCarries, WaitingCarries, ProcsCarry, BoundsCarry,
     HistoryCarries DEF Typed

LEMMA FailTyped ==
    ASSUME FrontInv, NEW K, Typed(K), RequestFails
    PROVE  Typed(K)'
<1>1. /\ replay' = NoReplay /\ proc' = Woken
      /\ UNCHANGED <<rows, events, queue, snap, view, pending, unsaved, boot, minted, known,
                     ideal, alias, excused>>
      /\ \E kind : Spend(kind)
      /\ online' \in {FALSE, online}
      /\ replay.phase \in {"wire", "answered"} /\ late' \subseteq late \cup {Current}
  BY DEF RequestFails, StopRun, disk, history
<1>2. ProcsTyped(K)'
  BY <1>1, WokenTyped DEF ProcsTyped
<1>3. BoundsTyped'
  BY <1>1, SpendingOne
<1>4. ScreenTyped(K)'
  BY <1>1 DEF Typed, ScreenTyped
<1>5. WaitingTyped(K)'
  BY <1>1, CurrentTyped DEF Typed, WaitingTyped
<1>6. RunTyped(K)'
  BY <1>1, NoReplayTyped
<1>7. QED BY <1>1, <1>2, <1>3, <1>4, <1>5, <1>6, ServerCarries, HistoryCarries DEF Typed

LEMMA LateTyped ==
    ASSUME FrontInv, NEW K, Typed(K), NEW op \in late, ServedLate(op)
    PROVE  Typed(K)'
<1>1. /\ rows' = Served(rows, op).rows /\ events' = events \o Served(rows, op).events
      /\ known' = known \cup Shown(rows') /\ late' = late \ {op}
      /\ excused' \subseteq excused \cup Keys
      /\ UNCHANGED <<queue, snap, view, pending, online, replay, proc, unsaved, boot, spent,
                     minted, ideal, alias>>
  BY DEF ServedLate, disk, page, tasks
<1>2. op \in ChangeOf(K)
  BY DEF Typed, WaitingTyped
<1>3. ServerTyped(K)' /\ known \subseteq known'
  <2>1. K \in [minted' -> Keys] /\ minted' \subseteq Ids
    BY <1>1 DEF Typed, ServerTyped
  <2>2. QED BY <1>1, <1>2, <2>1, ChangeAsked, ServeTyped, ExtendsItself
<1>4. WaitingTyped(K)' /\ HistoryTyped'
  BY <1>1 DEF Typed, WaitingTyped, HistoryTyped
<1>5. QED
  BY <1>1, <1>3, <1>4, ExtendsItself, ScreenCarries, RunCarries, ProcsCarry, BoundsCarry DEF Typed
-----------------------------------------------------------------------------
(* Types: an answer comes.                                                 *)

(* Even in the middle of a swap, what is on the wire is the oldest on disk.*)
LEMMA HeadOnDisk ==
    ASSUME FrontInv, replay.phase # "idle"
    PROVE  /\ queue # <<>> /\ queue[1] = Current
           /\ replay.phase = "swapping" => Current.kind = "add"
<1>1. /\ Keyed(replay.entries) /\ replay.entries # <<>> /\ Len(replay.entries) <= Len(queue)
  BY DEF FrontInv
<1>2. Len(replay.entries) \in Nat \ {0} /\ DOMAIN replay.entries = 1 .. Len(replay.entries)
  BY <1>1, EmptySeq, LenProperties DEF Keyed
<1>3. Len(queue) \in Nat /\ queue # <<>>
  BY <1>1, <1>2 DEF FrontInv, Keyed
<1>4. Current = replay.entries[1] /\ 1 \in DOMAIN replay.entries
  BY <1>2 DEF Current
<1>5. CASE replay.phase = "swapping"
  <2>1. Current.kind = "add" /\ queue[1] = OnDisk(Current)
    BY <1>4, <1>5 DEF FrontInv
  <2>2. OnDisk(Current) = Current
    BY <2>1 DEF OnDisk, Targets
  <2>3. QED BY <1>3, <2>1, <2>2
<1>6. CASE replay.phase # "swapping"
  BY <1>3, <1>4, <1>6 DEF FrontInv
<1>7. QED BY <1>5, <1>6

LEMMA DequeueTyped ==
    ASSUME FrontInv, NEW K, Typed(K), replay.phase # "idle",
           NEW rest \in Seq(ChangeOf(K)), Dequeue(queue, rest), UNCHANGED known
    PROVE  /\ queue' \in Seq(ChangeOf(K)) /\ queue' \in {queue, Tail(queue)}
           /\ RunTyped(K)' /\ ProcsTyped(K)' /\ BoundsTyped'
           /\ Quiet' => Quiet /\ queue' = Tail(queue)
           /\ replay'.phase \in {"idle", "wire"} /\ proc' \in {proc, Woken}
<1>1. queue # <<>> /\ queue[1].key = Current.key
  BY HeadOnDisk
<1>2. queue \in Seq(ChangeOf(K))
  BY DEF Typed, WaitingTyped
<1>3. Tail(queue) \in Seq(ChangeOf(K))
  BY <1>1, <1>2
<1>4. NoReplay.phase = "idle"
  BY DEF NoReplay
<1>5. CASE /\ queue' = Without(queue, Current.key) /\ replay' = Send(rest)
           /\ proc' = IF rest = <<>> THEN Woken ELSE proc
           /\ UNCHANGED spent
  <2>1. queue' = Tail(queue)
    BY <1>1, <1>5, HeadGoes DEF FrontInv
  <2>2. RunTyped(K)'
    BY <1>5, SendTyped
  <2>3. ProcsTyped(K)'
    BY <1>5, WokenTyped DEF Typed, ProcsTyped
  <2>4. BoundsTyped' /\ (Quiet' => Quiet)
    BY <1>5, BoundsCarry DEF Quiet
  <2>5. replay'.phase \in {"idle", "wire"}
    BY <1>4, <1>5 DEF Send, NoReplay
  <2>6. QED BY <1>3, <1>5, <2>1, <2>2, <2>3, <2>4, <2>5
<1>6. CASE Spend("faults") /\ StopRun /\ UNCHANGED queue
  <2>1. BoundsTyped' /\ ~Quiet'
    BY <1>6, SpendingOne
  <2>2. RunTyped(K)'
    BY <1>6, NoReplayTyped DEF StopRun
  <2>3. ProcsTyped(K)'
    BY <1>6, WokenTyped DEF StopRun, ProcsTyped
  <2>4. QED BY <1>2, <1>4, <1>6, <2>1, <2>2, <2>3 DEF StopRun
<1>7. QED BY <1>5, <1>6 DEF Dequeue

LEMMA AnswerTyped ==
    ASSUME NEW K, Typed(K), replay.phase \in {"answered", "swapping"}
    PROVE  AnswerFor(K, known, Current, replay.answer)
BY DEF Typed, RunTyped

(* The row an add landed on, and that it stands for the same key.          *)
LEMMA LandedOn ==
    ASSUME FrontInv, NEW K, Typed(K), replay.phase \in {"answered", "swapping"},
           Current.kind = "add"
    PROVE  /\ Current.id \in DOMAIN K /\ replay.answer.id \in DOMAIN K
           /\ replay.answer.id \in known /\ K[replay.answer.id] = K[Current.id]
           /\ replay.answer.row \in Row /\ KeyOf[replay.answer.row.name] = K[replay.answer.id]
<1>1. Current \in ChangeOf(K)
  BY CurrentTyped
<1>2. AnswerFor(K, known, Current, replay.answer)
  BY AnswerTyped
<1>3. QED BY <1>1, <1>2, TypedIds DEF AnswerFor, NamedRow, ChangeOf

LEMMA HandleOkTyped ==
    ASSUME FrontInv, NEW K, Typed(K), HandleOk
    PROVE  Typed(K)'
<1>1. /\ replay.phase = "answered" /\ replay.answer.kind = "ok" /\ ~Swaps
      /\ online' = TRUE /\ pending' = pending \ {Current.id}
      /\ view' = IF Current.kind = "clear" THEN EmptyBasket(view)
                 ELSE Place(view, Current.id, replay.answer.row)
      /\ Dequeue(queue, Rest)
      /\ UNCHANGED <<rows, events, late, snap, unsaved, boot, minted, known, ideal, alias, excused>>
  BY DEF HandleOk, server, history
<1>2. Current \in ChangeOf(K) /\ Rest \in Seq(ChangeOf(K))
  BY <1>1, CurrentTyped
<1>3. AnswerFor(K, known, Current, replay.answer)
  BY <1>1, AnswerTyped
<1>4. view \in ListOf(K)
  BY DEF Typed, ScreenTyped
<1>5. view' \in ListOf(K)
  <2>1. CASE Current.kind = "clear"
    BY <1>1, <1>4, <2>1, EmptyTyped
  <2>2. CASE Current.kind \in {"check", "uncheck", "add", "delete"}
    <3>1. Current.id \in DOMAIN K /\ Current.id \in Ids
      BY <1>2, <2>2, TypedIds DEF ChangeOf
    <3>2. replay.answer.row = NoRow \/
            (replay.answer.row \in Row /\ KeyOf[replay.answer.row.name] = K[Current.id])
      BY <1>1, <1>3, <2>2 DEF AnswerFor, NamedRow, Gone
    <3>3. QED BY <1>1, <1>4, <2>2, <3>1, <3>2, PlaceTyped
  <2>3. QED BY <1>2, <2>1, <2>2 DEF ChangeOf, OpSet
<1>6. ScreenTyped(K)'
  BY <1>1, <1>5 DEF Typed, ScreenTyped
<1>7. /\ queue' \in Seq(ChangeOf(K)) /\ RunTyped(K)' /\ ProcsTyped(K)' /\ BoundsTyped'
  BY <1>1, <1>2, DequeueTyped
<1>8. WaitingTyped(K)'
  BY <1>1, <1>7 DEF Typed, WaitingTyped
<1>9. QED BY <1>1, <1>6, <1>7, <1>8, ServerCarries, HistoryCarries DEF Typed

LEMMA HandleGoneTyped ==
    ASSUME FrontInv, NEW K, Typed(K), HandleGone
    PROVE  Typed(K)'
<1>1. /\ replay.phase = "answered" /\ pending' = pending \ {Current.id}
      /\ Dequeue(queue, Rest)
      /\ UNCHANGED <<rows, events, late, snap, view, online, unsaved, boot, minted, known,
                     ideal, alias, excused>>
  BY DEF HandleGone, server, history
<1>2. Rest \in Seq(ChangeOf(K))
  BY <1>1, CurrentTyped
<1>3. ScreenTyped(K)'
  BY <1>1 DEF Typed, ScreenTyped
<1>4. /\ queue' \in Seq(ChangeOf(K)) /\ RunTyped(K)' /\ ProcsTyped(K)' /\ BoundsTyped'
  BY <1>1, <1>2, DequeueTyped
<1>5. WaitingTyped(K)'
  BY <1>1, <1>4 DEF Typed, WaitingTyped
<1>6. QED BY <1>1, <1>3, <1>4, <1>5, ServerCarries, HistoryCarries DEF Typed

LEMMA RepointedNonAdds ==
    ASSUME NEW K, DOMAIN K \subseteq Ids, NEW ops \in Seq(NonAdds(K)),
           NEW from \in DOMAIN K, NEW to \in DOMAIN K, K[to] = K[from]
    PROVE  Repointed(ops, from, to) \in Seq(NonAdds(K))
<1> DEFINE r == Repointed(ops, from, to)
<1>1. ops \in Seq(ChangeOf(K))
  BY SeqGrows DEF NonAdds
<1>2. /\ r \in Seq(ChangeOf(K)) /\ Len(r) = Len(ops)
      /\ \A j \in DOMAIN ops : r[j].kind = ops[j].kind
  BY <1>1, RepointedTyped
<1> HIDE DEF r
<1>3. /\ DOMAIN r = 1 .. Len(ops) /\ DOMAIN ops = 1 .. Len(ops) /\ Len(ops) \in Nat
      /\ \A j \in DOMAIN ops : ops[j].kind # "add" /\ r[j] \in ChangeOf(K)
  BY <1>2, LenProperties DEF NonAdds
<1>4. r \in [1 .. Len(ops) -> NonAdds(K)]
  <2>1. r = [j \in 1 .. Len(ops) |-> r[j]]
    BY <1>2, <1>3, LenProperties
  <2>2. \A j \in 1 .. Len(ops) : r[j] \in NonAdds(K)
    BY <1>2, <1>3 DEF NonAdds
  <2>3. QED BY <2>1, <2>2
<1>5. r \in Seq(NonAdds(K))
  BY <1>3, <1>4, SeqDef
<1>6. QED BY <1>5 DEF r

LEMMA SwapStartsTyped ==
    ASSUME FrontInv, NEW K, Typed(K), SwapStarts
    PROVE  Typed(K)'
<1> DEFINE to == replay.answer.id
           stale == NamedBy(queue, Current.id)
<1>1. /\ replay.phase = "answered" /\ Current.kind = "add" /\ online' = TRUE
      /\ UNCHANGED <<rows, events, late, snap, view, pending, proc, unsaved, boot, minted, known,
                     ideal, alias>>
      /\ \/ /\ queue' = Repointed(queue, Current.id, to)
            /\ replay' = [replay EXCEPT
                  !.phase = "swapping", !.moved = Repointed(stale, Current.id, to),
                  !.rewrote = \E j \in DOMAIN queue : Targets(queue[j], Current.id)]
            /\ UNCHANGED <<spent, excused>>
         \/ /\ Spend("faults")
            /\ replay' = [replay EXCEPT !.phase = "swapping"]
            /\ excused' = excused \cup {stale[j].of : j \in DOMAIN stale}
            /\ UNCHANGED queue
  BY DEF SwapStarts, Swaps, server
<1>2. /\ Current.id \in DOMAIN K /\ to \in DOMAIN K /\ K[to] = K[Current.id]
      /\ DOMAIN K \subseteq Ids
  BY <1>1, LandedOn, TypedIds
<1>3. queue \in Seq(ChangeOf(K)) /\ AnswerFor(K, known, Current, replay.answer)
  BY <1>1, AnswerTyped DEF Typed, WaitingTyped
<1>4. stale \in Seq(NonAdds(K))
  BY <1>3, NamedByTyped
<1>5. /\ Repointed(queue, Current.id, to) \in Seq(ChangeOf(K))
      /\ Repointed(stale, Current.id, to) \in Seq(NonAdds(K))
  BY <1>2, <1>3, <1>4, RepointedTyped, RepointedNonAdds
<1>6. ScreenTyped(K)' /\ ProcsTyped(K)' /\ ServerTyped(K)'
  BY <1>1, ProcsCarry, ExtendsItself, ServerCarries DEF Typed, ScreenTyped
<1> HIDE DEF stale, to
<1>7. CASE /\ queue' = Repointed(queue, Current.id, to)
           /\ replay' = [replay EXCEPT
                 !.phase = "swapping", !.moved = Repointed(stale, Current.id, to),
                 !.rewrote = \E j \in DOMAIN queue : Targets(queue[j], Current.id)]
           /\ UNCHANGED <<spent, excused>>
  <2>1. /\ replay'.phase = "swapping" /\ replay'.entries = replay.entries
        /\ replay'.answer = replay.answer
        /\ replay'.moved = Repointed(stale, Current.id, to)
        /\ replay'.rewrote \in BOOLEAN
    BY <1>7 DEF FrontInv
  <2>2. Current' = Current
    BY <2>1 DEF Current
  <2>3. RunTyped(K)'
    BY <1>1, <1>3, <1>5, <2>1, <2>2 DEF Typed, RunTyped, Phases
  <2>4. WaitingTyped(K)'
    BY <1>1, <1>5, <1>7 DEF Typed, WaitingTyped
  <2>5. QED BY <1>1, <1>6, <1>7, <2>3, <2>4, BoundsCarry, HistoryCarries DEF Typed
<1>8. CASE /\ Spend("faults")
           /\ replay' = [replay EXCEPT !.phase = "swapping"]
           /\ excused' = excused \cup {stale[j].of : j \in DOMAIN stale}
           /\ UNCHANGED queue
  <2>1. /\ replay'.phase = "swapping" /\ replay'.entries = replay.entries
        /\ replay'.answer = replay.answer /\ replay'.moved = replay.moved
        /\ replay'.rewrote = replay.rewrote
    BY <1>8 DEF FrontInv
  <2>2. Current' = Current
    BY <2>1 DEF Current
  <2>3. RunTyped(K)'
    BY <1>1, <1>3, <2>1, <2>2 DEF Typed, RunTyped, Phases
  <2>4. WaitingTyped(K)'
    BY <1>1, <1>8, ExtendsItself, WaitingCarries
  <2>5. \A j \in DOMAIN stale : stale[j].of \in Keys
    <3>1. \A op \in ChangeOf(K) : Targets(op, Current.id) => op.of \in Keys
      <4>1. \A i \in DOMAIN K : K[i] \in Keys
        BY DEF Typed, ServerTyped
      <4>2. Current.id # NoId
        BY <1>2, ConstantFacts
      <4>3. QED BY <4>1, <4>2 DEF ChangeOf, OpSet, Targets
    <3>2. \A j \in DOMAIN stale : stale[j] \in NonAdds(K) /\ Targets(stale[j], Current.id)
      <4>1. \A j \in DOMAIN stale : Targets(stale[j], Current.id)
        BY <1>3, NamedByAll DEF stale
      <4>2. QED BY <1>4, <4>1
    <3>3. QED BY <3>1, <3>2 DEF NonAdds
  <2>6. HistoryTyped'
    BY <1>1, <1>8, <2>5 DEF Typed, HistoryTyped
  <2>7. BoundsTyped'
    BY <1>8, SpendingOne
  <2>8. QED BY <1>6, <2>3, <2>4, <2>6, <2>7 DEF Typed
<1>9. QED BY <1>1, <1>7, <1>8

LEMMA SwapEndsTyped ==
    ASSUME FrontInv, NEW K, Typed(K), SwapEnds
    PROVE  Typed(K)'
<1> DEFINE to == replay.answer.id
           bare == RemoveId(RemoveId(view, Current.id), Current.sent)
           left == pending \ {Current.id, Current.sent, to}
           s == Reapplied(Place(bare, to, replay.answer.row), left, replay.moved)
           rest == IF replay.rewrote THEN Repointed(Rest, Current.id, to) ELSE Rest
<1>1. /\ replay.phase = "swapping" /\ view' = s.view /\ pending' = s.ids
      /\ Dequeue(queue, rest)
      /\ UNCHANGED <<rows, events, late, snap, online, unsaved, boot, minted, known, ideal, alias,
                     excused>>
  BY DEF SwapEnds, server, history
<1>2. Current.kind = "add"
  BY <1>1, HeadOnDisk
<1>3. /\ Current.id \in DOMAIN K /\ to \in DOMAIN K /\ to \in Ids /\ K[to] = K[Current.id]
      /\ DOMAIN K \subseteq Ids
      /\ replay.answer.row \in Row /\ KeyOf[replay.answer.row.name] = K[to]
  BY <1>1, <1>2, LandedOn, TypedIds
<1>4. Rest \in Seq(ChangeOf(K))
  BY <1>1, CurrentTyped
<1>5. rest \in Seq(ChangeOf(K))
  BY <1>3, <1>4, RepointedTyped
<1>6. s \in States(K)
  <2>1. view \in ListOf(K) /\ left \in SUBSET Ids
    BY DEF Typed, ScreenTyped
  <2>2. bare \in ListOf(K)
    BY <2>1, RemoveTyped
  <2>3. Place(bare, to, replay.answer.row) \in ListOf(K)
    BY <1>3, <2>2, PlaceTyped
  <2>4. replay.moved \in Seq(ChangeOf(K))
    BY SeqGrows DEF Typed, RunTyped, NonAdds
  <2> HIDE DEF bare, left
  <2>5. QED BY <1>3, <2>1, <2>3, <2>4, ReappliedTyped
<1> HIDE DEF s, rest
<1>7. ScreenTyped(K)'
  BY <1>1, <1>6 DEF Typed, ScreenTyped, States
<1>8. /\ queue' \in Seq(ChangeOf(K)) /\ RunTyped(K)' /\ ProcsTyped(K)' /\ BoundsTyped'
  BY <1>1, <1>5, DequeueTyped
<1>9. WaitingTyped(K)'
  BY <1>1, <1>8 DEF Typed, WaitingTyped
<1>10. QED BY <1>1, <1>7, <1>8, <1>9, ServerCarries, HistoryCarries DEF Typed

LEMMA ReplayTyped ==
    ASSUME FrontInv, NEW K, Typed(K), Replaying
    PROVE  Typed(K)'
BY ExecuteTyped, HandleOkTyped, HandleGoneTyped, SwapStartsTyped, SwapEndsTyped DEF Replaying
-----------------------------------------------------------------------------
(* Types: the stream, the household, the page's life.                      *)

LEMMA DeliverTyped ==
    ASSUME FrontInv, NEW K, Typed(K), DeliverEvent
    PROVE  Typed(K)'
<1>1. PICK e : e = Head(events)
  OBVIOUS
<1>2. /\ events # <<>> /\ events' = Tail(events)
      /\ view' = CASE e.kind = "row" -> IF e.id \in pending THEN view ELSE Place(view, e.id, e.row)
                   [] e.kind = "removed" -> RemoveId(view, e.id)
                   [] e.kind = "cleared" -> EmptyBasket(view)
      /\ UNCHANGED <<rows, late, queue, snap, pending, online, replay, proc, unsaved, boot, spent,
                     minted, known, ideal, alias, excused>>
  BY <1>1 DEF DeliverEvent, disk, tasks, history
<1>3. events \in Seq(EventOf(K, known)) /\ view \in ListOf(K)
  BY DEF Typed, ServerTyped, ScreenTyped
<1>4. e \in EventOf(K, known) /\ Tail(events) \in Seq(EventOf(K, known))
  BY <1>1, <1>2, <1>3
<1>5. view' \in ListOf(K)
  <2>1. CASE e.kind = "row"
    <3>1. e.id \in Ids /\ e.id \in DOMAIN K /\ e.row \in Row /\ KeyOf[e.row.name] = K[e.id]
      BY <1>4, <2>1, TypedIds DEF EventOf, NamedRow
    <3>2. QED BY <1>2, <1>3, <2>1, <3>1, PlaceTyped
  <2>2. CASE e.kind = "removed"
    BY <1>2, <1>3, <2>2, RemoveTyped
  <2>3. CASE e.kind = "cleared"
    BY <1>2, <1>3, <2>3, EmptyTyped
  <2>4. QED BY <1>4, <2>1, <2>2, <2>3 DEF EventOf
<1>6. ScreenTyped(K)'
  BY <1>2, <1>5 DEF Typed, ScreenTyped
<1>7. ServerTyped(K)'
  BY <1>2, <1>4 DEF Typed, ServerTyped
<1>8. QED
  BY <1>2, <1>6, <1>7, ExtendsItself, WaitingCarries, RunCarries, ProcsCarry, BoundsCarry,
     HistoryCarries DEF Typed

LEMMA ReconnectTyped ==
    ASSUME FrontInv, NEW K, Typed(K), Reconnect
    PROVE  Typed(K)'
<1>1. /\ Spend("losses") /\ events' = <<>>
      /\ \E d \in Free : Become(d, Drain("list"))
      /\ UNCHANGED <<rows, late, queue, snap, view, pending, online, replay, unsaved, boot,
                     minted, known, ideal, alias, excused>>
  BY DEF Reconnect, disk, page, history
<1>2. ServerTyped(K)'
  <2>1. <<>> \in Seq(EventOf(K, known))
    OBVIOUS
  <2>2. QED BY <1>1, <2>1 DEF Typed, ServerTyped
<1>3. ProcsTyped(K)'
  <2>1. Drain("list") \in ProcOf(K, known)
    BY IdleTyped
  <2>2. QED BY <1>1, <2>1, BecomeTyped DEF Free
<1>4. BoundsTyped'
  BY <1>1, SpendingOne
<1>5. QED
  BY <1>1, <1>2, <1>3, <1>4, ExtendsItself, ScreenCarries, WaitingCarries, RunCarries,
     HistoryCarries DEF Typed

(* Somebody else's add mints an id too.                                    *)
LEMMA RemoteTyped ==
    ASSUME FrontInv, NEW K, Typed(K), NEW op \in RemoteOps, RemoteChange(op)
    PROVE  \E K2 : Extends(K, K2) /\ Typed(K2)'
<1>1. /\ Spend("remote")
      /\ rows' = Served(rows, op).rows /\ events' = events \o Served(rows, op).events
      /\ known' = known \cup Shown(rows')
      /\ minted' = minted \cup ({op.sent} \ {NoId})
      /\ UNCHANGED <<late, queue, snap, view, pending, online, replay, proc, unsaved, boot,
                     ideal, alias, excused>>
  BY DEF RemoteChange, disk, page, tasks
<1>2. /\ K \in [minted -> Keys] /\ minted \subseteq Ids
      /\ rows \in ListOf(K)
  BY DEF Typed, ServerTyped
<1>3. \E K2 : /\ Extends(K, K2) /\ Request(K2, op)
              /\ K2 \in [minted' -> Keys] /\ minted' \subseteq Ids
  <2>1. CASE op \in {RemoteOp("add", NoId, Fresh(HouseIds), n) : n \in {m \in Names : HouseIds \ minted # {}}}
    <3>1. PICK n \in Names : HouseIds \ minted # {} /\ op = RemoteOp("add", NoId, Fresh(HouseIds), n)
      BY <2>1
    <3>2. PICK sent : sent = Fresh(HouseIds)
      OBVIOUS
    <3>3. sent \in HouseIds \ minted
      BY <3>1, <3>2 DEF Fresh
    <3>4. op.kind = "add" /\ op.sent = sent /\ op.name = n
      BY <3>1, <3>2 DEF RemoteOp
    <3>5. sent \in Ids /\ sent # NoId /\ KeyOf[n] \in Keys
      BY <3>3, ConstantFacts
    <3>6. minted' = minted \cup {sent}
      BY <1>1, <3>4, <3>5
    <3>7. PICK K2 : K2 = [i \in minted \cup {sent} |-> IF i = sent THEN KeyOf[n] ELSE K[i]]
      OBVIOUS
    <3>8. K2 \in [minted \cup {sent} -> Keys] /\ Extends(K, K2) /\ K2[sent] = KeyOf[n]
      BY <1>2, <3>3, <3>5, <3>7 DEF Extends
    <3>9. Request(K2, op)
      BY <3>4, <3>8 DEF Request
    <3>10. QED BY <1>2, <3>5, <3>6, <3>8, <3>9
  <2>2. CASE op \in {RemoteOp(k, i, NoId, NoName) : k \in {"check", "uncheck", "delete"}, i \in Shown(rows)}
    <3>1. PICK k \in {"check", "uncheck", "delete"}, i \in Shown(rows) :
             op = RemoteOp(k, i, NoId, NoName)
      BY <2>2
    <3>2. op.kind = k /\ op.id = i /\ op.sent = NoId
      BY <3>1 DEF RemoteOp
    <3>3. Request(K, op)
      BY <1>2, <3>2 DEF Request, ListOf
    <3>4. minted' = minted
      BY <1>1, <3>2
    <3>5. QED BY <1>2, <3>3, <3>4, ExtendsItself
  <2>3. CASE op = RemoteOp("clear", NoId, NoId, NoName)
    <3>1. op.kind = "clear" /\ op.sent = NoId
      BY <2>3 DEF RemoteOp
    <3>2. minted' = minted /\ Request(K, op)
      BY <1>1, <3>1 DEF Request
    <3>3. QED BY <1>2, <3>2, ExtendsItself
  <2>4. QED BY <2>1, <2>2, <2>3 DEF RemoteOps
<1>4. PICK K2 : /\ Extends(K, K2) /\ Request(K2, op)
                /\ K2 \in [minted' -> Keys] /\ minted' \subseteq Ids
  BY <1>3
<1>5. ServerTyped(K2)' /\ known \subseteq known'
  BY <1>1, <1>4, ServeTyped
<1>6. BoundsTyped'
  BY <1>1, SpendingOne
<1>7. Typed(K2)'
  BY <1>1, <1>4, <1>5, <1>6, ScreenCarries, WaitingCarries, RunCarries, ProcsCarry, HistoryCarries
     DEF Typed
<1>8. QED BY <1>4, <1>7

LEMMA PageTyped ==
    ASSUME FrontInv, NEW K, Typed(K), Persist \/ Reload \/ Boot
    PROVE  Typed(K)'
<1>1. /\ view \in ListOf(K) /\ snap \in ListOf(K) /\ pending \subseteq Ids /\ online \in BOOLEAN
      /\ queue \in Seq(ChangeOf(K)) /\ boot \in Seq(ChangeOf(K))
  BY DEF Typed, ScreenTyped, WaitingTyped
<1>2. CASE Persist
  <2>1. /\ snap' = view
        /\ UNCHANGED <<rows, events, late, queue, view, pending, online, replay, proc, unsaved, boot,
                       spent, minted, known, ideal, alias, excused>>
    BY <1>2 DEF Persist, server, page, tasks, history
  <2>2. ScreenTyped(K)'
    BY <1>1, <2>1 DEF ScreenTyped
  <2>3. QED
    BY <2>1, <2>2, ExtendsItself, ServerCarries, WaitingCarries, RunCarries, ProcsCarry,
       BoundsCarry, HistoryCarries DEF Typed
<1>3. CASE Reload
  <2>1. /\ Spend("reloads") /\ view' = snap /\ pending' = {} /\ online' = TRUE /\ events' = <<>>
        /\ replay' = NoReplay /\ unsaved' = {} /\ boot' = queue
        /\ \E d \in Procs : proc' = [e \in Procs |-> IF e = d THEN Fetch ELSE Idle]
        /\ late' = late \/ (replay.phase = "wire" /\ late' = late \cup {Current})
        /\ UNCHANGED <<rows, queue, snap, minted, known, ideal, alias, excused>>
    BY <1>3 DEF Reload, disk, history
  <2>2. ScreenTyped(K)' /\ WaitingTyped(K)'
    BY <1>1, <2>1, CurrentTyped DEF Typed, ScreenTyped, WaitingTyped
  <2>3. ServerTyped(K)'
    <3>1. <<>> \in Seq(EventOf(K, known))
      OBVIOUS
    <3>2. QED BY <2>1, <3>1 DEF Typed, ServerTyped
  <2>4. ProcsTyped(K)'
    <3>1. Fetch \in ProcOf(K, known) /\ Idle \in ProcOf(K, known)
      BY IdleTyped
    <3>2. QED BY <2>1, <3>1 DEF ProcsTyped
  <2>5. BoundsTyped' /\ RunTyped(K)'
    BY <2>1, SpendingOne, NoReplayTyped
  <2>6. QED BY <2>1, <2>2, <2>3, <2>4, <2>5, HistoryCarries DEF Typed
<1>4. CASE Boot
  <2> DEFINE s == Reapplied(view, pending, boot)
  <2>1. /\ boot' = <<>> /\ view' = s.view /\ pending' = s.ids
        /\ UNCHANGED <<rows, events, late, queue, snap, online, replay, proc, unsaved, spent,
                       minted, known, ideal, alias, excused>>
    BY <1>4 DEF Boot, server, disk, history
  <2>2. s \in States(K)
    BY <1>1, TypedIds, ReappliedTyped
  <2> HIDE DEF s
  <2>3. ScreenTyped(K)' /\ WaitingTyped(K)'
    BY <1>1, <2>1, <2>2 DEF Typed, ScreenTyped, WaitingTyped, States
  <2>4. QED
    BY <2>1, <2>3, ExtendsItself, ServerCarries, RunCarries, ProcsCarry, BoundsCarry,
       HistoryCarries DEF Typed
<1>5. QED BY <1>2, <1>3, <1>4

LEMMA StutterTyped ==
    ASSUME FrontInv, NEW K, Typed(K), UNCHANGED vars
    PROVE  Typed(K)'
<1>1. UNCHANGED <<rows, events, late, queue, snap, view, pending, online, replay, proc, unsaved,
                  boot, spent, minted, known, ideal, alias, excused>>
  BY DEF vars, server, disk, page, tasks, history
<1>2. QED
  BY <1>1, ExtendsItself, ServerCarries, ScreenCarries, WaitingCarries, RunCarries, ProcsCarry,
     BoundsCarry, HistoryCarries DEF Typed

(* Every step keeps what the ids in use stand for, and the types.          *)
LEMMA NextTyped ==
    ASSUME FrontInv, NEW K, Typed(K), [Next]_vars
    PROVE  \E K2 : Extends(K, K2) /\ Typed(K2)'
BY ExtendsItself, ShopperTyped, RollBackTyped, ProcessTyped, ReplayTyped, FailTyped, LateTyped,
   DeliverTyped, ReconnectTyped, RemoteTyped, PageTyped, StutterTyped DEF Next

LEMMA InitTyped ==
    ASSUME Init
    PROVE  \E K : Typed(K)
<1>1. rows \in List /\ rows \in [Ids -> Row \cup {NoRow}]
  BY DEF Init, List
<1>2. PICK limit \in Limits : spent = [limit |-> limit, used |-> [k \in Bounded |-> 0]]
  BY DEF Init
<1>3. PICK K : K = [i \in Shown(rows) |-> KeyOf[rows[i].name]]
  OBVIOUS
<1>4. \A i \in Shown(rows) : i \in Ids /\ rows[i] \in Row /\ rows[i].name \in Names
  BY <1>1 DEF Shown, Row
<1>5. K \in [Shown(rows) -> Keys] /\ rows \in ListOf(K)
  BY <1>1, <1>3, <1>4, ConstantFacts DEF ListOf
<1>6. ServerTyped(K)
  <2>1. <<>> \in Seq(EventOf(K, known))
    OBVIOUS
  <2>2. QED BY <1>4, <1>5, <2>1 DEF Init, ServerTyped
<1>7. ScreenTyped(K)
  BY <1>5 DEF Init, ScreenTyped
<1>8. WaitingTyped(K)
  BY DEF Init, WaitingTyped
<1>9. RunTyped(K)
  BY DEF Init, RunTyped, NoReplay, Phases
<1>10. ProcsTyped(K)
  BY IdleTyped DEF Init, ProcsTyped
<1>11. BoundsTyped
  <2>1. limit \in [Bounded -> Nat]
    BY OfflineStoreAssumption
  <2>2. QED BY <1>2, <2>1 DEF BoundsTyped
<1>12. HistoryTyped
  BY <1>1 DEF Init, HistoryTyped
<1>13. QED BY <1>6, <1>7, <1>8, <1>9, <1>10, <1>11, <1>12 DEF Typed

LEMMA TypedIsEnough ==
    ASSUME NEW K, Typed(K)
    PROVE  TypeOK
<1>1. /\ \A op \in ChangeOf(K) : op \in OpSet
      /\ \A v \in ListOf(K) : v \in List
  BY DEF ChangeOf, ListOf
<1>2. rows \in List /\ snap \in List /\ view \in List
  BY <1>1 DEF Typed, ServerTyped, ScreenTyped
<1>3. /\ \A j \in DOMAIN queue : queue[j] \in OpSet
      /\ \A j \in DOMAIN replay.entries : replay.entries[j] \in OpSet
      /\ late \subseteq OpSet
  BY <1>1 DEF Typed, WaitingTyped, RunTyped
<1>4. \A d \in Procs : proc[d].pc \in Pcs /\ proc[d].list \in List
  BY <1>1, ProcFields
<1>5. QED
  BY <1>2, <1>3, <1>4 DEF Typed, ScreenTyped, RunTyped, HistoryTyped, Phases, Pcs, TypeOK
-----------------------------------------------------------------------------
(* Drops.  A queued change is about a row the server has had, or one whose *)
(* add is queued before it and not being swapped for another, or about a   *)
(* key whose row was tapped under an id out of reach.                      *)

DropInv ==
    \A j \in DOMAIN queue :
        \/ queue[j].kind \in {"add", "clear"}
        \/ queue[j].id \in known \/ queue[j].of \in excused
        \/ \E m \in 1 .. j - 1 :
              /\ queue[m].kind = "add" /\ queue[m].id = queue[j].id
              /\ ~(replay.phase = "swapping" /\ m = 1)

LEMMA DropCarries ==
    ASSUME DropInv, UNCHANGED queue, known \subseteq known', excused \subseteq excused',
           replay'.phase = replay.phase \/ replay'.phase # "swapping"
    PROVE  DropInv'
<1>1. ASSUME NEW j \in DOMAIN queue
      PROVE  \/ queue[j].kind \in {"add", "clear"}
             \/ queue[j].id \in known' \/ queue[j].of \in excused'
             \/ \E m \in 1 .. j - 1 :
                   /\ queue[m].kind = "add" /\ queue[m].id = queue[j].id
                   /\ ~(replay'.phase = "swapping" /\ m = 1)
  BY DEF DropInv
<1>2. QED BY <1>1 DEF DropInv

(* A tap whose change nothing will repoint excuses its key.                *)
LEMMA DropCommit ==
    ASSUME FrontInv, NEW K, Typed(K), DropInv, NEW op, NEW shown, NEW marked, NEW undo,
           Commit(op, shown, marked, undo)
    PROVE  DropInv'
<1>1. UNCHANGED <<replay, known>>
  BY DEF Commit
<1>2. CASE /\ queue' = Append(queue, op)
           /\ excused' = excused \cup
                {k \in {op.of} : Strays(op) \/ (op.kind \notin {"add", "clear"} /\ OutOfReach(op.id))}
  <2>1. queue \in Seq(ChangeOf(K))
    BY DEF Typed, WaitingTyped
  <2>2. /\ DOMAIN queue = 1 .. Len(queue) /\ Len(queue) \in Nat
        /\ DOMAIN queue' = 1 .. Len(queue) + 1 /\ queue'[Len(queue) + 1] = op
        /\ \A j \in 1 .. Len(queue) : queue'[j] = queue[j]
    BY <1>2, <2>1
  <2>3. ASSUME NEW j \in 1 .. Len(queue)
        PROVE  \/ queue'[j].kind \in {"add", "clear"}
               \/ queue'[j].id \in known' \/ queue'[j].of \in excused'
               \/ \E m \in 1 .. j - 1 :
                     /\ queue'[m].kind = "add" /\ queue'[m].id = queue'[j].id
                     /\ ~(replay'.phase = "swapping" /\ m = 1)
    <3>1. \A m \in 1 .. j - 1 : queue'[m] = queue[m]
      BY <2>2
    <3>2. QED BY <1>1, <1>2, <2>2, <3>1 DEF DropInv
  <2>4. \/ op.kind \in {"add", "clear"} \/ op.id \in known' \/ op.of \in excused'
        \/ \E m \in 1 .. Len(queue) :
              /\ queue'[m].kind = "add" /\ queue'[m].id = op.id
              /\ ~(replay'.phase = "swapping" /\ m = 1)
    <3>1. CASE op.kind \notin {"add", "clear"} /\ OutOfReach(op.id)
      BY <1>2, <3>1
    <3>2. CASE ~OutOfReach(op.id) /\ op.id \notin known
      <4>1. PICK m \in 1 .. Len(queue) :
               /\ queue[m].kind = "add" /\ queue[m].id = op.id
               /\ ~(replay.phase = "swapping" /\ Current.key = queue[m].key)
        BY <2>2, <3>2 DEF OutOfReach
      <4>2. ~(replay.phase = "swapping" /\ m = 1)
        BY <4>1, HeadOnDisk
      <4>3. QED BY <1>1, <2>2, <4>1, <4>2
    <3>3. QED BY <1>1, <3>1, <3>2
  <2>5. \A j \in DOMAIN queue' : j \in 1 .. Len(queue) \/ (j = Len(queue) + 1 /\ j - 1 = Len(queue))
    BY <2>2
  <2>6. QED BY <2>2, <2>3, <2>4, <2>5 DEF DropInv
<1>3. CASE UNCHANGED <<queue, excused>>
  BY <1>1, <1>3, DropCarries
<1>4. QED BY <1>2, <1>3 DEF Commit

LEMMA DropShopper ==
    ASSUME FrontInv, NEW K, Typed(K), DropInv, Shopper
    PROVE  DropInv'
<1>1. \E op, shown, marked, undo : Commit(op, shown, marked, undo)
  BY DEF Shopper, TapAdd, TapToggle, TapRemove, TapClear
<1>2. QED BY <1>1, DropCommit

(* The oldest change leaves: its row is on the server, or was swapped.     *)
LEMMA DropDequeue ==
    ASSUME FrontInv, NEW K, Typed(K), DropInv, replay.phase # "idle",
           NEW rest \in Seq(ChangeOf(K)), Dequeue(queue, rest), UNCHANGED <<known, excused>>,
           Current.kind = "add" => replay.phase = "swapping" \/ Current.id \in known
    PROVE  DropInv'
<1>1. queue' \in {queue, Tail(queue)} /\ replay'.phase # "swapping"
  <2>1. queue' \in {queue, Tail(queue)} /\ replay'.phase \in {"idle", "wire"}
    BY DequeueTyped
  <2>2. QED BY <2>1
<1>2. CASE UNCHANGED queue
  BY <1>1, <1>2, DropCarries
<1>3. CASE queue' = Tail(queue)
  <2>1. queue # <<>> /\ queue[1] = Current /\ queue \in Seq(ChangeOf(K))
    BY HeadOnDisk DEF Typed, WaitingTyped
  <2>2. /\ Len(queue) \in Nat /\ DOMAIN queue = 1 .. Len(queue)
        /\ DOMAIN queue' = 1 .. Len(queue) - 1
        /\ \A j \in 1 .. Len(queue) - 1 : queue'[j] = queue[j + 1]
    BY <1>3, <2>1
  <2>3. ASSUME NEW j \in 1 .. Len(queue) - 1
        PROVE  \/ queue'[j].kind \in {"add", "clear"}
               \/ queue'[j].id \in known' \/ queue'[j].of \in excused'
               \/ \E m \in 1 .. j - 1 : queue'[m].kind = "add" /\ queue'[m].id = queue'[j].id
    <3>1. j \in Nat /\ j + 1 \in 1 .. Len(queue) /\ queue'[j] = queue[j + 1] /\ (j + 1) - 1 = j
      BY <2>2
    <3>2. \/ queue[j + 1].kind \in {"add", "clear"}
          \/ queue[j + 1].id \in known \/ queue[j + 1].of \in excused
          \/ \E m \in 1 .. j : /\ queue[m].kind = "add" /\ queue[m].id = queue[j + 1].id
                               /\ ~(replay.phase = "swapping" /\ m = 1)
      BY <2>2, <3>1 DEF DropInv
    <3>3. ASSUME NEW m \in 1 .. j, queue[m].kind = "add", queue[m].id = queue[j + 1].id,
                 ~(replay.phase = "swapping" /\ m = 1)
          PROVE  \/ queue'[j].id \in known
                 \/ \E l \in 1 .. j - 1 : queue'[l].kind = "add" /\ queue'[l].id = queue'[j].id
      <4>1. CASE m = 1
        BY <2>1, <3>1, <3>3, <4>1
      <4>2. CASE m # 1
        <5>1. m - 1 \in 1 .. j - 1 /\ m - 1 \in 1 .. Len(queue) - 1 /\ (m - 1) + 1 = m
          BY <2>2, <3>1, <4>2
        <5>2. queue'[m - 1] = queue[m]
          BY <2>2, <5>1
        <5>3. QED BY <3>1, <3>3, <5>1, <5>2
      <4>3. QED BY <4>1, <4>2
    <3>4. QED BY <3>1, <3>2, <3>3
  <2>4. QED BY <1>1, <2>2, <2>3 DEF DropInv
<1>4. QED BY <1>1, <1>2, <1>3

(* What the swapped add's row named now names the row it landed on.        *)
LEMMA DropSwap ==
    ASSUME FrontInv, NEW K, Typed(K), DropInv, SwapStarts
    PROVE  DropInv'
<1> DEFINE to == replay.answer.id
           stale == NamedBy(queue, Current.id)
<1>1. /\ replay.phase = "answered" /\ Current.kind = "add" /\ UNCHANGED known
      /\ \/ queue' = Repointed(queue, Current.id, to) /\ UNCHANGED excused
         \/ UNCHANGED queue /\ excused' = excused \cup {stale[j].of : j \in DOMAIN stale}
  BY DEF SwapStarts, Swaps
<1>2. /\ Current.id \in DOMAIN K /\ to \in DOMAIN K /\ to \in known /\ K[to] = K[Current.id]
      /\ DOMAIN K \subseteq Ids
  BY <1>1, LandedOn, TypedIds
<1>3. queue \in Seq(ChangeOf(K)) /\ queue[1] = Current
  BY <1>1, HeadOnDisk DEF Typed, WaitingTyped
<1>4. \A n \in DOMAIN queue : Targets(queue[n], Current.id) =>
         \E j \in DOMAIN stale : stale[j] = queue[n]
  BY <1>3, NamedByAll
<1>5. /\ DOMAIN queue = 1 .. Len(queue) /\ Len(queue) \in Nat
      /\ \A j \in DOMAIN queue : queue[j].kind = "clear" => queue[j].id = NoId
      /\ \A j \in DOMAIN queue : queue[j] \in ChangeOf(K)
  BY <1>3, LenProperties DEF ChangeOf
<1> DEFINE D == DOMAIN queue
<1>6. ASSUME NEW j \in D
      PROVE  \/ queue[j].kind \in {"add", "clear"}
             \/ queue[j].id \in known \/ queue[j].of \in excused
             \/ Targets(queue[j], Current.id)
             \/ \E m \in 1 .. j - 1 : queue[m].kind = "add" /\ queue[m].id = queue[j].id /\ m # 1
  BY <1>3 DEF DropInv, Targets
<1> HIDE DEF stale, to
<1>7. CASE UNCHANGED queue /\ excused' = excused \cup {stale[j].of : j \in DOMAIN stale}
  <2>1. \A j \in D : Targets(queue[j], Current.id) => queue[j].of \in excused'
    BY <1>4, <1>7
  <2>2. QED BY <1>1, <1>6, <1>7, <2>1 DEF DropInv
<1>8. CASE queue' = Repointed(queue, Current.id, to) /\ UNCHANGED excused
  <2>1. /\ queue' \in Seq(ChangeOf(K)) /\ Len(queue') = Len(queue)
        /\ \A j \in D : queue'[j] =
              IF Targets(queue[j], Current.id) THEN [queue[j] EXCEPT !.id = to] ELSE queue[j]
        /\ \A j \in D : queue'[j].kind = queue[j].kind
    <3> DEFINE r == Repointed(queue, Current.id, to)
    <3>1. /\ r \in Seq(ChangeOf(K)) /\ Len(r) = Len(queue)
          /\ \A j \in DOMAIN queue : r[j] =
                IF Targets(queue[j], Current.id) THEN [queue[j] EXCEPT !.id = to] ELSE queue[j]
          /\ \A j \in DOMAIN queue : r[j].kind = queue[j].kind
      BY <1>2, <1>3, RepointedTyped
    <3>2. queue' = r
      BY <1>8
    <3> HIDE DEF r
    <3>3. QED BY <3>1, <3>2
  <2>2. DOMAIN queue' = D
    BY <1>5, <2>1, LenProperties
  <2>3. \A j \in D : Targets(queue[j], Current.id) => queue'[j].id = to
    BY <1>5, <2>1 DEF ChangeOf, OpSet
  <2>4. \A j \in D : ~Targets(queue[j], Current.id) => queue'[j] = queue[j]
    BY <2>1
  <2>5. \A m \in D : queue[m].kind = "add" => queue'[m] = queue[m]
    BY <2>4 DEF Targets
  <2>6. \A j \in D : \A m \in 1 .. j - 1 : m \in D
    BY <1>5
  <2>7. ASSUME NEW j \in D
        PROVE  \/ queue'[j].kind \in {"add", "clear"}
               \/ queue'[j].id \in known' \/ queue'[j].of \in excused'
               \/ \E m \in 1 .. j - 1 :
                     queue'[m].kind = "add" /\ queue'[m].id = queue'[j].id /\ m # 1
    <3>1. CASE Targets(queue[j], Current.id)
      BY <1>1, <1>2, <2>3, <3>1
    <3>2. CASE ~Targets(queue[j], Current.id)
      BY <1>1, <1>6, <1>8, <2>4, <2>5, <2>6, <3>2
    <3>3. QED BY <3>1, <3>2
  <2>8. QED BY <2>2, <2>7 DEF DropInv
<1>9. QED BY <1>1, <1>7, <1>8

LEMMA DropReplay ==
    ASSUME FrontInv, NEW K, Typed(K), DropInv, Replaying
    PROVE  DropInv'
<1>1. CASE ServerExecutes
  <2>1. /\ UNCHANGED <<queue, excused>> /\ known \subseteq known'
        /\ \E a : replay' = [replay EXCEPT !.phase = "answered", !.answer = a]
    BY <1>1 DEF ServerExecutes, disk
  <2>2. replay'.phase = "answered"
    BY <2>1 DEF FrontInv
  <2>3. QED BY <2>1, <2>2, DropCarries
<1>2. CASE HandleOk
  <2>1. /\ replay.phase = "answered" /\ ~Swaps /\ Dequeue(queue, Rest)
        /\ UNCHANGED <<known, excused>>
    BY <1>2 DEF HandleOk, history
  <2>2. Current.kind = "add" => Current.id \in known
    BY <2>1, LandedOn DEF Swaps
  <2>3. QED BY <2>1, <2>2, CurrentTyped, DropDequeue
<1>3. CASE HandleGone
  <2>1. /\ replay.phase = "answered" /\ replay.answer.kind = "gone" /\ Dequeue(queue, Rest)
        /\ UNCHANGED <<known, excused>>
    BY <1>3 DEF HandleGone, history
  <2>2. Current.kind # "add"
    BY <2>1, AnswerTyped DEF AnswerFor
  <2>3. QED BY <2>1, <2>2, CurrentTyped, DropDequeue
<1>4. CASE SwapStarts
  BY <1>4, DropSwap
<1>5. CASE SwapEnds
  <2> DEFINE rest == IF replay.rewrote THEN Repointed(Rest, Current.id, replay.answer.id) ELSE Rest
  <2>1. /\ replay.phase = "swapping" /\ Dequeue(queue, rest)
        /\ UNCHANGED <<known, excused>>
    BY <1>5 DEF SwapEnds, history
  <2>2. rest \in Seq(ChangeOf(K))
    <3>1. Rest \in Seq(ChangeOf(K)) /\ Current.kind = "add"
      BY <2>1, CurrentTyped, HeadOnDisk
    <3>2. QED BY <2>1, <3>1, LandedOn, TypedIds, RepointedTyped
  <2> HIDE DEF rest
  <2>3. QED BY <2>1, <2>2, DropDequeue
<1>6. QED BY <1>1, <1>2, <1>3, <1>4, <1>5 DEF Replaying

LEMMA DropNext ==
    ASSUME FrontInv, NEW K, Typed(K), DropInv, [Next]_vars
    PROVE  DropInv'
<1>1. CASE Shopper
  BY <1>1, DropShopper
<1>2. CASE Replaying
  BY <1>2, DropReplay
<1>3. ASSUME NEW u \in unsaved, RollBack(u)
      PROVE  DropInv'
  BY <1>3, DropCarries DEF RollBack, disk, history
<1>4. ASSUME NEW d \in Procs, Syncing(d) \/ Retry(d) \/ ListFails(d)
      PROVE  DropInv'
  <2>1. UNCHANGED <<queue, known, excused>>
    BY <1>4 DEF Syncing, Count, Recount, ListServed, Land, Reapply, Retry, ListFails, disk, history
  <2>2. replay' = replay \/ replay'.phase \in {"idle", "wire"}
    <3>1. replay' = replay \/ replay' = Send(queue)
      BY <1>4 DEF Syncing, Count, Recount, ListServed, Land, Reapply, Retry, ListFails
    <3>2. Send(queue).phase \in {"idle", "wire"}
      BY DEF Send, NoReplay
    <3>3. QED BY <3>1, <3>2
  <2>3. QED BY <2>1, <2>2, DropCarries
<1>5. CASE RequestFails \/ Reload
  <2>1. UNCHANGED <<queue, known, excused>> /\ replay' = NoReplay
    BY <1>5 DEF RequestFails, StopRun, Reload, disk, history
  <2>2. replay'.phase = "idle"
    BY <2>1 DEF NoReplay
  <2>3. QED BY <2>1, <2>2, DropCarries
<1>6. ASSUME NEW op \in late, ServedLate(op)
      PROVE  DropInv'
  BY <1>6, DropCarries DEF ServedLate, disk, tasks
<1>7. ASSUME NEW op \in RemoteOps, RemoteChange(op)
      PROVE  DropInv'
  BY <1>7, DropCarries DEF RemoteChange, disk, tasks
<1>8. CASE DeliverEvent \/ Reconnect \/ Persist \/ Boot \/ UNCHANGED vars
  <2>1. UNCHANGED <<queue, replay, known, excused>>
    BY <1>8 DEF DeliverEvent, Reconnect, Persist, Boot, vars, disk, tasks, history
  <2>2. QED BY <2>1, DropCarries
<1>9. QED
  BY <1>1, <1>2, <1>3, <1>4, <1>5, <1>6, <1>7, <1>8 DEF Next

LEMMA DropIsEnough ==
    ASSUME FrontInv, NEW K, Typed(K), DropInv
    PROVE  DroppedOnlyWhenDeleted
<1> SUFFICES ASSUME replay.phase = "answered", replay.answer.kind = "gone"
             PROVE  Current.id \in known \/ Current.of \in excused
  BY DEF DroppedOnlyWhenDeleted
<1>1. queue # <<>> /\ queue[1] = Current
  BY HeadOnDisk
<1>2. 1 \in DOMAIN queue
  BY <1>1, LenProperties, EmptySeq DEF Typed, WaitingTyped
<1>3. Current.kind \in {"check", "uncheck", "delete"}
  BY AnswerTyped DEF AnswerFor
<1>4. QED BY <1>1, <1>2, <1>3 DEF DropInv
-----------------------------------------------------------------------------
(* Phantoms.  At most one process has a list on screen and no queue yet;   *)
(* then only the queue, and not the markers, says what is not the          *)
(* server's.                                                               *)

Queued(i) == \E j \in DOMAIN queue : queue[j].kind = "add" /\ queue[j].id = i
Accounted(K, i) ==
    \/ K[i] \in excused
    \/ Queued(i)
    \/ i \in pending /\ NoReadUnderWay
PhantomInv(K) ==
    /\ \A d, e \in Procs : proc[d].pc = "landed" /\ proc[e].pc = "landed" => d = e
    /\ Quiet => /\ unsaved = {} /\ boot = <<>>
                /\ \A i \in Shown(view) \ known : Accounted(K, i)

LEMMA ViewIds ==
    ASSUME NEW K, Typed(K)
    PROVE  view \in ListOf(K) /\ Shown(view) \subseteq DOMAIN K /\ Shown(view) \subseteq Ids
BY DEF Typed, ScreenTyped, ListOf, List, Shown

(* A step that brings no row on screen without its change, and lands no    *)
(* list.                                                                   *)
LEMMA PhantomKept ==
    ASSUME NEW K, Typed(K), NEW K2, Extends(K, K2), PhantomInv(K),
           Quiet' => Quiet /\ unsaved' \subseteq unsaved /\ boot' \in {boot, <<>>},
           \A d \in Procs : proc'[d].pc = "landed" <=> proc[d].pc = "landed",
           excused \subseteq excused', known \subseteq known',
           Quiet' => \A i \in Shown(view') \ known' :
              \/ /\ i \in Shown(view) /\ (i \in pending => i \in pending')
                 /\ Queued(i) => Queued(i)'
              \/ Queued(i)'
              \/ K2[i] \in excused'
    PROVE  PhantomInv(K2)'
<1>1. \A d, e \in Procs : proc'[d].pc = "landed" /\ proc'[e].pc = "landed" => d = e
  BY DEF PhantomInv
<1>2. NoReadUnderWay => NoReadUnderWay'
  BY DEF NoReadUnderWay
<1>3. ASSUME Quiet', NEW i \in Shown(view') \ known'
      PROVE  Accounted(K2, i)'
  <2>1. CASE Queued(i)'
    BY <2>1 DEF Accounted
  <2>2. CASE /\ i \in Shown(view) /\ (i \in pending => i \in pending')
             /\ Queued(i) => Queued(i)'
    <3>1. Accounted(K, i)
      BY <1>3, <2>2 DEF PhantomInv
    <3>2. K2[i] = K[i]
      BY <2>2, ViewIds DEF Extends
    <3> HIDE DEF Queued
    <3>3. QED BY <1>2, <2>2, <3>1, <3>2 DEF Accounted
  <2>3. CASE K2[i] \in excused'
    BY <2>3 DEF Accounted
  <2>4. QED BY <1>3, <2>1, <2>2, <2>3
<1>4. Quiet' => unsaved' = {} /\ boot' = <<>>
  BY DEF PhantomInv
<1>5. QED BY <1>1, <1>3, <1>4 DEF PhantomInv

(* Nothing on screen, in the queue or among the processes changes.         *)
LEMMA PhantomCarries ==
    ASSUME NEW K, Typed(K), NEW K2, Extends(K, K2), PhantomInv(K),
           UNCHANGED <<view, pending, queue>>, Quiet' => Quiet,
           unsaved' \subseteq unsaved, boot' \in {boot, <<>>},
           \A d \in Procs : proc'[d].pc = "landed" <=> proc[d].pc = "landed",
           excused \subseteq excused', known \subseteq known'
    PROVE  PhantomInv(K2)'
<1>1. \A i : Queued(i) => Queued(i)'
  BY DEF Queued
<1> HIDE DEF Queued
<1>2. QED BY <1>1, PhantomKept

LEMMA BecomeLands ==
    ASSUME NEW K, Typed(K), NEW d \in Procs, NEW p, Become(d, p),
           proc[d].pc # "landed", p.pc # "landed"
    PROVE  \A e \in Procs : proc'[e].pc = "landed" <=> proc[e].pc = "landed"
BY DEF Typed, ProcsTyped, Become

LEMMA WokenLands ==
    ASSUME NEW K, Typed(K)
    PROVE  \A e \in Procs : Woken[e].pc = "landed" <=> proc[e].pc = "landed"
<1>1. ASSUME NEW e \in Procs
      PROVE  Woken[e].pc = "landed" <=> proc[e].pc = "landed"
  <2>1. proc[e] \in ProcOf(K, known)
    BY ProcFields
  <2>2. [proc[e] EXCEPT !.pc = "recount"].pc = "recount"
    BY <2>1 DEF ProcOf
  <2>3. QED BY <2>2 DEF Woken
<1>2. QED BY <1>1

LEMMA NotLanded ==
    /\ Idle.pc = "idle" /\ Fetch.pc = "list"
    /\ \A then : Drain(then).pc = "count"
BY DEF Idle, Fetch, Drain
-----------------------------------------------------------------------------
(* Phantoms: the shopper.                                                  *)

LEMMA PhantomCommit ==
    ASSUME FrontInv, NEW K, Typed(K), NEW K2, Extends(K, K2), PhantomInv(K),
           NEW op, NEW shown, NEW marked, NEW undo,
           Commit(op, shown, marked, undo), pending \subseteq marked,
           \/ Shown(shown) \subseteq Shown(view)
           \/ op.kind = "add" /\ Shown(shown) \subseteq Shown(view) \cup {op.id}
    PROVE  PhantomInv(K2)'
<1>1. /\ view' = shown /\ pending' = marked /\ UNCHANGED <<boot, known>>
  BY DEF Commit
<1>2. CASE /\ Spend("taps") /\ queue' = Append(queue, op) /\ UNCHANGED unsaved
           /\ \E d \in Free : Become(d, Drain("idle"))
           /\ excused \subseteq excused'
  <2>1. Quiet' => Quiet
    BY <1>2, SpendingOne
  <2>2. \A d \in Procs : proc'[d].pc = "landed" <=> proc[d].pc = "landed"
    BY <1>2, BecomeLands, NotLanded DEF Free
  <2>3. queue \in Seq(ChangeOf(K))
    BY DEF Typed, WaitingTyped
  <2>4. /\ DOMAIN queue = 1 .. Len(queue) /\ Len(queue) \in Nat
        /\ DOMAIN queue' = 1 .. Len(queue) + 1 /\ queue'[Len(queue) + 1] = op
        /\ \A j \in 1 .. Len(queue) : queue'[j] = queue[j]
    BY <1>2, <2>3
  <2>5. \A i : Queued(i) => Queued(i)'
    BY <2>4 DEF Queued
  <2>6. op.kind = "add" => Queued(op.id)'
    <3>1. Len(queue) + 1 \in DOMAIN queue'
      BY <2>4
    <3>2. QED BY <2>4, <3>1 DEF Queued
  <2>7. \A i \in Shown(view') : i \in Shown(view) \/ (op.kind = "add" /\ i = op.id)
    BY <1>1
  <2> HIDE DEF Queued
  <2>8. QED BY <1>1, <1>2, <2>1, <2>2, <2>5, <2>6, <2>7, PhantomKept
<1>3. CASE SpendAll({"taps", "faults"}) /\ UNCHANGED <<proc, excused>>
  <2>1. ~Quiet'
    BY <1>3, Spending
  <2>2. QED BY <1>1, <1>3, <2>1, PhantomKept
<1>4. QED BY <1>2, <1>3 DEF Commit

LEMMA PhantomShopper ==
    ASSUME FrontInv, NEW K, Typed(K), NEW K2, Extends(K, K2), PhantomInv(K), Shopper
    PROVE  PhantomInv(K2)'
<1>1. view \in ListOf(K) /\ Shown(view) \subseteq Ids
  BY ViewIds
<1>2. ASSUME NEW name \in Names, TapAdd(name)
      PROVE  PhantomInv(K2)'
  <2>1. PICK sent : sent = Fresh(ShopIds)
    OBVIOUS
  <2>2. PICK i \in IF Matches(name) = {} THEN {sent} ELSE Matches(name) :
           Commit(Op("add", i, sent, name, KeyOf[name]),
                  Place(view, i, [name |-> name, status |-> "active"]),
                  pending \cup {i}, [j \in {i} |-> view[i]])
    BY <1>2, <2>1 DEF TapAdd
  <2> DEFINE shown == Place(view, i, [name |-> name, status |-> "active"])
             op == Op("add", i, sent, name, KeyOf[name])
  <2>3. op.kind = "add" /\ op.id = i
    BY DEF Op
  <2>4. Shown(shown) \subseteq Shown(view) \cup {i}
    BY <1>1 DEF Place, Shown, ListOf, List
  <2> HIDE DEF op, shown
  <2>5. QED BY <2>2, <2>3, <2>4, PhantomCommit DEF op, shown
<1>3. ASSUME NEW i \in Shown(view), TapToggle(i) \/ TapRemove(i)
      PROVE  PhantomInv(K2)'
  <2>1. PICK kind \in {"check", "uncheck", "delete"},
             shown \in {RemoveId(view, i)} \cup
                       {WithStatus(view, i, StatusOf(k)) : k \in {"check", "uncheck"}} :
          Commit(Op(kind, i, NoId, NoName, KeyOf[view[i].name]), shown, pending \cup {i},
                 [j \in {i} |-> view[i]])
    BY <1>3 DEF TapToggle, TapRemove
  <2>2. Shown(shown) \subseteq Shown(view)
    BY <1>1, RemoveTyped, StatusTyped
  <2>3. QED BY <2>1, <2>2, PhantomCommit
<1>4. CASE TapClear
  <2>1. PICK op, undo : Commit(op, EmptyBasket(view), pending, undo)
    BY <1>4 DEF TapClear
  <2>2. Shown(EmptyBasket(view)) \subseteq Shown(view)
    BY <1>1, EmptyTyped
  <2>3. QED BY <2>1, <2>2, PhantomCommit
<1>5. QED BY <1>2, <1>3, <1>4 DEF Shopper

LEMMA PhantomRollBack ==
    ASSUME NEW K, Typed(K), NEW K2, Extends(K, K2), PhantomInv(K), NEW u \in unsaved, RollBack(u)
    PROVE  PhantomInv(K2)'
<1>1. ~Quiet /\ (Quiet' <=> Quiet)
  BY DEF PhantomInv, RollBack, Quiet
<1>2. UNCHANGED <<proc, excused, known, boot>>
  BY DEF RollBack, history
<1>3. QED BY <1>1, <1>2, PhantomKept
-----------------------------------------------------------------------------
(* Phantoms: drains and refreshes.                                         *)

LEMMA PhantomProcess ==
    ASSUME FrontInv, NEW K, Typed(K), NEW K2, Extends(K, K2), PhantomInv(K), NEW d \in Procs,
           Count(d) \/ Recount(d) \/ ListServed(d) \/ Retry(d) \/ ListFails(d)
    PROVE  PhantomInv(K2)'
<1>1. UNCHANGED <<view, pending, queue, unsaved, boot, excused, known>>
  BY DEF Count, Recount, ListServed, Retry, ListFails, disk, page, history
<1>2. Quiet' => Quiet
  <2>1. UNCHANGED spent \/ \E kind : Spend(kind)
    BY DEF Count, Recount, CannotRead, ListServed, Retry, ListFails
  <2>2. QED BY <2>1, SpendingOne DEF Quiet
<1>3. PICK p : Become(d, p) /\ p.pc # "landed"
  <2>1. proc[d] \in ProcOf(K, known)
    BY ProcFields
  <2>2. /\ [proc[d] EXCEPT !.pc = "waiting", !.before = Len(queue)].pc # "landed"
        /\ [proc[d] EXCEPT !.pc = "listed", !.list = rows].pc # "landed"
    BY <2>1 DEF ProcOf
  <2>3. Drained(d).pc # "landed"
    BY DrainedTyped
  <2>4. QED
    BY <2>2, <2>3, NotLanded DEF Count, Recount, CannotRead, ListServed, Retry, ListFails
<1>4. proc[d].pc # "landed"
  BY DEF Count, Recount, ListServed, Retry, ListFails, Free
<1>5. \A e \in Procs : proc'[e].pc = "landed" <=> proc[e].pc = "landed"
  BY <1>3, <1>4, BecomeLands
<1>6. QED BY <1>1, <1>2, <1>5, PhantomCarries

(* A list lands where none is on screen already; all its rows are the      *)
(* server's.                                                               *)
LEMMA PhantomLand ==
    ASSUME FrontInv, NEW K, Typed(K), NEW K2, Extends(K, K2), PhantomInv(K), NEW d \in Procs, Land(d)
    PROVE  PhantomInv(K2)'
<1> DEFINE p == [Idle EXCEPT !.pc = "landed", !.ops = queue]
<1>1. /\ NoReadUnderWay /\ view' = proc[d].list
      /\ UNCHANGED <<unsaved, boot, known, spent>>
  BY DEF Land, history
<1>2. \A e \in Procs : e # d => proc'[e] = proc[e]
  BY DEF Land, Become, Typed, ProcsTyped
<1>3. \A e \in Procs : proc'[e].pc = "landed" => e = d
  BY <1>1, <1>2 DEF NoReadUnderWay
<1>4. Shown(view') \subseteq known
  BY <1>1, ProcFields
<1>5. Quiet' => Quiet
  BY <1>1 DEF Quiet
<1>6. QED BY <1>1, <1>3, <1>4, <1>5 DEF PhantomInv

(* Then the queue's answer marks the rows it puts back.                    *)
LEMMA PhantomReapply ==
    ASSUME FrontInv, NEW K, Typed(K), NEW K2, Extends(K, K2), PhantomInv(K), NEW d \in Procs,
           Reapply(d)
    PROVE  PhantomInv(K2)'
<1> DEFINE s == Reapplied(view, {}, proc[d].ops)
<1>1. /\ proc[d].pc = "landed" /\ Become(d, Idle)
      /\ UNCHANGED <<queue, unsaved, boot, known, excused>>
      /\ \/ view' = s.view /\ pending' = s.ids /\ UNCHANGED spent
         \/ Spend("faults")
  BY DEF Reapply, history
<1>2. \A e \in Procs : proc'[e].pc # "landed"
  <2>1. \A e \in Procs : proc'[e] = IF e = d THEN Idle ELSE proc[e]
    BY <1>1 DEF Become, Typed, ProcsTyped
  <2>2. QED BY <1>1, <2>1, NotLanded DEF PhantomInv
<1>3. CASE view' = s.view /\ pending' = s.ids /\ UNCHANGED spent
  <2>1. Shown(s.view) \subseteq Shown(view) \cup s.ids
    BY ViewIds, ProcFields, TypedIds, ReappliedTyped
  <2> HIDE DEF s
  <2>2. ASSUME Quiet', NEW i \in Shown(view') \ known'
        PROVE  Accounted(K2, i)'
    <3>1. i \in Shown(view) \/ i \in pending'
      BY <1>3, <2>1, <2>2
    <3>2. CASE i \in pending'
      BY <1>2, <3>2 DEF Accounted, NoReadUnderWay
    <3>3. CASE i \in Shown(view)
      <4>1. Quiet /\ i \in Shown(view) \ known
        BY <1>1, <1>3, <2>2, <3>3 DEF Quiet
      <4>2. K[i] \in excused \/ Queued(i)
        BY <1>1, <4>1 DEF PhantomInv, Accounted, NoReadUnderWay
      <4>3. K2[i] = K[i]
        BY <3>3, ViewIds DEF Extends
      <4>4. Queued(i) => Queued(i)'
        BY <1>1 DEF Queued
      <4> HIDE DEF Queued
      <4>5. QED BY <1>1, <4>2, <4>3, <4>4 DEF Accounted
    <3>4. QED BY <3>1, <3>2, <3>3
  <2>3. Quiet' => unsaved' = {} /\ boot' = <<>>
    BY <1>1, <1>3 DEF PhantomInv, Quiet
  <2>4. QED BY <1>2, <2>2, <2>3 DEF PhantomInv
<1>4. CASE Spend("faults")
  <2>1. ~Quiet'
    BY <1>4, SpendingOne
  <2>2. QED BY <1>2, <2>1 DEF PhantomInv
<1>5. QED BY <1>1, <1>3, <1>4
-----------------------------------------------------------------------------
(* Phantoms: an answer comes.                                              *)

(* The oldest change leaves the queue, and it was no add of i.             *)
LEMMA StillQueued ==
    ASSUME FrontInv, NEW K, Typed(K), replay.phase # "idle", queue' = Tail(queue),
           NEW i, Current.kind = "add" => Current.id # i, Queued(i)
    PROVE  Queued(i)'
<1>1. queue # <<>> /\ queue[1] = Current /\ queue \in Seq(ChangeOf(K))
  BY HeadOnDisk DEF Typed, WaitingTyped
<1>2. /\ Len(queue) \in Nat /\ DOMAIN queue = 1 .. Len(queue)
      /\ DOMAIN queue' = 1 .. Len(queue) - 1
      /\ \A j \in 1 .. Len(queue) - 1 : queue'[j] = queue[j + 1]
  BY <1>1
<1>3. PICK j \in 1 .. Len(queue) : queue[j].kind = "add" /\ queue[j].id = i
  BY <1>2 DEF Queued
<1>4. j # 1
  BY <1>1, <1>3
<1>5. j - 1 \in 1 .. Len(queue) - 1 /\ (j - 1) + 1 = j
  BY <1>2, <1>4
<1>6. queue'[j - 1] = queue[j] /\ j - 1 \in DOMAIN queue'
  BY <1>2, <1>5
<1>7. QED BY <1>3, <1>6 DEF Queued

(* ... and what is shown afterwards was shown before, marked as it was.    *)
LEMMA PhantomDequeue ==
    ASSUME FrontInv, NEW K, Typed(K), NEW K2, Extends(K, K2), PhantomInv(K),
           replay.phase # "idle", NEW rest \in Seq(ChangeOf(K)), Dequeue(queue, rest),
           UNCHANGED <<unsaved, boot, known, excused>>,
           Quiet => \A i \in Shown(view') \ known :
              \/ /\ i \in Shown(view) /\ (i \in pending => i \in pending')
                 /\ Current.kind = "add" => Current.id # i
              \/ K2[i] \in excused
    PROVE  PhantomInv(K2)'
<1>1. /\ Quiet' => Quiet /\ queue' = Tail(queue)
      /\ proc' \in {proc, Woken}
  BY DequeueTyped
<1>2. \A e \in Procs : proc'[e].pc = "landed" <=> proc[e].pc = "landed"
  BY <1>1, WokenLands
<1>3. ASSUME Quiet', NEW i, Current.kind = "add" => Current.id # i
      PROVE  Queued(i) => Queued(i)'
  BY <1>1, <1>3, StillQueued
<1> HIDE DEF Queued
<1>4. QED BY <1>1, <1>2, <1>3, PhantomKept

LEMMA PhantomOk ==
    ASSUME FrontInv, NEW K, Typed(K), NEW K2, Extends(K, K2), PhantomInv(K), HandleOk
    PROVE  PhantomInv(K2)'
<1>1. /\ replay.phase = "answered" /\ replay.answer.kind = "ok" /\ ~Swaps
      /\ pending' = pending \ {Current.id}
      /\ view' = IF Current.kind = "clear" THEN EmptyBasket(view)
                 ELSE Place(view, Current.id, replay.answer.row)
      /\ Dequeue(queue, Rest)
      /\ UNCHANGED <<unsaved, boot, known, excused>>
  BY DEF HandleOk, history
<1>2. Current \in ChangeOf(K) /\ Rest \in Seq(ChangeOf(K))
  BY <1>1, CurrentTyped
<1>3. AnswerFor(K, known, Current, replay.answer)
  BY <1>1, AnswerTyped
<1>4. view \in ListOf(K) /\ Shown(view) \subseteq Ids
  BY ViewIds
<1>5. \A i \in Shown(view') \ known : i \in Shown(view) /\ i # Current.id
  <2>1. CASE Current.kind = "clear"
    <3>1. Current.id = NoId /\ Shown(view') \subseteq Shown(view)
      BY <1>1, <1>2, <1>4, <2>1, EmptyTyped DEF ChangeOf
    <3>2. QED BY <1>4, <3>1, ConstantFacts
  <2>2. CASE Current.kind \in {"add", "check", "uncheck"}
    <3>1. Current.id \in known
      BY <1>1, <1>3, <2>2 DEF AnswerFor, NamedRow, Swaps, Gone
    <3>2. Shown(view') \subseteq Shown(view) \cup {Current.id}
      BY <1>1, <1>4, <2>2 DEF Place, Shown, ListOf, List
    <3>3. QED BY <3>1, <3>2
  <2>3. CASE Current.kind = "delete"
    <3>1. replay.answer.row = NoRow /\ Current.id \in Ids
      BY <1>1, <1>2, <1>3, <2>3, TypedIds DEF AnswerFor, ChangeOf
    <3>2. Shown(view') = Shown(view) \ {Current.id}
      BY <1>1, <1>4, <2>3, <3>1, PlaceTyped
    <3>3. QED BY <3>2
  <2>4. QED BY <1>2, <2>1, <2>2, <2>3 DEF ChangeOf, OpSet
<1>6. QED BY <1>1, <1>2, <1>5, PhantomDequeue

(* A 404 unmarks a row only the shopper can have taken out of reach.       *)
LEMMA PhantomGone ==
    ASSUME FrontInv, NEW K, Typed(K), NEW K2, Extends(K, K2), PhantomInv(K), DropInv, HandleGone
    PROVE  PhantomInv(K2)'
<1>1. /\ replay.phase = "answered" /\ replay.answer.kind = "gone"
      /\ pending' = pending \ {Current.id} /\ Dequeue(queue, Rest)
      /\ UNCHANGED <<view, unsaved, boot, known, excused>>
  BY DEF HandleGone, history
<1>2. Current \in ChangeOf(K) /\ Rest \in Seq(ChangeOf(K))
  BY <1>1, CurrentTyped
<1>3. Current.kind \in {"check", "uncheck", "delete"}
  BY <1>1, AnswerTyped DEF AnswerFor
<1>4. Current.id \in known \/ Current.of \in excused
  <2>1. replay.phase = "answered" /\ replay.answer.kind = "gone"
    BY <1>1
  <2>2. QED BY <2>1, DropIsEnough DEF DroppedOnlyWhenDeleted
<1>5. Current.of = K[Current.id] /\ K2[Current.id] = K[Current.id]
  BY <1>2, <1>3 DEF ChangeOf, Extends
<1>6. ASSUME NEW i \in Shown(view') \ known
      PROVE  \/ /\ i \in Shown(view) /\ (i \in pending => i \in pending')
                /\ Current.kind = "add" => Current.id # i
             \/ K2[i] \in excused
  BY <1>1, <1>3, <1>4, <1>5
<1>7. QED BY <1>1, <1>2, <1>6, PhantomDequeue

(* The ids an add is swapped away from leave the screen.                   *)
LEMMA PhantomSwapEnds ==
    ASSUME FrontInv, NEW K, Typed(K), NEW K2, Extends(K, K2), PhantomInv(K), SwapEnds
    PROVE  PhantomInv(K2)'
<1> DEFINE to == replay.answer.id
           bare == RemoveId(RemoveId(view, Current.id), Current.sent)
           placed == Place(bare, to, replay.answer.row)
           left == pending \ {Current.id, Current.sent, to}
           s == Reapplied(placed, left, replay.moved)
           rest == IF replay.rewrote THEN Repointed(Rest, Current.id, to) ELSE Rest
<1>1. /\ replay.phase = "swapping" /\ view' = s.view /\ pending' = s.ids
      /\ Dequeue(queue, rest)
      /\ UNCHANGED <<unsaved, boot, known, excused>>
  BY DEF SwapEnds, history
<1>2. Current.kind = "add"
  BY <1>1, HeadOnDisk
<1>3. /\ Current.id \in DOMAIN K /\ to \in DOMAIN K /\ to \in Ids /\ to \in known
      /\ K[to] = K[Current.id] /\ DOMAIN K \subseteq Ids
      /\ replay.answer.row \in Row /\ KeyOf[replay.answer.row.name] = K[to]
  BY <1>1, <1>2, LandedOn, TypedIds
<1>4. rest \in Seq(ChangeOf(K))
  BY <1>1, <1>3, CurrentTyped, RepointedTyped
<1>5. view \in ListOf(K) /\ Shown(view) \subseteq Ids /\ left \in SUBSET Ids
  BY ViewIds DEF Typed, ScreenTyped
<1>6. bare \in ListOf(K) /\ Shown(bare) = Shown(view) \ {Current.id, Current.sent}
  BY <1>5, RemoveTyped
<1>7. placed \in ListOf(K) /\ Shown(placed) \subseteq Shown(bare) \cup {to}
  <2> HIDE DEF bare
  <2>1. QED BY <1>3, <1>6, PlaceTyped
<1>8. replay.moved \in Seq(ChangeOf(K)) /\ NoAdds(replay.moved)
  <2>1. replay.moved \in Seq(NonAdds(K))
    BY DEF Typed, RunTyped
  <2>2. \A j \in 1 .. Len(replay.moved) : replay.moved[j] \in NonAdds(K)
    BY <2>1
  <2>3. QED BY <2>1, <2>2, SeqGrows DEF NonAdds, NoAdds
<1>9. left \subseteq s.ids /\ Shown(s.view) \subseteq Shown(placed)
  <2> HIDE DEF placed, left
  <2>1. QED BY <1>3, <1>5, <1>7, <1>8, ReappliedTyped
<1> HIDE DEF s, rest, placed, bare
<1>10. ASSUME NEW i \in Shown(view') \ known
       PROVE  i \in Shown(view) /\ Current.id # i /\ (i \in pending => i \in pending')
  <2>1. i \in Shown(view) \ {Current.id, Current.sent} /\ i # to
    BY <1>1, <1>3, <1>6, <1>7, <1>9, <1>10
  <2>2. QED BY <1>1, <1>9, <2>1
<1>11. QED BY <1>1, <1>4, <1>10, PhantomDequeue

LEMMA PhantomSwapStarts ==
    ASSUME FrontInv, NEW K, Typed(K), NEW K2, Extends(K, K2), PhantomInv(K), SwapStarts
    PROVE  PhantomInv(K2)'
<1> DEFINE to == replay.answer.id
<1>1. /\ replay.phase = "answered" /\ Current.kind = "add"
      /\ UNCHANGED <<view, pending, proc, unsaved, boot, known>>
      /\ excused \subseteq excused'
      /\ UNCHANGED queue \/ queue' = Repointed(queue, Current.id, to)
      /\ UNCHANGED spent \/ Spend("faults")
  BY DEF SwapStarts, Swaps
<1>2. queue \in Seq(ChangeOf(K))
  BY DEF Typed, WaitingTyped
<1>3. \A i : Queued(i) => Queued(i)'
  <2>1. CASE UNCHANGED queue
    BY <2>1 DEF Queued
  <2>2. CASE queue' = Repointed(queue, Current.id, to)
    <3>1. /\ DOMAIN queue' = DOMAIN queue
          /\ \A j \in DOMAIN queue : queue[j].kind = "add" => queue'[j] = queue[j]
      BY <2>2 DEF Repointed, Targets
    <3>2. QED BY <3>1 DEF Queued
  <2>3. QED BY <1>1, <2>1, <2>2
<1>4. Quiet' => Quiet
  BY <1>1, SpendingOne DEF Quiet
<1> HIDE DEF Queued
<1>5. QED BY <1>1, <1>3, <1>4, PhantomKept

LEMMA PhantomReplay ==
    ASSUME FrontInv, NEW K, Typed(K), NEW K2, Extends(K, K2), PhantomInv(K), DropInv, Replaying
    PROVE  PhantomInv(K2)'
<1>1. CASE ServerExecutes
  <2>1. /\ UNCHANGED <<view, pending, queue, unsaved, boot, proc, excused, spent>>
        /\ known \subseteq known'
    BY <1>1 DEF ServerExecutes, disk, page
  <2>2. QED BY <2>1, PhantomCarries DEF Quiet
<1>2. QED
  BY <1>1, PhantomOk, PhantomGone, PhantomSwapStarts, PhantomSwapEnds DEF Replaying
-----------------------------------------------------------------------------
(* Phantoms: the rest.                                                     *)

LEMMA PhantomFail ==
    ASSUME NEW K, Typed(K), NEW K2, Extends(K, K2), PhantomInv(K), RequestFails
    PROVE  PhantomInv(K2)'
<1>1. /\ proc' = Woken /\ UNCHANGED <<view, pending, queue, unsaved, boot, excused, known>>
      /\ \E kind : Spend(kind)
  BY DEF RequestFails, StopRun, disk, history
<1>2. QED BY <1>1, WokenLands, SpendingOne, PhantomCarries

LEMMA PhantomServer ==
    ASSUME NEW K, Typed(K), NEW K2, Extends(K, K2), PhantomInv(K), NEW op,
           ServedLate(op) \/ RemoteChange(op)
    PROVE  PhantomInv(K2)'
<1>1. /\ UNCHANGED <<view, pending, queue, unsaved, boot, proc>>
      /\ known \subseteq known' /\ excused \subseteq excused'
      /\ UNCHANGED spent \/ Spend("remote")
  BY DEF ServedLate, RemoteChange, disk, page, tasks
<1>2. Quiet' => Quiet
  BY <1>1, SpendingOne DEF Quiet
<1>3. QED BY <1>1, <1>2, PhantomCarries

LEMMA PhantomDeliver ==
    ASSUME NEW K, Typed(K), NEW K2, Extends(K, K2), PhantomInv(K), DeliverEvent
    PROVE  PhantomInv(K2)'
<1>1. PICK e : e = Head(events)
  OBVIOUS
<1>2. /\ events # <<>>
      /\ view' = CASE e.kind = "row" -> IF e.id \in pending THEN view ELSE Place(view, e.id, e.row)
                   [] e.kind = "removed" -> RemoveId(view, e.id)
                   [] e.kind = "cleared" -> EmptyBasket(view)
      /\ UNCHANGED <<pending, queue, proc, unsaved, boot, spent, known, excused>>
  BY <1>1 DEF DeliverEvent, disk, tasks, history
<1>3. e \in EventOf(K, known)
  BY <1>1, <1>2 DEF Typed, ServerTyped
<1>4. view \in ListOf(K)
  BY ViewIds
<1>5. Shown(view') \subseteq Shown(view) \cup known
  <2>1. CASE e.kind = "row"
    <3>1. e.id \in known
      BY <1>3, <2>1 DEF EventOf, NamedRow
    <3>2. Shown(view') \subseteq Shown(view) \cup {e.id}
      BY <1>2, <1>4, <2>1 DEF Place, Shown, ListOf, List
    <3>3. QED BY <3>1, <3>2
  <2>2. CASE e.kind = "removed"
    BY <1>2, <1>4, <2>2, RemoveTyped
  <2>3. CASE e.kind = "cleared"
    BY <1>2, <1>4, <2>3, EmptyTyped
  <2>4. QED BY <1>3, <2>1, <2>2, <2>3 DEF EventOf
<1>6. \A i : Queued(i) => Queued(i)'
  BY <1>2 DEF Queued
<1> HIDE DEF Queued
<1>7. QED BY <1>2, <1>5, <1>6, PhantomKept DEF Quiet

LEMMA PhantomReconnect ==
    ASSUME NEW K, Typed(K), NEW K2, Extends(K, K2), PhantomInv(K), Reconnect
    PROVE  PhantomInv(K2)'
<1>1. /\ Spend("losses") /\ UNCHANGED <<view, pending, queue, unsaved, boot, excused, known>>
      /\ \E d \in Free : Become(d, Drain("list"))
  BY DEF Reconnect, disk, page, history
<1>2. \A d \in Procs : proc'[d].pc = "landed" <=> proc[d].pc = "landed"
  BY <1>1, BecomeLands, NotLanded DEF Free
<1>3. QED BY <1>1, <1>2, SpendingOne, PhantomCarries

LEMMA PhantomPage ==
    ASSUME NEW K, Typed(K), NEW K2, Extends(K, K2), PhantomInv(K), Persist \/ Reload \/ Boot
    PROVE  PhantomInv(K2)'
<1>1. CASE Persist
  BY <1>1, PhantomCarries DEF Persist, server, page, tasks, history, Quiet
<1>2. CASE Reload
  <2>1. ~Quiet'
    BY <1>2, SpendingOne DEF Reload
  <2>2. \A e \in Procs : proc'[e].pc # "landed"
    <3>1. PICK d \in Procs : proc' = [e \in Procs |-> IF e = d THEN Fetch ELSE Idle]
      BY <1>2 DEF Reload
    <3>2. QED BY <3>1, NotLanded
  <2>3. QED BY <2>1, <2>2 DEF PhantomInv
<1>3. CASE Boot
  <2>1. ~Quiet /\ UNCHANGED <<spent, proc>>
    BY <1>3 DEF Boot, PhantomInv
  <2>2. QED BY <2>1 DEF PhantomInv, Quiet
<1>4. QED BY <1>1, <1>2, <1>3

LEMMA PhantomNext ==
    ASSUME FrontInv, NEW K, Typed(K), NEW K2, Extends(K, K2), PhantomInv(K), DropInv, [Next]_vars
    PROVE  PhantomInv(K2)'
<1>1. CASE UNCHANGED vars
  <2>1. UNCHANGED <<view, pending, queue, unsaved, boot, proc, excused, known, spent>>
    BY <1>1 DEF vars, disk, page, tasks, history
  <2>2. QED BY <2>1, PhantomCarries DEF Quiet
<1>2. ASSUME NEW d \in Procs, Syncing(d) \/ Retry(d) \/ ListFails(d)
      PROVE  PhantomInv(K2)'
  BY <1>2, PhantomProcess, PhantomLand, PhantomReapply DEF Syncing
<1>3. ASSUME Next
      PROVE  PhantomInv(K2)'
  BY <1>2, <1>3, PhantomShopper, PhantomRollBack, PhantomReplay, PhantomFail, PhantomServer,
     PhantomDeliver, PhantomReconnect, PhantomPage DEF Next
<1>4. QED BY <1>1, <1>3

LEMMA PhantomIsEnough ==
    ASSUME NEW K, Typed(K), PhantomInv(K)
    PROVE  PhantomsAreMarked
<1> SUFFICES ASSUME Quiet, NEW i \in Shown(view) \ known
             PROVE  \/ i \in pending
                    \/ KeyOf[view[i].name] \in excused
                    \/ \E j \in DOMAIN queue : queue[j].kind = "add" /\ queue[j].id = i
  BY DEF PhantomsAreMarked, Quiet
<1>1. Accounted(K, i)
  BY DEF PhantomInv
<1>2. KeyOf[view[i].name] = K[i]
  BY ViewIds DEF ListOf
<1>3. QED BY <1>1, <1>2 DEF Accounted, Queued
-----------------------------------------------------------------------------
StoreInv == FrontInv /\ \E K : Typed(K) /\ PhantomInv(K) /\ DropInv

LEMMA StoreInit == Init => StoreInv
<1> SUFFICES ASSUME Init PROVE StoreInv
  OBVIOUS
<1>1. FrontInv
  BY EmptyKeyed DEF Init, NoReplay, FrontInv
<1>2. PICK K : Typed(K)
  BY InitTyped
<1>3. DropInv
  BY DEF Init, DropInv
<1>4. PhantomInv(K)
  <2>1. \A d \in Procs : proc[d].pc = "idle"
    BY NotLanded DEF Init
  <2>2. Shown(view) \ known = {} /\ unsaved = {} /\ boot = <<>>
    BY DEF Init
  <2>3. QED BY <2>1, <2>2 DEF PhantomInv
<1>5. QED BY <1>1, <1>2, <1>3, <1>4 DEF StoreInv

LEMMA StoreStep == StoreInv /\ [Next]_vars => StoreInv'
<1> SUFFICES ASSUME StoreInv, [Next]_vars PROVE StoreInv'
  OBVIOUS
<1>1. FrontInv
  BY DEF StoreInv
<1>2. PICK K : Typed(K) /\ PhantomInv(K) /\ DropInv
  BY DEF StoreInv
<1>3. PICK K2 : Extends(K, K2) /\ Typed(K2)'
  BY <1>1, <1>2, NextTyped
<1>4. FrontInv' /\ DropInv' /\ PhantomInv(K2)'
  BY <1>1, <1>2, <1>3, NextKeeps, DropNext, PhantomNext
<1>5. QED BY <1>3, <1>4 DEF StoreInv

LEMMA StoreInvariant == Spec => []StoreInv
BY StoreInit, StoreStep, PTL DEF Spec

(* Every component of the page, its disk and the server holds a value of   *)
(* its type.                                                               *)
THEOREM StoreTyped == Spec => []TypeOK
<1>1. StoreInv => TypeOK
  BY TypedIsEnough DEF StoreInv
<1>2. QED BY <1>1, StoreInvariant, PTL

(* A change is dropped on a 404 only if its row was the server's once, or  *)
(* was tapped out of reach.                                                *)
THEOREM DropsAreDeletions == Spec => []DroppedOnlyWhenDeleted
<1>1. StoreInv => DroppedOnlyWhenDeleted
  BY DropIsEnough DEF StoreInv
<1>2. QED BY <1>1, StoreInvariant, PTL

(* While nothing fails, a row the server never had is marked, or its add   *)
(* is queued.                                                              *)
THEOREM PhantomsMarked == Spec => []PhantomsAreMarked
<1>1. StoreInv => PhantomsAreMarked
  BY PhantomIsEnough DEF StoreInv
<1>2. QED BY <1>1, StoreInvariant, PTL
-----------------------------------------------------------------------------
(* Same as online: lists that agree on every key but those in X.           *)

Agrees(K, X, v, w) == \A i \in Ids : v[i] = w[i] \/ (i \in DOMAIN K /\ K[i] \in X)

(* The key a request is about; a clear is about none in particular.        *)
Subject(K, op) == IF op.kind = "add" THEN K[op.sent] ELSE K[op.id]

LEMMA AgreesWith ==
    ASSUME NEW K, NEW X
    PROVE  /\ \A v : Agrees(K, X, v, v)
           /\ \A v, w : Agrees(K, X, v, w) => Agrees(K, X, w, v)
           /\ \A u, v, w : Agrees(K, X, u, v) /\ Agrees(K, X, v, w) => Agrees(K, X, u, w)
BY DEF Agrees

LEMMA AgreesMore ==
    ASSUME NEW K, NEW K2, Extends(K, K2), NEW X, NEW X2, X \subseteq X2
    PROVE  \A v, w : Agrees(K, X, v, w) => Agrees(K2, X2, v, w)
BY DEF Agrees, Extends

(* Such lists have the same rows of any other key.                         *)
LEMMA SameRows ==
    ASSUME NEW K, NEW X, NEW v \in ListOf(K), NEW w \in ListOf(K), Agrees(K, X, v, w),
           NEW k, k \notin X
    PROVE  /\ {i \in Shown(v) : KeyOf[v[i].name] = k} = {i \in Shown(w) : KeyOf[w[i].name] = k}
           /\ \A i \in Shown(v) : KeyOf[v[i].name] = k => w[i] = v[i]
BY DEF Agrees, ListOf, Shown

LEMMA SameStatusIn ==
    ASSUME NEW K, NEW X, NEW v \in ListOf(K), NEW w \in ListOf(K), Agrees(K, X, v, w),
           NEW k, k \notin X
    PROVE  StatusIn(v, k) = StatusIn(w, k)
<1> DEFINE sv == {i \in Shown(v) : KeyOf[v[i].name] = k}
           sw == {i \in Shown(w) : KeyOf[w[i].name] = k}
<1>1. sv = sw /\ \A i \in sv : w[i] = v[i]
  BY SameRows
<1>2. /\ StatusIn(v, k) = IF sv = {} THEN "absent" ELSE v[CHOOSE i \in sv : TRUE].status
      /\ StatusIn(w, k) = IF sw = {} THEN "absent" ELSE w[CHOOSE i \in sw : TRUE].status
  BY DEF StatusIn
<1> HIDE DEF sv, sw
<1>3. QED BY <1>1, <1>2

LEMMA SameKeyIn ==
    ASSUME NEW K, NEW X, NEW v \in ListOf(K), NEW w \in ListOf(K), Agrees(K, X, v, w),
           NEW name, KeyOf[name] \notin X
    PROVE  SameKey(v, name) = SameKey(w, name)
<1> DEFINE sv == {i \in Shown(v) : KeyOf[v[i].name] = KeyOf[name]}
           sw == {i \in Shown(w) : KeyOf[w[i].name] = KeyOf[name]}
<1>1. sv = sw
  BY SameRows
<1>2. /\ SameKey(v, name) = IF sv = {} THEN NoId ELSE CHOOSE i \in sv : TRUE
      /\ SameKey(w, name) = IF sw = {} THEN NoId ELSE CHOOSE i \in sw : TRUE
  BY DEF SameKey
<1> HIDE DEF sv, sw
<1>3. QED BY <1>1, <1>2

LEMMA KeyFound ==
    ASSUME NEW v, NEW name
    PROVE  /\ SameKey(v, name) = NoId => \A i \in Shown(v) : KeyOf[v[i].name] # KeyOf[name]
           /\ SameKey(v, name) # NoId =>
                 /\ SameKey(v, name) \in Shown(v)
                 /\ KeyOf[v[SameKey(v, name)].name] = KeyOf[name]
<1> DEFINE same == {i \in Shown(v) : KeyOf[v[i].name] = KeyOf[name]}
<1>1. SameKey(v, name) = IF same = {} THEN NoId ELSE CHOOSE i \in same : TRUE
  BY DEF SameKey
<1>2. same \subseteq Ids /\ NoId \notin Ids
  BY ConstantFacts DEF Shown
<1>3. QED BY <1>1, <1>2
-----------------------------------------------------------------------------
(* Same as online: what a request does, case by case.                      *)

Renewed(row, s) == [row EXCEPT !.status = s]

LEMMA AddCases ==
    ASSUME NEW v, NEW op, op.kind = "add"
    PROVE  /\ v[op.sent] # NoRow => Served(v, op) = Upserted(v, op.sent, v[op.sent])
           /\ v[op.sent] = NoRow /\ SameKey(v, op.name) # NoId =>
                 Served(v, op) = Upserted(v, SameKey(v, op.name),
                                          Renewed(v[SameKey(v, op.name)], "active"))
           /\ v[op.sent] = NoRow /\ SameKey(v, op.name) = NoId =>
                 Served(v, op) = Upserted(v, op.sent, [name |-> op.name, status |-> "active"])
BY DEF Served, Upserted, Renewed

LEMMA ToggleCases ==
    ASSUME NEW v, NEW op, op.kind \in {"check", "uncheck"}
    PROVE  /\ v[op.id] = NoRow => Served(v, op).rows = v
           /\ v[op.id] # NoRow =>
                 Served(v, op) = Upserted(v, op.id, Renewed(v[op.id], StatusOf(op.kind)))
BY DEF Served, Upserted, Renewed

LEMMA DeleteCases ==
    ASSUME NEW v \in List, NEW op, op.kind = "delete"
    PROVE  Served(v, op).rows = RemoveId(v, op.id)
<1>1. v[op.id] = NoRow => RemoveId(v, op.id) = v
  BY DEF RemoveId, List
<1>2. QED BY <1>1 DEF Served

(* Placing a row.                                                          *)
LEMMA Placed ==
    ASSUME NEW v \in List, NEW i \in Ids, NEW row
    PROVE  /\ Upserted(v, i, row).rows = Place(v, i, row)
           /\ Upserted(v, i, row).answer.id = i
           /\ Place(v, i, row)[i] = row
           /\ \A j \in Ids : j # i => Place(v, i, row)[j] = v[j]
           /\ v[i] = row => Place(v, i, row) = v
BY DEF Upserted, Ok, Place, List

LEMMA RequestParts ==
    ASSUME NEW K, DOMAIN K \subseteq Ids, NEW op, Request(K, op)
    PROVE  /\ op.kind = "add" => /\ op.sent \in Ids /\ op.sent \in DOMAIN K /\ op.name \in Names
                                 /\ KeyOf[op.name] = K[op.sent]
           /\ op.kind \in {"check", "uncheck", "delete"} => op.id \in Ids /\ op.id \in DOMAIN K
           /\ op.kind \in {"add", "check", "uncheck", "delete", "clear"}
BY DEF Request

LEMMA ServedIn ==
    ASSUME NEW K, DOMAIN K \subseteq Ids, NEW v \in ListOf(K), NEW op, Request(K, op)
    PROVE  /\ Served(v, op).rows \in ListOf(K)
           /\ op.kind = "add" => /\ Served(v, op).answer.id \in DOMAIN K
                                 /\ K[Served(v, op).answer.id] = K[op.sent]
<1>1. Shown(v) \subseteq DOMAIN K /\ v \in List
  BY DEF ListOf
<1>2. Served(v, op).rows \in ListOf(K)
  BY <1>1, ServedTyped
<1>3. CASE op.kind = "add"
  <2>1. PICK i \in Ids, row \in Row :
              /\ Served(v, op) = Upserted(v, i, row)
              /\ \/ i = op.sent /\ i \in Shown(v) /\ row = v[i]
                 \/ /\ i \in Shown(v) /\ row.name = v[i].name
                    /\ KeyOf[row.name] = KeyOf[op.name]
                 \/ i = op.sent /\ row.name = op.name
    BY <1>1, <1>3, RequestParts, AddServed
  <2>2. i \in DOMAIN K /\ K[i] = K[op.sent]
    BY <1>1, <1>3, <2>1, RequestParts DEF ListOf
  <2>3. Served(v, op).answer.id = i
    BY <1>1, <2>1, Placed
  <2>4. QED BY <1>2, <2>2, <2>3
<1>4. QED BY <1>2, <1>3
-----------------------------------------------------------------------------
(* Same as online: what a request leaves alone.                            *)

(* A request about a key changes rows of that key only.                    *)
LEMMA OnlyItsSubject ==
    ASSUME NEW K, DOMAIN K \subseteq Ids, NEW v \in ListOf(K), NEW op, Request(K, op),
           op.kind # "clear"
    PROVE  \A i \in Ids : \/ Served(v, op).rows[i] = v[i]
                          \/ i \in DOMAIN K /\ K[i] = Subject(K, op)
<1>1. v \in List /\ Shown(v) \subseteq DOMAIN K
  BY DEF ListOf
<1>2. ASSUME NEW i \in DOMAIN K, NEW row, K[i] = Subject(K, op),
             Served(v, op) = Upserted(v, i, row)
      PROVE  \A j \in Ids : \/ Served(v, op).rows[j] = v[j]
                            \/ j \in DOMAIN K /\ K[j] = Subject(K, op)
  BY <1>1, <1>2, Placed
<1>3. CASE op.kind = "add"
  <2>1. /\ op.sent \in DOMAIN K /\ Subject(K, op) = K[op.sent] /\ KeyOf[op.name] = K[op.sent]
    BY <1>3, RequestParts DEF Subject
  <2>2. SameKey(v, op.name) # NoId =>
           SameKey(v, op.name) \in DOMAIN K /\ K[SameKey(v, op.name)] = K[op.sent]
    BY <1>1, <2>1, KeyFound DEF ListOf
  <2>3. \E i \in DOMAIN K : \E row : K[i] = Subject(K, op) /\ Served(v, op) = Upserted(v, i, row)
    BY <1>3, <2>1, <2>2, AddCases
  <2>4. QED BY <1>2, <2>3
<1>4. CASE op.kind \in {"check", "uncheck"}
  <2>1. op.id \in DOMAIN K /\ Subject(K, op) = K[op.id]
    BY <1>4, RequestParts DEF Subject
  <2>2. CASE v[op.id] = NoRow
    <3>1. Served(v, op).rows = v
      BY <1>4, <2>2, ToggleCases
    <3>2. QED BY <3>1
  <2>3. CASE v[op.id] # NoRow
    <3>1. Served(v, op) = Upserted(v, op.id, Renewed(v[op.id], StatusOf(op.kind)))
      BY <1>4, <2>3, ToggleCases
    <3>2. QED BY <1>2, <2>1, <3>1
  <2>4. QED BY <2>2, <2>3
<1>5. CASE op.kind = "delete"
  <2>1. op.id \in DOMAIN K /\ Subject(K, op) = K[op.id]
    BY <1>5, RequestParts DEF Subject
  <2>2. Served(v, op).rows = [v EXCEPT ![op.id] = NoRow]
    BY <1>1, <1>5, DeleteCases DEF RemoveId
  <2>3. QED BY <1>1, <2>1, <2>2 DEF List
<1>6. QED BY <1>3, <1>4, <1>5, RequestParts

LEMMA Ignored ==
    ASSUME NEW K, DOMAIN K \subseteq Ids, NEW v \in ListOf(K), NEW op, Request(K, op),
           op.kind # "clear", NEW X, Subject(K, op) \in X
    PROVE  Agrees(K, X, Served(v, op).rows, v)
BY OnlyItsSubject DEF Agrees

(* The same request does the same to lists that agree.                     *)
LEMMA Follows ==
    ASSUME NEW K, DOMAIN K \subseteq Ids, NEW X, NEW v \in ListOf(K), NEW w \in ListOf(K),
           Agrees(K, X, v, w), NEW op, Request(K, op)
    PROVE  /\ Agrees(K, X, Served(v, op).rows, Served(w, op).rows)
           /\ op.kind = "add" /\ K[op.sent] \notin X =>
                 Served(v, op).answer.id = Served(w, op).answer.id
<1>1. v \in List /\ w \in List
  BY DEF ListOf
<1>2. ASSUME NEW i \in Ids, NEW row,
             Served(v, op) = Upserted(v, i, row), Served(w, op) = Upserted(w, i, row)
      PROVE  /\ Agrees(K, X, Served(v, op).rows, Served(w, op).rows)
             /\ Served(v, op).answer.id = Served(w, op).answer.id
  <2>1. \A j \in Ids : \/ Served(v, op).rows[j] = Served(w, op).rows[j]
                       \/ Served(v, op).rows[j] = v[j] /\ Served(w, op).rows[j] = w[j]
    BY <1>1, <1>2, Placed
  <2>2. Served(v, op).answer.id = Served(w, op).answer.id
    BY <1>1, <1>2, Placed
  <2>3. QED BY <2>1, <2>2 DEF Agrees
<1>3. CASE op.kind = "clear"
  <2>1. Served(v, op).rows = EmptyBasket(v) /\ Served(w, op).rows = EmptyBasket(w)
    BY <1>3, ClearServed
  <2>2. \A i \in Ids : v[i] = w[i] => EmptyBasket(v)[i] = EmptyBasket(w)[i]
    BY DEF EmptyBasket, Basket, Shown
  <2>3. QED BY <1>3, <2>1, <2>2 DEF Agrees
<1>4. CASE op.kind # "clear" /\ Subject(K, op) \in X
  <2>1. Agrees(K, X, Served(v, op).rows, v) /\ Agrees(K, X, Served(w, op).rows, w)
    BY <1>4, Ignored
  <2>2. op.kind = "add" => Subject(K, op) = K[op.sent]
    BY DEF Subject
  <2>3. QED BY <1>4, <2>1, <2>2, AgreesWith
<1>5. CASE op.kind = "add" /\ Subject(K, op) \notin X
  <2>1. /\ op.sent \in Ids /\ op.sent \in DOMAIN K /\ K[op.sent] \notin X
        /\ KeyOf[op.name] = K[op.sent]
    BY <1>5, RequestParts DEF Subject
  <2>2. v[op.sent] = w[op.sent]
    BY <2>1 DEF Agrees
  <2>3. SameKey(v, op.name) = SameKey(w, op.name)
    BY <2>1, SameKeyIn
  <2>4. SameKey(v, op.name) # NoId =>
           SameKey(v, op.name) \in Ids /\ v[SameKey(v, op.name)] = w[SameKey(v, op.name)]
    <3> DEFINE i == SameKey(v, op.name)
    <3>1. i # NoId => i \in Shown(v) /\ KeyOf[v[i].name] = KeyOf[op.name]
      BY KeyFound
    <3> HIDE DEF i
    <3>2. i # NoId => i \in Ids /\ w[i] = v[i]
      BY <2>1, <3>1, SameRows DEF Shown
    <3>3. QED BY <3>2 DEF i
  <2>5. \E i \in Ids : \E row : /\ Served(v, op) = Upserted(v, i, row)
                                /\ Served(w, op) = Upserted(w, i, row)
    <3>1. CASE v[op.sent] # NoRow
      BY <1>5, <2>1, <2>2, <3>1, AddCases
    <3>2. CASE v[op.sent] = NoRow /\ SameKey(v, op.name) # NoId
      BY <1>5, <2>2, <2>3, <2>4, <3>2, AddCases
    <3>3. CASE v[op.sent] = NoRow /\ SameKey(v, op.name) = NoId
      BY <1>5, <2>1, <2>2, <2>3, <3>3, AddCases
    <3>4. QED BY <3>1, <3>2, <3>3
  <2>6. QED BY <1>2, <2>5
<1>6. CASE op.kind \in {"check", "uncheck"} /\ Subject(K, op) \notin X
  <2>1. op.id \in Ids /\ op.id \in DOMAIN K /\ K[op.id] \notin X
    BY <1>6, RequestParts DEF Subject
  <2>2. v[op.id] = w[op.id]
    BY <2>1 DEF Agrees
  <2>3. CASE v[op.id] = NoRow
    <3>1. Served(v, op).rows = v
      BY <1>6, <2>3, ToggleCases
    <3>2. w[op.id] = NoRow
      BY <2>2, <2>3
    <3>3. Served(w, op).rows = w
      BY <1>6, <3>2, ToggleCases
    <3>4. QED BY <1>6, <3>1, <3>3
  <2>4. CASE v[op.id] # NoRow
    <3>1. \E row : Served(v, op) = Upserted(v, op.id, row) /\ Served(w, op) = Upserted(w, op.id, row)
      <4>1. /\ Served(v, op) = Upserted(v, op.id, Renewed(v[op.id], StatusOf(op.kind)))
            /\ Served(w, op) = Upserted(w, op.id, Renewed(v[op.id], StatusOf(op.kind)))
        BY <1>6, <2>2, <2>4, ToggleCases
      <4>2. QED BY <4>1
    <3>2. QED BY <1>2, <1>6, <2>1, <3>1
  <2>5. QED BY <2>3, <2>4
<1>7. CASE op.kind = "delete" /\ Subject(K, op) \notin X
  <2>1. Served(v, op).rows = RemoveId(v, op.id) /\ Served(w, op).rows = RemoveId(w, op.id)
    BY <1>1, <1>7, DeleteCases
  <2>2. \A i \in Ids : v[i] = w[i] => RemoveId(v, op.id)[i] = RemoveId(w, op.id)[i]
    BY <1>1 DEF RemoveId, List
  <2>3. QED BY <1>7, <2>1, <2>2 DEF Agrees
<1>8. QED BY <1>3, <1>4, <1>5, <1>6, <1>7, RequestParts

(* A request carried out twice does no more than once.                     *)
LEMMA Again ==
    ASSUME NEW K, DOMAIN K \subseteq Ids, NEW v \in ListOf(K), NEW op, Request(K, op)
    PROVE  LET w == Served(v, op).rows IN
           /\ Served(w, op).rows = w
           /\ op.kind = "add" => Served(w, op).answer.id = Served(v, op).answer.id
<1> DEFINE w == Served(v, op).rows
<1>1. v \in List /\ w \in List /\ w \in ListOf(K)
  BY ServedIn DEF ListOf
<1>2. CASE op.kind = "add"
  <2>1. op.sent \in Ids
    BY <1>2, RequestParts
  <2>2. CASE v[op.sent] # NoRow
    <3>1. w = v
      <4>1. Served(v, op) = Upserted(v, op.sent, v[op.sent])
        BY <1>2, <2>2, AddCases
      <4>2. QED BY <1>1, <2>1, <4>1, Placed
    <3>2. QED BY <3>1
  <2>3. CASE v[op.sent] = NoRow /\ SameKey(v, op.name) # NoId
    <3> DEFINE i == SameKey(v, op.name)
               row == Renewed(v[i], "active")
    <3>1. i \in Ids /\ i \in Shown(v) /\ v[i] \in Row /\ v[i] # NoRow /\ i # op.sent
      BY <1>1, <2>3, KeyFound DEF Shown, List
    <3>2. row \in Row /\ row.name = v[i].name /\ Renewed(row, "active") = row
      BY <3>1 DEF Row, Renewed
    <3>3. row # NoRow
      BY <3>2, ConstantFacts
    <3>4. Served(v, op) = Upserted(v, i, row)
      BY <1>2, <2>3, AddCases
    <3> HIDE DEF row
    <3>5. w = Place(v, i, row)
      BY <1>1, <3>1, <3>4, Placed
    <3>6. w[i] = row /\ \A j \in Ids : j # i => w[j] = v[j]
      BY <1>1, <3>1, <3>5, Placed
    <3> HIDE DEF w
    <3>7. Shown(w) = Shown(v) /\ \A j \in Shown(v) : w[j].name = v[j].name
      BY <3>1, <3>2, <3>3, <3>6 DEF Shown
    <3>8. SameKey(w, op.name) = i
      <4> DEFINE sv == {j \in Shown(v) : KeyOf[v[j].name] = KeyOf[op.name]}
                 sw == {j \in Shown(w) : KeyOf[w[j].name] = KeyOf[op.name]}
      <4>1. sw = sv
        BY <3>7
      <4>2. /\ i = IF sv = {} THEN NoId ELSE CHOOSE j \in sv : TRUE
            /\ SameKey(w, op.name) = IF sw = {} THEN NoId ELSE CHOOSE j \in sw : TRUE
        BY DEF SameKey
      <4> HIDE DEF sv, sw, i
      <4>3. QED BY <4>1, <4>2
    <3>9. w[op.sent] = NoRow /\ i # NoId
      BY <2>1, <2>3, <3>1, <3>6
    <3> HIDE DEF i
    <3>10. Served(w, op) = Upserted(w, i, row)
      <4>1. Served(w, op) = Upserted(w, SameKey(w, op.name),
                                     Renewed(w[SameKey(w, op.name)], "active"))
        BY <1>2, <3>8, <3>9, AddCases
      <4>2. QED BY <3>2, <3>6, <3>8, <4>1
    <3>11. Served(w, op).rows = w /\ Served(w, op).answer.id = i /\ Served(v, op).answer.id = i
      BY <1>1, <3>1, <3>4, <3>6, <3>10, Placed
    <3>12. QED BY <3>11 DEF w
  <2>4. CASE v[op.sent] = NoRow /\ SameKey(v, op.name) = NoId
    <3> DEFINE row == [name |-> op.name, status |-> "active"]
    <3>1. row \in Row
      BY <1>2, RequestParts DEF Row
    <3>2. row # NoRow
      BY <3>1, ConstantFacts
    <3>3. Served(v, op) = Upserted(v, op.sent, row)
      BY <1>2, <2>4, AddCases
    <3> HIDE DEF row
    <3>4. w[op.sent] = row /\ Served(v, op).answer.id = op.sent
      BY <1>1, <2>1, <3>3, Placed
    <3> HIDE DEF w
    <3>5. Served(w, op) = Upserted(w, op.sent, w[op.sent])
      BY <1>2, <3>2, <3>4, AddCases
    <3>6. Served(w, op).rows = w /\ Served(w, op).answer.id = op.sent
      BY <1>1, <2>1, <3>5, Placed
    <3>7. QED BY <3>4, <3>6 DEF w
  <2>5. QED BY <2>2, <2>3, <2>4
<1>3. CASE op.kind \in {"check", "uncheck"}
  <2>1. op.id \in Ids
    BY <1>3, RequestParts
  <2>2. CASE v[op.id] = NoRow
    <3>1. w = v
      BY <1>3, <2>2, ToggleCases
    <3>2. QED BY <1>3, <3>1
  <2>3. CASE v[op.id] # NoRow
    <3> DEFINE row == Renewed(v[op.id], StatusOf(op.kind))
    <3>1. v[op.id] \in Row
      BY <1>1, <2>1, <2>3 DEF List
    <3>2. row \in Row /\ Renewed(row, StatusOf(op.kind)) = row
      BY <3>1 DEF Row, StatusOf, Renewed
    <3>3. row # NoRow
      BY <3>2, ConstantFacts
    <3>4. Served(v, op) = Upserted(v, op.id, row)
      BY <1>3, <2>3, ToggleCases
    <3> HIDE DEF row
    <3>5. w[op.id] = row
      BY <1>1, <2>1, <3>4, Placed
    <3> HIDE DEF w
    <3>6. Served(w, op) = Upserted(w, op.id, row)
      BY <1>3, <3>2, <3>3, <3>5, ToggleCases
    <3>7. Served(w, op).rows = w
      BY <1>1, <2>1, <3>5, <3>6, Placed
    <3>8. QED BY <1>3, <3>7 DEF w
  <2>4. QED BY <2>2, <2>3
<1>4. CASE op.kind = "delete"
  <2>1. w = RemoveId(v, op.id)
    BY <1>1, <1>4, DeleteCases
  <2>2. RemoveId(w, op.id) = w
    BY <1>1, <2>1 DEF RemoveId, List
  <2> HIDE DEF w
  <2>3. Served(w, op).rows = w
    BY <1>1, <1>4, <2>2, DeleteCases
  <2>4. QED BY <1>4, <2>3 DEF w
<1>5. CASE op.kind = "clear"
  <2>1. w = EmptyBasket(v)
    BY <1>5, ClearServed
  <2>2. EmptyBasket(w) = w
    BY <1>1, <2>1 DEF EmptyBasket, Basket, Shown, List
  <2> HIDE DEF w
  <2>3. Served(w, op).rows = w
    BY <1>5, <2>2, ClearServed
  <2>4. QED BY <1>5, <2>3 DEF w
<1>6. QED BY <1>2, <1>3, <1>4, <1>5, RequestParts
-----------------------------------------------------------------------------
(* Same as online: one row per key, and what its status says of it.        *)

(* Rows keep their names, and are added to or taken away, never both.      *)
Varies(v, w) ==
    /\ \A i \in Shown(v) \cap Shown(w) : w[i].name = v[i].name
    /\ Shown(v) \subseteq Shown(w) \/ Shown(w) \subseteq Shown(v)

LEMMA PlaceVaries ==
    ASSUME NEW v \in List, NEW i \in Ids, NEW row \in Row, i \in Shown(v) => row.name = v[i].name
    PROVE  Varies(v, Place(v, i, row)) /\ Shown(Place(v, i, row)) = Shown(v) \cup {i}
<1>1. row # NoRow
  BY ConstantFacts
<1>2. Place(v, i, row)[i] = row /\ \A j \in Ids : j # i => Place(v, i, row)[j] = v[j]
  BY Placed
<1>3. QED BY <1>1, <1>2 DEF Varies, Shown

LEMMA ServedVaries ==
    ASSUME NEW K, DOMAIN K \subseteq Ids, NEW v \in ListOf(K), OneRowPerKey(v),
           NEW op, Request(K, op)
    PROVE  Varies(v, Served(v, op).rows) /\ OneRowPerKey(Served(v, op).rows)
<1> DEFINE w == Served(v, op).rows
<1>1. v \in List
  BY DEF ListOf
<1>2. ASSUME Shown(w) \subseteq Shown(v), \A i \in Shown(w) : w[i].name = v[i].name
      PROVE  Varies(v, w) /\ OneRowPerKey(w)
  BY <1>2 DEF Varies, OneRowPerKey
<1>3. ASSUME NEW i \in Shown(v), NEW row \in Row, row.name = v[i].name,
             Served(v, op) = Upserted(v, i, row)
      PROVE  Varies(v, w) /\ OneRowPerKey(w)
  <2>1. i \in Ids /\ w = Place(v, i, row)
    BY <1>1, <1>3, Placed DEF Shown
  <2> HIDE DEF w
  <2>2. Varies(v, w) /\ Shown(w) = Shown(v)
    <3>1. Varies(v, Place(v, i, row)) /\ Shown(Place(v, i, row)) = Shown(v) \cup {i}
      BY <1>1, <1>3, <2>1, PlaceVaries
    <3>2. QED BY <1>3, <2>1, <3>1
  <2>3. \A j \in Shown(w) : w[j].name = v[j].name
    BY <2>2 DEF Varies
  <2>4. QED BY <1>2, <2>2, <2>3 DEF w
<1>4. CASE op.kind = "add"
  <2>1. op.sent \in Ids /\ op.name \in Names
    BY <1>4, RequestParts
  <2>2. CASE v[op.sent] # NoRow
    <3>1. op.sent \in Shown(v) /\ v[op.sent] \in Row
      BY <1>1, <2>1, <2>2 DEF Shown, List
    <3>2. Served(v, op) = Upserted(v, op.sent, v[op.sent])
      BY <1>4, <2>2, AddCases
    <3>3. QED BY <1>3, <3>1, <3>2
  <2>3. CASE v[op.sent] = NoRow /\ SameKey(v, op.name) # NoId
    <3> DEFINE i == SameKey(v, op.name)
               row == Renewed(v[i], "active")
    <3>1. i \in Shown(v)
      BY <2>3, KeyFound
    <3>2. v[i] \in Row
      BY <1>1, <3>1 DEF Shown, List
    <3>3. row \in Row /\ row.name = v[i].name
      BY <3>2 DEF Row, Renewed
    <3>4. Served(v, op) = Upserted(v, i, row)
      BY <1>4, <2>3, AddCases
    <3> HIDE DEF i, row, w
    <3>5. QED BY <1>3, <3>1, <3>3, <3>4 DEF w
  <2>4. CASE v[op.sent] = NoRow /\ SameKey(v, op.name) = NoId
    <3> DEFINE row == [name |-> op.name, status |-> "active"]
    <3>1. row \in Row /\ row.name = op.name
      BY <2>1 DEF Row
    <3>2. Served(v, op) = Upserted(v, op.sent, row)
      BY <1>4, <2>4, AddCases
    <3> HIDE DEF row
    <3>3. w = Place(v, op.sent, row) /\ op.sent \notin Shown(v)
      BY <1>1, <2>1, <2>4, <3>2, Placed DEF Shown
    <3>4. Varies(v, w) /\ Shown(w) = Shown(v) \cup {op.sent}
      BY <1>1, <2>1, <3>1, <3>3, PlaceVaries
    <3>5. w[op.sent].name = op.name
      BY <1>1, <2>1, <3>1, <3>3, Placed
    <3>6. \A i \in Shown(v) : w[i].name = v[i].name /\ KeyOf[v[i].name] # KeyOf[op.name]
      BY <2>4, <3>4, KeyFound DEF Varies
    <3> HIDE DEF w
    <3>7. OneRowPerKey(w)
      BY <3>3, <3>4, <3>5, <3>6 DEF OneRowPerKey
    <3>8. QED BY <3>4, <3>7 DEF w
  <2>5. QED BY <2>2, <2>3, <2>4
<1>5. CASE op.kind \in {"check", "uncheck"}
  <2>1. CASE v[op.id] = NoRow
    <3>1. w = v
      BY <1>5, <2>1, ToggleCases
    <3> HIDE DEF w
    <3>2. QED BY <1>2, <3>1 DEF w
  <2>2. CASE v[op.id] # NoRow
    <3> DEFINE row == Renewed(v[op.id], StatusOf(op.kind))
    <3>1. op.id \in Shown(v)
      BY <1>5, <2>2, RequestParts DEF Shown
    <3>2. v[op.id] \in Row
      BY <1>1, <3>1 DEF Shown, List
    <3>3. row \in Row /\ row.name = v[op.id].name
      BY <3>2 DEF Row, Renewed, StatusOf
    <3>4. Served(v, op) = Upserted(v, op.id, row)
      BY <1>5, <2>2, ToggleCases
    <3> HIDE DEF row, w
    <3>5. QED BY <1>3, <3>1, <3>3, <3>4 DEF w
  <2>3. QED BY <2>1, <2>2
<1>6. CASE op.kind = "delete"
  <2>1. w = RemoveId(v, op.id)
    BY <1>1, <1>6, DeleteCases
  <2> HIDE DEF w
  <2>2. Shown(w) \subseteq Shown(v) /\ \A i \in Shown(w) : w[i].name = v[i].name
    BY <1>1, <2>1 DEF RemoveId, Shown, List
  <2>3. QED BY <1>2, <2>2 DEF w
<1>7. CASE op.kind = "clear"
  <2>1. w = EmptyBasket(v)
    BY <1>7, ClearServed
  <2> HIDE DEF w
  <2>2. Shown(w) \subseteq Shown(v) /\ \A i \in Shown(w) : w[i].name = v[i].name
    BY <1>1, <2>1 DEF EmptyBasket, Shown, List
  <2>3. QED BY <1>2, <2>2 DEF w
<1>8. QED BY <1>4, <1>5, <1>6, <1>7, RequestParts

(* The status of a key says all there is to say of its row.                *)
LEMMA StatusTells ==
    ASSUME NEW v \in List, OneRowPerKey(v), NEW k
    PROVE  /\ StatusIn(v, k) = "absent" <=> \A i \in Shown(v) : KeyOf[v[i].name] # k
           /\ \A i \in Shown(v) : KeyOf[v[i].name] = k => v[i].status = StatusIn(v, k)
<1> DEFINE same == {i \in Shown(v) : KeyOf[v[i].name] = k}
<1>1. StatusIn(v, k) = IF same = {} THEN "absent" ELSE v[CHOOSE i \in same : TRUE].status
  BY DEF StatusIn
<1>2. \A i, j \in same : i = j
  BY DEF OneRowPerKey
<1>3. \A i \in same : v[i].status \in {"active", "checked"}
  BY DEF List, Row, Shown
<1> DEFINE it == CHOOSE i \in same : TRUE
<1>4. same # {} => it \in same
  OBVIOUS
<1> HIDE DEF it
<1>5. StatusIn(v, k) = IF same = {} THEN "absent" ELSE v[it].status
  BY <1>1 DEF it
<1>6. CASE same = {}
  BY <1>5, <1>6
<1>7. CASE same # {}
  <2>1. StatusIn(v, k) = v[it].status /\ it \in same
    BY <1>4, <1>5, <1>7
  <2>2. StatusIn(v, k) # "absent"
    BY <1>3, <2>1
  <2>3. \A i \in same : v[i].status = StatusIn(v, k)
    BY <1>2, <2>1
  <2>4. QED BY <1>7, <2>2, <2>3
<1>8. QED BY <1>6, <1>7

LEMMA StatusIsRow ==
    ASSUME NEW K, NEW v \in ListOf(K), NEW w \in ListOf(K), OneRowPerKey(v), OneRowPerKey(w),
           Varies(v, w), NEW k, StatusIn(w, k) = StatusIn(v, k)
    PROVE  \A i \in Ids \cap DOMAIN K : K[i] = k => w[i] = v[i]
<1> SUFFICES ASSUME NEW i \in Ids, i \in DOMAIN K, K[i] = k
             PROVE  w[i] = v[i]
  OBVIOUS
<1>1. /\ v \in List /\ w \in List
      /\ i \in Shown(v) => KeyOf[v[i].name] = k
      /\ i \in Shown(w) => KeyOf[w[i].name] = k
  BY DEF ListOf
<1>2. CASE i \in Shown(v) /\ i \in Shown(w)
  <2>1. v[i] \in Row /\ w[i] \in Row /\ w[i].name = v[i].name
    BY <1>1, <1>2 DEF List, Shown, Varies
  <2>2. v[i].status = StatusIn(v, k) /\ w[i].status = StatusIn(w, k)
    BY <1>1, <1>2, StatusTells
  <2>3. v[i].status = w[i].status
    BY <2>2
  <2>4. QED BY <2>1, <2>3 DEF Row
<1>3. CASE i \notin Shown(v) /\ i \notin Shown(w)
  BY <1>3 DEF Shown
<1>4. ASSUME NEW a \in ListOf(K), NEW b \in ListOf(K), OneRowPerKey(a), OneRowPerKey(b),
             StatusIn(a, k) = StatusIn(b, k), i \in Shown(a), i \notin Shown(b),
             Shown(a) \subseteq Shown(b) \/ Shown(b) \subseteq Shown(a)
      PROVE  FALSE
  <2>1. a \in List /\ b \in List /\ KeyOf[a[i].name] = k
    BY <1>4 DEF ListOf
  <2>2. StatusIn(a, k) # "absent"
    BY <1>4, <2>1, StatusTells
  <2>3. PICK j \in Shown(b) : KeyOf[b[j].name] = k
    BY <1>4, <2>1, <2>2, StatusTells
  <2>4. j \in Shown(a) /\ KeyOf[a[j].name] = k
    BY <1>4, <2>3 DEF ListOf
  <2>5. j = i
    BY <1>4, <2>1, <2>4 DEF OneRowPerKey
  <2>6. QED BY <1>4, <2>3, <2>5
<1>5. QED BY <1>2, <1>3, <1>4 DEF Varies

(* A request changes nothing but the keys whose status it changes.         *)
LEMMA ChangesShow ==
    ASSUME NEW K, K \in [DOMAIN K -> Keys], DOMAIN K \subseteq Ids,
           NEW v \in ListOf(K), OneRowPerKey(v), NEW op, Request(K, op), NEW X,
           {k \in Keys : StatusIn(Served(v, op).rows, k) # StatusIn(v, k)} \subseteq X
    PROVE  Agrees(K, X, Served(v, op).rows, v)
<1> DEFINE w == Served(v, op).rows
<1>1. w \in ListOf(K) /\ Varies(v, w) /\ OneRowPerKey(w)
  BY ServedIn, ServedVaries
<1>2. ASSUME NEW i \in Ids, i \in DOMAIN K, K[i] \notin X
      PROVE  w[i] = v[i]
  <2>1. K[i] \in Keys
    BY <1>2
  <2>2. StatusIn(w, K[i]) = StatusIn(v, K[i])
    BY <1>2, <2>1
  <2> HIDE DEF w
  <2>3. QED BY <1>1, <1>2, <2>2, StatusIsRow
<1>3. ASSUME NEW i \in Ids, i \notin DOMAIN K
      PROVE  w[i] = v[i]
  <2> HIDE DEF w
  <2>1. QED BY <1>1, <1>3 DEF ListOf, Shown
<1>4. QED BY <1>2, <1>3 DEF Agrees
-----------------------------------------------------------------------------
(* Same as online: the way back.  R[op.key] are the rows had every change  *)
(* up to op been sent as it was made, and T[op.key] the row op was then    *)
(* about: where an add landed, what the id of another change stood for.    *)

IsAdd(op) == op.kind = "add"
IsNamed(op) == op.kind \in {"check", "uncheck", "delete"}

(* A change as it was meant when it was made.                              *)
Aimed(T, op) == IF IsNamed(op) THEN [op EXCEPT !.id = T[op.key]] ELSE op
AimOf(K, T, op) == op.kind # "clear" => T[op.key] \in DOMAIN K /\ K[T[op.key]] = op.of

(* As it was meant, op takes v to w.                                       *)
Leads(K, X, T, v, op, w) ==
    /\ Agrees(K, X, Served(v, Aimed(T, op)).rows, w)
    /\ IsAdd(op) /\ op.of \notin X => Served(v, op).answer.id = T[op.key]

Before(R, q, v, j) == IF j = 1 THEN v ELSE R[q[j - 1].key]
(* The changes q take v, each from where the one before it led, to w.      *)
Trajectory(K, X, R, T, q, v, w) ==
    /\ \A j \in 1 .. Len(q) : Leads(K, X, T, Before(R, q, v, j), q[j], R[q[j].key])
    /\ Agrees(K, X, Before(R, q, v, Len(q) + 1), w)

(* Their keys are in order and below n.                                    *)
InOrder(q, n) ==
    /\ \A j \in 1 .. Len(q) : q[j].key < n
    /\ \A i, j \in 1 .. Len(q) : i < j => q[i].key < q[j].key

LEMMA ChangeParts ==
    ASSUME NEW K, DOMAIN K \subseteq Ids, NEW op \in ChangeOf(K)
    PROVE  /\ op \in OpSet /\ op.key \in Nat
           /\ IsAdd(op) \/ IsNamed(op) \/ op.kind = "clear"
           /\ IsAdd(op) => /\ op.id \in DOMAIN K /\ op.sent \in DOMAIN K /\ op.name \in Names
                           /\ op.of = K[op.id] /\ op.of = K[op.sent] /\ op.of = KeyOf[op.name]
           /\ IsNamed(op) => op.id \in DOMAIN K /\ op.of = K[op.id]
           /\ op.kind # "clear" => Subject(K, op) = op.of
           /\ Request(K, op)
BY ChangeAsked DEF ChangeOf, OpSet, IsAdd, IsNamed, Subject

LEMMA AimedParts ==
    ASSUME NEW K, DOMAIN K \subseteq Ids, NEW op \in ChangeOf(K), NEW T, AimOf(K, T, op)
    PROVE  /\ Request(K, Aimed(T, op)) /\ Aimed(T, op).kind = op.kind
           /\ op.kind # "clear" => Subject(K, Aimed(T, op)) = op.of
           /\ ~IsNamed(op) \/ T[op.key] = op.id => Aimed(T, op) = op
<1>1. op \in OpSet
  BY ChangeParts
<1>2. CASE ~IsNamed(op)
  BY <1>2, ChangeParts DEF Aimed
<1>3. CASE IsNamed(op)
  <2> DEFINE new == [op EXCEPT !.id = T[op.key]]
  <2>1. T[op.key] \in DOMAIN K /\ K[T[op.key]] = op.of
    BY <1>3 DEF AimOf, IsNamed
  <2>2. new.kind = op.kind /\ new.id = T[op.key] /\ (T[op.key] = op.id => new = op)
    BY <1>1 DEF OpSet
  <2> HIDE DEF new
  <2>3. Request(K, new) /\ Subject(K, new) = op.of
    BY <1>3, <2>1, <2>2 DEF Request, IsNamed, Subject
  <2>4. Aimed(T, op) = new
    BY <1>3 DEF Aimed, new
  <2>5. QED BY <1>3, <2>2, <2>3, <2>4
<1>4. QED BY <1>2, <1>3

LEMMA LeadsFrom ==
    ASSUME NEW K, DOMAIN K \subseteq Ids, NEW X, NEW T, NEW op \in ChangeOf(K), AimOf(K, T, op),
           NEW v \in ListOf(K), NEW u \in ListOf(K), Agrees(K, X, v, u),
           NEW w, Leads(K, X, T, v, op, w)
    PROVE  Leads(K, X, T, u, op, w)
<1>1. Agrees(K, X, Served(v, Aimed(T, op)).rows, Served(u, Aimed(T, op)).rows)
  BY Follows, AimedParts
<1>2. Agrees(K, X, Served(u, Aimed(T, op)).rows, w)
  BY <1>1, AgreesWith DEF Leads
<1>3. IsAdd(op) /\ op.of \notin X => Served(v, op).answer.id = Served(u, op).answer.id
  <2>1. ASSUME IsAdd(op), op.of \notin X
        PROVE  op.kind = "add" /\ K[op.sent] \notin X /\ Request(K, op)
    BY <2>1, ChangeParts DEF IsAdd
  <2>2. QED BY <2>1, Follows
<1>4. QED BY <1>2, <1>3 DEF Leads

LEMMA LeadsGrows ==
    ASSUME NEW K, NEW K2, Extends(K, K2), NEW X, NEW X2, X \subseteq X2,
           NEW T, NEW v, NEW op, NEW w, Leads(K, X, T, v, op, w)
    PROVE  Leads(K2, X2, T, v, op, w)
BY AgreesMore DEF Leads

(* A change carried out as it is queued, if that is how it was meant, has  *)
(* led where it should, and would not lead further a second time.          *)
LEMMA LeadsThere ==
    ASSUME NEW K, DOMAIN K \subseteq Ids, NEW X, NEW T, NEW op \in ChangeOf(K), AimOf(K, T, op),
           NEW v \in ListOf(K), NEW w, Leads(K, X, T, v, op, w),
           IsNamed(op) /\ op.of \notin X => T[op.key] = op.id
    PROVE  LET u == Served(v, op).rows IN Agrees(K, X, u, w) /\ Leads(K, X, T, u, op, w)
<1> DEFINE u == Served(v, op).rows
<1>1. u \in ListOf(K) /\ Request(K, op)
  BY ChangeParts, ServedIn
<1>2. CASE ~(IsNamed(op) /\ op.of \in X)
  <2>1. Aimed(T, op) = op
    BY <1>2, AimedParts
  <2>2. Agrees(K, X, u, w)
    BY <2>1 DEF Leads
  <2>3. Served(u, op).rows = u /\ (IsAdd(op) => Served(u, op).answer.id = Served(v, op).answer.id)
    BY <1>1, Again DEF IsAdd
  <2> HIDE DEF u
  <2>4. Leads(K, X, T, u, op, w)
    BY <2>1, <2>2, <2>3 DEF Leads
  <2>5. QED BY <2>2, <2>4 DEF u
<1>3. CASE IsNamed(op) /\ op.of \in X
  <2>1. op.kind # "clear" /\ Subject(K, op) \in X /\ Subject(K, Aimed(T, op)) \in X
    BY <1>3, ChangeParts, AimedParts DEF IsNamed
  <2>2. Agrees(K, X, u, v)
    BY <1>1, <2>1, Ignored
  <2>3. Agrees(K, X, Served(v, Aimed(T, op)).rows, v)
    BY <2>1, Ignored, AimedParts
  <2> HIDE DEF u
  <2>4. Agrees(K, X, v, u) /\ Agrees(K, X, u, w)
    BY <2>2, <2>3, AgreesWith DEF Leads
  <2>5. Leads(K, X, T, u, op, w)
    BY <1>1, <2>4, LeadsFrom
  <2>6. QED BY <2>4, <2>5 DEF u
<1>4. QED BY <1>2, <1>3
-----------------------------------------------------------------------------
(* Same as online: trajectories.                                           *)

AimsOf(K, T, q) == \A j \in 1 .. Len(q) : AimOf(K, T, q[j])
Meant(K, q, n, R, T) ==
    /\ q \in Seq(ChangeOf(K)) /\ n \in Nat /\ InOrder(q, n) /\ AimsOf(K, T, q)
    /\ R \in [Nat -> ListOf(K)] /\ T \in [Nat -> Ids \cup {NoId}]

LEMMA MeantParts ==
    ASSUME NEW K, DOMAIN K \subseteq Ids, NEW q, NEW n, NEW R, NEW T, Meant(K, q, n, R, T)
    PROVE  /\ Len(q) \in Nat /\ DOMAIN q = 1 .. Len(q)
           /\ \A j \in 1 .. Len(q) : /\ q[j] \in ChangeOf(K) /\ AimOf(K, T, q[j])
                                     /\ q[j].key \in Nat /\ q[j].key < n
                                     /\ R[q[j].key] \in ListOf(K)
<1>1. Len(q) \in Nat /\ DOMAIN q = 1 .. Len(q) /\ \A j \in 1 .. Len(q) : q[j] \in ChangeOf(K)
  BY LenProperties DEF Meant
<1>2. ASSUME NEW j \in 1 .. Len(q)
      PROVE  /\ q[j] \in ChangeOf(K) /\ AimOf(K, T, q[j])
             /\ q[j].key \in Nat /\ q[j].key < n /\ R[q[j].key] \in ListOf(K)
  <2>1. q[j] \in ChangeOf(K)
    BY <1>1
  <2>2. q[j].key \in Nat
    BY <2>1, ChangeParts
  <2>3. QED BY <2>1, <2>2 DEF Meant, AimsOf, InOrder
<1>3. QED BY <1>1, <1>2

(* More keys are set aside, more ids are in use.                           *)
LEMMA TrajectoryGrows ==
    ASSUME NEW K, NEW K2, Extends(K, K2), NEW X, NEW X2, X \subseteq X2,
           NEW R, NEW T, NEW q, NEW v, NEW w, Trajectory(K, X, R, T, q, v, w)
    PROVE  Trajectory(K2, X2, R, T, q, v, w)
BY LeadsGrows, AgreesMore DEF Trajectory

LEMMA MeantGrows ==
    ASSUME NEW K, NEW K2, Extends(K, K2), NEW q, NEW n, NEW R, NEW T, Meant(K, q, n, R, T)
    PROVE  Meant(K2, q, n, R, T)
<1>1. ChangeOf(K) \subseteq ChangeOf(K2) /\ ListOf(K) \subseteq ListOf(K2)
  BY ChangeGrows, ListGrows
<1>2. Seq(ChangeOf(K)) \subseteq Seq(ChangeOf(K2)) /\ [Nat -> ListOf(K)] \subseteq [Nat -> ListOf(K2)]
  BY <1>1, SeqGrows
<1>3. AimsOf(K2, T, q)
  BY DEF Meant, AimsOf, AimOf, Extends
<1>4. QED BY <1>2, <1>3 DEF Meant

(* The server's rows change, and the oldest change leads from the new.     *)
LEMMA TrajectoryFrom ==
    ASSUME NEW K, DOMAIN K \subseteq Ids, NEW X, NEW R, NEW T, NEW q, NEW n, Meant(K, q, n, R, T),
           NEW v, NEW w, Trajectory(K, X, R, T, q, v, w), NEW u,
           q # <<>> => Leads(K, X, T, u, q[1], R[q[1].key]),
           q = <<>> => Agrees(K, X, u, v)
    PROVE  Trajectory(K, X, R, T, q, u, w)
<1>1. Len(q) \in Nat /\ (q # <<>> <=> Len(q) # 0)
  BY MeantParts DEF Meant
<1>2. ASSUME NEW j \in 1 .. Len(q)
      PROVE  Leads(K, X, T, Before(R, q, u, j), q[j], R[q[j].key])
  <2>1. CASE j = 1
    BY <1>1, <1>2, <2>1 DEF Before
  <2>2. CASE j # 1
    BY <2>2 DEF Trajectory, Before
  <2>3. QED BY <2>1, <2>2
<1>3. Agrees(K, X, Before(R, q, u, Len(q) + 1), w)
  <2>1. CASE q = <<>>
    <3>1. Agrees(K, X, v, w)
      BY <1>1, <2>1 DEF Trajectory, Before
    <3>2. QED BY <1>1, <2>1, <3>1, AgreesWith DEF Before
  <2>2. CASE q # <<>>
    BY <1>1, <2>2 DEF Trajectory, Before
  <2>3. QED BY <2>1, <2>2
<1>4. QED BY <1>2, <1>3 DEF Trajectory

LEMMA TrajectorySame ==
    ASSUME NEW K, DOMAIN K \subseteq Ids, NEW X, NEW R, NEW T, NEW q, NEW n, Meant(K, q, n, R, T),
           NEW v \in ListOf(K), NEW w, Trajectory(K, X, R, T, q, v, w),
           NEW u \in ListOf(K), Agrees(K, X, u, v)
    PROVE  Trajectory(K, X, R, T, q, u, w)
<1>1. ASSUME q # <<>>
      PROVE  Leads(K, X, T, u, q[1], R[q[1].key])
  <2>1. 1 \in 1 .. Len(q)
    BY <1>1, MeantParts DEF Meant
  <2>2. Leads(K, X, T, v, q[1], R[q[1].key])
    BY <2>1 DEF Trajectory, Before
  <2>3. q[1] \in ChangeOf(K) /\ AimOf(K, T, q[1]) /\ Agrees(K, X, v, u)
    BY <2>1, MeantParts, AgreesWith
  <2>4. QED BY <2>2, <2>3, LeadsFrom
<1>2. QED BY <1>1, TrajectoryFrom

(* The oldest change leaves, having led where it should.                   *)
LEMMA TrajectoryTail ==
    ASSUME NEW K, DOMAIN K \subseteq Ids, NEW X, NEW R, NEW T, NEW q, NEW n, Meant(K, q, n, R, T),
           NEW v \in ListOf(K), NEW w, Trajectory(K, X, R, T, q, v, w),
           q # <<>>, Agrees(K, X, v, R[q[1].key])
    PROVE  Meant(K, Tail(q), n, R, T) /\ Trajectory(K, X, R, T, Tail(q), v, w)
<1> DEFINE t == Tail(q)
<1>1. /\ Len(q) \in Nat /\ Len(q) # 0 /\ 1 \in 1 .. Len(q)
      /\ t \in Seq(ChangeOf(K)) /\ Len(t) = Len(q) - 1 /\ Len(t) \in Nat
      /\ \A j \in 1 .. Len(t) : t[j] = q[j + 1] /\ j + 1 \in 1 .. Len(q)
  BY MeantParts DEF Meant
<1>2. R[q[1].key] \in ListOf(K) /\ Agrees(K, X, R[q[1].key], v)
  BY <1>1, MeantParts, AgreesWith
<1> HIDE DEF t
<1>3. Meant(K, t, n, R, T)
  <2>1. InOrder(t, n)
    <3>1. \A j \in 1 .. Len(t) : t[j].key < n
      BY <1>1 DEF Meant, InOrder
    <3>2. ASSUME NEW i \in 1 .. Len(t), NEW j \in 1 .. Len(t), i < j
          PROVE  t[i].key < t[j].key
      <4>1. i + 1 \in 1 .. Len(q) /\ j + 1 \in 1 .. Len(q) /\ i + 1 < j + 1
        BY <1>1, <3>2
      <4>2. q[i + 1].key < q[j + 1].key
        BY <4>1 DEF Meant, InOrder
      <4>3. QED BY <1>1, <4>2
    <3>3. QED BY <3>1, <3>2 DEF InOrder
  <2>2. AimsOf(K, T, t)
    BY <1>1 DEF Meant, AimsOf
  <2>3. QED BY <1>1, <2>1, <2>2 DEF Meant
<1>4. ASSUME NEW j \in 1 .. Len(t)
      PROVE  Leads(K, X, T, Before(R, t, v, j), t[j], R[t[j].key])
  <2>1. /\ t[j] = q[j + 1] /\ j + 1 \in 1 .. Len(q) /\ j + 1 # 1
        /\ t[j] \in ChangeOf(K) /\ AimOf(K, T, t[j])
    BY <1>1, MeantParts
  <2>2. Leads(K, X, T, R[q[j].key], t[j], R[t[j].key])
    BY <2>1 DEF Trajectory, Before
  <2>3. CASE j = 1
    <3>1. Leads(K, X, T, v, t[j], R[t[j].key])
      BY <1>2, <2>1, <2>2, <2>3, LeadsFrom
    <3>2. QED BY <2>3, <3>1 DEF Before
  <2>4. CASE j # 1
    <3>1. j - 1 \in 1 .. Len(t) /\ (j - 1) + 1 = j
      BY <1>1, <2>4
    <3>2. t[j - 1] = q[j]
      BY <1>1, <3>1
    <3>3. QED BY <2>2, <2>4, <3>2 DEF Before
  <2>5. QED BY <2>3, <2>4
<1>5. Agrees(K, X, Before(R, t, v, Len(t) + 1), w)
  <2>1. Agrees(K, X, R[q[Len(q)].key], w)
    BY <1>1 DEF Trajectory, Before
  <2>2. CASE Len(t) = 0
    <3>1. Len(q) = 1 /\ Before(R, t, v, Len(t) + 1) = v
      BY <1>1, <2>2 DEF Before
    <3>2. Agrees(K, X, R[q[1].key], w) /\ Agrees(K, X, v, R[q[1].key])
      BY <2>1, <3>1
    <3>3. QED BY <3>1, <3>2, AgreesWith
  <2>3. CASE Len(t) # 0
    <3>1. Len(t) \in 1 .. Len(t) /\ t[Len(t)] = q[Len(q)]
      BY <1>1, <2>3
    <3>2. Len(t) + 1 # 1 /\ (Len(t) + 1) - 1 = Len(t)
      BY <1>1, <2>3
    <3>3. QED BY <2>1, <3>1, <3>2 DEF Before
  <2>4. QED BY <2>2, <2>3
<1>6. QED BY <1>3, <1>4, <1>5 DEF Trajectory, t

(* A change is made, and sent as it is made it leads to w2.                *)
LEMMA TrajectoryAppend ==
    ASSUME NEW K, DOMAIN K \subseteq Ids, NEW X, NEW R, NEW T, NEW q, NEW n, Meant(K, q, n, R, T),
           NEW v \in ListOf(K), NEW w \in ListOf(K), Trajectory(K, X, R, T, q, v, w),
           NEW op \in ChangeOf(K), op.key = n, NEW t \in Ids \cup {NoId}, NEW w2 \in ListOf(K),
           NEW T2, T2 = [T EXCEPT ![n] = t], AimOf(K, T2, op), Leads(K, X, T2, w, op, w2)
    PROVE  LET R2 == [R EXCEPT ![n] = w2] IN
           /\ Meant(K, Append(q, op), n + 1, R2, T2)
           /\ Trajectory(K, X, R2, T2, Append(q, op), v, w2)
<1> DEFINE R2 == [R EXCEPT ![n] = w2]
           p == Append(q, op)
           N == Len(q)
<1>1. /\ N \in Nat /\ n \in Nat /\ p \in Seq(ChangeOf(K)) /\ Len(p) = N + 1 /\ p[N + 1] = op
      /\ \A j \in 1 .. N : p[j] = q[j]
  BY MeantParts DEF Meant
<1>2. /\ R2 \in [Nat -> ListOf(K)] /\ T2 \in [Nat -> Ids \cup {NoId}] /\ R2[n] = w2
      /\ \A m \in Nat : m # n => R2[m] = R[m] /\ T2[m] = T[m]
  BY <1>1 DEF Meant
<1>3. \A j \in 1 .. N : /\ q[j].key \in Nat /\ q[j].key < n /\ q[j] \in ChangeOf(K)
                        /\ AimOf(K, T, q[j]) /\ R[q[j].key] \in ListOf(K)
                        /\ R2[q[j].key] = R[q[j].key] /\ T2[q[j].key] = T[q[j].key]
  BY <1>1, <1>2, MeantParts
<1> HIDE DEF R2, p, N
<1>4. \A j \in 1 .. N + 1 : j \in 1 .. N \/ j = N + 1
  BY <1>1
<1>5. Meant(K, p, n + 1, R2, T2)
  <2>1. InOrder(p, n + 1)
    <3>1. \A j \in 1 .. N + 1 : p[j].key < n + 1 /\ (j # N + 1 => p[j].key < n)
      BY <1>1, <1>3, <1>4
    <3>2. \A i, j \in 1 .. N + 1 : i < j => i \in 1 .. N
      BY <1>1
    <3>3. \A i, j \in 1 .. N : i < j => q[i].key < q[j].key
      BY DEF Meant, InOrder, N
    <3>4. ASSUME NEW i \in 1 .. N + 1, NEW j \in 1 .. N + 1, i < j
          PROVE  p[i].key < p[j].key
      <4>1. CASE j = N + 1
        BY <1>1, <1>3, <3>2, <3>4, <4>1
      <4>2. CASE j # N + 1
        BY <1>1, <1>4, <3>2, <3>3, <3>4, <4>2
      <4>3. QED BY <4>1, <4>2
    <3>5. QED BY <1>1, <3>1, <3>4 DEF InOrder
  <2>2. AimsOf(K, T2, p)
    <3>1. ASSUME NEW j \in 1 .. N
          PROVE  AimOf(K, T2, p[j])
      BY <1>1, <1>3 DEF AimOf
    <3>2. QED BY <1>1, <1>4, <3>1 DEF AimsOf
  <2>3. QED BY <1>1, <1>2, <2>1, <2>2 DEF Meant
<1>6. \A j \in 1 .. N + 1 : Before(R2, p, v, j) = Before(R, q, v, j)
  <2>1. ASSUME NEW j \in 1 .. N + 1
        PROVE  Before(R2, p, v, j) = Before(R, q, v, j)
    <3>1. CASE j = 1
      BY <3>1 DEF Before
    <3>2. CASE j # 1
      <4>1. j - 1 \in 1 .. N
        BY <1>1, <3>2
      <4>2. QED BY <1>1, <1>3, <3>2, <4>1 DEF Before
    <3>3. QED BY <3>1, <3>2
  <2>2. QED BY <2>1
<1>7. ASSUME NEW j \in 1 .. N
      PROVE  Leads(K, X, T2, Before(R2, p, v, j), p[j], R2[p[j].key])
  <2>1. Leads(K, X, T, Before(R, q, v, j), q[j], R[q[j].key])
    BY DEF Trajectory, N
  <2>2. Aimed(T2, q[j]) = Aimed(T, q[j])
    BY <1>3 DEF Aimed
  <2>3. Leads(K, X, T2, Before(R, q, v, j), q[j], R[q[j].key])
    BY <1>3, <2>1, <2>2 DEF Leads
  <2>4. QED BY <1>1, <1>3, <1>4, <1>6, <2>3
<1>8. Leads(K, X, T2, Before(R2, p, v, N + 1), op, w2)
  <2>1. Agrees(K, X, Before(R, q, v, N + 1), w)
    BY DEF Trajectory, N
  <2>2. Before(R, q, v, N + 1) \in ListOf(K)
    <3>1. CASE N = 0
      BY <3>1 DEF Before
    <3>2. CASE N # 0
      <4>1. N \in 1 .. N /\ (N + 1) - 1 = N /\ N + 1 # 1
        BY <1>1, <3>2
      <4>2. QED BY <1>3, <4>1 DEF Before
    <3>3. QED BY <3>1, <3>2
  <2>3. Agrees(K, X, w, Before(R, q, v, N + 1))
    BY <2>1, AgreesWith
  <2>4. Leads(K, X, T2, Before(R, q, v, N + 1), op, w2)
    BY <2>2, <2>3, LeadsFrom
  <2>5. N + 1 \in 1 .. N + 1
    BY <1>1
  <2>6. QED BY <1>6, <2>4, <2>5
<1>9. Trajectory(K, X, R2, T2, p, v, w2)
  <2>1. ASSUME NEW j \in 1 .. N + 1
        PROVE  Leads(K, X, T2, Before(R2, p, v, j), p[j], R2[p[j].key])
    <3>1. CASE j \in 1 .. N
      BY <1>7, <3>1
    <3>2. CASE j = N + 1
      BY <1>1, <1>2, <1>8, <3>2
    <3>3. QED BY <1>4, <3>1, <3>2
  <2>2. Before(R2, p, v, Len(p) + 1) = w2
    <3>1. Len(p) + 1 # 1 /\ (Len(p) + 1) - 1 = N + 1
      BY <1>1
    <3>2. QED BY <1>1, <1>2, <3>1 DEF Before
  <2>3. QED BY <1>1, <2>1, <2>2, AgreesWith DEF Trajectory
<1>10. QED BY <1>5, <1>9 DEF R2, p

(* Changes are repointed, which says nothing of how they were meant.       *)
LEMMA TrajectoryRepointed ==
    ASSUME NEW K, DOMAIN K \subseteq Ids, NEW X, NEW R, NEW T, NEW q, NEW n, Meant(K, q, n, R, T),
           NEW v, NEW w, Trajectory(K, X, R, T, q, v, w),
           NEW from \in DOMAIN K, NEW to \in DOMAIN K, K[to] = K[from]
    PROVE  LET p == Repointed(q, from, to) IN Meant(K, p, n, R, T) /\ Trajectory(K, X, R, T, p, v, w)
<1> DEFINE p == Repointed(q, from, to)
<1>1. /\ Len(q) \in Nat /\ p \in Seq(ChangeOf(K)) /\ Len(p) = Len(q)
      /\ \A j \in 1 .. Len(q) :
            /\ q[j] \in ChangeOf(K)
            /\ p[j] = IF Targets(q[j], from) THEN [q[j] EXCEPT !.id = to] ELSE q[j]
  <2>1. /\ Len(q) \in Nat /\ DOMAIN q = 1 .. Len(q) /\ q \in Seq(ChangeOf(K))
        /\ \A j \in 1 .. Len(q) : q[j] \in ChangeOf(K)
    BY MeantParts DEF Meant
  <2>2. /\ p \in Seq(ChangeOf(K)) /\ Len(p) = Len(q)
        /\ \A j \in DOMAIN q :
              p[j] = IF Targets(q[j], from) THEN [q[j] EXCEPT !.id = to] ELSE q[j]
    BY <2>1, RepointedTyped
  <2> HIDE DEF p
  <2>3. QED BY <2>1, <2>2
<1> HIDE DEF p
<1>2. ASSUME NEW j \in 1 .. Len(q)
      PROVE  /\ p[j].key = q[j].key /\ p[j].kind = q[j].kind /\ p[j].of = q[j].of
             /\ Aimed(T, p[j]) = Aimed(T, q[j]) /\ (IsAdd(q[j]) => p[j] = q[j])
  <2>1. q[j] \in OpSet
    BY <1>1, ChangeParts
  <2>2. CASE Targets(q[j], from)
    <3>1. p[j] = [q[j] EXCEPT !.id = to] /\ ~IsAdd(q[j]) /\ q[j].id = from
      BY <1>1, <2>2 DEF Targets, IsAdd
    <3>2. p[j].key = q[j].key /\ p[j].kind = q[j].kind /\ p[j].of = q[j].of
      BY <2>1, <3>1 DEF OpSet
    <3>3. \A t : [p[j] EXCEPT !.id = t] = [q[j] EXCEPT !.id = t]
      BY <2>1, <3>1 DEF OpSet
    <3>4. IsNamed(q[j]) /\ IsNamed(p[j])
      <4>1. from \in Ids
        OBVIOUS
      <4>2. q[j].id # NoId
        BY <3>1, <4>1, ConstantFacts
      <4>3. q[j].kind # "clear"
        BY <1>1, <4>2 DEF ChangeOf
      <4>4. QED BY <1>1, <3>1, <3>2, <4>3, ChangeParts DEF IsNamed
    <3>5. QED BY <3>1, <3>2, <3>3, <3>4 DEF Aimed
  <2>3. CASE ~Targets(q[j], from)
    BY <1>1, <2>3
  <2>4. QED BY <2>2, <2>3
<1>3. Meant(K, p, n, R, T)
  <2>1. InOrder(p, n)
    BY <1>1, <1>2 DEF Meant, InOrder
  <2>2. AimsOf(K, T, p)
    BY <1>1, <1>2 DEF Meant, AimsOf, AimOf
  <2>3. QED BY <1>1, <2>1, <2>2 DEF Meant
<1>4. \A j \in 1 .. Len(q) + 1 : Before(R, p, v, j) = Before(R, q, v, j)
  <2>1. ASSUME NEW j \in 1 .. Len(q) + 1
        PROVE  Before(R, p, v, j) = Before(R, q, v, j)
    <3>1. CASE j = 1
      BY <3>1 DEF Before
    <3>2. CASE j # 1
      <4>1. j - 1 \in 1 .. Len(q)
        BY <1>1, <3>2
      <4>2. QED BY <1>2, <3>2, <4>1 DEF Before
    <3>3. QED BY <3>1, <3>2
  <2>2. QED BY <2>1
<1>5. ASSUME NEW j \in 1 .. Len(q)
      PROVE  Leads(K, X, T, Before(R, p, v, j), p[j], R[p[j].key])
  <2>1. Leads(K, X, T, Before(R, q, v, j), q[j], R[q[j].key])
    BY DEF Trajectory
  <2>2. Leads(K, X, T, Before(R, q, v, j), p[j], R[q[j].key])
    BY <1>2, <2>1 DEF Leads, IsAdd
  <2>3. QED BY <1>1, <1>2, <1>4, <2>2
<1>6. Agrees(K, X, Before(R, p, v, Len(p) + 1), w)
  BY <1>1, <1>4 DEF Trajectory
<1>7. QED BY <1>1, <1>3, <1>5, <1>6 DEF Trajectory, p
-----------------------------------------------------------------------------
(* Same as online: what the ids in a queue stand for.                      *)

AddOf(q, a, i) == IsAdd(q[a]) /\ q[a].id = i

(* After the first n changes, i stands for t: where the last add shown     *)
(* under it landed, or itself.                                             *)
Stands(q, T, n, i, t) ==
    \/ t = i /\ \A a \in 1 .. n : ~AddOf(q, a, i)
    \/ \E a \in 1 .. n : /\ T[q[a].key] = t /\ AddOf(q, a, i)
                         /\ \A b \in a + 1 .. n : ~AddOf(q, b, i)

(* A change is queued under an id that stands for the row it was about.    *)
NamedStand(q, T, X) ==
    \A j \in 1 .. Len(q) :
        IsNamed(q[j]) /\ q[j].of \notin X => Stands(q, T, j - 1, q[j].id, T[q[j].key])
(* Adds shown where an add that moved was, or where it went, went there.   *)
AddsMeet(q, T, X) ==
    \A a, b \in 1 .. Len(q) :
        /\ a < b /\ IsAdd(q[a]) /\ IsAdd(q[b]) /\ q[a].of \notin X
        /\ T[q[a].key] # q[a].id /\ q[b].id \in {q[a].id, T[q[a].key]}
        => T[q[b].key] = T[q[a].key]
(* What the shopper now taps under the id of a waiting add is its row.     *)
AliasesStand(q, T, X, al) ==
    \A a \in 1 .. Len(q) :
        IsAdd(q[a]) /\ q[a].of \notin X =>
            /\ Stands(q, T, Len(q), q[a].id, al[q[a].id])
            /\ T[q[a].key] # q[a].id => al[T[q[a].key]] = T[q[a].key]
Aiming(q, T, X, al) == NamedStand(q, T, X) /\ AddsMeet(q, T, X) /\ AliasesStand(q, T, X, al)

LEMMA AimingGrows ==
    ASSUME NEW q, NEW T, NEW X, NEW X2, X \subseteq X2, NEW al, Aiming(q, T, X, al)
    PROVE  Aiming(q, T, X2, al)
BY DEF Aiming, NamedStand, AddsMeet, AliasesStand

LEMMA StandsSame ==
    ASSUME NEW q, NEW p, NEW T, NEW T2, NEW n, NEW i, NEW t, Stands(q, T, n, i, t),
           \A a \in 1 .. n : AddOf(p, a, i) <=> AddOf(q, a, i),
           \A a \in 1 .. n : AddOf(q, a, i) => T2[p[a].key] = T[q[a].key]
    PROVE  Stands(p, T2, n, i, t)
<1>1. CASE t = i /\ \A a \in 1 .. n : ~AddOf(q, a, i)
  BY <1>1 DEF Stands
<1>2. ASSUME NEW a \in 1 .. n, T[q[a].key] = t, AddOf(q, a, i),
             \A b \in a + 1 .. n : ~AddOf(q, b, i)
      PROVE  Stands(p, T2, n, i, t)
  <2>1. \A b \in a + 1 .. n : ~AddOf(p, b, i)
    <3>1. \A b \in a + 1 .. n : b \in 1 .. n
      OBVIOUS
    <3>2. QED BY <1>2, <3>1
  <2>2. QED BY <1>2, <2>1 DEF Stands
<1>3. QED BY <1>1, <1>2 DEF Stands

LEMMA StandsOn ==
    ASSUME NEW q, NEW T, NEW n \in Nat, NEW i, NEW t
    PROVE  /\ Stands(q, T, n, i, t) /\ ~AddOf(q, n + 1, i) => Stands(q, T, n + 1, i, t)
           /\ AddOf(q, n + 1, i) /\ T[q[n + 1].key] = t => Stands(q, T, n + 1, i, t)
<1>1. ASSUME Stands(q, T, n, i, t), ~AddOf(q, n + 1, i)
      PROVE  Stands(q, T, n + 1, i, t)
  <2>1. CASE t = i /\ \A a \in 1 .. n : ~AddOf(q, a, i)
    <3>1. \A a \in 1 .. n + 1 : ~AddOf(q, a, i)
      <4>1. \A a \in 1 .. n + 1 : a \in 1 .. n \/ a = n + 1
        OBVIOUS
      <4>2. QED BY <1>1, <2>1, <4>1
    <3>2. QED BY <2>1, <3>1 DEF Stands
  <2>2. ASSUME NEW a \in 1 .. n, T[q[a].key] = t, AddOf(q, a, i),
               \A b \in a + 1 .. n : ~AddOf(q, b, i)
        PROVE  Stands(q, T, n + 1, i, t)
    <3>1. \A b \in a + 1 .. n + 1 : ~AddOf(q, b, i)
      <4>1. \A b \in a + 1 .. n + 1 : b \in a + 1 .. n \/ b = n + 1
        OBVIOUS
      <4>2. QED BY <1>1, <2>2, <4>1
    <3>2. a \in 1 .. n + 1
      OBVIOUS
    <3>3. QED BY <2>2, <3>1, <3>2 DEF Stands
  <2>3. QED BY <1>1, <2>1, <2>2 DEF Stands
<1>2. ASSUME AddOf(q, n + 1, i), T[q[n + 1].key] = t
      PROVE  Stands(q, T, n + 1, i, t)
  <2>1. n + 1 \in 1 .. n + 1 /\ (n + 1) + 1 .. n + 1 = {}
    OBVIOUS
  <2>2. QED BY <1>2, <2>1 DEF Stands
<1>3. QED BY <1>1, <1>2

LEMMA StandsTail ==
    ASSUME NEW S, NEW q \in Seq(S), q # <<>>, NEW T, NEW n \in 1 .. Len(q), NEW i, NEW t,
           Stands(q, T, n, i, t),
           AddOf(q, 1, i) => T[q[1].key] = i \/ \E b \in 2 .. n : AddOf(q, b, i)
    PROVE  Stands(Tail(q), T, n - 1, i, t)
<1> DEFINE p == Tail(q)
<1>1. /\ Len(q) \in Nat /\ n \in Nat /\ n # 0
      /\ \A a \in 1 .. n - 1 : p[a] = q[a + 1] /\ a + 1 \in 2 .. n
  BY LenProperties
<1> HIDE DEF p
<1>2. \A a \in 1 .. n - 1 : AddOf(p, a, i) <=> AddOf(q, a + 1, i)
  BY <1>1 DEF AddOf
<1>3. CASE \A a \in 2 .. n : ~AddOf(q, a, i)
  <2>1. \A a \in 1 .. n - 1 : ~AddOf(p, a, i)
    BY <1>1, <1>2, <1>3
  <2>2. t = i
    <3>1. CASE t = i /\ \A a \in 1 .. n : ~AddOf(q, a, i)
      BY <3>1
    <3>2. ASSUME NEW a \in 1 .. n, T[q[a].key] = t, AddOf(q, a, i)
          PROVE  t = i
      <4>1. a = 1
        BY <1>3, <3>2
      <4>2. QED BY <1>3, <3>2, <4>1
    <3>3. QED BY <3>1, <3>2 DEF Stands
  <2>3. QED BY <2>1, <2>2 DEF Stands, p
<1>4. ASSUME NEW a \in 2 .. n, AddOf(q, a, i)
      PROVE  Stands(p, T, n - 1, i, t)
  <2>1. PICK b \in 1 .. n : /\ T[q[b].key] = t /\ AddOf(q, b, i)
                            /\ \A c \in b + 1 .. n : ~AddOf(q, c, i)
    BY <1>4 DEF Stands
  <2>2. b # 1
    BY <1>4, <2>1
  <2>3. b - 1 \in 1 .. n - 1 /\ (b - 1) + 1 = b
    BY <2>2
  <2>4. p[b - 1] = q[b] /\ AddOf(p, b - 1, i)
    BY <1>1, <1>2, <2>1, <2>3
  <2>5. ASSUME NEW c \in (b - 1) + 1 .. n - 1
        PROVE  ~AddOf(p, c, i)
    <3>1. c \in 1 .. n - 1 /\ c + 1 \in b + 1 .. n
      BY <2>3
    <3>2. QED BY <1>2, <2>1, <3>1
  <2>6. QED BY <2>1, <2>3, <2>4, <2>5 DEF Stands
<1>5. QED BY <1>3, <1>4 DEF p

(* The oldest change leaves; no later change was queued under an id that   *)
(* its add moved.                                                          *)
LEMMA AimingTail ==
    ASSUME NEW S, NEW q \in Seq(S), q # <<>>, NEW T, NEW X, NEW al, Aiming(q, T, X, al),
           \A j \in 2 .. Len(q) :
              IsNamed(q[j]) /\ q[j].of \notin X /\ AddOf(q, 1, q[j].id) =>
                 T[q[1].key] = q[1].id \/ \E b \in 2 .. j - 1 : AddOf(q, b, q[j].id)
    PROVE  Aiming(Tail(q), T, X, al)
<1> DEFINE p == Tail(q)
           N == Len(q)
<1>1. /\ N \in Nat /\ N # 0 /\ N \in 1 .. N /\ Len(p) = N - 1
      /\ \A a \in 1 .. N - 1 : p[a] = q[a + 1] /\ a + 1 \in 2 .. N /\ a + 1 \in 1 .. N
  <2>1. Len(q) \in Nat /\ Len(q) # 0
    BY LenProperties, EmptySeq
  <2>2. Len(p) = Len(q) - 1 /\ \A a \in 1 .. Len(q) - 1 : p[a] = q[a + 1]
    BY <2>1
  <2>3. QED BY <2>1, <2>2
<1>2. \A i, t, n : n \in 1 .. N /\ Stands(q, T, n, i, t)
         /\ (AddOf(q, 1, i) => T[q[1].key] = i \/ \E b \in 2 .. n : AddOf(q, b, i))
         => Stands(p, T, n - 1, i, t)
  BY StandsTail
<1> HIDE DEF p, N
<1>3. ASSUME NEW j \in 1 .. N - 1, IsNamed(p[j]), p[j].of \notin X
      PROVE  Stands(p, T, j - 1, p[j].id, T[p[j].key])
  <2>1. p[j] = q[j + 1] /\ j + 1 \in 2 .. N /\ j + 1 \in 1 .. N /\ (j + 1) - 1 = j /\ j \in 1 .. N
    BY <1>1
  <2>2. Stands(q, T, j, p[j].id, T[p[j].key])
    BY <1>3, <2>1 DEF Aiming, NamedStand, N
  <2>3. AddOf(q, 1, p[j].id) => T[q[1].key] = p[j].id \/ \E b \in 2 .. j : AddOf(q, b, p[j].id)
    BY <1>3, <2>1 DEF N, AddOf
  <2>4. QED BY <1>2, <2>1, <2>2, <2>3
<1>4. AddsMeet(p, T, X)
  <2>1. ASSUME NEW a \in 1 .. N - 1, NEW b \in 1 .. N - 1, a < b, IsAdd(p[a]), IsAdd(p[b]),
               p[a].of \notin X, T[p[a].key] # p[a].id, p[b].id \in {p[a].id, T[p[a].key]}
        PROVE  T[p[b].key] = T[p[a].key]
    <3>1. /\ p[a] = q[a + 1] /\ p[b] = q[b + 1] /\ a + 1 \in 1 .. N /\ b + 1 \in 1 .. N
          /\ a + 1 < b + 1
      BY <1>1, <2>1
    <3>2. QED BY <2>1, <3>1 DEF Aiming, AddsMeet, N
  <2>2. QED BY <1>1, <2>1 DEF AddsMeet
<1>5. ASSUME NEW a \in 1 .. N - 1, IsAdd(p[a]), p[a].of \notin X
      PROVE  /\ Stands(p, T, N - 1, p[a].id, al[p[a].id])
             /\ T[p[a].key] # p[a].id => al[T[p[a].key]] = T[p[a].key]
  <2>1. p[a] = q[a + 1] /\ a + 1 \in 1 .. N /\ a + 1 \in 2 .. N
    BY <1>1
  <2>2. /\ Stands(q, T, N, p[a].id, al[p[a].id])
        /\ T[p[a].key] # p[a].id => al[T[p[a].key]] = T[p[a].key]
    BY <1>5, <2>1 DEF Aiming, AliasesStand, N
  <2>3. AddOf(q, a + 1, p[a].id)
    BY <1>5, <2>1 DEF AddOf
  <2>4. QED BY <1>1, <1>2, <2>1, <2>2, <2>3
<1>6. QED BY <1>1, <1>3, <1>4, <1>5 DEF Aiming, NamedStand, AliasesStand, p

(* A change is made about t: another than an add under an id that stands   *)
(* for t, an add that lands on t.                                          *)
LEMMA AimingAppend ==
    ASSUME NEW S, NEW q \in Seq(S), NEW n \in Nat, NEW T \in [Nat -> Ids \cup {NoId}],
           \A j \in 1 .. Len(q) :
              /\ q[j].key \in Nat /\ q[j].key < n
              /\ IsAdd(q[j]) => q[j].id \in Ids /\ T[q[j].key] \in Ids,
           NEW X, NEW al \in [Ids -> Ids], Aiming(q, T, X, al),
           NEW op \in S, op.key = n, NEW t \in Ids \cup {NoId}, NEW al2,
           IsNamed(op) /\ op.of \notin X => Stands(q, T, Len(q), op.id, t),
           ~IsAdd(op) => al2 = al,
           IsAdd(op) =>
              /\ op.id \in Ids /\ al2 = [al EXCEPT ![op.id] = t]
              /\ t # op.id => al[t] = t /\ t \in Ids
              /\ \A a \in 1 .. Len(q) :
                    /\ IsAdd(q[a]) /\ q[a].of \notin X /\ T[q[a].key] # q[a].id
                    /\ op.id \in {q[a].id, T[q[a].key]}
                    => t = T[q[a].key]
    PROVE  Aiming(Append(q, op), [T EXCEPT ![n] = t], X, al2)
<1> DEFINE p == Append(q, op)
           T2 == [T EXCEPT ![n] = t]
           N == Len(q)
<1>1. /\ N \in Nat /\ Len(p) = N + 1 /\ p[N + 1] = op /\ \A j \in 1 .. N : p[j] = q[j]
  BY LenProperties
<1>2. /\ T2[n] = t /\ \A j \in 1 .. N : T2[q[j].key] = T[q[j].key]
  OBVIOUS
<1> HIDE DEF p, T2
<1>3. ASSUME NEW m \in 0 .. N, NEW i, NEW x, Stands(q, T, m, i, x)
      PROVE  Stands(p, T2, m, i, x)
  <2>1. \A a \in 1 .. m : a \in 1 .. N
    BY <1>1
  <2>2. /\ \A a \in 1 .. m : AddOf(p, a, i) <=> AddOf(q, a, i)
        /\ \A a \in 1 .. m : AddOf(q, a, i) => T2[p[a].key] = T[q[a].key]
    BY <1>1, <1>2, <2>1 DEF AddOf
  <2>3. QED BY <1>3, <2>2, StandsSame
<1> HIDE DEF N
<1>4. \A j \in 1 .. N + 1 : j \in 1 .. N \/ j = N + 1
  BY <1>1
<1>5. ASSUME NEW j \in 1 .. N + 1, IsNamed(p[j]), p[j].of \notin X
      PROVE  Stands(p, T2, j - 1, p[j].id, T2[p[j].key])
  <2>1. CASE j \in 1 .. N
    <3>1. p[j] = q[j] /\ T2[p[j].key] = T[q[j].key] /\ j - 1 \in 0 .. N
      BY <1>1, <1>2, <2>1
    <3>2. Stands(q, T, j - 1, q[j].id, T[q[j].key])
      BY <1>5, <2>1, <3>1 DEF Aiming, NamedStand, N
    <3>3. QED BY <1>3, <3>1, <3>2
  <2>2. CASE j = N + 1
    <3>1. p[j] = op /\ T2[p[j].key] = t /\ j - 1 = N /\ N \in 0 .. N
      BY <1>1, <1>2, <2>2
    <3>2. Stands(q, T, N, op.id, t)
      BY <1>5, <3>1 DEF N
    <3>3. QED BY <1>3, <3>1, <3>2
  <2>3. QED BY <1>4, <2>1, <2>2
<1>6. ASSUME NEW a \in 1 .. N + 1, NEW b \in 1 .. N + 1, a < b, IsAdd(p[a]), IsAdd(p[b]),
             p[a].of \notin X, T2[p[a].key] # p[a].id, p[b].id \in {p[a].id, T2[p[a].key]}
      PROVE  T2[p[b].key] = T2[p[a].key]
  <2>1. a \in 1 .. N /\ p[a] = q[a] /\ T2[p[a].key] = T[q[a].key]
    BY <1>1, <1>2, <1>6
  <2>2. CASE b \in 1 .. N
    <3>1. p[b] = q[b] /\ T2[p[b].key] = T[q[b].key]
      BY <1>1, <1>2, <2>2
    <3>2. QED BY <1>6, <2>1, <2>2, <3>1 DEF Aiming, AddsMeet, N
  <2>3. CASE b = N + 1
    <3>1. p[b] = op /\ T2[p[b].key] = t
      BY <1>1, <1>2, <2>3
    <3>2. QED BY <1>6, <2>1, <3>1 DEF N
  <2>4. QED BY <1>4, <2>2, <2>3
<1>7. ASSUME NEW a \in 1 .. N + 1, IsAdd(p[a]), p[a].of \notin X
      PROVE  /\ Stands(p, T2, N + 1, p[a].id, al2[p[a].id])
             /\ T2[p[a].key] # p[a].id => al2[T2[p[a].key]] = T2[p[a].key]
  <2>1. /\ AddOf(p, N + 1, op.id) <=> IsAdd(op)
        /\ \A i : i # op.id \/ ~IsAdd(op) => ~AddOf(p, N + 1, i)
        /\ T2[p[N + 1].key] = t
    BY <1>1, <1>2 DEF AddOf
  <2>2. IsAdd(op) => al2[op.id] = t /\ \A i \in Ids : i # op.id => al2[i] = al[i]
    OBVIOUS
  <2>3. IsAdd(op) => Stands(p, T2, N + 1, op.id, al2[op.id])
    BY <1>1, <2>1, <2>2, StandsOn
  <2>4. CASE a \in 1 .. N
    <3>1. /\ p[a] = q[a] /\ T2[p[a].key] = T[q[a].key]
          /\ p[a].id \in Ids /\ T[q[a].key] \in Ids
      BY <1>1, <1>2, <1>7, <2>4 DEF N
    <3>2. /\ Stands(q, T, N, p[a].id, al[p[a].id])
          /\ T[q[a].key] # q[a].id => al[T[q[a].key]] = T[q[a].key]
      BY <1>7, <2>4, <3>1 DEF Aiming, AliasesStand, N
    <3>3. N \in 0 .. N
      BY <1>1
    <3>4. Stands(p, T2, N, p[a].id, al[p[a].id])
      BY <1>3, <3>2, <3>3
    <3>5. CASE ~IsAdd(op)
      <4>1. al2 = al /\ ~AddOf(p, N + 1, p[a].id)
        BY <2>1, <3>5
      <4>2. QED BY <1>1, <3>1, <3>2, <3>4, <4>1, StandsOn
    <3>6. CASE IsAdd(op)
      <4>1. Stands(p, T2, N + 1, p[a].id, al2[p[a].id])
        <5>1. CASE p[a].id = op.id
          BY <2>3, <3>6, <5>1
        <5>2. CASE p[a].id # op.id
          BY <1>1, <2>1, <2>2, <3>1, <3>4, <3>6, <5>2, StandsOn
        <5>3. QED BY <5>1, <5>2
      <4>2. ASSUME T[q[a].key] # q[a].id
            PROVE  al2[T[q[a].key]] = T[q[a].key]
        <5>1. CASE T[q[a].key] = op.id
          <6>1. t = T[q[a].key]
            BY <1>7, <2>4, <3>1, <3>6, <4>2, <5>1 DEF N
          <6>2. QED BY <2>2, <3>6, <5>1, <6>1
        <5>2. CASE T[q[a].key] # op.id
          BY <2>2, <3>1, <3>2, <3>6, <4>2, <5>2
        <5>3. QED BY <5>1, <5>2
      <4>3. QED BY <3>1, <4>1, <4>2
    <3>7. QED BY <3>5, <3>6
  <2>5. CASE a = N + 1
    <3>1. p[a] = op /\ T2[p[a].key] = t /\ IsAdd(op)
      BY <1>1, <1>2, <1>7, <2>5
    <3>2. t # op.id => al2[t] = t
      BY <2>2, <3>1
    <3>3. QED BY <2>3, <3>1, <3>2
  <2>6. QED BY <1>4, <2>4, <2>5
<1>8. NamedStand(p, T2, X)
  BY <1>1, <1>5 DEF NamedStand
<1>9. AddsMeet(p, T2, X)
  BY <1>1, <1>6 DEF AddsMeet
<1>10. AliasesStand(p, T2, X, al2)
  BY <1>1, <1>7 DEF AliasesStand
<1>11. QED BY <1>8, <1>9, <1>10 DEF Aiming, p, T2

(* Of some of 1 .. n one is the last.                                      *)
LEMMA LastOf ==
    ASSUME NEW n \in Nat, NEW A \in SUBSET (1 .. n), A # {}
    PROVE  \E a \in A : \A b \in a + 1 .. n : b \notin A
<1> DEFINE G == {m \in 0 .. n : (\E a \in A : a <= m) =>
                    \E a \in A : a <= m /\ \A b \in a + 1 .. m : b \notin A}
<1>1. 0 \in G
  <2>1. \A a \in A : ~(a <= 0)
    OBVIOUS
  <2>2. QED BY <2>1
<1>2. ASSUME NEW m \in 1 .. n, m - 1 \in G
      PROVE  m \in G
  <2>1. CASE m \in A
    <3>1. m + 1 .. m = {} /\ m \in 0 .. n /\ m <= m
      OBVIOUS
    <3>2. QED BY <2>1, <3>1
  <2>2. CASE m \notin A
    <3>1. \A a \in A : a <= m => a <= m - 1
      BY <2>2
    <3>2. ASSUME NEW c \in A, c <= m
          PROVE  \E a \in A : a <= m /\ \A b \in a + 1 .. m : b \notin A
      <4>1. PICK a \in A : a <= m - 1 /\ \A b \in a + 1 .. m - 1 : b \notin A
        BY <1>2, <3>1, <3>2
      <4>2. \A b \in a + 1 .. m : b \in a + 1 .. m - 1 \/ b = m
        OBVIOUS
      <4>3. QED BY <2>2, <4>1, <4>2
    <3>3. m \in 0 .. n
      OBVIOUS
    <3>4. QED BY <3>2, <3>3
  <2>3. QED BY <2>1, <2>2
<1> HIDE DEF G
<1>3. \A m \in 0 .. n : m \in G
  BY <1>1, <1>2, Climbs
<1>4. n \in G /\ \A a \in A : a <= n
  BY <1>3
<1>5. QED BY <1>4 DEF G

(* The changes to the row an add was shown as are pointed at the row it    *)
(* landed on, which from then on stands for itself.                        *)
LEMMA AimingRepointed ==
    ASSUME NEW K, DOMAIN K \subseteq Ids, NEW q, NEW n, NEW R, NEW T, Meant(K, q, n, R, T),
           NEW X, NEW al, Aiming(q, T, X, al), q # <<>>, IsAdd(q[1]),
           NEW to \in DOMAIN K, K[to] = K[q[1].id], to # q[1].id,
           q[1].of \notin X => T[q[1].key] = to
    PROVE  LET p == Repointed(q, q[1].id, to) IN
           /\ Aiming(p, T, X, al)
           /\ \A j \in 1 .. Len(p) : IsNamed(p[j]) => p[j].id # q[1].id
<1> DEFINE from == q[1].id
           p == Repointed(q, from, to)
           N == Len(q)
<1>1. /\ N \in Nat /\ N # 0 /\ 1 \in 1 .. N
      /\ \A j \in 1 .. N : q[j] \in ChangeOf(K)
      /\ from \in DOMAIN K /\ q[1].of = K[from]
  <2>1. N \in Nat /\ N # 0 /\ \A j \in 1 .. N : q[j] \in ChangeOf(K)
    BY MeantParts DEF Meant
  <2>2. q[1] \in ChangeOf(K) /\ 1 \in 1 .. N
    BY <2>1
  <2>3. QED BY <2>1, <2>2, ChangeParts
<1>2. /\ Len(p) = N
      /\ \A j \in 1 .. N :
            p[j] = IF Targets(q[j], from) THEN [q[j] EXCEPT !.id = to] ELSE q[j]
  <2>1. DOMAIN q = 1 .. N /\ q \in Seq(ChangeOf(K)) /\ K[to] = K[from]
    BY MeantParts DEF Meant
  <2> HIDE DEF from
  <2>2. /\ Len(p) = N
        /\ \A j \in DOMAIN q :
              p[j] = IF Targets(q[j], from) THEN [q[j] EXCEPT !.id = to] ELSE q[j]
    BY <1>1, <2>1, RepointedTyped
  <2> HIDE DEF p
  <2>3. QED BY <2>1, <2>2
<1> HIDE DEF p, from
<1>3. ASSUME NEW j \in 1 .. N
      PROVE  /\ IsAdd(p[j]) <=> IsAdd(q[j])
             /\ IsAdd(q[j]) => p[j] = q[j]
             /\ IsNamed(p[j]) <=> IsNamed(q[j])
             /\ p[j].of = q[j].of /\ p[j].key = q[j].key
             /\ IsNamed(q[j]) => p[j].id = IF q[j].id = from THEN to ELSE q[j].id
  <2>1. q[j] \in OpSet
    BY <1>1, ChangeParts
  <2>2. CASE Targets(q[j], from)
    <3>1. p[j] = [q[j] EXCEPT !.id = to] /\ q[j].kind # "add" /\ q[j].id = from
      BY <1>2, <2>2 DEF Targets
    <3>2. p[j].key = q[j].key /\ p[j].kind = q[j].kind /\ p[j].of = q[j].of /\ p[j].id = to
      BY <2>1, <3>1 DEF OpSet
    <3>3. QED BY <3>1, <3>2 DEF IsAdd, IsNamed
  <2>3. CASE ~Targets(q[j], from)
    <3>1. p[j] = q[j] /\ (IsNamed(q[j]) => q[j].id # from)
      BY <1>2, <2>3 DEF Targets, IsNamed
    <3>2. QED BY <3>1
  <2>4. QED BY <2>2, <2>3
<1>4. \A j \in 1 .. N : \A i : AddOf(p, j, i) <=> AddOf(q, j, i)
  BY <1>3 DEF AddOf
<1>5. ASSUME NEW m \in 0 .. N, NEW i, NEW x, Stands(q, T, m, i, x)
      PROVE  Stands(p, T, m, i, x)
  <2>1. \A a \in 1 .. m : a \in 1 .. N
    BY <1>1
  <2>2. /\ \A a \in 1 .. m : AddOf(p, a, i) <=> AddOf(q, a, i)
        /\ \A a \in 1 .. m : AddOf(q, a, i) => T[p[a].key] = T[q[a].key]
    BY <1>3, <1>4, <2>1
  <2>3. QED BY <1>5, <2>2, StandsSame
<1>6. ASSUME q[1].of \notin X, NEW a \in 2 .. N, IsAdd(q[a]), q[a].id \in {from, to}
      PROVE  T[q[a].key] = to
  <2>1. T[q[1].key] = to /\ T[q[1].key] # q[1].id /\ a \in 1 .. N /\ 1 < a
    BY <1>6, <1>1 DEF from
  <2>2. QED BY <1>1, <1>6, <2>1 DEF Aiming, AddsMeet, N, from
<1>7. ASSUME NEW j \in 1 .. N, IsNamed(p[j]), p[j].of \notin X
      PROVE  Stands(p, T, j - 1, p[j].id, T[p[j].key])
  <2>1. j - 1 \in 0 .. N /\ IsNamed(q[j]) /\ p[j].key = q[j].key
    BY <1>1, <1>3, <1>7
  <2>2. Stands(q, T, j - 1, q[j].id, T[q[j].key])
    BY <1>3, <1>7, <2>1 DEF Aiming, NamedStand, N
  <2>3. CASE q[j].id # from
    BY <1>3, <1>5, <2>1, <2>2, <2>3
  <2>4. CASE q[j].id = from
    <3>1. q[1].of \notin X /\ p[j].id = to
      <4>1. q[j] \in ChangeOf(K)
        BY <1>1
      <4>2. q[j].of = K[from]
        BY <2>1, <2>4, <4>1, ChangeParts
      <4>3. QED BY <1>1, <1>3, <1>7, <2>1, <2>4, <4>2
    <3>2. j # 1
      BY <2>1 DEF IsNamed, IsAdd
    <3>3. AddOf(q, 1, from) /\ 1 \in 1 .. j - 1
      BY <3>2 DEF AddOf, from
    <3>4. T[q[j].key] = to
      <4>1. PICK a \in 1 .. j - 1 : T[q[a].key] = T[q[j].key] /\ AddOf(q, a, from)
        BY <2>2, <2>4, <3>3 DEF Stands
      <4>2. CASE a = 1
        BY <3>1, <4>1, <4>2
      <4>3. CASE a # 1
        <5>1. a \in 2 .. N
          BY <1>1, <4>3
        <5>2. QED BY <1>6, <3>1, <4>1, <5>1 DEF AddOf
      <4>4. QED BY <4>2, <4>3
    <3>5. CASE \A a \in 1 .. j - 1 : ~AddOf(q, a, to)
      <4>1. Stands(q, T, j - 1, to, to)
        BY <3>5 DEF Stands
      <4>2. QED BY <1>5, <2>1, <3>1, <3>4, <4>1
    <3>6. CASE \E a \in 1 .. j - 1 : AddOf(q, a, to)
      <4> DEFINE A == {a \in 1 .. j - 1 : AddOf(q, a, to)}
      <4>1. j - 1 \in Nat /\ A \in SUBSET (1 .. j - 1) /\ A # {}
        BY <3>6
      <4>2. PICK a \in A : \A b \in a + 1 .. j - 1 : b \notin A
        <5> HIDE DEF A
        <5>1. QED BY <4>1, LastOf
      <4>3. AddOf(q, a, to) /\ a \in 1 .. j - 1 /\ \A b \in a + 1 .. j - 1 : ~AddOf(q, b, to)
        <5>1. \A b \in a + 1 .. j - 1 : b \in 1 .. j - 1
          OBVIOUS
        <5>2. QED BY <4>2, <5>1
      <4>4. a # 1
        BY <4>3 DEF AddOf
      <4>5. a \in 2 .. N
        BY <1>1, <4>3, <4>4
      <4>6. T[q[a].key] = to
        BY <1>6, <3>1, <4>3, <4>5 DEF AddOf
      <4>7. Stands(q, T, j - 1, to, to)
        BY <4>3, <4>6 DEF Stands
      <4>8. QED BY <1>5, <2>1, <3>1, <3>4, <4>7
    <3>7. QED BY <3>5, <3>6
  <2>5. QED BY <2>3, <2>4
<1>8. AddsMeet(p, T, X)
  BY <1>2, <1>3 DEF Aiming, AddsMeet, N
<1>9. ASSUME NEW a \in 1 .. N, IsAdd(p[a]), p[a].of \notin X
      PROVE  /\ Stands(p, T, N, p[a].id, al[p[a].id])
             /\ T[p[a].key] # p[a].id => al[T[p[a].key]] = T[p[a].key]
  <2>1. p[a] = q[a] /\ N \in 0 .. N
    BY <1>1, <1>3, <1>9
  <2>2. /\ Stands(q, T, N, p[a].id, al[p[a].id])
        /\ T[p[a].key] # p[a].id => al[T[p[a].key]] = T[p[a].key]
    BY <1>9, <2>1 DEF Aiming, AliasesStand, N
  <2>3. QED BY <1>5, <2>1, <2>2
<1>10. \A j \in 1 .. N : IsNamed(p[j]) => p[j].id # from
  BY <1>3 DEF from
<1>11. QED
  BY <1>2, <1>7, <1>8, <1>9, <1>10 DEF Aiming, NamedStand, AliasesStand, p, from
-----------------------------------------------------------------------------
(* Same as online: the invariant, while nobody else changes the list.      *)

Solo == spent.used.remote = 0

(* Of the list the queued changes should lead to, and the ids that stand   *)
(* for its rows.                                                           *)
Standing(K) ==
    /\ ideal \in ListOf(K) /\ OneRowPerKey(rows) /\ OneRowPerKey(ideal)
    /\ \A i \in DOMAIN K : alias[i] \in DOMAIN K /\ K[alias[i]] = K[i]
    /\ \A i \in Ids \ DOMAIN K : alias[i] = i
    /\ \A i \in Shown(ideal) : alias[i] = i

Tracks(K, R, T) ==
    /\ Meant(K, queue, spent.used.taps, R, T)
    /\ Trajectory(K, excused, R, T, queue, rows, ideal)
    /\ Aiming(queue, T, excused, alias)

(* The oldest change, once answered, has led where it should; in a swap no *)
(* other is left under the id its add leaves, but for a later add's.       *)
RunLed(K, R, T) ==
    /\ replay.phase \in {"answered", "swapping"} =>
          /\ Agrees(K, excused, rows, R[Current.key])
          /\ IsAdd(Current) /\ Current.of \notin excused => replay.answer.id = T[Current.key]
    /\ replay.phase = "swapping" =>
          /\ replay.answer.id # Current.id
          /\ \A j \in 2 .. Len(queue) :
                IsNamed(queue[j]) /\ queue[j].of \notin excused /\ queue[j].id = Current.id =>
                   \E b \in 2 .. j - 1 : AddOf(queue, b, Current.id)

(* A request that was given up is the oldest change's, or of one that left *)
(* the queue, and does nothing further if no change came after.            *)
InPlace(K, op) ==
    \/ queue # <<>> /\ op = queue[1]
    \/ /\ op.key < spent.used.taps
       /\ \A j \in 1 .. Len(queue) : op.key < queue[j].key
       /\ queue = <<>> /\ spent.used.taps = op.key + 1 =>
             Agrees(K, excused, Served(rows, op).rows, rows)

TrackInv(K) ==
    /\ Standing(K)
    /\ \A op \in late : InPlace(K, op)
    /\ \E R, T : Tracks(K, R, T) /\ RunLed(K, R, T)

LEMMA Spent ==
    ASSUME NEW K, Typed(K), NEW kinds, SpendAll(kinds)
    PROVE  /\ spent'.used.taps = IF "taps" \in kinds THEN spent.used.taps + 1 ELSE spent.used.taps
           /\ Solo' => Solo /\ "remote" \notin kinds
<1> DEFINE used == [k \in Bounded |-> IF k \in kinds THEN spent.used[k] + 1 ELSE spent.used[k]]
<1>1. spent' = [spent EXCEPT !.used = used]
  BY DEF SpendAll
<1>2. spent.used \in [Bounded -> Nat] /\ spent \in [limit : [Bounded -> Nat], used : [Bounded -> Nat]]
  BY DEF Typed, BoundsTyped
<1>3. "remote" \in Bounded /\ "taps" \in Bounded
  BY DEF Bounded
<1>4. /\ used["remote"] = IF "remote" \in kinds THEN spent.used["remote"] + 1 ELSE spent.used["remote"]
      /\ used["taps"] = IF "taps" \in kinds THEN spent.used["taps"] + 1 ELSE spent.used["taps"]
      /\ spent.used["remote"] \in Nat
  BY <1>2, <1>3
<1> HIDE DEF used
<1>5. spent'.used = used
  BY <1>1, <1>2
<1>6. QED BY <1>4, <1>5 DEF Solo

LEMMA SpentOne ==
    ASSUME NEW K, Typed(K), NEW kind, Spend(kind)
    PROVE  /\ kind # "taps" => spent'.used.taps = spent.used.taps
           /\ kind = "taps" => spent'.used.taps = spent.used.taps + 1
           /\ Solo' => Solo /\ kind # "remote"
BY Spent DEF Spend

(* A step that mints no id leaves what the ids stand for.                  *)
LEMMA SameIds ==
    ASSUME NEW K, Typed(K), NEW K2, Extends(K, K2), Typed(K2)', UNCHANGED minted
    PROVE  K2 = K
<1>1. K \in [minted -> Keys] /\ K2 \in [minted -> Keys]
  BY DEF Typed, ServerTyped
<1>2. QED BY <1>1 DEF Extends

(* The queue, the list and what they should lead to are left alone.        *)
LEMMA TrackStays ==
    ASSUME NEW K, TrackInv(K), UNCHANGED <<rows, queue, ideal, alias, excused>>,
           spent'.used.taps = spent.used.taps,
           \A op \in late' : op \in late \/ (queue # <<>> /\ op = queue[1]),
           replay' = replay \/ replay'.phase \in {"idle", "wire"}
    PROVE  TrackInv(K)'
<1>1. Standing(K)'
  BY DEF TrackInv, Standing
<1>2. ASSUME NEW op \in late'
      PROVE  InPlace(K, op)'
  BY <1>2 DEF TrackInv, InPlace
<1>3. PICK R, T : Tracks(K, R, T) /\ RunLed(K, R, T)
  BY DEF TrackInv
<1>4. Tracks(K, R, T)'
  BY <1>3 DEF Tracks
<1>5. RunLed(K, R, T)'
  BY <1>3 DEF RunLed, Current
<1>6. QED BY <1>1, <1>2, <1>4, <1>5 DEF TrackInv

(* The oldest change, carried out now, leads where it should.              *)
LEMMA HeadLeads ==
    ASSUME NEW K, Typed(K), Standing(K), NEW R, NEW T, Tracks(K, R, T), queue # <<>>
    PROVE  LET u == Served(rows, queue[1]).rows IN
           /\ queue[1] \in ChangeOf(K) /\ 1 \in 1 .. Len(queue)
           /\ queue[1].key \in Nat /\ queue[1].key < spent.used.taps
           /\ Agrees(K, excused, u, R[queue[1].key])
           /\ Trajectory(K, excused, R, T, queue, u, ideal)
           /\ OneRowPerKey(u)
           /\ IsAdd(queue[1]) /\ queue[1].of \notin excused =>
                 Served(rows, queue[1]).answer.id = T[queue[1].key]
<1> DEFINE op == queue[1]
           u == Served(rows, op).rows
           n == spent.used.taps
<1>1. DOMAIN K \subseteq Ids /\ rows \in ListOf(K) /\ Meant(K, queue, n, R, T)
  BY TypedIds DEF Typed, ServerTyped, Tracks
<1>2. /\ 1 \in 1 .. Len(queue) /\ op \in ChangeOf(K) /\ AimOf(K, T, op)
      /\ op.key \in Nat /\ op.key < n /\ R[op.key] \in ListOf(K)
  <2>1. queue \in Seq(ChangeOf(K))
    BY DEF Typed, WaitingTyped
  <2>2. 1 \in 1 .. Len(queue)
    BY <2>1
  <2>3. QED BY <1>1, <2>2, MeantParts
<1>3. Leads(K, excused, T, rows, op, R[op.key])
  BY <1>2 DEF Tracks, Trajectory, Before
<1>4. IsNamed(op) /\ op.of \notin excused => T[op.key] = op.id
  <2>1. IsNamed(op) /\ op.of \notin excused => Stands(queue, T, 1 - 1, op.id, T[op.key])
    BY <1>2 DEF Tracks, Aiming, NamedStand
  <2>2. QED BY <2>1 DEF Stands
<1>5. Agrees(K, excused, u, R[op.key]) /\ Leads(K, excused, T, u, op, R[op.key])
  BY <1>1, <1>2, <1>3, <1>4, LeadsThere
<1>6. OneRowPerKey(u)
  BY <1>1, <1>2, ChangeParts, ServedVaries DEF Standing
<1> HIDE DEF u
<1>7. Trajectory(K, excused, R, T, queue, u, ideal)
  BY <1>1, <1>5, TrajectoryFrom DEF Tracks
<1>8. IsAdd(op) /\ op.of \notin excused => Served(rows, op).answer.id = T[op.key]
  BY <1>3 DEF Leads
<1>9. QED BY <1>2, <1>5, <1>6, <1>7, <1>8 DEF u

LEMMA TrackExecute ==
    ASSUME FrontInv, NEW K, Typed(K), TrackInv(K), ServerExecutes
    PROVE  TrackInv(K)'
<1> DEFINE s == Served(rows, Current)
<1>1. /\ replay.phase = "wire" /\ rows' = s.rows
      /\ replay' = [replay EXCEPT !.phase = "answered", !.answer = s.answer]
      /\ UNCHANGED <<late, queue, spent, ideal, alias, excused>>
  BY DEF ServerExecutes, disk
<1>2. queue # <<>> /\ queue[1] = Current
  BY <1>1, HeadOnDisk
<1>3. PICK R, T : Tracks(K, R, T) /\ RunLed(K, R, T)
  BY DEF TrackInv
<1>4. /\ Current \in ChangeOf(K)
      /\ Agrees(K, excused, s.rows, R[Current.key])
      /\ Trajectory(K, excused, R, T, queue, s.rows, ideal)
      /\ OneRowPerKey(s.rows)
      /\ IsAdd(Current) /\ Current.of \notin excused => s.answer.id = T[Current.key]
  BY <1>2, <1>3, HeadLeads DEF TrackInv
<1>5. /\ replay'.phase = "answered" /\ replay'.entries = replay.entries
      /\ replay'.answer = s.answer
  BY <1>1 DEF FrontInv
<1> HIDE DEF s
<1>6. Current' = Current
  BY <1>5 DEF Current
<1>7. Standing(K)'
  BY <1>1, <1>4 DEF TrackInv, Standing
<1>8. \A op \in late' : InPlace(K, op)'
  BY <1>1, <1>2 DEF TrackInv, InPlace
<1>9. Tracks(K, R, T)'
  BY <1>1, <1>3, <1>4 DEF Tracks
<1>10. RunLed(K, R, T)'
  BY <1>1, <1>4, <1>5, <1>6 DEF RunLed
<1>11. QED BY <1>7, <1>8, <1>9, <1>10 DEF TrackInv

(* A request that was given up is carried out: the oldest change's, or one *)
(* that comes behind later changes and excuses what it changes, or one     *)
(* after which there was no change, and that changes nothing.              *)
LEMMA TrackLate ==
    ASSUME FrontInv, NEW K, Typed(K), TrackInv(K), NEW op \in late, ServedLate(op)
    PROVE  TrackInv(K)'
<1> DEFINE u == Served(rows, op).rows
           overtaken == /\ \A j \in DOMAIN queue : queue[j].key # op.key
                        /\ spent.used.taps > op.key + 1
<1>1. /\ rows' = u /\ late' = late \ {op}
      /\ excused' = excused \cup {k \in Keys : overtaken /\ StatusIn(u, k) # StatusIn(rows, k)}
      /\ UNCHANGED <<queue, replay, spent, ideal, alias>>
  BY DEF ServedLate, disk, tasks
<1>2. PICK R, T : Tracks(K, R, T) /\ RunLed(K, R, T)
  BY DEF TrackInv
<1>3. /\ op \in ChangeOf(K) /\ Request(K, op) /\ op.key \in Nat /\ late \subseteq ChangeOf(K)
      /\ DOMAIN K \subseteq Ids /\ K \in [DOMAIN K -> Keys]
      /\ rows \in ListOf(K) /\ OneRowPerKey(rows) /\ u \in ListOf(K)
  <2>1. late \subseteq ChangeOf(K) /\ DOMAIN K \subseteq Ids /\ K \in [DOMAIN K -> Keys]
    BY TypedIds DEF Typed, WaitingTyped, ServerTyped
  <2>2. rows \in ListOf(K) /\ OneRowPerKey(rows)
    BY DEF Typed, ServerTyped, TrackInv, Standing
  <2>3. QED BY <2>1, <2>2, ChangeParts, ServedIn
<1>4. OneRowPerKey(u)
  BY <1>3, ServedVaries
<1>5. /\ Len(queue) \in Nat /\ DOMAIN queue = 1 .. Len(queue) /\ spent.used.taps \in Nat
      /\ queue = <<>> <=> Len(queue) = 0
      /\ \A j \in 1 .. Len(queue) : queue[j].key \in Nat /\ queue[j].key < spent.used.taps
      /\ Meant(K, queue, spent.used.taps, R, T)
  <2>1. Meant(K, queue, spent.used.taps, R, T)
    BY <1>2 DEF Tracks
  <2>2. spent.used.taps \in Nat /\ queue \in Seq(ChangeOf(K))
    BY <2>1 DEF Meant
  <2>3. queue = <<>> <=> Len(queue) = 0
    BY <2>2
  <2>4. QED BY <1>3, <2>1, <2>2, <2>3, MeantParts
<1>6. /\ Tracks(K, R, T)'
      /\ replay.phase \in {"answered", "swapping"} => Agrees(K, excused', u, R[Current.key])
      /\ queue = <<>> => Agrees(K, excused', u, rows)
  <2>1. CASE queue # <<>> /\ op = queue[1]
    <3>1. /\ Agrees(K, excused, u, R[op.key])
          /\ Trajectory(K, excused, R, T, queue, u, ideal) /\ 1 \in DOMAIN queue
      BY <1>2, <1>5, <2>1, HeadLeads DEF TrackInv
    <3>2. ~overtaken
      BY <2>1, <3>1
    <3> HIDE DEF u, overtaken
    <3>3. excused' = excused
      BY <1>1, <3>2
    <3>4. Tracks(K, R, T)'
      BY <1>1, <1>2, <3>1, <3>3 DEF Tracks
    <3>5. replay.phase # "idle" => Current = op
      BY <2>1, HeadOnDisk
    <3>6. QED BY <2>1, <3>1, <3>3, <3>4, <3>5
  <2>2. CASE ~(queue # <<>> /\ op = queue[1])
    <3>1. /\ op.key < spent.used.taps
          /\ \A j \in 1 .. Len(queue) : op.key < queue[j].key
          /\ queue = <<>> /\ spent.used.taps = op.key + 1 => Agrees(K, excused, u, rows)
      BY <2>2 DEF TrackInv, InPlace
    <3>2. Agrees(K, excused', u, rows)
      <4>1. CASE spent.used.taps > op.key + 1
        <5>1. overtaken
          BY <1>3, <1>5, <3>1, <4>1
        <5> HIDE DEF overtaken
        <5>2. {k \in Keys : StatusIn(u, k) # StatusIn(rows, k)} \subseteq excused'
          BY <1>1, <5>1
        <5>3. QED BY <1>3, <5>2, ChangesShow
      <4>2. CASE ~(spent.used.taps > op.key + 1)
        <5>1. spent.used.taps = op.key + 1
          BY <1>3, <1>5, <3>1, <4>2
        <5>2. Len(queue) = 0
          <6>1. Len(queue) # 0 => 1 \in 1 .. Len(queue)
            BY <1>5
          <6>2. QED BY <1>3, <1>5, <3>1, <5>1, <6>1
        <5> HIDE DEF u, overtaken
        <5>3. Agrees(K, excused, u, rows) /\ excused \subseteq excused'
          BY <1>1, <1>5, <3>1, <5>1, <5>2
        <5>4. QED BY <5>3, ExtendsItself, AgreesMore
      <4>3. QED BY <4>1, <4>2
    <3> HIDE DEF u, overtaken
    <3>3. excused \subseteq excused'
      BY <1>1
    <3>4. /\ Trajectory(K, excused', R, T, queue, rows, ideal)
          /\ Aiming(queue, T, excused', alias)
      BY <1>2, <3>3, ExtendsItself, TrajectoryGrows, AimingGrows DEF Tracks
    <3>5. Trajectory(K, excused', R, T, queue, u, ideal)
      BY <1>3, <1>5, <3>2, <3>4, TrajectorySame
    <3>6. Tracks(K, R, T)'
      BY <1>1, <1>5, <3>4, <3>5 DEF Tracks
    <3>7. replay.phase \in {"answered", "swapping"} => Agrees(K, excused', rows, R[Current.key])
      BY <1>2, <3>3, ExtendsItself, AgreesMore DEF RunLed
    <3>8. QED BY <3>2, <3>6, <3>7, AgreesWith
  <2>3. QED BY <2>1, <2>2
<1> HIDE DEF u, overtaken
<1>7. excused \subseteq excused' /\ Current' = Current
  BY <1>1 DEF Current
<1>8. Standing(K)'
  BY <1>1, <1>4 DEF TrackInv, Standing
<1>9. RunLed(K, R, T)'
  BY <1>1, <1>2, <1>6, <1>7 DEF RunLed
<1>10. ASSUME NEW o \in late'
       PROVE  InPlace(K, o)'
  <2>1. InPlace(K, o) /\ o \in ChangeOf(K) /\ Request(K, o)
    BY <1>1, <1>3, <1>10, ChangeParts DEF TrackInv
  <2>2. CASE queue # <<>>
    BY <1>1, <2>1, <2>2 DEF InPlace
  <2>3. CASE queue = <<>>
    <3>1. ASSUME spent.used.taps = o.key + 1
          PROVE  Agrees(K, excused', Served(u, o).rows, u)
      <4>1. Agrees(K, excused', Served(rows, o).rows, rows)
        BY <1>7, <2>1, <2>3, <3>1, ExtendsItself, AgreesMore DEF InPlace
      <4>2. Agrees(K, excused', u, rows) /\ Agrees(K, excused', rows, u)
        BY <1>6, <2>3, AgreesWith
      <4>3. Agrees(K, excused', Served(u, o).rows, Served(rows, o).rows)
        BY <1>3, <2>1, <4>2, Follows
      <4>4. QED BY <4>1, <4>2, <4>3, AgreesWith
    <3>2. QED BY <1>1, <2>1, <2>3, <3>1 DEF InPlace
  <2>4. QED BY <2>2, <2>3
<1>11. QED BY <1>6, <1>8, <1>9, <1>10 DEF TrackInv

(* The oldest change leaves: nothing waits under an id that its add left.  *)
LEMMA TrackDequeue ==
    ASSUME FrontInv, NEW K, Typed(K), TrackInv(K), replay.phase \in {"answered", "swapping"},
           NEW rest \in Seq(ChangeOf(K)), Dequeue(queue, rest),
           UNCHANGED <<rows, late, known, ideal, alias, excused>>,
           \A T : (IsAdd(Current) /\ Current.of \notin excused => replay.answer.id = T[Current.key]) =>
              \A j \in 2 .. Len(queue) :
                 IsNamed(queue[j]) /\ queue[j].of \notin excused /\ AddOf(queue, 1, queue[j].id) =>
                    \/ T[queue[1].key] = queue[1].id
                    \/ \E b \in 2 .. j - 1 : AddOf(queue, b, queue[j].id)
    PROVE  TrackInv(K)'
<1>1. /\ queue' \in {queue, Tail(queue)} /\ replay'.phase \in {"idle", "wire"}
      /\ queue # <<>> /\ queue[1] = Current /\ queue \in Seq(ChangeOf(K))
  BY DequeueTyped, HeadOnDisk DEF Typed, WaitingTyped
<1>2. spent'.used.taps = spent.used.taps
  <2>1. UNCHANGED spent \/ Spend("faults")
    BY DEF Dequeue
  <2>2. QED BY <2>1, SpentOne
<1>3. CASE queue' = queue
  BY <1>1, <1>2, <1>3, TrackStays
<1>4. CASE queue' = Tail(queue)
  <2>1. PICK R, T : Tracks(K, R, T) /\ RunLed(K, R, T)
    BY DEF TrackInv
  <2>2. /\ queue[1] \in ChangeOf(K) /\ queue[1].key \in Nat /\ queue[1].key < spent.used.taps
        /\ 1 \in 1 .. Len(queue)
        /\ Agrees(K, excused, Served(rows, queue[1]).rows, R[queue[1].key])
    BY <1>1, <2>1, HeadLeads DEF TrackInv
  <2>3. /\ Agrees(K, excused, rows, R[queue[1].key])
        /\ IsAdd(Current) /\ Current.of \notin excused => replay.answer.id = T[Current.key]
    BY <1>1, <2>1 DEF RunLed
  <2>4. /\ DOMAIN K \subseteq Ids /\ rows \in ListOf(K)
        /\ Meant(K, queue, spent.used.taps, R, T)
        /\ Trajectory(K, excused, R, T, queue, rows, ideal)
        /\ Aiming(queue, T, excused, alias)
    BY <2>1, TypedIds DEF Typed, ServerTyped, Tracks
  <2>5. /\ Meant(K, Tail(queue), spent.used.taps, R, T)
        /\ Trajectory(K, excused, R, T, Tail(queue), rows, ideal)
    BY <1>1, <2>3, <2>4, TrajectoryTail
  <2>6. Aiming(Tail(queue), T, excused, alias)
    <3>1. \A j \in 2 .. Len(queue) :
             IsNamed(queue[j]) /\ queue[j].of \notin excused /\ AddOf(queue, 1, queue[j].id) =>
                \/ T[queue[1].key] = queue[1].id
                \/ \E b \in 2 .. j - 1 : AddOf(queue, b, queue[j].id)
      BY <2>3
    <3>2. QED BY <1>1, <2>4, <3>1, AimingTail
  <2>7. Tracks(K, R, T)'
    BY <1>2, <1>4, <2>5, <2>6 DEF Tracks
  <2>8. RunLed(K, R, T)'
    BY <1>1 DEF RunLed
  <2>9. Standing(K)'
    BY DEF TrackInv, Standing
  <2>10. /\ Len(queue) \in Nat /\ Len(queue) # 0 /\ Len(Tail(queue)) = Len(queue) - 1
         /\ \A j \in 1 .. Len(queue) - 1 : /\ Tail(queue)[j] = queue[j + 1]
                                           /\ j + 1 \in 1 .. Len(queue) /\ 1 < j + 1
    <3>1. Len(queue) \in Nat /\ Len(queue) # 0
      BY <1>1, LenProperties, EmptySeq
    <3>2. Len(Tail(queue)) = Len(queue) - 1 /\ \A j \in 1 .. Len(queue) - 1 : Tail(queue)[j] = queue[j + 1]
      BY <1>1, <3>1
    <3>3. QED BY <3>1, <3>2
  <2>11. spent.used.taps \in Nat /\ InOrder(queue, spent.used.taps)
    BY <2>4 DEF Meant
  <2>12. ASSUME NEW op \in late'
         PROVE  InPlace(K, op)'
    <3>1. InPlace(K, op) /\ op \in ChangeOf(K) /\ op.key \in Nat
      BY <2>4, ChangeParts DEF TrackInv, Typed, WaitingTyped
    <3>2. op.key < spent.used.taps /\ op.key <= queue[1].key
      BY <2>2, <3>1 DEF InPlace
    <3>3. \A j \in 1 .. Len(Tail(queue)) : op.key < Tail(queue)[j].key
      <4>1. ASSUME NEW j \in 1 .. Len(queue) - 1
            PROVE  op.key < Tail(queue)[j].key
        <5>1. Tail(queue)[j] = queue[j + 1] /\ j + 1 \in 1 .. Len(queue) /\ 1 < j + 1
          BY <2>10
        <5>2. queue[1].key < queue[j + 1].key /\ queue[j + 1].key \in Nat
          BY <2>2, <2>4, <2>11, <5>1, MeantParts DEF InOrder
        <5>3. QED BY <2>2, <3>1, <3>2, <5>1, <5>2
      <4>2. QED BY <2>10, <4>1
    <3>4. ASSUME spent.used.taps = op.key + 1
          PROVE  Agrees(K, excused, Served(rows, op).rows, rows)
      <4>1. op = queue[1]
        <5>1. CASE op.key < queue[1].key
          BY <2>2, <2>11, <3>1, <3>4, <5>1
        <5>2. CASE ~(op.key < queue[1].key)
          BY <2>2, <3>1, <5>2 DEF InPlace
        <5>3. QED BY <5>1, <5>2
      <4>2. QED BY <2>2, <2>3, <4>1, AgreesWith
    <3>5. QED BY <1>2, <1>4, <3>2, <3>3, <3>4 DEF InPlace
  <2>13. QED BY <2>7, <2>8, <2>9, <2>12 DEF TrackInv
<1>5. QED BY <1>1, <1>3, <1>4

LEMMA TrackAnswer ==
    ASSUME FrontInv, NEW K, Typed(K), TrackInv(K), HandleOk \/ HandleGone \/ SwapEnds
    PROVE  TrackInv(K)'
<1>1. CASE HandleOk \/ HandleGone
  <2>1. /\ replay.phase = "answered" /\ Dequeue(queue, Rest)
        /\ UNCHANGED <<rows, late, known, ideal, alias, excused>>
        /\ Current.kind = "add" => replay.answer.id = Current.id
    <3>1. CASE HandleOk
      BY <3>1 DEF HandleOk, Swaps, server, history
    <3>2. CASE HandleGone
      <4>1. replay.phase = "answered" /\ replay.answer.kind = "gone"
        BY <3>2 DEF HandleGone
      <4>2. Current.kind # "add"
        BY <4>1, AnswerTyped DEF AnswerFor
      <4>3. QED BY <3>2, <4>2 DEF HandleGone, server, history
    <3>3. QED BY <1>1, <3>1, <3>2
  <2>2. queue[1] = Current /\ Rest \in Seq(ChangeOf(K)) /\ Current \in ChangeOf(K)
    BY <2>1, HeadOnDisk, CurrentTyped
  <2>3. /\ queue \in Seq(ChangeOf(K)) /\ DOMAIN K \subseteq Ids
        /\ \A j \in 2 .. Len(queue) : queue[j] \in ChangeOf(K)
    BY TypedIds DEF Typed, WaitingTyped
  <2>4. \A j \in 2 .. Len(queue) : IsNamed(queue[j]) /\ AddOf(queue, 1, queue[j].id) =>
           IsAdd(Current) /\ queue[j].of = Current.of
    BY <2>2, <2>3, ChangeParts DEF AddOf
  <2>5. QED BY <2>1, <2>2, <2>4, TrackDequeue DEF IsAdd
<1>2. CASE SwapEnds
  <2> DEFINE rest == IF replay.rewrote THEN Repointed(Rest, Current.id, replay.answer.id) ELSE Rest
  <2>1. /\ replay.phase = "swapping" /\ Dequeue(queue, rest)
        /\ UNCHANGED <<rows, late, known, ideal, alias, excused>>
    BY <1>2 DEF SwapEnds, server, history
  <2>2. rest \in Seq(ChangeOf(K))
    <3>1. Rest \in Seq(ChangeOf(K)) /\ Current.kind = "add"
      BY <2>1, CurrentTyped, HeadOnDisk
    <3>2. QED BY <2>1, <3>1, LandedOn, TypedIds, RepointedTyped
  <2> HIDE DEF rest
  <2>3. queue[1] = Current
    BY <2>1, HeadOnDisk
  <2>4. \A j \in 2 .. Len(queue) :
           IsNamed(queue[j]) /\ queue[j].of \notin excused /\ AddOf(queue, 1, queue[j].id) =>
              \E b \in 2 .. j - 1 : AddOf(queue, b, queue[j].id)
    BY <2>1, <2>3 DEF TrackInv, RunLed, AddOf
  <2>5. QED BY <2>1, <2>2, <2>4, TrackDequeue
<1>3. QED BY <1>1, <1>2

(* An add turns out to be another row, and what waits under its id is      *)
(* pointed there, or storage refuses and its key is set aside.             *)
LEMMA TrackSwap ==
    ASSUME FrontInv, NEW K, Typed(K), TrackInv(K), SwapStarts
    PROVE  TrackInv(K)'
<1> DEFINE to == replay.answer.id
           stale == NamedBy(queue, Current.id)
<1>1. /\ replay.phase = "answered" /\ Current.kind = "add" /\ to # Current.id
      /\ UNCHANGED <<rows, late, ideal, alias>>
      /\ \/ /\ queue' = Repointed(queue, Current.id, to)
            /\ \E m, r : replay' = [replay EXCEPT !.phase = "swapping", !.moved = m, !.rewrote = r]
            /\ UNCHANGED <<spent, excused>>
         \/ /\ Spend("faults")
            /\ replay' = [replay EXCEPT !.phase = "swapping"]
            /\ excused' = excused \cup {stale[j].of : j \in DOMAIN stale}
            /\ UNCHANGED queue
  BY DEF SwapStarts, Swaps, server
<1>2. /\ replay'.phase = "swapping" /\ replay'.entries = replay.entries /\ replay'.answer = replay.answer
      /\ Current' = Current
  BY <1>1 DEF FrontInv, Current
<1>3. PICK R, T : Tracks(K, R, T) /\ RunLed(K, R, T)
  BY DEF TrackInv
<1>4. /\ queue # <<>> /\ queue[1] = Current /\ queue \in Seq(ChangeOf(K)) /\ IsAdd(queue[1])
      /\ DOMAIN K \subseteq Ids /\ to \in DOMAIN K /\ K[to] = K[queue[1].id] /\ queue[1].id \in DOMAIN K
      /\ to # queue[1].id
  BY <1>1, HeadOnDisk, LandedOn, TypedIds DEF Typed, WaitingTyped, IsAdd
<1>5. /\ Agrees(K, excused, rows, R[Current.key])
      /\ Current.of \notin excused => to = T[Current.key]
  BY <1>1, <1>3, <1>4 DEF RunLed
<1>6. /\ Meant(K, queue, spent.used.taps, R, T)
      /\ Trajectory(K, excused, R, T, queue, rows, ideal)
      /\ Aiming(queue, T, excused, alias)
  BY <1>3 DEF Tracks
<1>7. Standing(K)'
  BY <1>1 DEF TrackInv, Standing
<1>8. CASE /\ queue' = Repointed(queue, Current.id, to)
           /\ UNCHANGED <<spent, excused>>
  <2> DEFINE p == Repointed(queue, queue[1].id, to)
  <2>1. /\ Meant(K, p, spent.used.taps, R, T)
        /\ Trajectory(K, excused, R, T, p, rows, ideal)
    BY <1>4, <1>6, TrajectoryRepointed
  <2>2. /\ Aiming(p, T, excused, alias)
        /\ \A j \in 1 .. Len(p) : IsNamed(p[j]) => p[j].id # queue[1].id
    BY <1>4, <1>5, <1>6, AimingRepointed
  <2>3. /\ Len(p) = Len(queue) /\ 1 \in DOMAIN queue /\ Len(queue) \in Nat
        /\ \A j \in DOMAIN queue :
              p[j] = IF Targets(queue[j], queue[1].id) THEN [queue[j] EXCEPT !.id = to] ELSE queue[j]
        /\ p \in Seq(ChangeOf(K)) /\ DOMAIN queue = 1 .. Len(queue)
    <3>1. 1 \in DOMAIN queue /\ DOMAIN queue = 1 .. Len(queue) /\ Len(queue) \in Nat
      BY <1>4, LenProperties, EmptySeq
    <3>2. QED BY <1>4, <3>1, RepointedTyped
  <2>4. queue' = p
    BY <1>4, <1>8
  <2> HIDE DEF p, to
  <2>5. p[1] = queue[1] /\ p # <<>>
    <3>1. ~Targets(queue[1], queue[1].id)
      BY <1>4 DEF Targets, IsAdd
    <3>2. p[1] = queue[1]
      BY <2>3, <3>1
    <3>3. p # <<>>
      BY <1>4, <2>3, EmptySeq, LenProperties
    <3>4. QED BY <3>2, <3>3
  <2>6. \A j \in 1 .. Len(queue) : p[j].key = queue[j].key
    <3>1. \A j \in 1 .. Len(queue) : queue[j] \in OpSet
      BY <1>4 DEF ChangeOf
    <3>2. QED BY <2>3, <3>1 DEF OpSet
  <2>7. Tracks(K, R, T)'
    BY <1>1, <1>8, <2>1, <2>2, <2>4 DEF Tracks
  <2>8. RunLed(K, R, T)'
    <3>1. \A j \in 2 .. Len(p) : ~(IsNamed(p[j]) /\ p[j].id = Current.id)
      <4>1. \A j \in 2 .. Len(p) : j \in 1 .. Len(p)
        BY <2>3
      <4>2. QED BY <1>4, <2>2, <4>1
    <3>2. QED BY <1>1, <1>2, <1>4, <1>5, <1>8, <2>4, <3>1 DEF RunLed, to
  <2>9. ASSUME NEW op \in late'
        PROVE  InPlace(K, op)'
    <3>1. InPlace(K, op) /\ queue' # <<>> /\ queue'[1] = queue[1]
      BY <1>1, <2>4, <2>5, <2>9 DEF TrackInv
    <3>2. \A j \in 1 .. Len(queue') : j \in 1 .. Len(queue) /\ queue'[j].key = queue[j].key
      BY <2>3, <2>4, <2>6
    <3>3. QED BY <1>8, <3>1, <3>2 DEF InPlace
  <2>10. QED BY <1>7, <2>7, <2>8, <2>9 DEF TrackInv
<1>9. CASE /\ Spend("faults")
           /\ excused' = excused \cup {stale[j].of : j \in DOMAIN stale}
           /\ UNCHANGED queue
  <2>1. spent'.used.taps = spent.used.taps
    BY <1>9, SpentOne
  <2>2. excused \subseteq excused'
    BY <1>9
  <2>3. \A j \in 1 .. Len(queue) : IsNamed(queue[j]) /\ queue[j].id = Current.id =>
           queue[j].of \in excused'
    <3>1. \A j \in DOMAIN queue : Targets(queue[j], Current.id) =>
             \E l \in DOMAIN stale : stale[l] = queue[j]
      <4>1. queue \in Seq(ChangeOf(K))
        BY <1>4
      <4>2. QED BY <4>1, NamedByAll
    <3>2. DOMAIN queue = 1 .. Len(queue)
      BY <1>4, LenProperties
    <3> HIDE DEF stale
    <3>3. QED BY <1>9, <3>1, <3>2 DEF Targets, IsNamed
  <2> HIDE DEF stale, to
  <2>4. /\ Trajectory(K, excused', R, T, queue, rows, ideal)
        /\ Aiming(queue, T, excused', alias)
        /\ Agrees(K, excused', rows, R[Current.key])
    BY <1>5, <1>6, <2>2, ExtendsItself, TrajectoryGrows, AimingGrows, AgreesMore
  <2>5. Tracks(K, R, T)'
    BY <1>1, <1>6, <1>9, <2>1, <2>4 DEF Tracks
  <2>6. RunLed(K, R, T)'
    <3>1. \A j \in 2 .. Len(queue) :
             ~(IsNamed(queue[j]) /\ queue[j].of \notin excused' /\ queue[j].id = Current.id)
      <4>1. \A j \in 2 .. Len(queue) : j \in 1 .. Len(queue)
        OBVIOUS
      <4>2. QED BY <2>3, <4>1
    <3>2. QED BY <1>1, <1>2, <1>5, <1>9, <2>2, <2>4, <3>1 DEF RunLed, to
  <2>7. \A op \in late' : InPlace(K, op)'
    BY <1>1, <1>4, <1>9, <2>1 DEF TrackInv, InPlace
  <2>8. QED BY <1>7, <2>5, <2>6, <2>7 DEF TrackInv
<1>10. QED BY <1>1, <1>8, <1>9
-----------------------------------------------------------------------------
(* Same as online: a tap.                                                  *)

LEMMA TrackGrows ==
    ASSUME NEW K, NEW K2, Extends(K, K2), DOMAIN K2 \subseteq Ids, alias \in [Ids -> Ids], TrackInv(K)
    PROVE  TrackInv(K2)
<1>1. Standing(K2)
  <2>1. ideal \in ListOf(K2)
    BY ListGrows DEF TrackInv, Standing
  <2>2. \A i \in DOMAIN K2 : alias[i] \in DOMAIN K2 /\ K2[alias[i]] = K2[i]
    BY DEF TrackInv, Standing, Extends
  <2>3. QED BY <2>1, <2>2 DEF TrackInv, Standing, Extends
<1>2. ASSUME NEW op \in late
      PROVE  InPlace(K2, op)
  <2>1. \A v, w : Agrees(K, excused, v, w) => Agrees(K2, excused, v, w)
    BY AgreesMore
  <2>2. QED BY <1>2, <2>1 DEF TrackInv, InPlace
<1>3. PICK R, T : Tracks(K, R, T) /\ RunLed(K, R, T)
  BY DEF TrackInv
<1>4. Tracks(K2, R, T)
  BY <1>3, MeantGrows, TrajectoryGrows DEF Tracks
<1>5. RunLed(K2, R, T)
  BY <1>3, AgreesMore DEF RunLed
<1>6. QED BY <1>1, <1>2, <1>4, <1>5 DEF TrackInv

(* An add shows at most the row it lands on, and nothing else shows any.   *)
LEMMA RequestShows ==
    ASSUME NEW K, DOMAIN K \subseteq Ids, NEW v \in ListOf(K), NEW op, Request(K, op)
    PROVE  LET s == Served(v, op) IN
           /\ op.kind # "add" => Shown(s.rows) \subseteq Shown(v)
           /\ op.kind = "add" => /\ s.answer.id \in Shown(s.rows)
                                 /\ s.answer.id \in Shown(v) \cup {op.sent}
                                 /\ Shown(s.rows) \subseteq Shown(v) \cup {s.answer.id}
<1> DEFINE s == Served(v, op)
<1>1. v \in List
  BY DEF ListOf
<1>2. CASE op.kind = "add"
  <2>1. op.sent \in Ids /\ op.name \in Names
    BY <1>2, RequestParts
  <2>2. PICK i \in Ids, row \in Row :
            s = Upserted(v, i, row) /\ i \in Shown(v) \cup {op.sent}
    BY <1>1, <1>2, <2>1, AddServed
  <2>3. row # NoRow
    BY ConstantFacts
  <2>4. /\ s.answer.id = i /\ s.rows[i] = row
        /\ \A j \in Ids : j # i => s.rows[j] = v[j]
    BY <1>1, <2>2, Placed
  <2> HIDE DEF s
  <2>5. QED BY <1>2, <2>2, <2>3, <2>4 DEF Shown, s
<1>3. CASE op.kind \in {"check", "uncheck"}
  <2>1. op.id \in Ids
    BY <1>3, RequestParts
  <2>2. CASE v[op.id] = NoRow
    <3>1. s.rows = v
      BY <1>3, <2>2, ToggleCases
    <3>2. QED BY <1>3, <3>1
  <2>3. CASE v[op.id] # NoRow
    <3>1. s = Upserted(v, op.id, Renewed(v[op.id], StatusOf(op.kind)))
      BY <1>3, <2>3, ToggleCases
    <3>2. \A j \in Ids : j # op.id => s.rows[j] = v[j]
      BY <1>1, <2>1, <3>1, Placed
    <3> HIDE DEF s
    <3>3. QED BY <1>3, <2>1, <2>3, <3>2 DEF Shown, s
  <2>4. QED BY <2>2, <2>3
<1>4. CASE op.kind = "delete"
  <2>1. s.rows = RemoveId(v, op.id)
    BY <1>1, <1>4, DeleteCases
  <2> HIDE DEF s
  <2>2. Shown(s.rows) \subseteq Shown(v)
    BY <1>1, <2>1 DEF RemoveId, Shown, List
  <2>3. QED BY <1>4, <2>2 DEF s
<1>5. CASE op.kind = "clear"
  <2>1. s.rows = EmptyBasket(v)
    BY <1>5, ClearServed
  <2> HIDE DEF s
  <2>2. Shown(s.rows) \subseteq Shown(v)
    BY <1>1, <2>1 DEF EmptyBasket, Shown
  <2>3. QED BY <1>5, <2>2 DEF s
<1>6. QED BY <1>2, <1>3, <1>4, <1>5, RequestParts

(* The row a tap is about: where its add lands, what its id stands for.    *)
AboutNow(op) ==
    IF IsAdd(op) THEN SentAtOnce(op).answer.id ELSE IF IsNamed(op) THEN alias[op.id] ELSE NoId

LEMMA SentAsMeant ==
    ASSUME NEW K, DOMAIN K \subseteq Ids, Standing(K), NEW op \in ChangeOf(K),
           NEW T, T[op.key] = AboutNow(op)
    PROVE  /\ SentAtOnce(op) = Served(ideal, Aimed(T, op)) /\ Request(K, Aimed(T, op))
           /\ AboutNow(op) \in Ids \cup {NoId} /\ AimOf(K, T, op)
           /\ IsAdd(op) => AboutNow(op) = Served(ideal, op).answer.id /\ Aimed(T, op) = op
           /\ Aimed(T, op).kind = op.kind
<1>1. /\ Request(K, op) /\ (IsAdd(op) \/ IsNamed(op) \/ op.kind = "clear")
      /\ IsAdd(op) => op.of = K[op.sent]
      /\ IsNamed(op) => op.id \in DOMAIN K /\ op.of = K[op.id]
  BY ChangeParts
<1>2. ideal \in ListOf(K)
  BY DEF Standing
<1>3. CASE IsAdd(op)
  <2>1. SentAtOnce(op) = Served(ideal, op) /\ Aimed(T, op) = op /\ AboutNow(op) = Served(ideal, op).answer.id
    BY <1>3 DEF SentAtOnce, Aimed, AboutNow, IsAdd, IsNamed
  <2>2. Served(ideal, op).answer.id \in DOMAIN K /\ K[Served(ideal, op).answer.id] = op.of
    BY <1>1, <1>2, <1>3, ServedIn DEF IsAdd
  <2>3. QED BY <1>1, <2>1, <2>2 DEF AimOf
<1>4. CASE IsNamed(op)
  <2>1. ~IsAdd(op) /\ op.kind \notin {"add", "clear"}
    BY <1>4 DEF IsAdd, IsNamed
  <2>2. T[op.key] = alias[op.id] /\ AboutNow(op) = alias[op.id]
    BY <1>4, <2>1 DEF AboutNow
  <2>3. AimOf(K, T, op) /\ alias[op.id] \in DOMAIN K
    BY <1>1, <1>4, <2>2 DEF Standing, AimOf
  <2>4. SentAtOnce(op) = Served(ideal, Aimed(T, op))
    BY <1>4, <2>1, <2>2 DEF SentAtOnce, Aimed
  <2>5. QED BY <2>1, <2>2, <2>3, <2>4, AimedParts
<1>5. CASE op.kind = "clear"
  <2>1. ~IsAdd(op) /\ ~IsNamed(op)
    BY <1>5 DEF IsAdd, IsNamed
  <2>2. QED BY <1>1, <1>5, <2>1 DEF SentAtOnce, Aimed, AboutNow, AimOf
<1>6. QED BY <1>1, <1>3, <1>4, <1>5

(* The list as it should be, and what ids on screen stand for, after a tap.*)
LEMMA StandingTap ==
    ASSUME NEW K, DOMAIN K \subseteq Ids, Standing(K), alias \in [Ids -> Ids],
           NEW op \in ChangeOf(K), IsAdd(op) => alias[op.sent] = op.sent,
           ideal' = SentAtOnce(op).rows, alias' = AliasAfter(op), UNCHANGED rows
    PROVE  /\ Standing(K)'
           /\ IsAdd(op) => /\ alias' = [alias EXCEPT ![op.id] = AboutNow(op)]
                           /\ op.id \in Ids /\ AboutNow(op) \in Ids
                           /\ AboutNow(op) # op.id => alias[AboutNow(op)] = AboutNow(op)
           /\ ~IsAdd(op) => alias' = alias
<1> DEFINE t == AboutNow(op)
<1>1. PICK T : T = [m \in {op.key} |-> t]
  OBVIOUS
<1>2. T[op.key] = t
  BY <1>1
<1> DEFINE o == Aimed(T, op)
<1>3. /\ ideal' = Served(ideal, o).rows /\ Request(K, o) /\ o.kind = op.kind
      /\ IsAdd(op) => t = Served(ideal, op).answer.id /\ o = op
  BY <1>2, SentAsMeant
<1>4. ideal \in ListOf(K) /\ OneRowPerKey(ideal)
  BY DEF Standing
<1> HIDE DEF o, t
<1>5. ideal' \in ListOf(K) /\ OneRowPerKey(ideal')
  BY <1>3, <1>4, ServedIn, ServedVaries
<1>6. CASE ~IsAdd(op)
  <2>1. alias' = alias /\ o.kind # "add"
    BY <1>3, <1>6 DEF AliasAfter, IsAdd
  <2>2. Shown(ideal') \subseteq Shown(ideal)
    BY <1>3, <1>4, <2>1, RequestShows
  <2>3. QED BY <1>5, <1>6, <2>1, <2>2 DEF Standing
<1>7. CASE IsAdd(op)
  <2>1. /\ op.kind = "add" /\ op.id \in DOMAIN K /\ op.id \in Ids
        /\ K[op.sent] = K[op.id] /\ op.sent \in Ids
    BY <1>7, ChangeParts DEF IsAdd
  <2>2. t = SentAtOnce(op).answer.id
    BY <1>7 DEF AboutNow, t
  <2>3. alias' = [alias EXCEPT ![op.id] = t]
    BY <2>1, <2>2 DEF AliasAfter
  <2>4. alias'[op.id] = t /\ \A i \in Ids : i # op.id => alias'[i] = alias[i]
    BY <2>1, <2>3
  <2>5. /\ t \in Shown(ideal') /\ t \in Shown(ideal) \cup {op.sent}
        /\ Shown(ideal') \subseteq Shown(ideal) \cup {t}
    BY <1>3, <1>4, <1>7, <2>1, RequestShows
  <2>6. t \in DOMAIN K /\ K[t] = K[op.sent]
    BY <1>3, <1>4, <1>7, <2>1, ServedIn
  <2>7. alias[t] = t
    BY <1>7, <2>5 DEF Standing
  <2>8. ASSUME NEW i \in Shown(ideal')
        PROVE  alias'[i] = i
    <3>1. alias[i] = i /\ i \in Ids
      BY <2>5, <2>7, <2>8 DEF Standing, Shown
    <3>2. CASE i = op.id
      <4>1. KeyOf[ideal'[i].name] = KeyOf[ideal'[t].name]
        BY <1>5, <2>1, <2>5, <2>6, <2>8, <3>2 DEF ListOf
      <4>2. i = t
        BY <1>5, <2>5, <2>8, <4>1 DEF OneRowPerKey
      <4>3. QED BY <2>4, <3>2, <4>2
    <3>3. QED BY <2>4, <3>1, <3>2
  <2>9. \A i \in DOMAIN K : alias'[i] \in DOMAIN K /\ K[alias'[i]] = K[i]
    BY <2>1, <2>4, <2>6 DEF Standing
  <2>10. \A i \in Ids \ DOMAIN K : alias'[i] = i
    BY <2>1, <2>4 DEF Standing
  <2>11. OneRowPerKey(rows)'
    BY DEF Standing, OneRowPerKey, Shown
  <2>12. Standing(K)'
    BY <1>5, <2>8, <2>9, <2>10, <2>11 DEF Standing, OneRowPerKey, Shown
  <2>13. QED BY <1>7, <2>1, <2>3, <2>6, <2>7, <2>12 DEF t
<1>8. QED BY <1>6, <1>7

(* What is tapped within reach is the row its id stands for, in a swap too.*)
LEMMA TapStands ==
    ASSUME FrontInv, NEW K, DOMAIN K \subseteq Ids, NEW R, NEW T, Tracks(K, R, T), RunLed(K, R, T),
           NEW op \in ChangeOf(K), IsNamed(op), op.of \notin excused, ~OutOfReach(op.id)
    PROVE  /\ Stands(queue, T, Len(queue), op.id, alias[op.id])
           /\ replay.phase = "swapping" /\ op.id = Current.id =>
                 \E b \in 2 .. Len(queue) : AddOf(queue, b, Current.id)
<1>1. /\ Len(queue) \in Nat /\ DOMAIN queue = 1 .. Len(queue)
      /\ \A j \in 1 .. Len(queue) : queue[j] \in ChangeOf(K)
  BY MeantParts DEF Tracks
<1>2. ASSUME NEW a \in 1 .. Len(queue), AddOf(queue, a, op.id)
      PROVE  /\ queue[a].of \notin excused
             /\ Stands(queue, T, Len(queue), op.id, alias[op.id])
  <2>1. IsAdd(queue[a]) /\ queue[a].id = op.id /\ queue[a] \in ChangeOf(K)
    BY <1>1, <1>2 DEF AddOf
  <2>2. queue[a].of \notin excused
    BY <2>1, ChangeParts
  <2>3. QED BY <2>1, <2>2 DEF Tracks, Aiming, AliasesStand
<1>3. \/ op.id \in known /\ alias[op.id] = op.id
      \/ \E j \in 1 .. Len(queue) :
            AddOf(queue, j, op.id) /\ ~(replay.phase = "swapping" /\ Current.key = queue[j].key)
  BY <1>1 DEF OutOfReach, AddOf, IsAdd
<1>4. Stands(queue, T, Len(queue), op.id, alias[op.id])
  <2>1. CASE \E a \in 1 .. Len(queue) : AddOf(queue, a, op.id)
    BY <1>2, <2>1
  <2>2. CASE ~\E a \in 1 .. Len(queue) : AddOf(queue, a, op.id)
    BY <1>3, <2>2 DEF Stands
  <2>3. QED BY <2>1, <2>2
<1>5. ASSUME replay.phase = "swapping", op.id = Current.id
      PROVE  \E b \in 2 .. Len(queue) : AddOf(queue, b, Current.id)
  <2>1. /\ queue # <<>> /\ queue[1] = Current /\ Current.kind = "add"
        /\ replay.answer.id # Current.id
        /\ Current.of \notin excused => replay.answer.id = T[Current.key]
    BY <1>5, HeadOnDisk DEF RunLed, IsAdd
  <2>2. 1 \in 1 .. Len(queue) /\ AddOf(queue, 1, op.id)
    <3>1. queue \in Seq(ChangeOf(K))
      BY DEF Tracks, Meant
    <3>2. QED BY <1>5, <2>1, <3>1 DEF AddOf, IsAdd
  <2>3. T[queue[1].key] # op.id
    BY <1>2, <1>5, <2>1, <2>2
  <2>4. PICK b \in 1 .. Len(queue) : b # 1 /\ AddOf(queue, b, op.id)
    <3>1. CASE op.id \in known /\ alias[op.id] = op.id
      <4>1. PICK a \in 1 .. Len(queue) : T[queue[a].key] = op.id /\ AddOf(queue, a, op.id)
        BY <1>4, <2>2, <3>1 DEF Stands
      <4>2. QED BY <2>3, <4>1
    <3>2. CASE \E j \in 1 .. Len(queue) : AddOf(queue, j, op.id) /\ Current.key # queue[j].key
      BY <2>1, <3>2
    <3>3. QED BY <1>3, <1>5, <3>1, <3>2
  <2>5. b \in 2 .. Len(queue)
    BY <1>1, <2>4
  <2>6. QED BY <1>5, <2>4, <2>5
<1>6. QED BY <1>4, <1>5

(* An add that does not stray lands where the add it meets did.            *)
LEMMA TapMeets ==
    ASSUME NEW K, DOMAIN K \subseteq Ids, NEW R, NEW T, Tracks(K, R, T),
           NEW op \in ChangeOf(K), IsAdd(op), op.of \notin excused => ~Strays(op),
           NEW a \in 1 .. Len(queue), IsAdd(queue[a]), queue[a].of \notin excused,
           T[queue[a].key] # queue[a].id, op.id \in {queue[a].id, T[queue[a].key]}
    PROVE  SentAtOnce(op).answer.id = T[queue[a].key]
<1> DEFINE q == queue
           t == T[q[a].key]
<1>1. /\ Len(q) \in Nat /\ DOMAIN q = 1 .. Len(q) /\ \A j \in 1 .. Len(q) : q[j] \in ChangeOf(K)
      /\ AimOf(K, T, q[a])
  BY MeantParts DEF Tracks
<1>2. /\ q[a].kind = "add" /\ q[a].of = K[q[a].id] /\ K[t] = q[a].of /\ op.of = K[op.id]
  BY <1>1, ChangeParts DEF AimOf, IsAdd
<1>3. op.of \notin excused
  BY <1>2
<1>4. alias[q[a].id] = t
  <2>1. Stands(q, T, Len(q), q[a].id, alias[q[a].id]) /\ AddOf(q, a, q[a].id)
    BY DEF Tracks, Aiming, AliasesStand, AddOf
  <2>2. PICK b \in 1 .. Len(q) : /\ T[q[b].key] = alias[q[a].id] /\ AddOf(q, b, q[a].id)
                                 /\ \A c \in b + 1 .. Len(q) : ~AddOf(q, c, q[a].id)
    BY <2>1 DEF Stands
  <2>3. CASE a = b
    BY <2>2, <2>3
  <2>4. CASE a # b
    <3>1. a < b
      BY <1>1, <2>1, <2>2, <2>4
    <3>2. T[q[b].key] = t
      BY <2>2, <3>1 DEF Tracks, Aiming, AddsMeet, AddOf
    <3>3. QED BY <2>2, <3>2
  <2>5. QED BY <2>3, <2>4
<1>5. ~Strays(op) /\ op.kind = "add" /\ a \in DOMAIN q
  BY <1>1, <1>3 DEF IsAdd
<1> HIDE DEF t
<1>6. t # q[a].id /\ op.id \in {q[a].id, t}
  BY DEF t
<1>7. SentAtOnce(op).answer.id = t
  BY <1>2, <1>4, <1>5, <1>6 DEF Strays
<1>8. QED BY <1>7 DEF t

LEMMA TrackTap ==
    ASSUME FrontInv, NEW K, DOMAIN K \subseteq Ids, TrackInv(K),
           rows \in ListOf(K), alias \in [Ids -> Ids],
           NEW op \in ChangeOf(K), op.key = spent.used.taps,
           IsAdd(op) => alias[op.sent] = op.sent,
           queue' = Append(queue, op), ideal' = SentAtOnce(op).rows, alias' = AliasAfter(op),
           excused' = excused \cup {k \in {op.of} :
                Strays(op) \/ (op.kind \notin {"add", "clear"} /\ OutOfReach(op.id))},
           spent'.used.taps = spent.used.taps + 1, late \subseteq ChangeOf(K),
           UNCHANGED <<rows, late, replay>>
    PROVE  TrackInv(K)'
<1> DEFINE n == spent.used.taps
           t == AboutNow(op)
           N == Len(queue)
<1>1. PICK R, T : Tracks(K, R, T) /\ RunLed(K, R, T)
  BY DEF TrackInv
<1>2. PICK R2, T2, X2 : /\ R2 = [R EXCEPT ![n] = ideal'] /\ T2 = [T EXCEPT ![n] = t]
                        /\ X2 = excused'
  OBVIOUS
<1>3. /\ Meant(K, queue, n, R, T) /\ n \in Nat /\ queue \in Seq(ChangeOf(K))
      /\ R \in [Nat -> ListOf(K)] /\ T \in [Nat -> Ids \cup {NoId}]
      /\ excused \subseteq X2 /\ Standing(K)
  BY <1>1, <1>2 DEF Tracks, Meant, TrackInv
<1>4. /\ N \in Nat /\ \A j \in 1 .. N : /\ queue[j] \in ChangeOf(K) /\ AimOf(K, T, queue[j])
                                        /\ queue[j].key \in Nat /\ queue[j].key < n
  BY <1>3, MeantParts
<1>5. T2[op.key] = t /\ R2[op.key] = ideal'
  BY <1>2, <1>3
<1>6. /\ Standing(K)'
      /\ IsAdd(op) => /\ alias' = [alias EXCEPT ![op.id] = t]
                      /\ op.id \in Ids /\ t \in Ids
                      /\ t # op.id => alias[t] = t
      /\ ~IsAdd(op) => alias' = alias
  BY <1>3, StandingTap
<1>7. /\ SentAtOnce(op) = Served(ideal, Aimed(T2, op)) /\ t \in Ids \cup {NoId}
      /\ AimOf(K, T2, op) /\ (IsAdd(op) => t = Served(ideal, op).answer.id)
  BY <1>3, <1>5, SentAsMeant
<1>8. Tracks(K, R2, T2)'
  <2>1. /\ Trajectory(K, X2, R, T, queue, rows, ideal)
        /\ Aiming(queue, T, X2, alias)
    BY <1>1, <1>3, ExtendsItself, TrajectoryGrows, AimingGrows DEF Tracks
  <2>2. ideal \in ListOf(K) /\ ideal' \in ListOf(K)
    BY <1>3, <1>6 DEF Standing
  <2>3. Leads(K, X2, T2, ideal, op, ideal')
    BY <1>5, <1>7, AgreesWith DEF Leads
  <2> HIDE DEF n, t, N
  <2>4. /\ Meant(K, Append(queue, op), n + 1, R2, T2)
        /\ Trajectory(K, X2, R2, T2, Append(queue, op), rows, ideal')
    <3>1. op.key = n
      BY DEF n
    <3>2. QED BY <1>2, <1>3, <1>7, <2>1, <2>2, <2>3, <3>1, TrajectoryAppend
  <2>5. Aiming(Append(queue, op), T2, X2, alias')
    <3>1. IsNamed(op) /\ op.of \notin X2 => Stands(queue, T, Len(queue), op.id, t)
      <4>1. ASSUME IsNamed(op), op.of \notin X2
            PROVE  Stands(queue, T, Len(queue), op.id, t)
        <5>1. op.kind \notin {"add", "clear"} /\ ~IsAdd(op)
          BY <4>1 DEF IsNamed, IsAdd
        <5>2. ~OutOfReach(op.id) /\ op.of \notin excused
          BY <1>2, <4>1, <5>1
        <5>3. Stands(queue, T, Len(queue), op.id, alias[op.id])
          BY <1>1, <4>1, <5>2, TapStands
        <5>4. QED BY <4>1, <5>1, <5>3 DEF AboutNow, t
      <4>2. QED BY <4>1
    <3>2. ASSUME IsAdd(op), NEW a \in 1 .. Len(queue), IsAdd(queue[a]), queue[a].of \notin X2,
                 T[queue[a].key] # queue[a].id, op.id \in {queue[a].id, T[queue[a].key]}
          PROVE  t = T[queue[a].key]
      <4>1. K[op.id] = op.of /\ K[queue[a].id] = queue[a].of /\ K[T[queue[a].key]] = queue[a].of
        BY <1>4, <3>2, ChangeParts DEF AimOf, IsAdd, N
      <4>2. ~Strays(op) /\ queue[a].of \notin excused
        BY <1>2, <3>2, <4>1
      <4>3. QED BY <1>1, <3>2, <4>2, TapMeets DEF AboutNow, t
    <3>3. \A j \in 1 .. Len(queue) :
             /\ queue[j].key \in Nat /\ queue[j].key < n
             /\ IsAdd(queue[j]) => queue[j].id \in Ids /\ T[queue[j].key] \in Ids
      BY <1>4, ChangeParts DEF AimOf, IsAdd, N
    <3>4. op.key = n
      BY DEF n
    <3> DEFINE al2 == alias'
    <3>5. /\ ~IsAdd(op) => al2 = alias
          /\ IsAdd(op) => /\ op.id \in Ids /\ al2 = [alias EXCEPT ![op.id] = t]
                          /\ t # op.id => alias[t] = t /\ t \in Ids
      BY <1>6
    <3> HIDE DEF al2
    <3>6. Aiming(Append(queue, op), [T EXCEPT ![n] = t], X2, al2)
      <4>1. /\ queue \in Seq(ChangeOf(K)) /\ op \in ChangeOf(K) /\ n \in Nat
            /\ T \in [Nat -> Ids \cup {NoId}] /\ alias \in [Ids -> Ids]
            /\ t \in Ids \cup {NoId} /\ Aiming(queue, T, X2, alias) /\ op.key = n
        BY <1>3, <1>7, <2>1, <3>4
      <4>2. IsAdd(op) =>
               /\ op.id \in Ids /\ al2 = [alias EXCEPT ![op.id] = t]
               /\ t # op.id => alias[t] = t /\ t \in Ids
               /\ \A a \in 1 .. Len(queue) :
                     /\ IsAdd(queue[a]) /\ queue[a].of \notin X2 /\ T[queue[a].key] # queue[a].id
                     /\ op.id \in {queue[a].id, T[queue[a].key]}
                     => t = T[queue[a].key]
        BY <3>2, <3>5
      <4>3. ~IsAdd(op) => al2 = alias
        BY <3>5
      <4>4. QED BY ONLY <3>1, <3>3, <4>1, <4>2, <4>3, AimingAppend
    <3>7. QED BY <1>2, <3>6 DEF al2
  <2>6. QED BY <1>2, <2>4, <2>5 DEF Tracks, n
<1>9. /\ Len(queue') = N + 1 /\ queue'[N + 1] = op /\ queue' # <<>>
      /\ \A j \in 1 .. N : queue'[j] = queue[j]
  <2>1. Len(queue) \in Nat
    BY <1>4
  <2>2. Len(queue') = N + 1 /\ queue'[N + 1] = op /\ \A j \in 1 .. N : queue'[j] = queue[j]
    BY <1>3, <2>1
  <2>3. queue' # <<>>
    BY <1>3, <2>1, <2>2
  <2>4. QED BY <2>2, <2>3
<1>10. \A j \in 1 .. N : R2[queue[j].key] = R[queue[j].key] /\ T2[queue[j].key] = T[queue[j].key]
  BY <1>2, <1>3, <1>4
<1>11. queue # <<>> => 1 \in 1 .. N
  BY <1>3
<1>12. RunLed(K, R2, T2)'
  <2>1. CASE replay.phase \notin {"answered", "swapping"}
    BY <2>1 DEF RunLed
  <2>2. CASE replay.phase \in {"answered", "swapping"}
    <3>1. queue # <<>> /\ queue[1] = Current /\ Current' = Current
      BY <2>2, HeadOnDisk DEF Current
    <3>2. R2[Current.key] = R[Current.key] /\ T2[Current.key] = T[Current.key]
      BY <1>10, <1>11, <3>1
    <3>3. /\ Agrees(K, excused, rows, R[Current.key])
          /\ IsAdd(Current) /\ Current.of \notin excused => replay.answer.id = T[Current.key]
      BY <1>1, <2>2 DEF RunLed
    <3>4. Agrees(K, X2, rows, R[Current.key])
      BY <1>3, <3>3, ExtendsItself, AgreesMore
    <3>5. ASSUME replay.phase = "swapping", NEW j \in 2 .. N + 1, IsNamed(queue'[j]),
                 queue'[j].of \notin X2, queue'[j].id = Current.id
          PROVE  \E b \in 2 .. j - 1 : AddOf(queue', b, Current.id)
      <4>1. \A b \in 2 .. N : b \in 1 .. N
        BY <1>4
      <4>2. CASE j \in 2 .. N
        <5>1. \E b \in 2 .. j - 1 : AddOf(queue, b, Current.id)
          BY <1>1, <1>3, <1>9, <3>5, <4>1, <4>2 DEF RunLed
        <5>2. \A b \in 2 .. j - 1 : b \in 1 .. N
          BY <1>4, <4>2
        <5>3. QED BY <1>9, <5>1, <5>2 DEF AddOf
      <4>3. CASE j = N + 1
        <5>1. IsNamed(op) /\ op.of \notin X2 /\ op.id = Current.id
          BY <1>9, <3>5, <4>3
        <5>2. op.kind \notin {"add", "clear"}
          BY <5>1 DEF IsNamed
        <5>3. ~OutOfReach(op.id) /\ op.of \notin excused
          BY <1>2, <5>1, <5>2
        <5>4. PICK b \in 2 .. N : AddOf(queue, b, Current.id)
          BY <1>1, <3>5, <5>1, <5>3, TapStands
        <5>5. b \in 2 .. j - 1 /\ b \in 1 .. N
          BY <1>4, <4>3, <5>4
        <5>6. QED BY <1>9, <5>4, <5>5 DEF AddOf
      <4>4. j \in 2 .. N \/ j = N + 1
        BY <1>4
      <4>5. QED BY <4>2, <4>3, <4>4
    <3>6. replay.phase = "swapping" => replay.answer.id # Current.id
      BY <1>1 DEF RunLed
    <3> HIDE DEF N
    <3>7. QED BY <1>2, <1>3, <1>9, <3>1, <3>2, <3>3, <3>4, <3>5, <3>6 DEF RunLed
  <2>3. QED BY <2>1, <2>2
<1>13. ASSUME NEW o \in late'
       PROVE  InPlace(K, o)'
  <2>1. InPlace(K, o) /\ o.key \in Nat
    BY <1>13, ChangeParts DEF TrackInv
  <2>2. CASE queue # <<>> /\ o = queue[1]
    BY <1>9, <1>11, <2>2 DEF InPlace
  <2>3. CASE ~(queue # <<>> /\ o = queue[1])
    <3>1. o.key < n /\ \A j \in 1 .. N : o.key < queue[j].key
      BY <2>1, <2>3 DEF InPlace
    <3>2. o.key < n + 1
      BY <1>3, <2>1, <3>1
    <3>3. \A j \in 1 .. N + 1 : j \in 1 .. N \/ j = N + 1
      BY <1>4
    <3>4. \A j \in 1 .. Len(queue') : o.key < queue'[j].key
      BY <1>9, <3>1, <3>3
    <3>5. QED BY <1>9, <3>2, <3>4 DEF InPlace
  <2>4. QED BY <2>2, <2>3
<1>14. QED BY <1>6, <1>8, <1>12, <1>13 DEF TrackInv
(* A tap that storage refused: no change, but one more tap.                *)
LEMMA TrackSkips ==
    ASSUME NEW K, DOMAIN K \subseteq Ids, TrackInv(K), late \subseteq ChangeOf(K),
           spent'.used.taps = spent.used.taps + 1,
           UNCHANGED <<rows, queue, ideal, alias, excused, late, replay>>
    PROVE  TrackInv(K)'
<1>1. PICK R, T : Tracks(K, R, T) /\ RunLed(K, R, T)
  BY DEF TrackInv
<1>2. Meant(K, queue, spent.used.taps, R, T) /\ spent.used.taps \in Nat
  BY <1>1 DEF Tracks, Meant
<1>3. Meant(K, queue, spent.used.taps + 1, R, T)
  <2>1. \A j \in 1 .. Len(queue) : queue[j].key \in Nat /\ queue[j].key < spent.used.taps
    BY <1>2, MeantParts
  <2>2. InOrder(queue, spent.used.taps + 1)
    BY <1>2, <2>1 DEF Meant, InOrder
  <2>3. QED BY <1>2, <2>2 DEF Meant
<1>4. Tracks(K, R, T)'
  BY <1>1, <1>3 DEF Tracks
<1>5. RunLed(K, R, T)'
  BY <1>1 DEF RunLed, Current
<1>6. Standing(K)'
  BY DEF TrackInv, Standing
<1>7. ASSUME NEW op \in late'
      PROVE  InPlace(K, op)'
  <2>1. InPlace(K, op) /\ op.key \in Nat
    BY <1>7, ChangeParts DEF TrackInv
  <2>2. QED BY <1>2, <2>1 DEF InPlace
<1>8. QED BY <1>4, <1>5, <1>6, <1>7 DEF TrackInv

LEMMA TrackCommit ==
    ASSUME FrontInv, NEW K, Typed(K), TrackInv(K), NEW K2, Extends(K, K2), Typed(K2)',
           NEW op, op.key = spent.used.taps, op.kind = "add" => op.sent \in Ids \ minted,
           NEW shown, NEW marked, NEW undo, Commit(op, shown, marked, undo)
    PROVE  TrackInv(K2)'
<1>1. /\ K \in [minted -> Keys] /\ rows \in ListOf(K) /\ queue \in Seq(ChangeOf(K))
      /\ late \subseteq ChangeOf(K) /\ alias \in [Ids -> Ids]
  BY DEF Typed, ServerTyped, WaitingTyped, HistoryTyped
<1>2. DOMAIN K2 \subseteq Ids /\ DOMAIN K = minted
  BY <1>1 DEF Typed, ServerTyped
<1>3. TrackInv(K2) /\ rows \in ListOf(K2) /\ late \subseteq ChangeOf(K2)
  BY <1>1, <1>2, TrackGrows, ListGrows, ChangeGrows
<1>4. UNCHANGED <<rows, late, replay>>
  BY DEF Commit, server
<1>5. CASE /\ Spend("taps") /\ queue' = Append(queue, op)
           /\ ideal' = SentAtOnce(op).rows /\ alias' = AliasAfter(op)
           /\ excused' = excused \cup {k \in {op.of} :
                 \/ Strays(op)
                 \/ op.kind \notin {"add", "clear"} /\ OutOfReach(op.id)}
  <2>1. op \in ChangeOf(K2)
    <3>1. queue' \in Seq(ChangeOf(K2)) /\ Len(queue) \in Nat
      BY <1>1 DEF Typed, WaitingTyped
    <3>2. queue'[Len(queue) + 1] = op /\ Len(queue) + 1 \in 1 .. Len(queue')
      BY <1>1, <1>5, <3>1
    <3>3. QED BY <3>1, <3>2
  <2>2. IsAdd(op) => alias[op.sent] = op.sent
    BY <1>2 DEF IsAdd, TrackInv, Standing
  <2>3. spent'.used.taps = spent.used.taps + 1
    BY <1>5, SpentOne
  <2>4. QED BY <1>2, <1>3, <1>4, <1>1, <1>5, <2>1, <2>2, <2>3, TrackTap
<1>6. CASE SpendAll({"taps", "faults"}) /\ UNCHANGED <<queue, ideal, alias, excused>>
  <2>1. spent'.used.taps = spent.used.taps + 1
    BY <1>6, Spent
  <2>2. QED BY <1>2, <1>3, <1>4, <1>6, <2>1, TrackSkips
<1>7. QED BY <1>5, <1>6 DEF Commit

LEMMA TrackShopper ==
    ASSUME FrontInv, NEW K, Typed(K), TrackInv(K), NEW K2, Extends(K, K2), Typed(K2)', Shopper
    PROVE  TrackInv(K2)'
<1>1. ASSUME NEW name \in Names, TapAdd(name)
      PROVE  TrackInv(K2)'
  <2>1. PICK i, shown, marked, undo :
           Commit(Op("add", i, Fresh(ShopIds), name, KeyOf[name]), shown, marked, undo)
    BY <1>1 DEF TapAdd
  <2>2. Fresh(ShopIds) \in ShopIds \ minted
    BY <1>1 DEF TapAdd, Fresh
  <2>3. PICK op : op = Op("add", i, Fresh(ShopIds), name, KeyOf[name])
    OBVIOUS
  <2>4. op.key = spent.used.taps /\ op.sent \in Ids \ minted
    BY <2>2, <2>3, ConstantFacts DEF Op
  <2>5. Commit(op, shown, marked, undo)
    BY <2>1, <2>3
  <2>6. QED BY <2>4, <2>5, TrackCommit
<1>2. ASSUME NEW i \in Shown(view), TapToggle(i) \/ TapRemove(i)
      PROVE  TrackInv(K2)'
  <2>1. PICK kind \in {"check", "uncheck", "delete"} : \E shown, marked, undo :
           Commit(Op(kind, i, NoId, NoName, KeyOf[view[i].name]), shown, marked, undo)
    BY <1>2 DEF TapToggle, TapRemove
  <2>2. PICK op : op = Op(kind, i, NoId, NoName, KeyOf[view[i].name])
    OBVIOUS
  <2>3. op.key = spent.used.taps /\ op.kind # "add"
    BY <2>2 DEF Op
  <2>4. \E shown, marked, undo : Commit(op, shown, marked, undo)
    BY <2>1, <2>2
  <2>5. QED BY <2>3, <2>4, TrackCommit
<1>3. CASE TapClear
  <2>1. PICK shown, marked, undo :
           Commit(Op("clear", NoId, NoId, NoName, NoName), shown, marked, undo)
    BY <1>3 DEF TapClear
  <2>2. PICK op : op = Op("clear", NoId, NoId, NoName, NoName)
    OBVIOUS
  <2>3. op.key = spent.used.taps /\ op.kind # "add"
    BY <2>2 DEF Op
  <2>4. Commit(op, shown, marked, undo)
    BY <2>1, <2>2
  <2>5. QED BY <2>3, <2>4, TrackCommit
<1>4. QED BY <1>1, <1>2, <1>3 DEF Shopper
-----------------------------------------------------------------------------
(* Same as online: every step.                                             *)

(* Nobody has changed the list before a step after which nobody has.       *)
LEMMA StillSolo ==
    ASSUME NEW K, Typed(K), [Next]_vars, Solo'
    PROVE  Solo /\ \A op \in RemoteOps : ~RemoteChange(op)
<1>1. UNCHANGED spent \/ \E kinds : SpendAll(kinds)
  <2>1. CASE Shopper
    BY <2>1 DEF Shopper, TapAdd, TapToggle, TapRemove, TapClear, Commit, Spend
  <2>2. CASE Replaying
    BY <2>2 DEF Replaying, ServerExecutes, HandleOk, HandleGone, SwapStarts, SwapEnds, Dequeue, Spend
  <2>3. ASSUME NEW d \in Procs, Syncing(d) \/ Retry(d) \/ ListFails(d)
        PROVE  UNCHANGED spent \/ \E kinds : SpendAll(kinds)
    BY <2>3 DEF Syncing, Count, Recount, CannotRead, ListServed, Land, Reapply, Retry, ListFails,
                Spend
  <2>4. ASSUME \/ \E u \in unsaved : RollBack(u)
               \/ RequestFails \/ \E op \in late : ServedLate(op)
               \/ DeliverEvent \/ Reconnect
               \/ \E op \in RemoteOps : RemoteChange(op)
               \/ Persist \/ Reload \/ Boot \/ UNCHANGED vars
        PROVE  UNCHANGED spent \/ \E kinds : SpendAll(kinds)
    BY <2>4 DEF RollBack, RequestFails, ServedLate, DeliverEvent, Reconnect, RemoteChange,
                Persist, Reload, Boot, vars, Spend
  <2>5. QED BY <2>1, <2>2, <2>3, <2>4 DEF Next
<1>2. Solo
  BY <1>1, Spent DEF Solo
<1>3. QED BY <1>2, SpentOne DEF RemoteChange

LEMMA TrackProcess ==
    ASSUME NEW K, Typed(K), TrackInv(K), NEW d \in Procs, Syncing(d) \/ Retry(d) \/ ListFails(d)
    PROVE  TrackInv(K)' /\ UNCHANGED minted
<1>1. UNCHANGED <<rows, late, queue, minted, ideal, alias, excused>>
  BY DEF Syncing, Count, Recount, ListServed, Land, Reapply, Retry, ListFails, server, disk, history
<1>2. replay' = replay \/ replay'.phase \in {"idle", "wire"}
  <2>1. replay' = replay \/ replay' = Send(queue)
    BY DEF Syncing, Count, Recount, ListServed, Land, Reapply, Retry, ListFails
  <2>2. Send(queue).phase \in {"idle", "wire"}
    BY DEF Send, NoReplay
  <2>3. QED BY <2>1, <2>2
<1>3. spent'.used.taps = spent.used.taps
  <2>1. \/ UNCHANGED spent \/ Spend("losses") \/ Spend("refusals") \/ Spend("faults")
    BY DEF Syncing, Count, Recount, CannotRead, ListServed, Land, Reapply, Retry, ListFails
  <2>2. QED BY <2>1, SpentOne
<1>4. QED BY <1>1, <1>2, <1>3, TrackStays

(* Requests that fail, the stream, the page's life, a tap undone.          *)
LEMMA TrackPage ==
    ASSUME FrontInv, NEW K, Typed(K), TrackInv(K),
           \/ \E u \in unsaved : RollBack(u)
           \/ RequestFails \/ DeliverEvent \/ Reconnect \/ Persist \/ Reload \/ Boot
           \/ UNCHANGED vars
    PROVE  TrackInv(K)' /\ UNCHANGED minted
<1>1. UNCHANGED <<rows, queue, minted, ideal, alias, excused>>
  BY DEF RollBack, RequestFails, DeliverEvent, Reconnect, Persist, Reload, Boot,
         vars, server, disk, history
<1>2. \A op \in late' : op \in late \/ (queue # <<>> /\ op = queue[1])
  <2>1. UNCHANGED late \/ (replay.phase = "wire" /\ late' = late \cup {Current})
    BY DEF RollBack, RequestFails, DeliverEvent, Reconnect, Persist, Reload, Boot, vars, server
  <2>2. QED BY <2>1, HeadOnDisk
<1>3. replay' = replay \/ replay'.phase \in {"idle", "wire"}
  <2>1. replay' = replay \/ replay' = NoReplay
    BY DEF RollBack, RequestFails, StopRun, DeliverEvent, Reconnect, Persist, Reload, Boot,
           vars, tasks
  <2>2. QED BY <2>1 DEF NoReplay
<1>4. spent'.used.taps = spent.used.taps
  <2>1. \/ UNCHANGED spent \/ Spend("losses") \/ Spend("refusals") \/ Spend("late")
        \/ Spend("reloads")
    BY DEF RollBack, RequestFails, DeliverEvent, Reconnect, Persist, Reload, Boot, vars
  <2>2. QED BY <2>1, SpentOne
<1>5. QED BY <1>1, <1>2, <1>3, <1>4, TrackStays

LEMMA TrackNext ==
    ASSUME FrontInv, NEW K, Typed(K), NEW K2, Extends(K, K2), Typed(K2)',
           Solo => TrackInv(K), [Next]_vars
    PROVE  (Solo => TrackInv(K2))'
<1> SUFFICES ASSUME Solo'
             PROVE  TrackInv(K2)'
  OBVIOUS
<1>1. TrackInv(K) /\ \A op \in RemoteOps : ~RemoteChange(op)
  BY StillSolo
<1>2. CASE Shopper
  BY <1>1, <1>2, TrackShopper
<1>3. ASSUME ~Shopper
      PROVE  TrackInv(K)' /\ UNCHANGED minted
  <2>1. CASE Replaying
    <3>1. UNCHANGED minted
      BY <2>1 DEF Replaying, ServerExecutes, HandleOk, HandleGone, SwapStarts, SwapEnds, history
    <3>2. QED BY <1>1, <2>1, <3>1, TrackExecute, TrackAnswer, TrackSwap DEF Replaying
  <2>2. ASSUME NEW op \in late, ServedLate(op)
        PROVE  TrackInv(K)' /\ UNCHANGED minted
    BY <1>1, <2>2, TrackLate DEF ServedLate
  <2>3. ASSUME NEW d \in Procs, Syncing(d) \/ Retry(d) \/ ListFails(d)
        PROVE  TrackInv(K)' /\ UNCHANGED minted
    BY <1>1, <2>3, TrackProcess
  <2>4. ASSUME \/ \E u \in unsaved : RollBack(u)
               \/ RequestFails \/ DeliverEvent \/ Reconnect \/ Persist \/ Reload \/ Boot
               \/ UNCHANGED vars
        PROVE  TrackInv(K)' /\ UNCHANGED minted
    BY <1>1, <2>4, TrackPage
  <2>5. QED BY <1>1, <1>3, <2>1, <2>2, <2>3, <2>4 DEF Next
<1>4. ASSUME ~Shopper
      PROVE  TrackInv(K2)'
  BY <1>3, <1>4, SameIds
<1>5. QED BY <1>2, <1>4

LEMMA TrackInit ==
    ASSUME Init, NEW K, Typed(K)
    PROVE  TrackInv(K)
<1>1. /\ rows \in ListOf(K) /\ ideal = rows /\ OneRowPerKey(rows)
      /\ queue = <<>> /\ late = {} /\ alias = [i \in Ids |-> i] /\ DOMAIN K \subseteq Ids
  BY TypedIds DEF Init, Typed, ServerTyped
<1>2. spent.used.taps \in Nat
  BY DEF Typed, BoundsTyped, Bounded
<1>3. Standing(K)
  BY <1>1 DEF Standing, Shown
<1>4. PICK R, T : R = [m \in Nat |-> rows] /\ T = [m \in Nat |-> NoId]
  OBVIOUS
<1>5. Len(queue) = 0
  BY <1>1
<1>6. Meant(K, queue, spent.used.taps, R, T)
  <2>1. R \in [Nat -> ListOf(K)] /\ T \in [Nat -> Ids \cup {NoId}]
    BY <1>1, <1>4
  <2>2. queue \in Seq(ChangeOf(K))
    BY <1>1
  <2>3. InOrder(queue, spent.used.taps) /\ AimsOf(K, T, queue)
    BY <1>5 DEF InOrder, AimsOf
  <2>4. QED BY <1>2, <2>1, <2>2, <2>3 DEF Meant
<1>7. Trajectory(K, excused, R, T, queue, rows, ideal)
  BY <1>1, <1>5, AgreesWith DEF Trajectory, Before
<1>8. Aiming(queue, T, excused, alias)
  BY <1>1, <1>5 DEF Aiming, NamedStand, AddsMeet, AliasesStand
<1>9. RunLed(K, R, T)
  BY DEF Init, NoReplay, RunLed
<1>10. QED BY <1>1, <1>3, <1>6, <1>7, <1>8, <1>9 DEF Tracks, TrackInv

LEMMA TrackIsEnough ==
    ASSUME NEW K, Typed(K), Solo => TrackInv(K)
    PROVE  SameAsOnline
<1> SUFFICES ASSUME queue = <<>>, Solo, NEW k \in Keys \ excused
             PROVE  StatusIn(rows, k) = StatusIn(ideal, k)
  BY DEF SameAsOnline, Solo
<1>1. PICK R, T : Trajectory(K, excused, R, T, queue, rows, ideal)
  BY DEF TrackInv, Tracks
<1>2. Len(queue) = 0
  OBVIOUS
<1>3. Agrees(K, excused, rows, ideal)
  BY <1>1, <1>2 DEF Trajectory, Before
<1>4. rows \in ListOf(K) /\ ideal \in ListOf(K)
  BY DEF Typed, ServerTyped, TrackInv, Standing
<1>5. QED BY <1>3, <1>4, SameStatusIn
-----------------------------------------------------------------------------
SoloInv == FrontInv /\ \E K : Typed(K) /\ (Solo => TrackInv(K))

LEMMA SoloInit == Init => SoloInv
<1> SUFFICES ASSUME Init PROVE SoloInv
  OBVIOUS
<1>1. FrontInv
  BY EmptyKeyed DEF Init, NoReplay, FrontInv
<1>2. PICK K : Typed(K)
  BY InitTyped
<1>3. QED BY <1>1, <1>2, TrackInit DEF SoloInv

LEMMA SoloStep == SoloInv /\ [Next]_vars => SoloInv'
<1> SUFFICES ASSUME SoloInv, [Next]_vars PROVE SoloInv'
  OBVIOUS
<1>1. FrontInv
  BY DEF SoloInv
<1>2. PICK K : Typed(K) /\ (Solo => TrackInv(K))
  BY DEF SoloInv
<1>3. PICK K2 : Extends(K, K2) /\ Typed(K2)'
  BY <1>1, <1>2, NextTyped
<1>4. FrontInv' /\ (Solo => TrackInv(K2))'
  BY <1>1, <1>2, <1>3, NextKeeps, TrackNext
<1>5. QED BY <1>3, <1>4 DEF SoloInv

(* With nobody else at the list, once the queue has drained every key      *)
(* stands as it would had each tap been sent as it was made, whatever was  *)
(* lost, retried, reloaded, carried out late or folded onto another row;   *)
(* but for the keys set aside in excused.                                  *)
THEOREM OfflineIsOnline == Spec => []SameAsOnline
<1>1. SoloInv => SameAsOnline
  BY TrackIsEnough DEF SoloInv
<1>2. QED BY <1>1, SoloInit, SoloStep, PTL DEF Spec
=============================================================================
