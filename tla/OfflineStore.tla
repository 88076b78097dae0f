---------------------------- MODULE OfflineStore ----------------------------
(***************************************************************************)
(* One phone's list: the optimistic store (web/src/lib/store.svelte.ts)    *)
(* over its durable queue of changes (opqueue.ts), the recovery ticker of  *)
(* AppShell.svelte, and the server as the phone sees it.                   *)
(*                                                                         *)
(* The page is one thread: an action is the code between two awaits.       *)
(* IndexedDB runs overlapping transactions in the order they were opened,  *)
(* so a queued change is in the queue as of the tap that opened its        *)
(* transaction.  The server's rows follow what ListRepo guarantees: one    *)
(* row per catalogue key, an add idempotent by id, then by key.            *)
(*                                                                         *)
(* Names in the view are compared as they are spelled; the server's key    *)
(* for a name folds plurals too, which is how an add can come back as a    *)
(* row the phone has never seen.  Mutants of a definition stand just above *)
(* it.                                                                     *)
(***************************************************************************)
EXTENDS Integers, Sequences, SequencesExt, FiniteSets

CONSTANTS
    Names,          \* names as the phone compares them
    KeyOf,          \* the catalogue key the server files each name under
    ShopIds,        \* ids this phone mints
    HouseIds,       \* ids of rows other members of the household create
    Procs,          \* bounds the drains and refreshes under way at once: a tap
                    \* or a reconnection that would be one more has to wait
    TapKinds,       \* what the shopper does: among add, toggle, remove, clear
    Limits,         \* bounds on what happens, one of which holds throughout
    NoRow, NoId, NoName

Ids == ShopIds \cup HouseIds
Keys == {KeyOf[n] : n \in Names}
Row == [name : Names, status : {"active", "checked"}]

(* The shopper's changes; those of the rest of the household; requests,    *)
(* replies and events the network loses; requests it keeps after the phone *)
(* has given them up; 5xx answers; refusals of the phone's own storage;    *)
(* reloads of the page.                                                    *)
Bounded == {"taps", "remote", "losses", "late", "refusals", "faults", "reloads"}

ASSUME OfflineStoreAssumption ==
    /\ KeyOf \in [Names -> STRING]
    /\ ShopIds \cap HouseIds = {}
    /\ Limits \subseteq [Bounded -> Nat]
    /\ NoId \notin Ids /\ NoRow \notin Row /\ NoName \notin Names

VARIABLES
    \* the server
    rows,       \* rows[i]: the item with that id, or NoRow
    events,     \* broadcast and not yet delivered to this phone
    late,       \* requests given up by the phone and still to be carried out
    \* the phone's disk
    queue,      \* the changes waiting in IndexedDB, oldest first
    snap,       \* the list as last written to localStorage
    \* the page
    view,       \* what is on screen
    pending,    \* the ids marked as having queued changes
    online,
    replay,     \* the flush under way
    proc,       \* the drains and refreshes under way
    unsaved,    \* changes whose enqueue was refused and not yet undone
    boot,       \* queued changes read at page load and not yet re-applied
    \* bounds and history
    spent,      \* the bounds that hold, and how much of each is used
    minted,     \* ids in use anywhere, ever
    known,      \* ids the server has ever had a row for
    ideal,      \* the rows had every change been sent as it was made
    alias,      \* the ideal row each id on screen stands for
    excused     \* keys tapped under an id out of reach or that strays, or
                \* changed by a request carried out behind a later change

server == <<rows, events, late>>
disk == <<queue, snap>>
page == <<view, pending, online>>
tasks == <<replay, proc, unsaved, boot>>
history == <<minted, known, ideal, alias, excused>>
vars == <<server, disk, page, tasks, spent, history>>
-----------------------------------------------------------------------------
(* The list on screen.                                                     *)

Shown(v) == {i \in Ids : v[i] # NoRow}
Basket(v) == {i \in Shown(v) : v[i].status = "checked"}
Place(v, i, row) == [v EXCEPT ![i] = row]
RemoveId(v, i) == [v EXCEPT ![i] = NoRow]
EmptyBasket(v) == [i \in Ids |-> IF i \in Basket(v) THEN NoRow ELSE v[i]]
WithStatusOrBlank(v, i, s) ==
    [v EXCEPT ![i] = [name |-> IF v[i] = NoRow THEN NoName ELSE v[i].name, status |-> s]]
WithStatus(v, i, s) == IF v[i] = NoRow THEN v ELSE [v EXCEPT ![i].status = s]

StatusOf(kind) == IF kind = "check" THEN "checked" ELSE "active"

(* Mutant: an add is put back without its marker.                          *)
UnmarkedAdd(s, op) ==
    CASE op.kind = "add" ->
           [view |-> IF s.view[op.id] # NoRow THEN s.view
                     ELSE Place(s.view, op.id, [name |-> op.name, status |-> "active"]),
            ids  |-> s.ids]
      [] op.kind \in {"check", "uncheck"} ->
           [view |-> WithStatus(s.view, op.id, StatusOf(op.kind)),
            ids  |-> s.ids \cup {op.id}]
      [] op.kind = "delete" ->
           [view |-> RemoveId(s.view, op.id), ids |-> s.ids \cup {op.id}]
      [] op.kind = "clear" ->
           [view |-> EmptyBasket(s.view), ids |-> s.ids]

(* applyOptimistic: a queued change put back over a list and its markers.  *)
ApplyOptimistic(s, op) ==
    CASE op.kind = "add" ->
           [view |-> IF s.view[op.id] # NoRow THEN s.view
                     ELSE Place(s.view, op.id, [name |-> op.name, status |-> "active"]),
            ids  |-> s.ids \cup {op.id}]
      [] op.kind \in {"check", "uncheck"} ->
           [view |-> WithStatus(s.view, op.id, StatusOf(op.kind)),
            ids  |-> s.ids \cup {op.id}]
      [] op.kind = "delete" ->
           [view |-> RemoveId(s.view, op.id), ids |-> s.ids \cup {op.id}]
      [] op.kind = "clear" ->
           [view |-> EmptyBasket(s.view), ids |-> s.ids]

(* A list and its markers with queued changes put back over them in turn.  *)
Reapplied(v, ids, ops) ==
    LET after[n \in 0 .. Len(ops)] ==
          IF n = 0 THEN [view |-> v, ids |-> ids] ELSE ApplyOptimistic(after[n - 1], ops[n])
    IN after[Len(ops)]
-----------------------------------------------------------------------------
(* The server.  Each operation answers, changes its rows and broadcasts.   *)

Gone == [kind |-> "gone"]
Ok(i, row) == [kind |-> "ok", id |-> i, row |-> row]
RowEvent(i, row) == [kind |-> "row", id |-> i, row |-> row]
GoneEvent(i) == [kind |-> "removed", id |-> i, row |-> NoRow]
ClearEvent == [kind |-> "cleared", id |-> NoId, row |-> NoRow]

(* The row an add of name under a fresh id lands on, or NoId.              *)
SameKey(items, name) ==
    LET same == {i \in Shown(items) : KeyOf[items[i].name] = KeyOf[name]}
    IN IF same = {} THEN NoId ELSE CHOOSE i \in same : TRUE

(* The effect of one request on the rows: [rows, answer, events].          *)
Served(items, op) ==
    LET answer(i, row) == [rows |-> Place(items, i, row), answer |-> Ok(i, row),
                           events |-> <<RowEvent(i, row)>>]
        notFound == [rows |-> items, answer |-> Gone, events |-> <<>>]
    IN CASE op.kind = "add" ->
              IF items[op.sent] # NoRow THEN answer(op.sent, items[op.sent])
              ELSE IF SameKey(items, op.name) # NoId
                     THEN LET i == SameKey(items, op.name)
                          IN answer(i, [items[i] EXCEPT !.status = "active"])
                     ELSE answer(op.sent, [name |-> op.name, status |-> "active"])
         [] op.kind \in {"check", "uncheck"} ->
              IF items[op.id] = NoRow THEN notFound
              ELSE answer(op.id, [items[op.id] EXCEPT !.status = StatusOf(op.kind)])
         [] op.kind = "delete" ->
              IF items[op.id] = NoRow THEN notFound
              ELSE [rows |-> RemoveId(items, op.id), answer |-> Ok(op.id, NoRow),
                    events |-> <<GoneEvent(op.id)>>]
         [] op.kind = "clear" ->
              [rows |-> EmptyBasket(items), answer |-> Ok(NoId, NoRow),
               events |-> <<ClearEvent>>]

-----------------------------------------------------------------------------
(* Bounds and bookkeeping.                                                 *)

Left(kind) == spent.used[kind] < spent.limit[kind]
SpendAll(kinds) ==
    /\ \A k \in kinds : Left(k)
    /\ spent' = [spent EXCEPT !.used = [k \in Bounded |->
                   IF k \in kinds THEN spent.used[k] + 1 ELSE spent.used[k]]]
Spend(kind) == SpendAll({kind})

Fresh(pool) == CHOOSE i \in pool \ minted : TRUE

(* The same change sent as it is made, and what it stands for from then on.*)
SentAtOnce(op) ==
    Served(ideal, IF op.kind \in {"add", "clear"} THEN op ELSE [op EXCEPT !.id = alias[op.id]])
AliasAfter(op) ==
    IF op.kind = "add" THEN [alias EXCEPT ![op.id] = SentAtOnce(op).answer.id] ELSE alias

StatusIn(items, k) ==
    LET same == {i \in Shown(items) : KeyOf[items[i].name] = k}
    IN IF same = {} THEN "absent" ELSE items[CHOOSE i \in same : TRUE].status
-----------------------------------------------------------------------------
(* Drains and refreshes.                                                   *)

Idle == [pc |-> "idle", before |-> 0, then |-> "idle", list |-> [i \in Ids |-> NoRow],
         ops |-> <<>>]
Drain(then) == [Idle EXCEPT !.pc = "count", !.then = then]
Fetch == [Idle EXCEPT !.pc = "list"]
Free == {d \in Procs : proc[d].pc = "idle"}
Become(d, p) == proc' = [proc EXCEPT ![d] = p]

(* What follows a drain: nothing after a tap, the refresh in a retry.      *)
Drained(d) == IF proc[d].then = "list" THEN Fetch ELSE Idle

NoAnswer == [kind |-> "none"]
NoReplay == [phase |-> "idle", entries |-> <<>>, answer |-> NoAnswer,
             moved |-> <<>>, rewrote |-> FALSE]
Send(entries) ==
    IF entries = <<>> THEN NoReplay
    ELSE [NoReplay EXCEPT !.phase = "wire", !.entries = entries]
Current == Head(replay.entries)
Rest == Tail(replay.entries)

(* The end of a run wakes everything that had joined it.                   *)
Woken == [d \in Procs |-> IF proc[d].pc = "waiting" THEN [proc[d] EXCEPT !.pc = "recount"]
                          ELSE proc[d]]
StopRun == replay' = NoReplay /\ proc' = Woken

(* remove: one change is deleted by its key.                               *)
Without(ops, key) == RemoveFirstMatch(ops, LAMBDA op : op.key = key)

(* Mutant: a refusal of storage goes unnoticed and the run goes on.        *)
DequeueUnchecked(waiting, rest) ==
    /\ \/ /\ queue' = Without(waiting, Current.key)
          /\ UNCHANGED spent
       \/ /\ Spend("faults")
          /\ UNCHANGED queue
    /\ replay' = Send(rest)
    /\ proc' = IF rest = <<>> THEN Woken ELSE proc
(* A finished change leaves the queue and the next goes out; storage that  *)
(* refuses stops the run.                                                  *)
Dequeue(waiting, rest) ==
    \/ /\ queue' = Without(waiting, Current.key)
       /\ replay' = Send(rest)
       /\ proc' = IF rest = <<>> THEN Woken ELSE proc
       /\ UNCHANGED spent
    \/ /\ Spend("faults")
       /\ StopRun
       /\ UNCHANGED queue
-----------------------------------------------------------------------------
(* The shopper.                                                            *)

(* Nothing can repoint a change tapped against this id: it stands for      *)
(* another row, or none, and its add has left the queue or is being swapped.*)
OutOfReach(i) ==
    /\ i \notin known \/ alias[i] # i
    /\ \A j \in DOMAIN queue :
          queue[j].kind = "add" /\ queue[j].id = i =>
              replay.phase = "swapping" /\ Current.key = queue[j].key

(* An add onto a row that a waiting add is shown as, or will turn out to   *)
(* be, and that lands elsewhere: changes to the one and to the other will  *)
(* wait under one id.                                                      *)
Strays(op) ==
    /\ op.kind = "add"
    /\ \E j \in DOMAIN queue :
          LET to == alias[queue[j].id]
          IN /\ queue[j].kind = "add" /\ to # queue[j].id /\ op.id \in {queue[j].id, to}
             /\ SentAtOnce(op).answer.id # to

Op(kind, i, sent, name, key) ==
    [key |-> spent.used.taps, kind |-> kind, id |-> i, sent |-> sent, name |-> name, of |-> key]

(* commit: the change is on screen already; store it and drain, or undo it *)
(* later if storage refuses.                                               *)
Commit(op, shown, marked, undo) ==
    /\ view' = shown
    /\ pending' = marked
    /\ minted' = minted \cup ({op.sent} \ {NoId})
    /\ \/ /\ Spend("taps")
          /\ queue' = Append(queue, op)
          /\ \E d \in Free : Become(d, Drain("idle"))
          /\ ideal' = SentAtOnce(op).rows /\ alias' = AliasAfter(op)
          /\ excused' = excused \cup {k \in {op.of} :
                \/ Strays(op)
                \/ op.kind \notin {"add", "clear"} /\ OutOfReach(op.id)}
          /\ UNCHANGED unsaved
       \/ /\ SpendAll({"taps", "faults"})
          /\ unsaved' = unsaved \cup {[op |-> op, undo |-> undo]}
          /\ UNCHANGED <<queue, proc, ideal, alias, excused>>
    /\ UNCHANGED <<server, snap, online, replay, boot, known>>

(* The row an add is rendered on: a row of that name on screen, on the     *)
(* list before in the basket.                                              *)
Matches(name) ==
    LET same == {i \in Shown(view) : view[i].name = name}
    IN IF same \ Basket(view) # {} THEN same \ Basket(view) ELSE same

TapAdd(name) ==
    /\ "add" \in TapKinds
    /\ ShopIds \ minted # {}
    /\ LET sent == Fresh(ShopIds)
       IN \E i \in IF Matches(name) = {} THEN {sent} ELSE Matches(name) :
             Commit(Op("add", i, sent, name, KeyOf[name]),
                    Place(view, i, [name |-> name, status |-> "active"]),
                    pending \cup {i},
                    [j \in {i} |-> view[i]])

TapToggle(i) ==
    /\ "toggle" \in TapKinds
    /\ LET kind == IF i \in Basket(view) THEN "uncheck" ELSE "check"
       IN Commit(Op(kind, i, NoId, NoName, KeyOf[view[i].name]),
                 WithStatus(view, i, StatusOf(kind)), pending \cup {i}, [j \in {i} |-> view[i]])

TapRemove(i) ==
    /\ "remove" \in TapKinds
    /\ Commit(Op("delete", i, NoId, NoName, KeyOf[view[i].name]),
              RemoveId(view, i), pending \cup {i}, [j \in {i} |-> view[i]])

TapClear ==
    /\ "clear" \in TapKinds
    /\ Basket(view) # {}
    /\ Commit(Op("clear", NoId, NoId, NoName, NoName),
              EmptyBasket(view), pending, [j \in Basket(view) |-> view[j]])

RollBack(u) ==
    /\ unsaved' = unsaved \ {u}
    /\ LET base == IF u.op.kind = "clear" THEN EmptyBasket(view) ELSE view
       IN view' = [i \in Ids |-> IF i \in DOMAIN u.undo THEN u.undo[i] ELSE base[i]]
    /\ pending' = pending \ {u.op.id}
    /\ UNCHANGED <<server, disk, online, replay, proc, boot, spent, history>>
-----------------------------------------------------------------------------
(* Drain, flush and refresh.                                               *)

(* IndexedDB answers in the order it was asked: nothing later in the queue *)
(* is read before a refresh under way has its answer.                      *)
NoReadUnderWay == \A d \in Procs : proc[d].pc # "landed"

(* Any of: the stream reconnecting, the network or the tab coming back.    *)
Retry(d) ==
    /\ d \in Free
    /\ Become(d, Drain("list"))
    /\ UNCHANGED <<server, disk, page, replay, unsaved, boot, spent, history>>

TickerOfflineOnly == \E d \in Procs : ~online /\ Retry(d)
Ticker == \E d \in Procs : (~online \/ pending # {}) /\ Retry(d)

(* A queue that cannot be read ends the drain, and what was to follow it.  *)
CannotRead(d) == Spend("faults") /\ Become(d, Idle)

(* The queue is counted and a run begun, or joined, of what is in it.      *)
Count(d) ==
    /\ proc[d].pc = "count"
    /\ NoReadUnderWay
    /\ \/ queue = <<>> /\ Become(d, Drained(d)) /\ UNCHANGED <<replay, spent>>
       \/ /\ queue # <<>>
          /\ Become(d, [proc[d] EXCEPT !.pc = "waiting", !.before = Len(queue)])
          /\ replay' = IF replay.phase = "idle" THEN Send(queue) ELSE replay
          /\ UNCHANGED spent
       \/ CannotRead(d) /\ UNCHANGED replay
    /\ UNCHANGED <<server, disk, page, unsaved, boot, history>>

Recount(d) ==
    /\ proc[d].pc = "recount"
    /\ NoReadUnderWay
    /\ \/ /\ Become(d, IF ~online \/ Len(queue) = 0 \/ Len(queue) >= proc[d].before
                       THEN Drained(d) ELSE Drain(proc[d].then))
          /\ UNCHANGED spent
       \/ online /\ CannotRead(d)
    /\ UNCHANGED <<server, disk, page, replay, unsaved, boot, history>>

(* GET /items is answered, lost on either leg, or refused.                 *)
ListServed(d) ==
    /\ proc[d].pc = "list"
    /\ Become(d, [proc[d] EXCEPT !.pc = "listed", !.list = rows])
    /\ UNCHANGED <<server, disk, page, replay, unsaved, boot, spent, history>>

ListFails(d) ==
    /\ proc[d].pc \in {"list", "listed"}
    /\ \/ Spend("losses") /\ online' = FALSE
       \/ Spend("refusals") /\ UNCHANGED online
    /\ Become(d, Idle)
    /\ UNCHANGED <<server, disk, view, pending, replay, unsaved, boot, history>>

(* The list is put on screen and the queue asked for.                      *)
Land(d) ==
    /\ proc[d].pc = "listed"
    /\ NoReadUnderWay
    /\ online' = TRUE
    /\ view' = proc[d].list
    /\ Become(d, [Idle EXCEPT !.pc = "landed", !.ops = queue])
    /\ UNCHANGED <<server, disk, pending, replay, unsaved, boot, spent, history>>

(* The snapshot in localStorage, where there is a reload to read it.       *)
Saved(v) == IF spent.limit.reloads = 0 THEN snap ELSE v

(* The queue's answer is re-applied over the list, or refused.             *)
Reapply(d) ==
    /\ proc[d].pc = "landed"
    /\ Become(d, Idle)
    /\ \/ /\ LET s == Reapplied(view, {}, proc[d].ops)
             IN view' = s.view /\ pending' = s.ids /\ snap' = Saved(s.view)
          /\ UNCHANGED spent
       \/ Spend("faults") /\ UNCHANGED <<view, pending, snap>>
    /\ UNCHANGED <<server, queue, online, replay, unsaved, boot, history>>
-----------------------------------------------------------------------------
(* exec: the change on the wire.                                           *)

ServerExecutes ==
    /\ replay.phase = "wire"
    /\ LET s == Served(rows, Current)
       IN /\ rows' = s.rows
          /\ events' = events \o s.events
          /\ replay' = [replay EXCEPT !.phase = "answered", !.answer = s.answer]
          /\ known' = known \cup Shown(s.rows)
    /\ UNCHANGED <<late, disk, page, proc, unsaved, boot, spent, minted, ideal, alias, excused>>

(* The request or its reply is lost, the server answers 5xx, or the time   *)
(* is up with the request still on its way.                                *)
RequestFails ==
    /\ \/ /\ replay.phase \in {"wire", "answered"} /\ Spend("losses")
          /\ online' = FALSE /\ UNCHANGED late
       \/ /\ replay.phase = "wire" /\ Spend("refusals")
          /\ UNCHANGED <<online, late>>
       \/ /\ replay.phase = "wire" /\ Spend("late")
          /\ online' = FALSE /\ late' = late \cup {Current}
    /\ StopRun
    /\ UNCHANGED <<rows, events, disk, view, pending, unsaved, boot, history>>

(* A request the phone has given up arrives after all.  History: what it   *)
(* changes is out of order if the queue has moved past it to later changes.*)
ServedLate(op) ==
    LET s == Served(rows, op)
        overtaken == /\ \A j \in DOMAIN queue : queue[j].key # op.key
                     /\ spent.used.taps > op.key + 1
    IN /\ rows' = s.rows /\ events' = events \o s.events /\ late' = late \ {op}
       /\ known' = known \cup Shown(s.rows)
       /\ excused' = excused \cup
            {k \in Keys : overtaken /\ StatusIn(s.rows, k) # StatusIn(rows, k)}
       /\ UNCHANGED <<disk, page, tasks, spent, minted, ideal, alias>>

Swaps == Current.kind = "add" /\ replay.answer.id # Current.id

HandleOk ==
    /\ replay.phase = "answered" /\ replay.answer.kind = "ok" /\ ~Swaps
    /\ online' = TRUE
    /\ pending' = pending \ {Current.id}
    /\ view' = IF Current.kind = "clear" THEN EmptyBasket(view)
               ELSE Place(view, Current.id, replay.answer.row)
    /\ Dequeue(queue, Rest)
    /\ UNCHANGED <<server, snap, unsaved, boot, history>>

(* 404: the change is dropped.                                             *)
HandleGone ==
    /\ replay.phase = "answered" /\ replay.answer.kind = "gone"
    /\ pending' = pending \ {Current.id}
    /\ Dequeue(queue, Rest)
    /\ UNCHANGED <<server, snap, view, online, unsaved, boot, history>>

RepointedButDeletes(ops, from, to) ==
    [j \in DOMAIN ops |-> IF ops[j].kind \notin {"add", "delete"} /\ ops[j].id = from
                          THEN [ops[j] EXCEPT !.id = to] ELSE ops[j]]
Targets(op, i) == op.kind # "add" /\ op.id = i
(* rewriteItemId: every queued change to one id is pointed at another.     *)
Repointed(ops, from, to) ==
    [j \in DOMAIN ops |-> IF Targets(ops[j], from) THEN [ops[j] EXCEPT !.id = to] ELSE ops[j]]
(* Those among ops that are about i, in their order.                       *)
NamedBy(ops, i) ==
    LET named[n \in 0 .. Len(ops)] ==
          IF n = 0 THEN <<>>
          ELSE IF Targets(ops[n], i) THEN Append(named[n - 1], ops[n]) ELSE named[n - 1]
    IN named[Len(ops)]

(* Mutant: only the run in memory is repointed.                            *)
SwapInMemory ==
    /\ replay.phase = "answered" /\ replay.answer.kind = "ok" /\ Swaps
    /\ online' = TRUE
    /\ LET stale == NamedBy(queue, Current.id)
           to == replay.answer.id
       IN replay' = [replay EXCEPT !.phase = "swapping", !.rewrote = stale # <<>>,
                                   !.moved = Repointed(stale, Current.id, to)]
    /\ UNCHANGED <<server, disk, view, pending, proc, unsaved, boot, spent, history>>

(* The add came back as another row: the queue is rewritten on disk, or    *)
(* storage refuses and the stale ids stay.                                 *)
SwapStarts ==
    /\ replay.phase = "answered" /\ replay.answer.kind = "ok" /\ Swaps
    /\ online' = TRUE
    /\ LET stale == NamedBy(queue, Current.id)
           to == replay.answer.id
       IN \/ /\ queue' = Repointed(queue, Current.id, to)
             /\ replay' = [replay EXCEPT
                   !.phase = "swapping", !.moved = Repointed(stale, Current.id, to),
                   !.rewrote = \E j \in DOMAIN queue : Targets(queue[j], Current.id)]
             /\ UNCHANGED <<spent, excused>>
          \/ /\ Spend("faults")
             /\ replay' = [replay EXCEPT !.phase = "swapping"]
             /\ excused' = excused \cup {stale[j].of : j \in DOMAIN stale}
             /\ UNCHANGED queue
    /\ UNCHANGED <<server, snap, view, pending, proc, unsaved, boot, minted, known, ideal, alias>>

(* ... then the run's own copy and the screen follow.                      *)
SwapEnds ==
    /\ replay.phase = "swapping"
    /\ LET to == replay.answer.id
           bare == RemoveId(RemoveId(view, Current.id), Current.sent)
           s == Reapplied(Place(bare, to, replay.answer.row),
                          pending \ {Current.id, Current.sent, to}, replay.moved)
       IN /\ view' = s.view
          /\ pending' = s.ids
          /\ Dequeue(queue, IF replay.rewrote THEN Repointed(Rest, Current.id, to) ELSE Rest)
    /\ UNCHANGED <<server, snap, online, unsaved, boot, history>>
-----------------------------------------------------------------------------
(* The stream, the household, the page's life.                             *)

(* applyEvent: a broadcast about a marked row is taken for our own echo.   *)
DeliverEvent ==
    /\ events # <<>>
    /\ events' = Tail(events)
    /\ LET e == Head(events)
       IN view' = CASE e.kind = "row" -> IF e.id \in pending THEN view ELSE Place(view, e.id, e.row)
                    [] e.kind = "removed" -> RemoveId(view, e.id)
                    [] e.kind = "cleared" -> EmptyBasket(view)
    /\ UNCHANGED <<rows, late, disk, pending, online, tasks, spent, history>>

(* The stream drops, losing what it had not delivered, and reconnects.     *)
Reconnect ==
    /\ events # <<>>
    /\ Spend("losses")
    /\ events' = <<>>
    /\ \E d \in Free : Become(d, Drain("list"))
    /\ UNCHANGED <<rows, late, disk, page, replay, unsaved, boot, history>>

RemoteOp(kind, i, sent, name) == [kind |-> kind, id |-> i, sent |-> sent, name |-> name]
RemoteOps ==
    {RemoteOp("add", NoId, Fresh(HouseIds), n) : n \in {m \in Names : HouseIds \ minted # {}}}
    \cup {RemoteOp(k, i, NoId, NoName) : k \in {"check", "uncheck", "delete"}, i \in Shown(rows)}
    \cup {RemoteOp("clear", NoId, NoId, NoName)}

RemoteChange(op) ==
    /\ Spend("remote")
    /\ rows' = Served(rows, op).rows
    /\ events' = events \o Served(rows, op).events
    /\ known' = known \cup Shown(rows')
    /\ minted' = minted \cup ({op.sent} \ {NoId})
    /\ UNCHANGED <<late, disk, page, tasks, ideal, alias, excused>>

(* The debounced write of the snapshot, while a reload can still read it.  *)
Persist ==
    /\ Left("reloads")
    /\ snap # view
    /\ snap' = view
    /\ UNCHANGED <<server, queue, page, tasks, spent, history>>

(* The page is killed and loaded again: the snapshot is shown, the queue   *)
(* asked for, the list fetched.  A request that was out may yet arrive.    *)
Reload ==
    /\ Spend("reloads")
    /\ \/ UNCHANGED late
       \/ replay.phase = "wire" /\ late' = late \cup {Current}
    /\ view' = snap /\ pending' = {} /\ online' = TRUE
    /\ events' = <<>>
    /\ replay' = NoReplay
    /\ unsaved' = {}
    /\ boot' = queue
    /\ \E d \in Procs : proc' = [e \in Procs |-> IF e = d THEN Fetch ELSE Idle]
    /\ UNCHANGED <<rows, disk, history>>

Boot ==
    /\ boot # <<>>
    /\ boot' = <<>>
    /\ LET s == Reapplied(view, pending, boot) IN view' = s.view /\ pending' = s.ids
    /\ UNCHANGED <<server, disk, online, replay, proc, unsaved, spent, history>>
-----------------------------------------------------------------------------
OneRowPerKey(v) ==
    \A i, j \in Shown(v) : KeyOf[v[i].name] = KeyOf[v[j].name] => i = j

Init ==
    /\ rows \in {r \in [Ids -> Row \cup {NoRow}] : Shown(r) \subseteq HouseIds /\ OneRowPerKey(r)}
    /\ events = <<>> /\ late = {}
    /\ queue = <<>> /\ snap = rows
    /\ view = rows /\ pending = {} /\ online = TRUE
    /\ replay = NoReplay /\ proc = [d \in Procs |-> Idle]
    /\ unsaved = {} /\ boot = <<>>
    /\ \E limit \in Limits : spent = [limit |-> limit, used |-> [k \in Bounded |-> 0]]
    /\ minted = Shown(rows) /\ known = Shown(rows)
    /\ ideal = rows /\ alias = [i \in Ids |-> i]
    /\ excused = {}

Shopper ==
    \/ \E n \in Names : TapAdd(n)
    \/ \E i \in Shown(view) : TapToggle(i) \/ TapRemove(i)
    \/ TapClear

Syncing(d) == Count(d) \/ Recount(d) \/ ListServed(d) \/ Land(d) \/ Reapply(d)
Replaying == ServerExecutes \/ HandleOk \/ HandleGone \/ SwapStarts \/ SwapEnds

Next ==
    \/ Shopper
    \/ \E u \in unsaved : RollBack(u)
    \/ \E d \in Procs : Syncing(d) \/ Retry(d) \/ ListFails(d)
    \/ Replaying \/ RequestFails \/ \E op \in late : ServedLate(op)
    \/ DeliverEvent \/ Reconnect
    \/ \E op \in RemoteOps : RemoteChange(op)
    \/ Persist \/ Reload \/ Boot

(* What the page and the server have begun they finish, and the recovery   *)
(* ticker keeps ticking; nothing is assumed of people, losses or faults.   *)
Fairness ==
    /\ \A d \in Procs : WF_vars(Syncing(d))
    /\ WF_vars(Replaying)
    /\ WF_vars(DeliverEvent)
    /\ WF_vars(Boot)
    /\ WF_vars(Ticker)

Spec == Init /\ [][Next]_vars
FairSpec == Spec /\ Fairness
=============================================================================
