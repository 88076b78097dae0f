------------------------------ MODULE LiveList ------------------------------
(***************************************************************************)
(* How a phone that only watches keeps up with the list: request threads   *)
(* that commit under the repository's lock and publish after they have let *)
(* it go (routes/items.py, routes/mcp.py), enrichments that await the      *)
(* language model between two commits (llm.py), the bounded queue of the   *)
(* phone's stream (bus.py, routes/events.py), the loop that keeps the      *)
(* stream open (StreamClient), and the lists the phone fetches when it     *)
(* does, when its tab comes back and when the network does                 *)
(* (store.svelte.ts, AppShell.svelte).  Nothing holds back one fetch while *)
(* another is out.                                                         *)
(*                                                                         *)
(* The rows are ListRepo's, one per name, kept to what a phone shows, of   *)
(* names the built-in icons do not know.  "doubt" is history: the rows for *)
(* which something is known to have gone out of order or missing on the    *)
(* way to the phone.                                                       *)
(***************************************************************************)
EXTENDS Integers, Sequences, FiniteSets, StreamClient

CONSTANTS
    Names,
    Ids,        \* ids the server mints for rows
    Icons,      \* icons the model answers with
    Threads,    \* request threads
    Tasks,      \* enrichments awaiting the model at once; none without one
    Fetches,    \* lists the phone is waiting for at once
    MaxQueue,   \* what the stream's queue holds
    MaxChanges, \* bound on requests
    MaxFetches, \* bound on lists fetched
    NoRow, NoIcon

Row == [name : Names, status : {"active", "checked"}, icon : Icons \cup {NoIcon}]

ASSUME LiveListAssumption ==
    /\ MaxQueue \in Nat \ {0} /\ MaxChanges \in Nat /\ MaxFetches \in Nat
    /\ NoIcon \notin Icons /\ NoRow \notin Row

VARIABLES
    rows,       \* rows[i]: the item with that id, or NoRow
    catalog,    \* catalog[n]: the shortcut of name n
    thread,     \* the request each thread is serving
    scheduled,  \* enrichments handed to the loop, oldest first
    task,       \* enrichments that have asked the model
    bus,        \* events queued for the phone, oldest first
    subscribed, \* whether the server keeps a queue for the phone's stream
    fetch,      \* fetch[f]: a list the phone is fetching
    view,       \* what the phone shows
    minted,     \* ids ever given out
    spent,      \* requests and fetches so far
    doubt       \* history

server == <<rows, catalog, minted>>
enricher == <<scheduled, task>>
link == <<stream, subscribed>>
phone == <<link, fetch, view>>
vars == <<server, thread, enricher, bus, phone, spent, doubt>>
-----------------------------------------------------------------------------
Listed(v) == {i \in Ids : v[i] # NoRow}
Named(n) == {i \in Listed(rows) : rows[i].name = n}
In(status) == {i \in Listed(rows) : rows[i].status = status}
Without(v, gone) == [i \in Ids |-> IF i \in gone THEN NoRow ELSE v[i]]

RowEvent(i, row) == [kind |-> "row", ids |-> {i}, row |-> row]
GoneEvent(i) == [kind |-> "gone", ids |-> {i}, row |-> NoRow]
NullEvent == [kind |-> "null", ids |-> {}, row |-> NoRow]
ClearEvent == [kind |-> "clear", ids |-> Ids, row |-> NoRow]

Idle == [pc |-> "idle", event |-> NullEvent, enrich |-> FALSE, kind |-> "none", id |-> NoRow]
ToPublish(e, enrich) ==
    [pc |-> "publish", event |-> e, enrich |-> enrich, kind |-> "none", id |-> NoRow]
NoTask == [pc |-> "none", id |-> NoRow, row |-> NoRow, icon |-> NoIcon, event |-> NullEvent]
NoFetch == [pc |-> "none", list |-> [i \in Ids |-> NoRow], calm |-> FALSE]

(* Shortcuts: offered, stashed by a delete, or not there.                  *)
NoShortcut == [kept |-> "none", icon |-> NoIcon]
Fresh == [kept |-> "live", icon |-> NoIcon]
(* _bump_catalog: a stash is revived, or purged first if it is too old.    *)
Counted(n) ==
    {[catalog[n] EXCEPT !.kept = "live"]} \cup {c \in {Fresh} : catalog[n].kept = "stashed"}
Stashed(n) == [catalog[n] EXCEPT !.kept = IF @ = "none" THEN "none" ELSE "stashed"]

Unpublished ==
    {thread[t].event : t \in {u \in Threads : thread[u].pc = "publish"}}
    \cup {task[k].event : k \in {l \in Tasks : task[l].pc = "publish"}}
Calm == bus = <<>> /\ Unpublished = {}
Served == {f \in Fetches : fetch[f].pc = "served"}
Crossed == [f \in Fetches |-> [fetch[f] EXCEPT !.calm = FALSE]]

(* A commit on a row whose last event is unpublished may be overtaken.     *)
Commits(ids) ==
    /\ doubt' = doubt \cup {i \in ids : \E e \in Unpublished : i \in e.ids}
    /\ fetch' = Crossed
Request == spent.changes < MaxChanges /\ spent' = [spent EXCEPT !.changes = @ + 1]
-----------------------------------------------------------------------------
(* Requests: the commit, then the event once the lock is free.             *)

Handle(t, todo, ids) ==
    /\ thread[t].pc = "idle"
    /\ Request
    /\ thread' = [thread EXCEPT ![t] = todo]
    /\ Commits(ids)
    /\ UNCHANGED <<enricher, bus, link, view>>

(* add_item: the row of that name is left as it is or put back on the      *)
(* list, or a new one is made; the last two are counted.                   *)
AddRow(t, i, row) ==
    /\ rows' = [rows EXCEPT ![i] = row]
    /\ minted' = minted \cup {i}
    /\ Handle(t, ToPublish(RowEvent(i, row), row.icon = NoIcon), {i})

AddItem(t, n) ==
    \/ \E i \in Named(n) \cap In("active") : AddRow(t, i, rows[i]) /\ UNCHANGED catalog
    \/ \E c \in Counted(n) :
          /\ catalog' = [catalog EXCEPT ![n] = c]
          /\ \/ \E i \in Named(n) \cap In("checked") :
                   AddRow(t, i, [rows[i] EXCEPT !.status = "active"])
             \/ /\ Named(n) = {}
                /\ \E i \in Ids \ minted :
                      AddRow(t, i, [name |-> n, status |-> "active", icon |-> c.icon])

PatchItem(t, i, status) ==
    /\ LET row == [rows[i] EXCEPT !.status = status]
       IN /\ rows' = [rows EXCEPT ![i] = row]
          /\ Handle(t, ToPublish(RowEvent(i, row), FALSE), {i})
    /\ UNCHANGED <<catalog, minted>>

(* Mutant: the row goes and nobody is told.                                *)
DeleteUnannounced(t, i) ==
    /\ rows' = Without(rows, {i})
    /\ catalog' = [catalog EXCEPT ![rows[i].name] = Stashed(rows[i].name)]
    /\ Handle(t, Idle, {i})
    /\ UNCHANGED minted
DeleteItem(t, i) ==
    /\ rows' = Without(rows, {i})
    /\ catalog' = [catalog EXCEPT ![rows[i].name] = Stashed(rows[i].name)]
    /\ Handle(t, ToPublish(GoneEvent(i), FALSE), {i})
    /\ UNCHANGED minted

ClearChecked(t) ==
    /\ rows' = Without(rows, In("checked"))
    /\ Handle(t, ToPublish(ClearEvent, FALSE), Ids)
    /\ UNCHANGED <<catalog, minted>>

(* forget_catalog: phones hear of it, and their lists do not change.       *)
Forget(t, n) ==
    /\ catalog[n].kept # "none"
    /\ catalog' = [catalog EXCEPT ![n] = NoShortcut]
    /\ Handle(t, ToPublish(NullEvent, FALSE), {})
    /\ UNCHANGED <<rows, minted>>

(* The agent's tools look the row up in one call and act on it in another. *)
Find(t, kind) ==
    /\ \E i \in CASE kind = "check" -> In("active")
                  [] kind = "uncheck" -> In("checked")
                  [] kind = "remove" -> Listed(rows) :
          Handle(t, [Idle EXCEPT !.pc = "found", !.kind = kind, !.id = i], {})
    /\ UNCHANGED server

ActOnFound(t) ==
    /\ thread[t].pc = "found"
    /\ LET i == thread[t].id
           removes == thread[t].kind = "remove"
           row == IF rows[i] = NoRow THEN NoRow
                  ELSE [rows[i] EXCEPT !.status = IF thread[t].kind = "check" THEN "checked"
                                                  ELSE "active"]
           event == IF removes THEN GoneEvent(i)
                    ELSE IF row = NoRow THEN NullEvent ELSE RowEvent(i, row)
       IN /\ rows' = [rows EXCEPT ![i] = IF removes THEN NoRow ELSE row]
          /\ catalog' = IF removes /\ row # NoRow
                        THEN [catalog EXCEPT ![row.name] = Stashed(row.name)] ELSE catalog
          /\ thread' = [thread EXCEPT ![t] = ToPublish(event, FALSE)]
          /\ Commits({i})
    /\ UNCHANGED <<minted, enricher, bus, link, view, spent>>
-----------------------------------------------------------------------------
(* EventBus: a queue that is full, or a phone that is not there, misses    *)
(* the event.                                                              *)
Publish(e) ==
    /\ bus' = IF subscribed /\ Len(bus) < MaxQueue THEN Append(bus, e) ELSE bus
    /\ doubt' = IF subscribed /\ Len(bus) < MaxQueue THEN doubt ELSE doubt \cup e.ids
    /\ fetch' = Crossed

(* The event goes out and, after an add that left a row without an icon,   *)
(* an enrichment is handed to the loop, which runs it when it comes to it. *)
PublishRequest(t) ==
    /\ thread[t].pc = "publish"
    /\ Publish(thread[t].event)
    /\ thread' = [thread EXCEPT ![t] = Idle]
    /\ scheduled' = IF thread[t].enrich
                    THEN Append(scheduled, thread[t].event) ELSE scheduled
    /\ UNCHANGED <<server, task, link, view, spent>>

(* enrich_async up to the model's answer: no model, an icon already in the *)
(* catalogue, or the question.                                             *)
SkipModel ==
    /\ scheduled # <<>>
    /\ scheduled' = Tail(scheduled)
    /\ UNCHANGED <<server, thread, task, bus, phone, spent, doubt>>

AskModel(k) ==
    /\ scheduled # <<>> /\ task[k].pc = "none"
    /\ scheduled' = Tail(scheduled)
    /\ LET row == Head(scheduled).row
       IN /\ ~(catalog[row.name].kept = "live" /\ catalog[row.name].icon # NoIcon)
          /\ \E i \in Head(scheduled).ids :
                task' = [task EXCEPT ![k] =
                    [NoTask EXCEPT !.pc = "asked", !.id = i, !.row = row]]
    /\ UNCHANGED <<server, thread, bus, phone, spent, doubt>>

ModelFails(k) ==
    /\ task[k].pc = "asked"
    /\ task' = [task EXCEPT ![k] = NoTask]
    /\ UNCHANGED <<server, thread, scheduled, bus, phone, spent, doubt>>

(* set_enrichment: a shortcut, stashed or not, learns an icon once.        *)
Learn(k, icon) ==
    /\ task[k].pc = "asked"
    /\ LET n == task[k].row.name
       IN catalog' = [catalog EXCEPT ![n].icon =
              IF catalog[n].kept # "none" /\ @ = NoIcon THEN icon ELSE @]
    /\ task' = [task EXCEPT ![k] = [task[k] EXCEPT !.pc = "learned", !.icon = icon]]
    /\ UNCHANGED <<rows, minted, thread, scheduled, bus, phone, spent, doubt>>

(* Mutant: what update_item answered is published, nothing included.       *)
FileRowBare(k) ==
    /\ task[k].pc = "learned"
    /\ LET i == task[k].id
           gone == rows[i] = NoRow
           row == IF gone THEN NoRow ELSE [rows[i] EXCEPT !.icon = task[k].icon]
       IN /\ rows' = IF gone THEN rows ELSE [rows EXCEPT ![i] = row]
          /\ task' = [task EXCEPT ![k] =
                [task[k] EXCEPT !.pc = "publish", !.event = RowEvent(i, row)]]
          /\ doubt' = doubt \cup {j \in {i} : gone \/ \E e \in Unpublished : j \in e.ids}
          /\ fetch' = Crossed
    /\ UNCHANGED <<catalog, minted, thread, scheduled, bus, link, view, spent>>

(* update_item, and what is to be published: the row, or the row as it was *)
(* when the enrichment was scheduled if it has gone since.                 *)
FileRow(k) ==
    /\ task[k].pc = "learned"
    /\ LET i == task[k].id
           gone == rows[i] = NoRow
           row == IF gone THEN task[k].row ELSE [rows[i] EXCEPT !.icon = task[k].icon]
       IN /\ rows' = IF gone THEN rows ELSE [rows EXCEPT ![i] = row]
          /\ task' = [task EXCEPT ![k] =
                [task[k] EXCEPT !.pc = "publish", !.event = RowEvent(i, row)]]
          /\ doubt' = doubt \cup {j \in {i} : gone \/ \E e \in Unpublished : j \in e.ids}
          /\ fetch' = Crossed
    /\ UNCHANGED <<catalog, minted, thread, scheduled, bus, link, view, spent>>

PublishTask(k) ==
    /\ task[k].pc = "publish"
    /\ Publish(task[k].event)
    /\ task' = [task EXCEPT ![k] = NoTask]
    /\ UNCHANGED <<server, thread, scheduled, link, view, spent>>
-----------------------------------------------------------------------------
(* The phone.                                                              *)

(* applyEvent; an event that arrives while a list that was read is on its  *)
(* way will be overwritten by it.                                          *)
DeliverEvent ==
    /\ es = "open" /\ bus # <<>>
    /\ bus' = Tail(bus)
    /\ LET e == Head(bus)
       IN /\ view' = CASE e.kind = "row" -> [i \in Ids |-> IF i \in e.ids THEN e.row ELSE view[i]]
                       [] e.kind = "gone" -> Without(view, e.ids)
                       [] e.kind = "clear" ->
                            Without(view, {i \in Listed(view) : view[i].status = "checked"})
                       [] e.kind = "null" -> view
          /\ doubt' = IF Served # {} THEN doubt \cup e.ids ELSE doubt
    /\ fetch' = Crossed
    /\ UNCHANGED <<server, thread, enricher, link, spent>>

(* retry: a watching phone has nothing to drain, so this is the list being *)
(* asked for, whatever is asked for already.                               *)
AskList(f) ==
    /\ fetch[f].pc = "none" /\ spent.fetches < MaxFetches
    /\ spent' = [spent EXCEPT !.fetches = @ + 1]
    /\ fetch' = [fetch EXCEPT ![f] = [NoFetch EXCEPT !.pc = "asked"]]

(* The tab comes back, or the network; or the ticker thinks it has gone.   *)
Refresh(f) ==
    /\ ~closed
    /\ AskList(f)
    /\ UNCHANGED <<server, thread, enricher, bus, link, view, doubt>>

(* event_stream: the server lets the attempt in and keeps a queue for it.  *)
Subscribe ==
    /\ es = "connecting" /\ ~subscribed
    /\ subscribed' = TRUE
    /\ UNCHANGED <<server, thread, enricher, bus, stream, fetch, view, spent, doubt>>

(* The stream is open, and the list is asked for, or is to no avail.       *)
Connect ==
    /\ subscribed /\ Opens
    /\ (\E f \in Fetches : AskList(f)) \/ UNCHANGED <<fetch, spent>>
    /\ UNCHANGED <<server, thread, enricher, bus, subscribed, view, doubt>>

(* The stream goes, or the attempt does, with what its queue held.         *)
Lose ==
    /\ Fails
    /\ subscribed' = FALSE /\ bus' = <<>>
    /\ doubt' = doubt \cup UNION {bus[j].ids : j \in DOMAIN bus}
    /\ UNCHANGED <<server, thread, enricher, fetch, view, spent>>

Attempt ==
    /\ \E has \in BOOLEAN : TimerFires(has)
    /\ UNCHANGED <<server, thread, enricher, bus, subscribed, fetch, view, spent, doubt>>

(* A phone that is signed out forgets its list and is reloaded.            *)
Probe ==
    /\ \E still \in BOOLEAN : ProbeAnswers(still)
    /\ view' = IF closed' THEN [i \in Ids |-> NoRow] ELSE view
    /\ fetch' = IF closed' THEN [f \in Fetches |-> NoFetch] ELSE fetch
    /\ UNCHANGED <<server, thread, enricher, bus, subscribed, spent, doubt>>

ServeList(f) ==
    /\ fetch[f].pc = "asked"
    /\ fetch' = [fetch EXCEPT ![f] =
          [pc |-> "served", list |-> rows, calm |-> subscribed /\ Calm]]
    /\ UNCHANGED <<server, thread, enricher, bus, link, view, spent, doubt>>

(* The list replaces what is shown, in whatever order lists come.  One     *)
(* that nothing crossed settles all doubts, but for what a list read       *)
(* before it and still on its way will put back.                           *)
LandList(f) ==
    /\ f \in Served
    /\ view' = fetch[f].list
    /\ fetch' = [fetch EXCEPT ![f] = NoFetch]
    /\ doubt' = IF fetch[f].calm
                THEN {i \in Ids : \E g \in Served : fetch[g].list[i] # fetch[f].list[i]}
                ELSE doubt
    /\ UNCHANGED <<server, thread, enricher, bus, link, spent>>

(* The request fails, or its answer does.                                  *)
ListFails(f) ==
    /\ fetch[f].pc # "none"
    /\ fetch' = [fetch EXCEPT ![f] = NoFetch]
    /\ UNCHANGED <<server, thread, enricher, bus, link, view, spent, doubt>>
-----------------------------------------------------------------------------
Init ==
    /\ rows = [i \in Ids |-> NoRow]
    /\ catalog = [n \in Names |-> NoShortcut]
    /\ thread = [t \in Threads |-> Idle]
    /\ scheduled = <<>> /\ task = [k \in Tasks |-> NoTask]
    /\ bus = <<>> /\ subscribed = TRUE /\ view = rows
    /\ fetch = [f \in Fetches |-> NoFetch]
    /\ es = "open" /\ timer = FALSE /\ probing = FALSE /\ failures = 0 /\ closed = FALSE
    /\ minted = {} /\ doubt = {}
    /\ spent = [changes |-> 0, fetches |-> 0]

Serve(t) ==
    \/ \E n \in Names : AddItem(t, n) \/ Forget(t, n)
    \/ \E i \in Listed(rows) :
          \/ \E s \in {"active", "checked"} : PatchItem(t, i, s)
          \/ DeleteItem(t, i)
    \/ ClearChecked(t)
    \/ \E kind \in {"check", "uncheck", "remove"} : Find(t, kind)
    \/ ActOnFound(t)
    \/ PublishRequest(t)

Enrich(k) ==
    \/ AskModel(k) \/ ModelFails(k)
    \/ \E icon \in Icons \cup {NoIcon} : Learn(k, icon)
    \/ FileRow(k) \/ PublishTask(k)

Fetch(f) == Refresh(f) \/ ServeList(f) \/ LandList(f) \/ ListFails(f)

Next ==
    \/ \E t \in Threads : Serve(t)
    \/ SkipModel \/ \E k \in Tasks : Enrich(k)
    \/ \E f \in Fetches : Fetch(f)
    \/ DeliverEvent \/ Attempt \/ Subscribe \/ Connect \/ Lose \/ Probe

Spec == Init /\ [][Next]_vars
-----------------------------------------------------------------------------
Value == Row \cup {NoRow}

Event ==
    {e \in [kind : {"row", "gone", "null", "clear"}, ids : SUBSET Ids, row : Value] :
        /\ e.kind = "row" => e.row \in Row
        /\ e.kind = "gone" => e.row = NoRow
        /\ e.kind = "clear" => e.ids = Ids
        /\ e.kind = "null" => e.ids = {}}

Shortcut == [kept : {"live", "stashed", "none"}, icon : Icons \cup {NoIcon}]

ThreadState ==
    {r \in [pc : {"idle", "found", "publish"}, event : Event, enrich : BOOLEAN,
            kind : {"none", "check", "uncheck", "remove"}, id : Ids \cup {NoRow}] :
        /\ r.pc = "found" => r.id \in Ids
        /\ r.enrich => r.event.kind = "row"}

TaskState ==
    {r \in [pc : {"none", "asked", "learned", "publish"}, id : Ids \cup {NoRow},
            row : Value, icon : Icons \cup {NoIcon}, event : Event] :
        r.pc \in {"asked", "learned"} => r.id \in Ids /\ r.row \in Row}

FetchState == [pc : {"none", "asked", "served"}, list : [Ids -> Value], calm : BOOLEAN]

Typed ==
    /\ rows \in [Ids -> Value] /\ view \in [Ids -> Value]
    /\ catalog \in [Names -> Shortcut]
    /\ thread \in [Threads -> ThreadState] /\ task \in [Tasks -> TaskState]
    /\ scheduled \in Seq(Event) /\ \A j \in DOMAIN scheduled : scheduled[j].kind = "row"
    /\ bus \in Seq(Event) /\ Len(bus) <= MaxQueue
    /\ fetch \in [Fetches -> FetchState]
    /\ subscribed \in BOOLEAN /\ minted \subseteq Ids /\ doubt \subseteq Ids

(* Every component holds a value of its type: rows, shortcuts, what each   *)
(* request and enrichment has found or has to say, the queue, the lists on *)
(* their way, the screen and the loop of the stream.  No event is about a  *)
(* row that is not one.                                                    *)
TypeOK == Typed /\ StreamTypeOK

(* Nothing is under way anywhere and the phone's stream is open.           *)
Quiet ==
    /\ es = "open" /\ bus = <<>> /\ scheduled = <<>>
    /\ \A f \in Fetches : fetch[f].pc = "none"
    /\ \A t \in Threads : thread[t].pc = "idle"
    /\ \A k \in Tasks : task[k].pc = "none"

(* A quiet phone shows the list, row for row, but for the rows in doubt:   *)
(* an event overtaken between commit and publish, one lost to a full queue *)
(* or a dead stream, one overwritten by a list that was read before it, a  *)
(* row put back by a list that was read before one which landed sooner, or *)
(* an enrichment of a row that had gone.  Nothing else makes a phone       *)
(* wrong, and a list nothing crossed puts all of it right.                 *)
ShowsTheList ==
    Quiet => \A i \in Ids \ doubt : view[i] = rows[i]

(* docs/hosting.md:128-129: the event stream "is how the list stays in     *)
(* sync between phones".                                                   *)
InSync == Quiet => view = rows
=============================================================================
