# Trug, specified

A TLA+ development of [Trug](../src/README.md), a self-hosted shared shopping
list: a FastAPI server over one SQLite file, a Svelte web app that works offline,
a language model that files new names, and an MCP endpoint for assistants.

Line numbers below are those of the sources at the commit the modules were
written from; `PROJECT.json` maps every definition that models code to its lines.

## 1. Inventory

### Server

| Component | State it keeps | Operations | What makes it correct |
|---|---|---|---|
| **List repository** `repo.py` | `items`, `catalog` (shortcuts: count, learned icon, `retired_at` stash), the lock | add, patch, update, delete (stashes the shortcut), clear, forget, set_enrichment, purge, the start-up migrations | one row per name; a delete is undone whole or final; what is learned is learned once; a start-up costs nothing |
| **Naming** `normalise.py` | none | fold a typed name onto a known key | the fold never makes a second key for a known name |
| **Notes** `repo.py:61-100` | none | merge a re-added note into the one stored | nothing lost; the docstring also says nothing repeated, which is not so (section 6) |
| **Catalogue ranking** `repo.py`, `routes/catalog.py` | none of its own | search, recents (frecency) | order only |
| **Item routes** `routes/items.py` | none | REST handlers: a repository call, then a publish | what is committed is announced |
| **Event bus** `bus.py`, `routes/events.py` | one bounded queue a subscriber | publish (drops when full), stream, keep-alive | a miss is recoverable by fetching the list |
| **Enrichment** `llm.py` | a task per add without icon | guard, model call, learn, file the row, announce | never announces what is not, never overrides |
| **MCP tools** `routes/mcp.py` | none | add, check, uncheck, remove, list over JSON-RPC | find-then-act acts on what was found |
| **Members** `auth_repo.py`, `routes/authn.py` | users, credentials, sessions, invites, challenges, the reopened flag | claim, invite, register, sign in, sign out, remove, expire | the household cannot lock itself out; an invite is one passkey; a claim is one claim |
| **Operator's doctor** `doctor.py` | none | recover: invite, reset-bootstrap, cancel-reset, revoke-all | as above, from another process |
| **OAuth** `oauth*.py`, `routes/oauth.py` | clients, codes, tokens | register, authorise, exchange, rotate, revoke | a code is spent once; a rotated token is dead |
| **Rate limiter** `ratelimit.py` | windows by key, capped | check, with the eviction of the window seen longest ago | bounded memory, bounded attempts |
| **Model settings** `llm_config.py`, `routes/llm.py`, `llm.py` | one row with a sealed key; the environment; the client in use | save, clear, test, show, rebuild | what is used is what was saved; a key stays with its provider; a stored row never silences a good environment |
| **Principals**, **capture and share**, **icons and categories** | none; none; a table | resolve a request; split a message; look up | see section 7 |

### Web app

| Component | State it keeps | Operations | What makes it correct |
|---|---|---|---|
| **Offline store** `store.svelte.ts`, `snapshot.ts` | the list on screen, the pending markers, online, the running drain, the snapshot in localStorage | add, toggle, remove, clear, drain, refresh, applyEvent, boot | changes made offline come to what they would have come to online |
| **Operation queue** `opqueue.ts` | IndexedDB table of changes | enqueue, flush, rewriteItemId | in order, none lost, none sent twice to different effect |
| **Retry ticker** `AppShell.svelte` | a 20 s timer | drain and refresh while there is something to recover | it runs whenever there is |
| **HTTP client** `api.ts` | none | requests with a time-out, errors sorted into four kinds | |
| **Event stream client** `sse.ts` | the EventSource, back-off, probe | open, retry, probe, disconnect | exactly one stream |
| **Screens and gestures** | pointer and animation state | | outside this development |

### How they interact

A tap changes the screen at once, puts a change in IndexedDB and starts a drain.
The drain sends the queue from the front; each request ends in a repository call
under the one lock and *afterwards* a publish on the bus. Every connected phone
gets the event through its own bounded queue and applies it; a phone that
(re)connects or whose tab returns fetches the whole list, which replaces what it
shows except what its queued changes put back. Nothing keeps two such fetches from
overlapping. An add that finds no icon schedules
an enrichment, which waits for the model with no lock and then makes two commits
and a publish of its own. Assistants go through the same repository and bus.
Accounts live in a second repository with its own lock; a ceremony is two requests
(options, verify), and a verify is several lock holds.

### What is hard here

* One lock hold is one commit, but a *request* is not: the name is folded before
  the lock (`repo.py:352`), the event is published after it (`routes/items.py:111`),
  the MCP tools find in one hold and act in another, an authentication ceremony
  makes up to five.
* The model's answer comes seconds after the guard it passed.
* The phone's store is a single thread full of awaits; taps, events, refreshes and
  the drain interleave at every one of them, and a page can be reloaded at any.
* The network loses requests and answers; the queue is re-sent from the front.
* Optimistic ids are exchanged for the server's while changes naming them wait.
* Queues and windows have limits, and what falls off them is silent.
* Migrations commit one by one; the server can stop between two.

The full list, by line, is `hazards` in `PROJECT.json`.

## 2. Modules

| Module | Models | Extends |
|---|---|---|
| `Naming` | `normalise.py` with a catalogue in view | |
| `ListRepo` | the list repository | `Naming` |
| `ShoppingList` | *abstract*: what the household is promised of its list | |
| `ListRepoProps` | properties of `ListRepo`, and the refinement mapping to `ShoppingList` | `ListRepo` |
| `ListRepoProofs` | theorems about `ListRepo`, with the refinement of `ShoppingList`, and about `NoteText` | `ListRepoProps`, `NoteText`, `TLAPS` |
| `NoteText` | the merge of notes, as text | |
| `StreamClient` | the loop of `sse.ts` that keeps one stream open | |
| `StreamWorld` | that loop with a network and a server that come and go | `StreamClient` |
| `StreamWorldProofs` | theorems about `StreamWorld` | `StreamWorld`, `TLAPS` |
| `LiveList` | routes, MCP, enrichment, bus and a watching phone | `StreamClient` |
| `LiveListProofs` | theorems about `LiveList` | `LiveList`, `TLAPS` |
| `OfflineStore`, `OfflineStoreProps` | the phone that shops: store, queue, ticker | |
| `OfflineStoreProofs` | theorems about `OfflineStore` | `OfflineStoreProps`, `TLAPS` |
| `Members`, `MembersProps` | accounts and ceremonies, with the doctor's commands | |
| `MembersProofs` | theorems about `Members` | `MembersProps`, `TLAPS` |
| `OAuth`, `OAuthProps` | the authorization server for connectors, with honest clients | |
| `OAuthProofs` | theorems about `OAuth` | `OAuthProps`, `TLAPS` |
| `ModelSettings`, `ModelSettingsProps` | the settings of the language model and the client made of them | |
| `SettingsProofs` | theorems about `ModelSettings` | `ModelSettingsProps`, `TLAPS` |
| `RateLimiter`, `RateLimiterProps` | the limiter and the address it counts under | |
| `RateLimiterProofs` | theorems about `RateLimiter` | `RateLimiterProps`, `TLAPS` |
| `MC...` | bounds and symmetry for TLC | the module they name |

A mutant of a definition (what a plausible bug would make of it) stands just above
it and is used by no action; each property of a passing run is violated when its
mutant is put in the definition's place.

### ListRepo

`items` and `catalog` are the two tables, `now` the clock, `boot` the migration
about to run, `adding[t]` the name a request thread has folded and not yet
committed. `Init` is any database an older release can have left: several rows of
a name, names that current rules would fold, shortcuts with and without icons.
The two migrations that move a row or file one anew, the collapse of duplicates and the
refiling by the built-in map, are actions in their order, and `Restart` can come between
them or at any time later. The others are left out: the two columns added to an old schema
(`Init` has them), and the two that rename an icon (`_migrate_nut_icon` and
`_migrate_coconut_milk_icon`, `repo.py:236-268`), which run between the two that are there
and touch neither names, notes nor status, nor give an icon to what has none.

Every public method is one action; `add_item` is two: `AddStart` folds the
name outside the lock, and one of four outcomes commits it (already active; put
back from the basket; new row; each counting, reviving or starting the shortcut).
A stash older than `Window` is purged by the code at the next add or delete, and
by those actions here.

Data: a note is a set of segments, an icon stands for itself and its aisle, a row
id stands for its place in `(created_at, id)` order. `sort_key` and display names
are left out.

`ShoppingList` has no ids, rows, threads, clock or start-up in it: a name is on the
list, in the basket or nowhere, and its shortcut is offered, stashed or absent.
`KeepsPromise` is the refinement: a two-row name shows as one place, the fold and
a restart show as stuttering, the purge as a stash that lapses.

### NoteText

`_merge_notes` on a note as the sequence of its segments (joined by "; " in the
code). An incoming note may have several. `ListRepo` keeps only the set of them, which
`NothingWrittenIsLost`, proved in `ListRepoProofs`, allows; that no segment is stored twice is
what the docstring says and the code does not do (section 6). Its specification is called
`NoteSpec`, for the sake of the module that proves about both.

### LiveList

One action is one commit or one publish. `thread[t]` holds the event a request has
committed and not yet published, or the row an MCP tool has found and not yet acted
on; `scheduled` is the enrichments handed to the loop and not yet begun, which no request
waits for; `task[k]` is one that has asked the model, at one of its awaits; `catalog` is what
decides whether it asks and what it may learn, with the stash of a delete, the revival of an
add and `Forget`; `bus` is one subscriber's queue. The watching phone applies events as they come. Its
stream is `StreamClient`'s, step for step: `Subscribe` is the server
letting an attempt in (from then on it keeps a queue for it), `Connect` the phone
hearing of it and asking for the list, `Lose` the end of a stream or of an attempt at
whatever moment, with what its queue held, `Probe` the sign-in check, which clears the
screen when the server refuses.

`fetch[f]` is a list the phone is waiting for. It asks for one when its stream opens and
when its tab or its network comes back (`AppShell.svelte:264-310`), whether or not
it is waiting for another (`store.svelte.ts:580-631`): each is served at one moment and
replaces the screen at a later one, in whatever order. A stream opens whether or not
`MaxFetches` leaves a list to ask for. `doubt` is history: the rows of which the model knows
that an event was overtaken, lost, overwritten or announced wrongly, or that a list on its way
is older than the one that settled them. `ShowsTheList` says that these ways are the *only*
ways. `OrderlySpec` (in `MCLiveList`) is the phone at its best, for the run `ghost`: its
stream never breaks and what is committed is published before the next commit.

### StreamClient and StreamWorld

`StreamClient` has no `Next` of its own: it gives the steps of `connectEvents` (the
timer's, the source's three callbacks, the probe's answer, `disconnect`) over five
variables, and two modules put them to use. `es`, `timer`, `probing` and `closed` are the
closure's `es`, `timer`, `probing` and `closed`; `failures` is kept up to
`PROBE_AFTER_FAILURES`, beyond which nothing reads it. How long a timer waits is left
out, and with it the back-off.
`StreamWorld` adds whether the phone reaches the server, is accepted by it and has a
credential at all. Those three change at any time (`Turns`). A stream let in before is
not asked for its credential again, as in `routes/events.py`.

### OfflineStore

An action is the code between two awaits of the page. `queue` is the IndexedDB
table, `replay` the flush (the entries it has read, what is on the wire, its answer,
the two steps of an id exchange), `proc[d]` a drain or a refresh at one of its awaits
(counting the queue, waiting for a flush under way, asking for the list, landing
it), `unsaved` the changes whose enqueue was refused, `boot` the re-application of
the queue after a load. `late` holds the requests whose time was up, or whose page was
reloaded, while they were still on their way: the phone sends them again, and the first copy is
carried out at any later moment (`ServedLate`). The server is `Served`: one row a key, an add idempotent by
its id and then by its key, an update of a row that is gone answered 404, which is what
`ListRepo` guarantees. `ideal` is history: the rows had each change been sent as it was
made, with `alias` telling which of them an id on the screen stands for. `excused` is the
keys of which nothing is claimed: those tapped under an id that nothing can repoint
(`OutOfReach`), those added again while two rows wait under one id (`Strays`), and those a
given-up request changes behind later changes (section 6 has how each comes about).

IndexedDB runs overlapping transactions in the order they were opened, so an
enqueue and a read are each one step at the moment they open. A drain's count and the read of the
entries by the flush it starts follow each other with nothing but a promise in between, and are
one step; either may fail (`CannotRead`). `Procs` bounds how many taps, drains and refreshes
are between their awaits at once. The page has no such bound: the theorems hold for any number,
the runs have two.

### Members

An action is one hold of the auth repository's lock; `thread[t]` is a request
between two of them with what it has read so far; `Abandon` ends a request between
any two, which covers a verification that fails and a process that stops. Passkeys and
sessions are named by the ceremony that made them. An invitation is up to four holds: `LookUp`
the name, `SeePasskeys` of the account found or `AddAccount`, and the invite. Time is an action that makes an
invite or a challenge expire. The doctor's commands are a process with no
session; their number is bounded by `MaxOperator`. History: accounts ever made,
chances to claim the household against claims made, passkeys enrolled by an invite.

### OAuth

The consent form and the token endpoint are coroutines that never await between their
commits except to fetch a client's document, so one of them runs at a time: `loop` is
that request, at one of its commits. The consent page, which may fetch and cache a
document, runs in a thread (`page[p]`); members join and leave, documents change, rows
expire and answers get lost between any two steps. `Approve` is the session check,
`Resolve` and `FormCaches` the client's list of addresses, `LookUpUser` the second
reading of the member, `CreateCode` the code. `GrantAuthorizationCode` and
`GrantRefreshToken` consume the row *first* and check the fields afterwards, in the
order of the code; the pair is issued in two commits. `Restart` ends every request where
it is. A client is honest about what it was given but may present it
twice, to the wrong grant or with a field wrong, and may never get its answer.
Tables name rows by the code they descend from; the code's hash, its verifier's challenge
and the tokens are model values, and expiry is an event. History: who approved a
code, who showed its verifier, what a document ever listed, which grants met a fault.

### ModelSettings

`row` is the single row of `llm_config` with what its key is sealed under, `secret`
and `env` the environment of this start, `client` the enricher's client. A change is
`PutRead` (validate and build a candidate against the row read), `PutSave`, then
`Enricher.reload` in two steps, for which nothing is held; `Delete` the same without
the first. `ReloadFails` is the 500 of a rebuild that raised. `Restart` draws the
secret and the environment anew, which covers a secret lost, changed or brought back.
`Trial` is what the test route makes a client of and the model-list route asks with, which
nothing keeps. A key is a value with the provider it was typed in for, an address one of `Urls`
or none.

### RateLimiter

`windows` is the `OrderedDict` in its order. `Arrive` is the dependency up to the
reading of the clock, `Check` everything under the lock, `Tick` a second. A thread waits for the lock
at most `MaxStale` seconds with its reading. `ClientIp` counts the trusted hops from the
end of the forwarding header and falls back to the peer when the header is too short or has no
address there; `Chain` is what proxies do to that header, whatever the caller put in it.
`ArriveDirect` is a caller beside the server that comes past the proxies; that one which
also names a well-formed address where a proxy would is counted under it is the limitation the
code accepts (I3, `ratelimit.py:152-157`), and such a caller is not in the module. History: `admitted`, when each caller's hits were let
in, as long as that matters to a window or a wait for the lock (`Recent`), and `seenSince`,
who was seen since a key was last.

## 3. Runs

| Run | Instance | Shows |
|---|---|---|
| `list` | 2 names one of which is the other's plural, 2 rows, 1 segment, 2 icons, 2 adds in flight, 2 ticks | type, one row per name, stash off the list, whole undo, learned once, start-up keeps everything, refinement of `ShoppingList` |
| `phone` | 2 spellings of one key, 2 rows of its own and 1 of another member, 2 drains or refreshes at once; scenarios below | the queue in order; offline comes to online; a drop is a deletion; no unmarked phantom |
| `phone_drains` | adds and ticks, one loss, fairness | the queue empties and its markers go |
| `live` | 1 name, 2 rows, 2 threads, 1 enrichment with the model, queue of 2, 3 requests, 2 fetches at once, a probe after 2 failures | what can make a watching phone wrong, and that nothing else does |
| `stream` | a probe after 3 failures, as in the code; fairness | one thing to wait for at a time; the stream returns when it can and ends at the gate when it must |
| `members` | 2 names, 3 accounts, 1 invite, 3 ceremonies, 2 threads, 2 operator commands | no lock-out, invite is passkey, one claim a grant, one account a name, session is passkey |
| `oauth` | 2 accounts, 1 name, one client of each kind, 4 addresses, 2 verifiers, 1 code, 2 pairs, 1 page, 2 events | an approval is one standing grant; a token comes of a consent; codes go where the client is; an honest client keeps up |
| `settings` | 3 providers with a key each, 2 addresses, 2 secrets or none, 2 threads, 3 changes, 2 restarts | what is used is what was saved; the page tells the truth; keys stay home; the environment is never shadowed |
| `limiter` | 3 callers behind 1 proxy or past it, 2 hits in 3 seconds, 2 windows, 2 threads, 5 seconds, 1 second of waiting | two windows' hits at most, fair denials with a true wait, nobody forgotten who keeps calling |
| `stuck_queue`, `ghost`, `note_text` | the smallest instance each needs | findings, section 6 |

The types of `Members`, `OAuth` and `ModelSettings` are proved (section 5) and not
checked again by the runs.

### Bounds, and why they are enough

* **list**: two names are the least with which a fold can go astray, and two rows of one
  name the least the collapse has to merge. A window of 0 and a clock that ends at 1
  give "inside" and "after" the window.
  Two threads are the least that race a fold. `MaxCount` 2 tells a revived count (2)
  from a new one (1).
* **phone**: `Limits` is a set of budgets of which one holds throughout a behaviour:
  three taps with nothing wrong; two taps with one lost request, answer or event;
  with one request carried out after it was given up; with one failing write of the
  phone's storage; with one refusal by the server; with a reload; with one change by
  another member; or one tap that is refused before or after a reload. Where no reload
  can come the snapshot is not kept (`Saved`). Two taps on one row around an id exchange
  are the least that can be misordered; a third lets one land after the exchange. Two
  `Procs` let a drain wait for another or a refresh land in the middle of one.
* **live**: two threads are the least that can publish out of order; a queue of 2 is full
  with one event left over; three requests are an add, a delete and another add, or a change,
  its undoing and one more; two fetches are the least of which the older can land last. The
  theorems have any number of each.
* **members**: two threads are the least that race; three accounts are two members
  who remove each other and a pending one; three ceremonies are a claim, a
  registration and a sign-in, or two claims and one other.
* **oauth**: a handler only ever touches the grant it was given, so one code shows what
  an approval can become; two pairs are one refresh and what it was refreshed from. One name
  and two accounts let a member leave and come back; two events are two of a fault, a change of
  document, a leave, a join and an expiry. The theorems hold for any number of each.
* **settings**: three changes let one overlap two others; two restarts let a secret go and
  return. Two cloud providers are the least between which a key can stray.
* **limiter**: five seconds hold a window, the second that ends it and another after it; the cap of 2
  is exceeded by the third caller; one second of waiting lets an older reading start a
  window after a newer one. It must be less than a window (`LimiterAssumption`; the
  shortest in the code is 60 s).
* **stream**: three failures are the code's own; the state is finite as it stands.

Sets of threads, tasks, drains, names, accounts and tokens are symmetric where no
operator tells their members apart; the runs under fairness use no symmetry.
Deadlock is checked only in `list`: elsewhere the taps, requests, ceremonies, events
or notes are bounded and the system may come to rest.

## 4. Fairness

Two runs need it. In `phone_drains`, `FairSpec` asks weak fairness of what the page and
the server have *begun*: a request on the wire is answered or given up (the client
has a time-out, `api.ts:39`) and its answer handled, each drain or refresh takes its
next step, an event on its way arrives, a page that has loaded re-applies its queue;
and of the 20-second ticker, which fires while its condition holds
(`AppShell.svelte:298-310`). All of them are steps the browser's event loop or the
server takes unasked. Nothing is assumed of people, of other members, of losses,
refusals or reloads: they may or may not happen, within the run's limits.

In `stream`, a timer that is set fires, a probe that is out is answered or times out
(`StillAuthed` counts no answer as still signed in), and an attempt opens or fails. The
network, the server's willingness and the credential are free to change for ever;
the properties speak of behaviours in which they come to stand still.

## 5. Proved

`ListRepoProofs` proves, for any set of names, rows, threads, icons and segments, any
fold table, window and bounds satisfying `ListRepoAssumption` and `NamingAssumption`:

* `TypeCorrect`: `Spec => []TypeOK`.
* `NameIsListedOnce`: `Spec => []OneRowPerName`. The add branches insert only when
  their key has no row in either status; the collapse leaves one row a key; no other
  action makes a row or changes a key.
* `StashIsOffTheList`: `Spec => []StashedNameIsOffTheList`. It is not inductive
  alone: a delete takes *one* row of the name and stashes its shortcut, which is sound only
  because that row was the only one. The invariant is therefore
  `IInv == TypeOK /\ OneRowPerName /\ StashedNameIsOffTheList`, and during
  start-up, when `OneRowPerName` does not hold yet, no request is served.
* `DeleteUndoneWholeOrFinal`: `Spec => UndoneWholeOrFinal`, from `TypeOK`: the only
  steps that make a stashed shortcut live are the add commits, each of which purges
  first.

Of the other properties of the `list` run, from the same assumptions and the same
invariant:

* `IconsAreLearnedOnce`: `Spec => LearnedOnce`, from `TypeOK` and lemmas on what each
  thing done to a shortcut (purge, count, revive, file, stash) leaves of its icon.
* `StartUpIsFree`: `Spec => StartUpKeepsNamesAndNotes`. The collapse keeps one row of a
  key, puts it on the list if any of them was, and gives it the union of their
  notes; the other migrations touch no row of the list but to file it.
* `RepositoryKeepsPromise`: `Spec => KeepsPromise`, that `ListRepo` implements
  `ShoppingList` under the mapping of `ListRepoProps`. Every step is one of `Want`, `Move`, `Drop`,
  `EmptyBasket` or `Forget`, or a stutter, with whatever lapses at the purge. It needs
  `IInv`: a row that moves or goes is its *name* that moves or goes only if the name has one row.

And of the text of a note, for any number of segments in the stored note and in what is
added: `NotesKeepWhatWasWritten` (`NothingWrittenIsLost`), by a lemma on the segments of a
merged text, `NoteSpec => []NothingWrittenIsLost`. No run checks it apart from the theorem.

`OfflineStoreProofs` proves, for any number of drains, rows, keys and any budgets,
from `OfflineStoreAssumption`:

* `RunKeepsToTheDisk`: `Spec => []RunIsFrontOfQueue`. The invariant `FrontInv` adds what
  happens inside an id exchange: the disk is repointed first and the run's copy second, and
  in between the one is the other with the waiting changes repointed (`OnDisk`). A tap
  only appends, and a reload takes the run with it.
* `StoreTyped`: `Spec => []TypeOK`. That an id on screen has a name needs to know where ids
  come from. There is a `K` that gives every id in use a catalogue key and only ever grows
  (`Extends`), and queue, wire, late requests, screens and server agree on it (`Typed(K)`).
* `DropsAreDeletions`: `Spec => []DroppedOnlyWhenDeleted`, by `DropInv`: each waiting
  change is of a row the server has had, of a row out of reach, or behind the add of its
  row in the queue and not being exchanged. An exchange repoints every change behind
  the add at an id the server has just named, and a request answered late only adds to what it has had.
* `PhantomsMarked`: `Spec => []PhantomsAreMarked`, by `PhantomInv(K)`. While storage is
  sound and the page is not reloaded, every id shown and unknown to the server is out of
  reach, has its add in the queue, or is marked *and* no list has landed since: the step that lands
  one goes on to the one that clears the marks, and only one drain or refresh can be between the two.

* `OfflineIsOnline`: `Spec => []SameAsOnline`. The property speaks of an empty queue only, so the
  invariant `TrackInv(K)` must say what the waiting changes are going to do. It claims two
  functions of a change's key, neither of which is in the model: `R`, the list each waiting
  change leads to, and `T`, the row it was meant for. The changes, sent with the ids they
  were meant to have, lead from the server's rows through every `R` to `ideal`
  (`Trajectory`), and the id each is queued under, by the exchanges still to come, stands
  for that row (`Aiming`). All of it is up to the keys in `excused` (`Agrees`). Then:

  * a tap appends one `R`, the new `ideal`, and one `T`, its `alias` (`TrackTap`);
  * the oldest change leads to the first `R`, and if it had been carried out already,
    its answer lost, it leads there from there (`Again`): what a retry and a late request
    ahead of its retry rest on (`TrackExecute`, `TrackLate`). One behind its retry changes
    nothing if no change came after it, and what it changes otherwise is `excused` (`InPlace`);
  * an exchange repoints what waits under the id the add leaves, and to the row each
    of them was meant for (`TrackSwap`, `AimingRepointed`). That no other add comes to be shown
    where one that moved was, or went, and lands elsewhere (`AddsMeet`) is what `Strays` is for: the
    proof would not go through without it, and TLC then found the behaviour (section 6).

The list as it is shown is a fold of the queue over the list as it was fetched. What such a fold
keeps is proved by the well-founded minimum of a set of positions, not by the library's
induction, which takes an operator (`Climbs`, `Iterated`, and from them
`ReappliedStays` and `NamedByFollows`).

`RateLimiterProofs` proves every property of the `limiter` run, for any callers, proxies, headers,
buckets, limits and windows, any number of threads and any cap, from
`LimiterAssumption`. The invariant `LimInv` says of each window how it accounts for
the hits let in under its key (`Fits`): the last `count` of them, none before it started and none
a window and a wait for the lock later; of the hits themselves that twice the limit plus
one never lie closer than a window less such a wait (`Spread`); and of the order of the windows that
whoever stands behind a key was seen since (`Seen`), so that only the front can be forgotten.

* `LimiterTyped`: `TypeOK`; that a request is counted under its own address is `ClientIp`'s doing.
* `TwoWindowsAtMost`: `AtMostTwoWindows`.
* `FairDenials`: `DeniedFairly`.
* `Remembered`: `RememberedWhileSeen`.

`LiveListProofs` proves, for any names, rows, icons, threads, enrichments and lists fetched at
once and a queue of any length, from `LiveListAssumption` and `StreamClientAssumption`:

* `PhoneTyped`: `Spec => []TypeOK`: types, and that an event announcing a row carries one.
* `QuietPhoneShowsTheList`: `Spec => []ShowsTheList`. That says something of a phone with nothing
  on its way to it, so the invariant must say what is on its way. `AllLead`: for a
  row not in doubt, at most one thread or enrichment has an event about it to
  publish, and from each of what the phone shows, every list that was served and the row itself, the
  queued events followed by that one lead to the row as it is. The row itself is
  there because a list may be asked for at any moment and land after the same events. `CalmIsCalm`
  says when a list on its way is the list, and what landing it leaves in doubt is every row another
  list on its way has otherwise, so an older list that lands after a newer one does no harm
  beyond `doubt`; `Ended` ties the phone to `OneStream`.
  What a sequence of events does to a row (`After`) is stated without recursion: what the
  last to write it wrote, unless a clear came later.

`MembersProofs` proves every property of the `members` run, for any sets of names,
accounts, invites, challenges and threads and any number of the operator's commands,
from `MembersAssumption` alone. None is inductive by itself:

* `RosterTyped`: `TypeOK`, with `Sound`: a request carries a name, an account, an
  invite or a challenge wherever its next lock hold uses one, and a challenge to
  register names an invite.
* `NamesAreUnique`: `OneAccountPerName`. Both inserts look the name up in their own hold.
* `InviteIsOnePasskey`: `SpentMeansEnrolled`, by `Ledger`, which also counts the
  passkeys of a token before it is drawn: none.
* `SessionsHavePasskeys`: `SessionMeansPasskey`, by three invariants.
  `UidsAreMinted`: ids are never reused, so a session or a request left over from a
  removed account cannot come to life with the next one. `InvitesInUse`: a challenge
  and a request name an invite that was drawn, and the request carries that
  invite's account while the row lives. `SignedInAreEnrolled`: sessions, and requests about to start one,
  belong to an account that has a passkey or is gone for good.
* `HouseholdIsNeverLockedOut`: `NeverLockedOut`, by `SomebodyCanSignIn`, which says
  the same of the requests that are past their guard: an invitation and a removal
  only start where somebody is enrolled. That a removal leaves someone needs
  `OneAccountPerName`: one that took two accounts of a name could take the last two.
* `OneClaimForEachGrant`: `ClaimedOncePerGrant`, by `ClaimsLeft`: claims taken, plus
  one for the flag, plus one while there is no account, are at most those granted.
  The household must not empty again, hence the invariant before.
* `ChallengesMakeOnePasskey`: `ChallengeEnrolsOnce`, by `PasskeysApart`: a challenge is
  unanswered, held by one request or made into one passkey, never two of these.

`OAuthProofs` proves every property of the `oauth` run and the types, for any
clients, members, documents, addresses, codes, pairs, pages and any number of
events, from `OAuthAssumption`:

* `ServerTyped`: `TypeOK`, with `Sound`: wherever the request on the loop uses a client, an
  account, a code or a list of addresses, it carries one.
* `OneGrantPerApproval`: `OneLiveRefresh`, by `Paired`: a refresh token descends
  from a code that was spent, a pair is drawn once, and while a pair is issued for a
  code none of its refresh tokens is live.
* `HonouredIsConsented`: `HonouredMeansConsented`, by `Consented`, in three parts: an account
  looked up has the name that approved, a code carries the approver's account, and every
  token carries its code's client, resource and account. The second reading of the
  member is why the *name* and not the account is what was consented.
* `CodesAreSentHome`: `SentWhereTheClientIs`, by `ListsHeld` (a cached or fetched
  list is one the document held once) and `AtHome`.
* `ClientsKeepUp`: `ClientKeepsUp`, by `KeepsUp`, over the three places a
  good grant can be: not yet redeemed, being issued, or in an answer that is on its way or arrived.

`SettingsProofs` proves every property of the `settings` run and the types, for any
providers, keys, secrets and threads and any number of changes and restarts, from
`SettingsAssumption`. `SavedStaysUsable` and `KeysStayHome` need `Settled`: the stored
row, the client and what each thread carries were each made of one provider and a key of that
provider, and would make a client. `InUseWasSaved` and `PageIsTrue` need `InForce`: what
the settings mean now, and what any unfinished rebuild has read, is among the clients in
force since the first unfinished write. `EnvKeyKeepsItOn` needs that rebuilds carry a
client whenever the environment has a key.

`StreamWorldProofs` proves `NeverTwoNeverNone` (`OneStream`, from the types), for any
length of the run of failures.

Lemmas about the model's operators (what the purge keeps, what counting an add
returns, what the collapse chooses, what is kept of a row that is sealed) are stated once and cited by name.

**Only model-checked.** Liveness (`QueueDrains`, `StreamReturns`, `GateReturns`), which
needs `ENABLED`. Every invariant and every action property of a passing run is proved.

## 6. What was found

Each of these is a run whose counterexample is a behaviour of the code (`findings` in
`PROJECT.json` quotes the line it departs from):

1. `ghost`: an enrichment announces a row deleted while the model was asked.
2. `stuck_queue`: a clear refused with a 5xx leaves a queue the ticker does not see.
3. `note_text`: a note re-added in several segments repeats the one already stored
   (`repo.py:80-83`), which the docstring (`repo.py:73-75`) says it skips: the whole
   incoming note is compared with each stored segment.

Seen with the same modules on other instances, not kept as runs of their own:

* an undo is folded like any add, so once the plural has entered the catalogue it
  misses the stash; and an undo whose fold another add overtakes revives the shortcut
  of the folded key (`repo.py:352`);
* the assistant's "permanently forget" leaves a stash for an hour (`routes/mcp.py:184`);
* a tap between the rewrite of the queue and the swap on screen is queued under the
  id that is going, and dropped (`opqueue.ts:219`);
* an exchange repoints by id (`opqueue.ts:107`): an add that landed on another row is shown under
  its own id until it is exchanged; if a reload or a rollback brings the other row or that id back
  on screen, and one of the two is deleted and added again, changes to the two rows wait under
  one id and go to one of them. Four taps and one reload do it (add, delete, add, check;
  `Strays`);
* a request given up and carried out after its own retry and after later changes undoes them
  (`ServedLate`);
* two enrichments pass the once-only guard and the second replaces the icon on the row (`llm.py:468`);
* the marker is one per row, not one per change (`store.svelte.ts:300`): two changes
  of one row, the second refused, and nothing retries;
* with two request threads and no enrichment, a publish can be overtaken and leave a
  phone wrong until its next fetch; with one thread, a list read before an event and
  landed after it does the same (`InSync` under `Spec` instead of `OrderlySpec`);
* refreshes are not serialised (`store.svelte.ts:580-631`, started from
  `AppShell.svelte:264-310`): of two lists asked for at once the one read first may land last,
  over a newer one that had put the screen right and after every event was applied, and the
  phone is wrong until its next fetch;
* a custom provider's stored key is kept when its address is changed without typing the key
  again, and sent to the new one (`routes/llm.py:121-135`): `KeyStaysWithItsProvider` is about
  providers, as the code is, and `ModelSettings` has the addresses that show it;
* a member removed between the lookup and the insert of an invitation or a session leaves an
  invite or a session of an account that is gone, which nothing honours
  (`routes/authn.py:377`, `:539`);
* after a reload, a row known only to the snapshot stays on screen without a marker
  until a list has come, which a failing server can put off;
* an access token outlives its member's account: verifying it does not ask whether the
  account is still there (`routes/mcp.py:107`); and a member removed
  and invited again between the session check and the second reading consents for the
  new account (`routes/oauth.py:182`);
* of two fetches of a client's document, the older may be cached last (`oauth.py:358`);
* of two overlapping changes of the model's settings, enrichment may keep the client of
  the older (`llm.py:417-425`), and a save that overlaps a clear brings the cleared key
  back (`routes/llm.py:149`);
* a local provider saved again without a key while the stored one cannot be read loses
  it for good (`routes/llm.py`, `_candidate`);
* an open stream is never asked for its credential again: a removed member's phone hears
  of changes until it drops (`routes/events.py`).

## 7. Abstractions, and what is not modelled

* **One phone at a time.** `OfflineStore` has one tab that changes the list and
  other members as events; `LiveList` one phone that watches. Two tabs over one
  IndexedDB are not modelled.
* **Browsers are honest.** A ceremony is answered with its own challenge; the
  cryptography of WebAuthn is the library's.
* `_require_bootstrap` reads two tables in two holds; they are read in one here. So are what
  the options of a registration or of a claim read and the challenge they store: their `verify`
  checks the invite, or the guard, again, so a challenge stored late is answered only when one
  stored at once could be.
* `_public_shape` reads the settings twice. The page of `ModelSettings` is one drawn while
  nothing is saved, for which the two reads are the same; only then does `PageTellsTheTruth` speak.
  Rolling session expiry, sign counts and observed hosts are not read by any property.
* **Tokens and seals are perfect.** A code, a token or a verifier is a value nobody guesses;
  a key sealed under one secret is read under no other.
* The limiter's windows live in memory and start empty with the server; a restart is not
  in `RateLimiter`. Metadata documents, discovery and error pages of **OAuth** keep
  no state. A signed-out client and one that lies about its address are not clients of `OAuth`:
  what they send is refused by the same checks.
* **Back-off times** of the stream are left out: a timer that is set may fire at any time.
* **Catalogue ranking** is floating point and orders suggestions. **Capture and share**
  split a text and add names one at a time. **Icons and categories** are a table.
  **Principals** are fixed tokens or `Members`' sessions. The doctor's checks and
  prints read, and change nothing. **Screens, gestures, packaging** keep nothing of the list.

## 8. Plan

Done, in this order, because the list is what the program is for: `ListRepo` with
its abstract specification and first proofs; `OfflineStore`; `LiveList`; `Members` and its proofs;
`OAuth` and its proofs; `ModelSettings` and its proofs; `RateLimiter`; `StreamClient`, taken up in
`LiveList` and proved about in `StreamWorld`; late requests in `OfflineStore`; the proofs
of the refinement, of the queue's run and of the watching phone; the limiter's proofs; the
types, drops and phantoms of `OfflineStore`; the text of notes; that offline comes to what
online would have.

Left, modules:

1. `OfflineStore` with two tabs over one queue.
2. `OAuth` composed with `Members` over who is a member, and an open stream that outlives its member.

Then, proofs: that `OfflineStore`'s server does what `ListRepo` guarantees.
