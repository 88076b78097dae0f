-------------------------- MODULE OfflineStoreProps --------------------------
(***************************************************************************)
(* What the offline store promises of the shopper's changes.               *)
(***************************************************************************)
EXTENDS OfflineStore

OpSet ==
    [key : Nat, kind : {"add", "check", "uncheck", "delete", "clear"}, id : Ids \cup {NoId},
     sent : Ids \cup {NoId}, name : Names \cup {NoName}, of : Keys \cup {NoName}]
List == [Ids -> Row \cup {NoRow}]

(* Every component holds a value of its type: no list row without a name   *)
(* and a status, no marker that is not an id (a clear has none).           *)
TypeOK ==
    /\ rows \in List /\ snap \in List /\ view \in List
    /\ \A j \in DOMAIN queue : queue[j] \in OpSet
    /\ pending \subseteq Ids
    /\ online \in BOOLEAN /\ late \subseteq OpSet
    /\ replay.phase \in {"idle", "wire", "answered", "swapping"}
    /\ \A j \in DOMAIN replay.entries : replay.entries[j] \in OpSet
    /\ \A d \in Procs :
          /\ proc[d].pc \in {"idle", "count", "waiting", "recount", "list", "listed", "landed"}
          /\ proc[d].list \in List
    /\ ideal \in List /\ alias \in [Ids -> Ids] /\ excused \subseteq Keys

(* The run in progress works through the front of the durable queue: what  *)
(* is on the wire is the oldest change on disk, and what the run will send *)
(* next is what the disk holds, ids included, so a reload in the middle of *)
(* a run resumes where it was.  Only the two steps of an id swap may       *)
(* differ, and then in nothing but ids (opqueue.ts rewriteItemId).         *)
RunIsFrontOfQueue ==
    replay.phase # "idle" =>
        /\ Len(replay.entries) <= Len(queue)
        /\ \A j \in DOMAIN replay.entries :
              IF replay.phase = "swapping"
              THEN replay.entries[j].key = queue[j].key
              ELSE replay.entries[j] = queue[j]

(* Offline is no different from online: with nobody else at the list, once *)
(* the queue has drained every key stands as it would had each change been *)
(* sent as it was made, whatever was lost, retried, reloaded or folded     *)
(* onto another row, and though a request that was given up is carried out *)
(* after its own retry.  Excepted are rows tapped under an id nothing can  *)
(* repoint (see OutOfReach), those added again while another row waits     *)
(* under their id (see Strays), and those such a request changes when the  *)
(* queue has already moved on to changes made after it.                    *)
SameAsOnline ==
    (queue = <<>> /\ replay.phase = "idle" /\ spent.used.remote = 0) =>
        \A k \in Keys \ excused : StatusIn(rows, k) = StatusIn(ideal, k)

(* A change dropped on a 404 named a row the server had had: somebody      *)
(* deleted it.  Excepted are rows tapped under an id out of reach.         *)
DroppedOnlyWhenDeleted ==
    (replay.phase = "answered" /\ replay.answer.kind = "gone") =>
        Current.id \in known \/ Current.of \in excused

(* A row on screen that the server has never had is waiting for its add,   *)
(* or still marked, so that the ticker goes on refreshing until it goes    *)
(* (AppShell.svelte 298-310).  A refresh under way may bring such a row    *)
(* back after its swap; excepted are those the shopper then tapped, and a  *)
(* page that was reloaded, which shows its snapshot until a list has come, *)
(* or whose storage has failed.                                            *)
PhantomsAreMarked ==
    spent.used.faults + spent.used.reloads = 0 => \A i \in Shown(view) \ known :
        \/ i \in pending
        \/ KeyOf[view[i].name] \in excused
        \/ \E j \in DOMAIN queue : queue[j].kind = "add" /\ queue[j].id = i

(* The queue empties and the markers go once people stop (store.svelte.ts  *)
(* 401-402: "the next drain (reconnect, SSE, the periodic retry) picks it  *)
(* up again").                                                             *)
QueueDrains == <>[](queue = <<>> /\ pending = {})

(* AppShell.svelte 298-306: the ticker runs "while there is something to   *)
(* recover - offline, or ops still queued", so a queue at rest always has  *)
(* its recovery armed.                                                     *)
RecoveryArmed ==
    (queue # <<>> /\ \A d \in Procs : proc[d].pc = "idle") => ~online \/ pending # {}
=============================================================================
