---------------------------- MODULE StreamWorld -----------------------------
(***************************************************************************)
(* The stream's loop in a world: a network that comes and goes, a server   *)
(* that lets the phone in or refuses it, a credential the phone has or has *)
(* not (api.ts probeStatus, AppShell.svelte's probe).  The world changes   *)
(* as it likes and owes the phone nothing.                                 *)
(***************************************************************************)
EXTENDS StreamClient

VARIABLES
    online,     \* whether the phone reaches the server
    welcome,    \* whether the server accepts the phone's credential
    credential  \* whether the phone has one

world == <<online, welcome, credential>>
vars == <<stream, world>>
-----------------------------------------------------------------------------
(* The stream in its world: an attempt fails when the phone does not reach *)
(* the server or is refused, an open stream only when the network goes (a  *)
(* stream once let in is not asked again).                                 *)
Connects == online /\ welcome /\ Opens /\ UNCHANGED world
Drops ==
    /\ ~online \/ (es = "connecting" /\ ~welcome)
    /\ Fails
    /\ UNCHANGED world
Retries == TimerFires(credential) /\ UNCHANGED world

(* checkStillAuthed: "lost" is a 401 or 403, everything else is no answer. *)
StillAuthed == ~online \/ welcome
Probed == ProbeAnswers(StillAuthed) /\ UNCHANGED world

Leaves == Disconnect /\ UNCHANGED world
Turns ==
    /\ online' \in BOOLEAN /\ welcome' \in BOOLEAN /\ credential' \in BOOLEAN
    /\ UNCHANGED stream

Init ==
    /\ StreamInit
    /\ online \in BOOLEAN /\ welcome \in BOOLEAN /\ credential = (es = "connecting")

Next == Connects \/ Drops \/ Retries \/ Probed \/ Leaves \/ Turns

(* Timers fire, requests are answered or time out; the world owes nothing. *)
Fairness ==
    /\ WF_vars(Retries)
    /\ WF_vars(Probed)
    /\ WF_vars(Connects \/ Drops)

Spec == Init /\ [][Next]_vars
FairSpec == Spec /\ Fairness
-----------------------------------------------------------------------------
(* Every component of the loop and of its world holds a value of its type. *)
TypeOK ==
    /\ StreamTypeOK
    /\ online \in BOOLEAN /\ welcome \in BOOLEAN /\ credential \in BOOLEAN

(* sse.ts:78-157: whatever happened before, once the network stays up and  *)
(* the phone stays signed in, the stream is open for good.                 *)
StreamReturns ==
    <>[](online /\ welcome /\ credential) => <>[](es = "open" \/ closed)

(* sse.ts:113-131: once the server keeps refusing a phone that still has   *)
(* its credential, the loop ends at the gate, unless a stream let in       *)
(* before is still open.                                                   *)
GateReturns ==
    <>[](online /\ ~welcome /\ credential) => <>[](es = "open" \/ closed)
=============================================================================
