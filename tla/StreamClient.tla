---------------------------- MODULE StreamClient ----------------------------
(***************************************************************************)
(* The phone's end of the event stream (sse.ts connectEvents), as the list *)
(* screen runs it (AppShell.svelte): one EventSource at a time, a timer    *)
(* for the next attempt, a probe of the sign-in after a run of failures,   *)
(* and the two ways it ends: the screen is taken down, or the server says  *)
(* that the phone is signed out.                                           *)
(*                                                                         *)
(* How long a timer waits is left out, and so is a failure beyond the run  *)
(* that asks for a probe.  These are the loop's steps alone: StreamWorld   *)
(* puts them in a world, LiveList in a phone that keeps a list.            *)
(***************************************************************************)
EXTENDS Integers

CONSTANT ProbeAfter     \* PROBE_AFTER_FAILURES

ASSUME StreamClientAssumption == ProbeAfter \in Nat \ {0}

VARIABLES
    es,         \* the EventSource: "none", "connecting" or "open"
    timer,      \* whether an attempt is scheduled
    probing,    \* whether a probe is out
    failures,   \* failed connects in a row
    closed      \* whether the loop has ended

stream == <<es, timer, probing, failures, closed>>
-----------------------------------------------------------------------------
(* open: with a credential an EventSource is made, without one the phone   *)
(* looks again in a second.                                                *)
Open(has) ==
    /\ es' = IF has /\ ~closed THEN "connecting" ELSE es
    /\ timer' = (~has /\ ~closed)

(* Mutant: every attempt starts counting afresh.                           *)
TimerStartsOver(has) ==
    /\ timer
    /\ Open(has)
    /\ failures' = 0
    /\ UNCHANGED <<probing, closed>>

TimerFires(has) ==
    /\ timer
    /\ Open(has)
    /\ UNCHANGED <<probing, failures, closed>>

(* onopen.                                                                 *)
Opens ==
    /\ es = "connecting"
    /\ es' = "open"
    /\ failures' = 0
    /\ UNCHANGED <<timer, probing, closed>>

(* scheduleIn: never two timers, and none once the loop has ended.         *)
ScheduleRetry == timer' = (timer \/ ~closed)

(* Mutant: the attempt that follows is scheduled beside the probe.         *)
FailsTwice ==
    /\ es # "none"
    /\ es' = "none"
    /\ failures' = IF failures < ProbeAfter THEN failures + 1 ELSE failures
    /\ probing' = (probing \/ failures' >= ProbeAfter)
    /\ ScheduleRetry
    /\ UNCHANGED closed

(* onerror: the source is closed; another attempt, or a probe.             *)
Fails ==
    /\ es # "none"
    /\ es' = "none"
    /\ failures' = IF failures < ProbeAfter THEN failures + 1 ELSE failures
    /\ IF failures' >= ProbeAfter /\ ~probing
       THEN probing' = TRUE /\ UNCHANGED timer
       ELSE ScheduleRetry /\ UNCHANGED probing
    /\ UNCHANGED closed

(* Mutant: an answer that is still wanted is thrown away.                  *)
ProbeForgets(still) ==
    /\ probing
    /\ probing' = FALSE
    /\ closed' = (closed \/ ~still)
    /\ UNCHANGED <<es, timer, failures>>

(* The probe's answer: only a server that refuses ends the loop.           *)
ProbeAnswers(still) ==
    /\ probing
    /\ probing' = FALSE
    /\ closed' = (closed \/ ~still)
    /\ timer' = IF closed THEN timer ELSE still
    /\ UNCHANGED <<es, failures>>

(* disconnect: the screen is taken down.  A probe stays out.               *)
Disconnect ==
    /\ closed' = TRUE /\ timer' = FALSE /\ es' = "none"
    /\ UNCHANGED <<probing, failures>>

StreamInit ==
    /\ es \in {"none", "connecting"} /\ timer = (es = "none")
    /\ probing = FALSE /\ failures = 0 /\ closed = FALSE
-----------------------------------------------------------------------------
StreamTypeOK ==
    /\ es \in {"none", "connecting", "open"}
    /\ timer \in BOOLEAN /\ probing \in BOOLEAN /\ closed \in BOOLEAN
    /\ failures \in 0 .. ProbeAfter

(* sse.ts:75-80, 111-137, 159-169: until it ends, the loop hangs on one    *)
(* thing only - a source, a timer or a probe - so it can neither run twice *)
(* nor die silently; once it has ended nothing of it is left that could    *)
(* start it again.                                                         *)
OneStream ==
    /\ ~closed => \/ es # "none" /\ ~timer /\ ~probing
                  \/ es = "none" /\ timer /\ ~probing
                  \/ es = "none" /\ ~timer /\ probing
    /\ closed => es = "none" /\ ~timer
=============================================================================
