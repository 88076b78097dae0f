-------------------------- MODULE RateLimiterProps --------------------------
(***************************************************************************)
(* What the limiter promises its callers and the endpoints behind it,      *)
(* however threads overtake each other on the way to the lock.             *)
(***************************************************************************)
EXTENDS RateLimiter

Entries == [key : Keys, start : 0..MaxClock, count : Nat]
Waiting == {w \in [pc : {"waiting"}, key : Keys, caller : Keys, now : 0..MaxClock] :
              w.key = w.caller}

(* Windows, readings, counts and answers have their types; what a request  *)
(* is counted under is the address it came from.                           *)
TypeOK ==
    /\ windows \in Seq(Entries) /\ clock \in 0..MaxClock
    /\ thread \in [Threads -> {Idle} \cup Waiting]
    /\ admitted \in [Keys -> Seq(0..MaxClock)]
    /\ seenSince \in [Keys -> SUBSET Keys]
    /\ verdict = NoVerdict \/ verdict \in [denied : {TRUE}, to : Keys, wait : Nat]

(* The hits of k let in from one second to another.                        *)
Hits(k, from, to) ==
    Cardinality({i \in DOMAIN admitted[k] : admitted[k][i] \in from..to})

(* While a caller's window is not forgotten it gets at most two windows'   *)
(* hits in any stretch of a window and a second, less the time a thread may*)
(* wait with an old reading: two windows meet in such a stretch, never     *)
(* three, whatever its own forwarding header says.                         *)
AtMostTwoWindows ==
    \A k \in Keys, s \in 0..MaxClock :
        Hits(k, s, s + Window[k[2]] - MaxStale) <= 2 * Limit[k[2]]

(* Nobody is denied for another's hits or for old ones: the limit was used *)
(* up in the last window's time.  And the wait it is told is enough - at   *)
(* its end a new window may start - and never longer than a window and the *)
(* wait for the lock (the Retry-After header).                             *)
DeniedFairly ==
    verdict.denied =>
        LET k == verdict.to
            window == Window[k[2]]
        IN /\ Hits(k, clock - (window + MaxStale - 1), clock) >= Limit[k[2]]
           /\ Elapsed(Entry(k), clock + verdict.wait)
           /\ verdict.wait \in 1..(window + MaxStale)

(* No key has two windows, memory is bounded by the cap, and a caller that *)
(* was seen is not forgotten before as many others were seen since as the  *)
(* cap allows: one that keeps calling cannot be pushed out by few others.  *)
RememberedWhileSeen ==
    /\ Len(windows) <= MaxWindows
    /\ \A i, j \in DOMAIN windows : windows[i].key = windows[j].key => i = j
    /\ \A k \in Keys :
          k \notin seenSince[k] /\ Cardinality(seenSince[k]) < MaxWindows => Held(k)
=============================================================================
