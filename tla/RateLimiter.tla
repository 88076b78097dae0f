---------------------------- MODULE RateLimiter -----------------------------
(***************************************************************************)
(* The limiter in front of the sign-in and token endpoints (ratelimit.py): *)
(* one fixed window for each caller and bucket, kept in the order they     *)
(* were last seen and forgotten from the front at the cap.                 *)
(*                                                                         *)
(* Requests run in threads.  Each reads the clock before it takes the      *)
(* lock, so readings are used out of order.  Each trusted proxy adds the   *)
(* address it was called from to the end of the forwarding header, whatever*)
(* the header held before; a caller beside the server may also reach it    *)
(* past the proxies, with its own header or none.                          *)
(***************************************************************************)
EXTENDS Integers, FiniteSets, SequencesExt

CONSTANTS
    Callers,        \* addresses of callers
    Proxies,        \* addresses of the trusted proxies, first to last
    Headers,        \* what a caller's own forwarding header may hold
    Buckets,        \* the groups of endpoints
    Limit, Window,  \* Limit[b] hits in Window[b] seconds
    MaxWindows,     \* cap on the windows held
    Threads,        \* request threads
    MaxClock,       \* bound on the clock
    MaxStale        \* bound on how long a thread waits for the lock

ASSUME LimiterAssumption ==
    /\ Limit \in [Buckets -> Nat \ {0}] /\ Window \in [Buckets -> Nat \ {0}]
    /\ MaxWindows \in Nat \ {0} /\ MaxClock \in Nat /\ MaxStale \in Nat
    /\ \A b \in Buckets : MaxStale < Window[b]
    /\ Proxies \in Seq(ToSet(Proxies)) /\ \A h \in Headers : h \in Seq(ToSet(h))

VARIABLES
    windows,    \* the windows, the one seen longest ago first
    clock,
    thread,     \* what each thread waits for the lock with
    \* history
    admitted,   \* admitted[k]: when hits of k were let in, if that is not long ago,
                \* since k was forgotten
    seenSince,  \* seenSince[k]: what was seen since k was; k too if k never was
    verdict     \* the last answer: to whom, and how long to wait if denied

vars == <<windows, clock, thread, admitted, seenSince, verdict>>
-----------------------------------------------------------------------------
Keys == Callers \X Buckets

(* The header that reaches the server through the proxies and the peer it  *)
(* comes from.                                                             *)
Chain(caller, header) ==
    IF Proxies = <<>> THEN header ELSE header \o <<caller>> \o Front(Proxies)
Peer(caller) == IF Proxies = <<>> THEN caller ELSE Last(Proxies)

(* The entry our own proxies put there: far enough in, and an address.     *)
Placed(chain) == chain[Len(chain) + 1 - Len(Proxies)]
Usable(chain) ==
    /\ Proxies # <<>> /\ Len(chain) >= Len(Proxies)
    /\ Placed(chain) \in Callers \cup ToSet(Proxies)

(* Mutant: the first entry of the header is taken, whatever it is.         *)
FirstEntry(peer, chain) == IF Proxies = <<>> \/ chain = <<>> THEN peer ELSE Head(chain)
(* client_ip                                                               *)
ClientIp(peer, chain) == IF Usable(chain) THEN Placed(chain) ELSE peer
-----------------------------------------------------------------------------
Idle == [pc |-> "idle"]
NoVerdict == [denied |-> FALSE]

(* rate_limit's dependency, and check as far as the clock.                 *)
Enter(t, ip, caller, bucket) ==
    /\ thread[t] = Idle
    /\ thread' = [thread EXCEPT ![t] =
                    [pc |-> "waiting", key |-> <<ip, bucket>>,
                     caller |-> <<caller, bucket>>, now |-> clock]]
    /\ UNCHANGED <<windows, clock, admitted, seenSince, verdict>>

Arrive(t, caller, header, bucket) ==
    Enter(t, ClientIp(Peer(caller), Chain(caller, header)), caller, bucket)

(* Past the proxies, from a caller beside the server.  That its header     *)
(* names an address where a proxy's would is what client_ip does not defend*)
(* against (the accepted limitation I3).                                   *)
ArriveDirect(t, caller, header, bucket) ==
    /\ ~Usable(header)
    /\ Enter(t, ClientIp(caller, header), caller, bucket)

Held(key) == \E i \in DOMAIN windows : windows[i].key = key
Place(key) == CHOOSE i \in DOMAIN windows : windows[i].key = key
Entry(key) == windows[Place(key)]
Others(key) == IF Held(key) THEN RemoveAt(windows, Place(key)) ELSE windows

(* Mutant: a hit does not move its window to the end.                      *)
UpdateInPlace(w) ==
    IF Held(w.key) THEN [i \in DOMAIN windows |-> IF windows[i].key = w.key THEN w ELSE windows[i]]
    ELSE Append(windows, w)
(* The window's new value, at the end: move_to_end.                        *)
Update(w) == Append(Others(w.key), w)

Evict(ws) == IF Len(ws) > MaxWindows THEN Tail(ws) ELSE ws

(* Mutant: the window starts anew a second early.                          *)
ElapsedEarly(w, now) == now - w.start >= Window[w.key[2]] - 1
Elapsed(w, now) == now - w.start >= Window[w.key[2]]

(* Mutant: the wait is a second short.                                     *)
RetrySoon(w, now) == Max({1, Window[w.key[2]] - (now - w.start) - 1})
RetryAfter(w, now) == Max({1, Window[w.key[2]] - (now - w.start)})

(* What a request let in or denied leaves behind in the history.           *)
Forgotten(ws) == {k \in Keys : Held(k) /\ \A i \in DOMAIN ws : ws[i].key # k}
Record(caller, key, ws, hit) ==
    /\ admitted' = [k \in Keys |->
                      IF k \in Forgotten(ws) THEN <<>>
                      ELSE IF hit /\ k = caller THEN Append(admitted[k], clock)
                      ELSE admitted[k]]
    /\ seenSince' = [k \in Keys |-> IF k = key THEN {} ELSE seenSince[k] \cup {key}]

(* check, from the lock on.                                                *)
Check(t) ==
    /\ thread[t] # Idle
    /\ LET key == thread[t].key
           now == thread[t].now
           fresh == IF Held(key) THEN Elapsed(Entry(key), now) ELSE TRUE
           w == Entry(key)
       IN \/ /\ fresh
             /\ windows' = Evict(Update([key |-> key, start |-> now, count |-> 1]))
             /\ Record(thread[t].caller, key, windows', TRUE)
             /\ verdict' = NoVerdict
          \/ /\ ~fresh /\ w.count < Limit[key[2]]
             /\ windows' = Update([w EXCEPT !.count = @ + 1])
             /\ Record(thread[t].caller, key, windows', TRUE)
             /\ verdict' = NoVerdict
          \/ /\ ~fresh /\ w.count >= Limit[key[2]]
             /\ windows' = Update(w)
             /\ Record(thread[t].caller, key, windows', FALSE)
             /\ verdict' = [denied |-> TRUE, to |-> thread[t].caller,
                            wait |-> RetryAfter(w, now)]
    /\ thread' = [thread EXCEPT ![t] = Idle]
    /\ UNCHANGED clock

(* What is left of admitted[k]: the hits that could still matter.          *)
Recent(times, since) ==
    SubSeq(times, Max({0} \cup {i \in DOMAIN times : times[i] < since}) + 1, Len(times))

(* A second passes; no thread has waited longer than MaxStale.             *)
Tick ==
    /\ clock < MaxClock
    /\ \A t \in Threads : thread[t] # Idle => clock - thread[t].now < MaxStale
    /\ clock' = clock + 1
    /\ verdict' = NoVerdict
    /\ admitted' = [k \in Keys |-> Recent(admitted[k], clock' - Window[k[2]] - MaxStale + 1)]
    /\ UNCHANGED <<windows, thread, seenSince>>

Init ==
    /\ windows = <<>> /\ clock = 0
    /\ thread = [t \in Threads |-> Idle]
    /\ admitted = [k \in Keys |-> <<>>]
    /\ seenSince = [k \in Keys |-> Keys]
    /\ verdict = NoVerdict

Next ==
    \/ \E t \in Threads :
         \/ \E c \in Callers, h \in Headers, b \in Buckets :
               Arrive(t, c, h, b) \/ ArriveDirect(t, c, h, b)
         \/ Check(t)
    \/ Tick

Spec == Init /\ [][Next]_vars
=============================================================================
