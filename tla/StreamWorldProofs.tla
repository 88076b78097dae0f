------------------------- MODULE StreamWorldProofs --------------------------
(***************************************************************************)
(* Theorem about the loop that keeps the stream open (StreamClient) in     *)
(* its world (StreamWorld), for any length of the run of failures that     *)
(* asks for a probe.                                                       *)
(***************************************************************************)
EXTENDS StreamWorld, TLAPS

(* The count of failures stays in its range through an onerror.            *)
LEMMA FailuresInRange ==
    ASSUME failures \in 0 .. ProbeAfter, Fails
    PROVE  failures' \in 0 .. ProbeAfter
BY StreamClientAssumption DEF Fails

LEMMA LoopTyped ==
    ASSUME TypeOK, [Next]_vars
    PROVE  TypeOK'
<1> USE StreamClientAssumption DEF TypeOK, StreamTypeOK
<1>1. CASE UNCHANGED vars
  BY <1>1 DEF vars, stream, world
<1>2. CASE Connects
  BY <1>2 DEF Connects, Opens, world
<1>3. CASE Drops
  <2>1. failures' \in 0 .. ProbeAfter
    BY <1>3, FailuresInRange DEF Drops
  <2>2. CASE failures' >= ProbeAfter /\ ~probing
    BY <1>3, <2>1, <2>2 DEF Drops, Fails, world
  <2>3. CASE ~(failures' >= ProbeAfter /\ ~probing)
    BY <1>3, <2>1, <2>3 DEF Drops, Fails, ScheduleRetry, world
  <2> QED
    BY <2>2, <2>3
<1>4. CASE Retries
  BY <1>4 DEF Retries, TimerFires, Open, world
<1>5. CASE Probed
  BY <1>5 DEF Probed, ProbeAnswers, StillAuthed, world
<1>6. CASE Leaves
  BY <1>6 DEF Leaves, Disconnect, world
<1>7. CASE Turns
  BY <1>7 DEF Turns, stream
<1> QED
  BY <1>1, <1>2, <1>3, <1>4, <1>5, <1>6, <1>7 DEF Next

(* sse.ts:68-170: the loop hangs on exactly one thing until it ends, and   *)
(* on nothing that could start it again afterwards.                        *)
THEOREM NeverTwoNeverNone == Spec => [](TypeOK /\ OneStream)
<1>1. Init => TypeOK /\ OneStream
  <2> SUFFICES ASSUME Init PROVE TypeOK /\ OneStream
    OBVIOUS
  <2>1. es \in {"none", "connecting"} /\ timer = (es = "none")
    BY DEF Init, StreamInit
  <2>2. timer \in BOOLEAN /\ (timer <=> es = "none")
    BY <2>1, Zenon
  <2>3. /\ probing = FALSE /\ failures = 0 /\ closed = FALSE
        /\ online \in BOOLEAN /\ welcome \in BOOLEAN
    BY DEF Init, StreamInit
  <2>4. credential = (es = "connecting")
    BY DEF Init
  <2>5. credential \in BOOLEAN
    BY <2>4, Zenon
  <2>6. failures \in 0 .. ProbeAfter
    BY <2>3, StreamClientAssumption
  <2>7. TypeOK
    BY <2>1, <2>2, <2>3, <2>5, <2>6 DEF TypeOK, StreamTypeOK
  <2>8. OneStream
    BY <2>1, <2>2, <2>3 DEF OneStream
  <2> QED
    BY <2>7, <2>8
<1>2. TypeOK /\ OneStream /\ [Next]_vars => OneStream'
  <2> SUFFICES ASSUME TypeOK, OneStream, [Next]_vars
               PROVE  OneStream'
    OBVIOUS
  <2>1. CASE UNCHANGED vars \/ Turns
    BY <2>1 DEF OneStream, vars, stream, Turns
  <2>2. CASE Connects
    BY <2>2 DEF OneStream, Connects, Opens
  <2>3. CASE Drops
    BY <2>3 DEF OneStream, Drops, Fails, ScheduleRetry, TypeOK, StreamTypeOK
  <2>4. CASE Retries
    BY <2>4 DEF OneStream, Retries, TimerFires, Open, TypeOK, StreamTypeOK
  <2>5. CASE Probed
    BY <2>5 DEF OneStream, Probed, ProbeAnswers, StillAuthed, TypeOK, StreamTypeOK
  <2>6. CASE Leaves
    BY <2>6 DEF OneStream, Leaves, Disconnect
  <2> QED
    BY <2>1, <2>2, <2>3, <2>4, <2>5, <2>6 DEF Next
<1> QED
  BY <1>1, <1>2, LoopTyped, PTL DEF Spec
=============================================================================
