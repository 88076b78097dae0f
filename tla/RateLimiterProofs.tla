-------------------------- MODULE RateLimiterProofs --------------------------
(***************************************************************************)
(* Proofs that the limiter keeps its promises, for any callers, proxies,   *)
(* headers, buckets, limits, windows, threads and caps, and however long a *)
(* thread waits for the lock short of a window.                            *)
(***************************************************************************)
EXTENDS RateLimiterProps, SequenceTheorems, FiniteSetTheorems, TLAPS

(* The greatest of some numbers.                                           *)
LEMMA MaxIsMax ==
    ASSUME NEW n \in Nat, NEW S \in SUBSET (0 .. n), S # {}
    PROVE  Max(S) \in S /\ \A k \in S : k <= Max(S)
<1> DEFINE Less == OpToRel(<, Nat)
           T == {n - j : j \in S}
<1>1. Less = {ss \in Nat \X Nat : ss[1] < ss[2]}
  BY DEF OpToRel
<1>2. T \subseteq Nat /\ T # {}
  <2>1. \A j \in S : n - j \in Nat
    OBVIOUS
  <2>2. QED BY <2>1
<1>3. IsWellFoundedOn(Less, Nat)
  BY NatLessThanWellFounded
<1> HIDE DEF Less
<1>4. PICK x \in T : \A y \in T : <<y, x>> \notin Less
  BY <1>2, <1>3, WFMin
<1>5. PICK j \in S : x = n - j
  OBVIOUS
<1>6. ASSUME NEW k \in S
      PROVE  j >= k
  <2>1. n - k \in T /\ n - k \in Nat /\ x \in Nat
    BY <1>2
  <2>2. <<n - k, x>> \notin Less
    BY <1>4, <2>1
  <2>3. ~(n - k < n - j)
    BY <1>1, <1>5, <2>1, <2>2
  <2>4. QED BY <2>3
<1>7. \A k \in S : Max(S) \in S /\ Max(S) >= k
  BY <1>6 DEF Max
<1>8. QED BY <1>7

LEMMA MaxOfTwo ==
    ASSUME NEW a \in Int, NEW b \in Int
    PROVE  Max({a, b}) = IF a >= b THEN a ELSE b
<1>1. CASE a >= b
  <2>1. \A x \in {a, b} : (\A y \in {a, b} : x >= y) => x = a
    BY <1>1
  <2>2. a \in {a, b} /\ \A y \in {a, b} : a >= y
    BY <1>1
  <2>3. QED BY <1>1, <2>1, <2>2 DEF Max
<1>2. CASE ~(a >= b)
  <2>1. \A x \in {a, b} : (\A y \in {a, b} : x >= y) => x = b
    BY <1>2
  <2>2. b \in {a, b} /\ \A y \in {a, b} : b >= y
    BY <1>2
  <2>3. QED BY <1>2, <2>1, <2>2 DEF Max
<1>3. QED BY <1>1, <1>2

(* What is dropped of a list of hits is a front of it, and all of it old.  *)
LEMMA RecentIsBack ==
    ASSUME NEW times \in Seq(0 .. MaxClock), NEW since \in Int,
           \A i, j \in DOMAIN times : i <= j => times[i] <= times[j]
    PROVE  \E d \in 0 .. Len(times) :
              /\ Recent(times, since) \in Seq(0 .. MaxClock)
              /\ Len(Recent(times, since)) = Len(times) - d
              /\ \A i \in 1 .. Len(times) - d : Recent(times, since)[i] = times[i + d]
              /\ \A i \in 1 .. d : times[i] < since
<1> DEFINE n == Len(times)
           old == {i \in DOMAIN times : times[i] < since}
           d == Max({0} \cup old)
<1>1. /\ n \in Nat /\ DOMAIN times = 1 .. n
      /\ \A i \in 1 .. n : times[i] \in 0 .. MaxClock
  BY LenProperties
<1>2. {0} \cup old \in SUBSET (0 .. n) /\ {0} \cup old # {}
  BY <1>1
<1> HIDE DEF n
<1>3. d \in {0} \cup old
  BY <1>1, <1>2, MaxIsMax
<1>4. d \in 0 .. n
  BY <1>2, <1>3
<1>5. \A i \in 1 .. d : times[i] < since
  <2>1. CASE d = 0
    BY <2>1
  <2>2. CASE d # 0
    <3>1. d \in 1 .. n /\ times[d] < since
      BY <1>1, <1>3, <2>2
    <3>2. ASSUME NEW i \in 1 .. d
          PROVE  times[i] < since
      <4>1. i \in 1 .. n /\ times[i] <= times[d]
        BY <1>1, <3>1
      <4>2. times[i] \in Int /\ times[d] \in Int
        BY <1>1, <3>1, <4>1 
      <4>3. QED BY <3>1, <4>1, <4>2
    <3>3. QED BY <3>2
  <2>3. QED BY <2>1, <2>2
<1>6. Recent(times, since) = SubSeq(times, d + 1, n)
  BY DEF Recent, n
<1> HIDE DEF d
<1>7. /\ SubSeq(times, d + 1, n) \in Seq(0 .. MaxClock)
      /\ Len(SubSeq(times, d + 1, n)) = n - d
      /\ \A i \in 1 .. n - d : SubSeq(times, d + 1, n)[i] = times[i + d]
  <2>1. \A i \in d + 1 .. n : times[i] \in 0 .. MaxClock
    BY <1>1, <1>4
  <2>2. /\ SubSeq(times, d + 1, n) \in Seq(0 .. MaxClock)
        /\ Len(SubSeq(times, d + 1, n)) = IF d + 1 <= n THEN n - (d + 1) + 1 ELSE 0
        /\ \A i \in 1 .. n - (d + 1) + 1 : SubSeq(times, d + 1, n)[i] = times[d + 1 + i - 1]
    BY <1>1, <1>4, <2>1, SubSeqProperties
  <2>3. n - (d + 1) + 1 = n - d /\ \A i \in 1 .. n - d : d + 1 + i - 1 = i + d
    BY <1>1, <1>4
  <2>4. QED BY <1>1, <1>4, <2>2, <2>3
<1>8. QED BY <1>4, <1>5, <1>6, <1>7 DEF n

(* What a caller is counted under is the address it came from, whatever    *)
(* its own header says.                                                    *)
LEMMA CountedUnderItsAddress ==
    ASSUME NEW caller \in Callers, NEW header \in Headers
    PROVE  ClientIp(Peer(caller), Chain(caller, header)) = caller
<1>1. header \in Seq(ToSet(header)) /\ Proxies \in Seq(ToSet(Proxies))
  BY LimiterAssumption
<1>2. CASE Proxies = <<>>
  BY <1>2 DEF ClientIp, Usable, Peer
<1>3. CASE Proxies # <<>>
  <2> DEFINE S == ToSet(header) \cup ToSet(Proxies) \cup {caller}
             h == Len(header)
             hops == Len(Proxies)
             front == SubSeq(Proxies, 1, hops - 1)
             mid == header \o <<caller>>
  <2>1. header \in Seq(S) /\ Proxies \in Seq(S) /\ <<caller>> \in Seq(S)
    BY <1>1, SeqMonotonic
  <2>2. h \in Nat /\ hops \in Nat /\ hops > 0
    BY <1>1, <1>3, LenProperties, EmptySeq
  <2>3. front \in Seq(S) /\ Len(front) = hops - 1
    <3>1. \A i \in 1 .. hops - 1 : Proxies[i] \in S
      BY <2>1, <2>2, ElementOfSeq
    <3>2. 1 \in Int /\ hops - 1 \in Int
      BY <2>2
    <3>3. /\ SubSeq(Proxies, 1, hops - 1) \in Seq(S)
          /\ Len(SubSeq(Proxies, 1, hops - 1))
               = IF 1 <= hops - 1 THEN (hops - 1) - 1 + 1 ELSE 0
      BY <3>1, <3>2, SubSeqProperties
    <3> HIDE DEF hops
    <3>4. QED BY <2>2, <3>3
  <2>4. mid \in Seq(S) /\ Len(mid) = h + 1 /\ mid[h + 1] = caller
    <3>1. Len(<<caller>>) = 1 /\ <<caller>>[1] = caller
      OBVIOUS
    <3>2. mid \in Seq(S) /\ Len(mid) = h + Len(<<caller>>)
      BY <2>1, ConcatProperties
    <3>3. mid[h + 1] = IF h + 1 <= h THEN header[h + 1] ELSE <<caller>>[h + 1 - h]
      BY <2>1, <2>2, <3>1, ConcatProperties
    <3>4. QED BY <2>2, <3>1, <3>2, <3>3
  <2>5. Chain(caller, header) = mid \o front
    BY <1>3 DEF Chain, Front
  <2> HIDE DEF mid, front, S
  <2>6. /\ Len(mid \o front) = h + hops
        /\ (mid \o front)[h + 1] = caller
    <3>1. Len(mid \o front) = Len(mid) + Len(front)
      BY <2>3, <2>4, ConcatProperties
    <3>2. h + 1 \in 1 .. Len(mid) + Len(front) /\ h + 1 <= Len(mid)
      BY <2>2, <2>3, <2>4
    <3>3. (mid \o front)[h + 1] = mid[h + 1]
      BY <2>3, <2>4, <3>2, ConcatProperties
    <3>4. QED BY <2>2, <2>3, <2>4, <3>1, <3>3
  <2>7. h + hops + 1 - hops = h + 1 /\ h + hops >= hops
    BY <2>2
  <2>8. QED BY <1>3, <2>2, <2>5, <2>6, <2>7 DEF ClientIp, Usable, Placed
<1>4. QED BY <1>2, <1>3
-----------------------------------------------------------------------------
(* The history of one key: its hits, and the window it has now.            *)

Times == 0 .. MaxClock
Gap(b) == Window[b] - MaxStale

(* The hits are in order, and no more than two windows' come close.        *)
Spread(hits, b, time) ==
    /\ \A i, j \in DOMAIN hits : i <= j => hits[i] <= hits[j]
    /\ \A i \in DOMAIN hits : hits[i] <= time
    /\ \A i, j \in DOMAIN hits : j = i + Limit[b] + Limit[b] => hits[j] - hits[i] > Gap(b)

(* The last w.count hits are the present window's, let in since it started *)
(* and less than a window and a wait for the lock later.  Those before were*)
(* let in on readings from before its start; and those before the last     *)
(* window's, on readings from before that one's start.                     *)
Fits(w, hits, time) ==
    LET b == w.key[2]
        before == Len(hits) - w.count
    IN /\ w.start <= time /\ w.count \in 1 .. Limit[b]
       /\ time < w.start + Window[b] + MaxStale => before >= 0
       /\ \A i \in DOMAIN hits :
             /\ hits[i] < w.start + Window[b] + MaxStale
             /\ i > before => hits[i] >= w.start
             /\ i <= before => hits[i] < w.start + MaxStale
             /\ i <= before - Limit[b] => hits[i] < w.start + MaxStale - Window[b]

LEMMA BucketNumbers ==
    ASSUME NEW b \in Buckets
    PROVE  /\ Limit[b] \in Nat \ {0} /\ Window[b] \in Nat \ {0}
           /\ MaxStale \in Nat /\ MaxStale < Window[b] /\ MaxClock \in Nat
           /\ Gap(b) \in Nat \ {0}
BY LimiterAssumption DEF Gap

LEMMA HitsTyped ==
    ASSUME NEW hits \in Seq(Times), NEW time \in Times
    PROVE  /\ Len(hits) \in Nat /\ DOMAIN hits = 1 .. Len(hits)
           /\ \A i \in 1 .. Len(hits) : hits[i] \in Times /\ hits[i] \in Int
           /\ Append(hits, time) \in Seq(Times)
           /\ Len(Append(hits, time)) = Len(hits) + 1
           /\ DOMAIN Append(hits, time) = 1 .. Len(hits) + 1
           /\ \A i \in 1 .. Len(hits) : Append(hits, time)[i] = hits[i]
           /\ Append(hits, time)[Len(hits) + 1] = time
<1>1. Len(hits) \in Nat /\ DOMAIN hits = 1 .. Len(hits) /\ hits \in [1 .. Len(hits) -> Times]
  BY LenProperties
<1>2. Times \subseteq Int
  BY DEF Times
<1>3. /\ Append(hits, time) \in Seq(Times)
      /\ Len(Append(hits, time)) = Len(hits) + 1
      /\ \A i \in 1 .. Len(hits) : Append(hits, time)[i] = hits[i]
      /\ Append(hits, time)[Len(hits) + 1] = time
  BY AppendProperties
<1>4. DOMAIN Append(hits, time) = 1 .. Len(hits) + 1
  BY <1>3, LenProperties
<1>5. QED BY <1>1, <1>2, <1>3, <1>4

(* Hits far enough apart are at most two windows' in a gap.                *)
LEMMA FewInAGap ==
    ASSUME NEW hits \in Seq(Times), NEW b \in Buckets, NEW time \in Times,
           Spread(hits, b, time), NEW s \in Times
    PROVE  Cardinality({i \in DOMAIN hits : hits[i] \in s .. s + Window[b] - MaxStale})
             <= Limit[b] + Limit[b]
<1> DEFINE n == Len(hits)
           T == {i \in DOMAIN hits : hits[i] \in s .. s + Window[b] - MaxStale}
           L == Limit[b]
<1>1. n \in Nat /\ DOMAIN hits = 1 .. n /\ \A i \in 1 .. n : hits[i] \in Int
  BY HitsTyped
<1>2. L \in Nat /\ L # 0 /\ Window[b] \in Nat /\ MaxStale \in Nat
  BY BucketNumbers
<1>a. s \in Int
  BY BucketNumbers DEF Times
<1>b. /\ \A i, j \in 1 .. n : i <= j => hits[i] <= hits[j]
      /\ \A i, j \in 1 .. n : j = i + L + L => hits[j] - hits[i] > Window[b] - MaxStale
  BY <1>1 DEF Spread, Gap
<1>c. T \subseteq 1 .. n /\ \A i \in T : hits[i] >= s /\ hits[i] <= s + Window[b] - MaxStale
  BY <1>1, <1>2, <1>a
<1> HIDE DEF n, L, T
<1>3. CASE T = {}
  <2>1. Cardinality(T) = 0
    BY <1>3, FS_EmptySet
  <2>2. QED BY <1>2, <2>1 DEF T, L
<1>4. CASE T # {}
  <2>1. T \in SUBSET (0 .. n)
    BY <1>1, <1>c
  <2> DEFINE m == Max(T)
  <2>2. m \in T /\ \A i \in T : i <= m
    BY <1>1, <1>4, <2>1, MaxIsMax
  <2> HIDE DEF m
  <2>3. T \subseteq (m - L - L + 1) .. m
    <3>1. ASSUME NEW i \in T, i < m - L - L + 1
          PROVE  FALSE
      <4>1. i \in 1 .. n /\ m \in 1 .. n
        BY <1>c, <2>2, <3>1
      <4> DEFINE j == m - L - L
      <4>2. j \in 1 .. n /\ i <= j /\ m = j + L + L
        BY <1>1, <1>2, <3>1, <4>1
      <4> HIDE DEF j
      <4>3. hits[m] - hits[j] > Window[b] - MaxStale /\ hits[i] <= hits[j]
        BY <1>b, <4>1, <4>2
      <4>4. hits[i] >= s /\ hits[m] <= s + Window[b] - MaxStale
        BY <1>c, <2>2, <3>1
      <4>5. hits[i] \in Int /\ hits[j] \in Int /\ hits[m] \in Int
        BY <1>1, <4>1, <4>2
      <4>6. QED BY <1>2, <1>a, <4>3, <4>4, <4>5
    <3>2. QED BY <1>1, <1>2, <1>c, <2>2, <3>1
  <2>4. m - L - L + 1 \in Int /\ m \in Int
    BY <1>1, <1>2, <1>c, <2>2
  <2>5. /\ IsFiniteSet((m - L - L + 1) .. m)
        /\ Cardinality((m - L - L + 1) .. m)
             = IF m - L - L + 1 > m THEN 0 ELSE m - (m - L - L + 1) + 1
    BY <2>4, FS_Interval
  <2>6. /\ Cardinality(T) <= Cardinality((m - L - L + 1) .. m)
    BY <2>3, <2>5, FS_Subset
  <2>7. Cardinality((m - L - L + 1) .. m) = L + L
    BY <1>2, <2>4, <2>5
  <2>8. Cardinality(T) <= L + L
    BY <2>6, <2>7
  <2>9. QED BY <2>8 DEF T, L
<1>5. QED BY <1>3, <1>4
-----------------------------------------------------------------------------
(* A hit is let in.                                                        *)

LEMMA SpreadMore ==
    ASSUME NEW hits \in Seq(Times), NEW b \in Buckets, NEW time \in Times,
           Spread(hits, b, time),
           \A i \in DOMAIN hits : i = Len(hits) + 1 - Limit[b] - Limit[b] => time - hits[i] > Gap(b)
    PROVE  Spread(Append(hits, time), b, time)
<1> DEFINE n == Len(hits)
           more == Append(hits, time)
           L == Limit[b]
<1>1. /\ n \in Nat /\ DOMAIN hits = 1 .. n /\ DOMAIN more = 1 .. n + 1
      /\ \A i \in 1 .. n : more[i] = hits[i] /\ hits[i] \in Int
      /\ more[n + 1] = time /\ time \in Int
  BY HitsTyped DEF Times
<1>2. L \in Nat \ {0} /\ Gap(b) \in Int
  BY BucketNumbers
<1> HIDE DEF n, more, L
<1>7. /\ \A i, j \in 1 .. n : i <= j => hits[i] <= hits[j]
      /\ \A i \in 1 .. n : hits[i] <= time
  BY <1>1 DEF Spread
<1>3. ASSUME NEW i \in 1 .. n + 1, NEW j \in 1 .. n + 1, i <= j
      PROVE  more[i] <= more[j]
  <2>1. CASE j \in 1 .. n
    BY <1>1, <1>3, <1>7, <2>1
  <2>2. CASE j = n + 1
    BY <1>1, <1>3, <1>7, <2>2
  <2>3. QED BY <1>1, <2>1, <2>2
<1>4. ASSUME NEW i \in 1 .. n + 1
      PROVE  more[i] <= time
  BY <1>1, <1>4, <1>7
<1>5. ASSUME NEW i \in 1 .. n + 1, NEW j \in 1 .. n + 1, j = i + L + L
      PROVE  more[j] - more[i] > Gap(b)
  <2>1. CASE j \in 1 .. n
    <3>1. i \in 1 .. n
      BY <1>1, <1>2, <1>5, <2>1
    <3>2. QED BY <1>1, <1>5, <2>1, <3>1 DEF Spread, L
  <2>2. CASE j = n + 1
    <3>1. i \in 1 .. n /\ i = n + 1 - L - L
      BY <1>1, <1>2, <1>5, <2>2
    <3>2. QED BY <1>1, <2>2, <3>1 DEF L, n
  <2>3. QED BY <1>1, <2>1, <2>2
<1>6. QED BY <1>1, <1>3, <1>4, <1>5 DEF Spread, more, L

LEMMA FitsMore ==
    ASSUME NEW hits \in Seq(Times), NEW w \in Entries, NEW time \in Times, NEW now \in Times,
           Fits(w, hits, time), Spread(hits, w.key[2], time), w.key[2] \in Buckets,
           ~Elapsed(w, now), time - MaxStale <= now, w.count < Limit[w.key[2]]
    PROVE  LET new == [key |-> w.key, start |-> w.start, count |-> w.count + 1]
           IN Fits(new, Append(hits, time), time) /\ Spread(Append(hits, time), w.key[2], time)
<1> DEFINE n == Len(hits)
           more == Append(hits, time)
           b == w.key[2]
           new == [key |-> w.key, start |-> w.start, count |-> w.count + 1]
           before == n - w.count
<1>1. /\ n \in Nat /\ DOMAIN hits = 1 .. n /\ DOMAIN more = 1 .. n + 1 /\ Len(more) = n + 1
      /\ \A i \in 1 .. n : more[i] = hits[i] /\ hits[i] \in Int
      /\ more[n + 1] = time
  BY HitsTyped
<1>2. /\ time \in Int /\ now \in Int /\ w.start \in Int /\ w.count \in Int
      /\ w.key[2] = b
  BY DEF Times, Entries
<1>3. /\ Limit[b] \in Nat \ {0} /\ Window[b] \in Nat \ {0} /\ MaxStale \in Nat
      /\ MaxStale < Window[b] /\ Gap(b) = Window[b] - MaxStale
  BY BucketNumbers DEF Gap
<1>4. /\ w.start <= time /\ w.count >= 1
      /\ time < w.start + Window[b] + MaxStale => before >= 0
      /\ \A i \in 1 .. n :
             /\ hits[i] < w.start + Window[b] + MaxStale
             /\ i > before => hits[i] >= w.start
             /\ i <= before => hits[i] < w.start + MaxStale
             /\ i <= before - Limit[b] => hits[i] < w.start + MaxStale - Window[b]
  BY <1>1 DEF Fits
<1>5. now - w.start < Window[b] /\ time < w.start + Window[b] + MaxStale
  BY <1>2, <1>3 DEF Elapsed
<1>6. new.key = w.key /\ new.start = w.start /\ new.count = w.count + 1
  OBVIOUS
<1> HIDE DEF n, more, b, new
<1>7. before \in Nat /\ (n + 1) - (w.count + 1) = before
  BY <1>1, <1>2, <1>4, <1>5
<1> HIDE DEF before
<1>8. \A i \in 1 .. n + 1 :
             /\ more[i] < w.start + Window[b] + MaxStale
             /\ i > before => more[i] >= w.start
             /\ i <= before => more[i] < w.start + MaxStale
             /\ i <= before - Limit[b] => more[i] < w.start + MaxStale - Window[b]
  <2>1. before <= n
    BY <1>1, <1>2, <1>4 DEF before
  <2>2. ASSUME NEW i \in 1 .. n + 1
        PROVE  /\ more[i] < w.start + Window[b] + MaxStale
               /\ i > before => more[i] >= w.start
               /\ i <= before => more[i] < w.start + MaxStale
               /\ i <= before - Limit[b] => more[i] < w.start + MaxStale - Window[b]
    <3>1. CASE i \in 1 .. n
      BY <1>1, <1>4, <3>1
    <3>2. CASE i = n + 1
      BY <1>1, <1>3, <1>4, <1>5, <1>7, <2>1, <3>2
    <3>3. QED BY <1>1, <3>1, <3>2
  <2>3. QED BY <2>2
<1>9. Fits(new, more, time)
  <2>1. new.count \in 1 .. Limit[b]
    BY <1>2, <1>3, <1>4, <1>6 DEF b
  <2>2. Len(more) - new.count = before
    BY <1>1, <1>6, <1>7
  <2>3. QED BY <1>1, <1>4, <1>6, <1>7, <1>8, <2>1, <2>2 DEF Fits, b
<1>10. ASSUME NEW i \in 1 .. n, i = n + 1 - Limit[b] - Limit[b]
       PROVE  time - hits[i] > Gap(b)
  <2>1. i <= before - Limit[b]
    <3>1. \A c, m, lim \in Int : c < lim => m + 1 - lim - lim <= (m - c) - lim
      OBVIOUS
    <3>2. w.count < Limit[b] /\ before = n - w.count
      BY DEF before, b
    <3>3. Limit[b] \in Int /\ n \in Int
      BY <1>1, <1>3
    <3>4. n + 1 - Limit[b] - Limit[b] <= (n - w.count) - Limit[b]
      BY <1>2, <3>1, <3>2, <3>3
    <3>5. QED BY <1>10, <3>2, <3>4
  <2>2. hits[i] < w.start + MaxStale - Window[b] /\ hits[i] \in Int
    BY <1>1, <1>4, <2>1
  <2>3. QED BY <1>2, <1>3, <1>4, <2>2
<1>11. Spread(more, b, time)
  BY <1>1, <1>10, SpreadMore DEF more, b, n
<1>12. QED BY <1>9, <1>11 DEF new, more, b

LEMMA FitsFresh ==
    ASSUME NEW hits \in Seq(Times), NEW w \in Entries, NEW time \in Times, NEW now \in Times,
           Fits(w, hits, time), Spread(hits, w.key[2], time), w.key[2] \in Buckets,
           Elapsed(w, now), time - MaxStale <= now, now <= time
    PROVE  LET new == [key |-> w.key, start |-> now, count |-> 1]
           IN Fits(new, Append(hits, time), time) /\ Spread(Append(hits, time), w.key[2], time)
<1> DEFINE n == Len(hits)
           more == Append(hits, time)
           b == w.key[2]
           new == [key |-> w.key, start |-> now, count |-> 1]
           before == n - w.count
<1>1. /\ n \in Nat /\ DOMAIN hits = 1 .. n /\ DOMAIN more = 1 .. n + 1 /\ Len(more) = n + 1
      /\ \A i \in 1 .. n : more[i] = hits[i] /\ hits[i] \in Int
      /\ more[n + 1] = time
  BY HitsTyped
<1>2. /\ time \in Int /\ now \in Int /\ w.start \in Int /\ w.count \in Int
      /\ w.key[2] = b
  BY DEF Times, Entries
<1>3. /\ Limit[b] \in Nat \ {0} /\ Window[b] \in Nat \ {0} /\ MaxStale \in Nat
      /\ MaxStale < Window[b] /\ Gap(b) = Window[b] - MaxStale
  BY BucketNumbers DEF Gap
<1>4. /\ w.count <= Limit[b]
      /\ \A i \in 1 .. n :
             /\ hits[i] < w.start + Window[b] + MaxStale
             /\ i <= before => hits[i] < w.start + MaxStale
  BY <1>1, <1>2 DEF Fits
<1>5. now >= w.start + Window[b]
  BY <1>2, <1>3 DEF Elapsed
<1>6. new.key = w.key /\ new.start = now /\ new.count = 1
  OBVIOUS
<1> HIDE DEF n, more, b, new
<1>7. ASSUME NEW i \in 1 .. n
      PROVE  /\ hits[i] < now + MaxStale
             /\ i <= n - Limit[b] => hits[i] < now + MaxStale - Window[b]
  <2>1. hits[i] \in Int /\ hits[i] < w.start + Window[b] + MaxStale
    BY <1>1, <1>4
  <2>2. ASSUME i <= n - Limit[b]
        PROVE  hits[i] < now + MaxStale - Window[b]
    <3>1. i <= before
      BY <1>1, <1>2, <1>3, <1>4, <2>2
    <3>2. hits[i] < w.start + MaxStale
      BY <1>4, <3>1
    <3>3. QED BY <1>2, <1>3, <1>5, <2>1, <3>2
  <2>3. QED BY <1>2, <1>3, <1>5, <2>1, <2>2
<1>8. Fits(new, more, time)
  <2>1. ASSUME NEW i \in 1 .. n + 1
        PROVE  /\ more[i] < now + Window[b] + MaxStale
               /\ i > n => more[i] >= now
               /\ i <= n => more[i] < now + MaxStale
               /\ i <= n - Limit[b] => more[i] < now + MaxStale - Window[b]
    <3>1. CASE i \in 1 .. n
      BY <1>1, <1>2, <1>3, <1>7, <3>1
    <3>2. CASE i = n + 1
      BY <1>1, <1>2, <1>3, <3>2
    <3>3. QED BY <1>1, <3>1, <3>2
  <2>2. Len(more) - new.count = n /\ n >= 0
    BY <1>1, <1>6
  <2>3. new.count \in 1 .. Limit[b]
    BY <1>3, <1>6
  <2>4. QED BY <1>1, <1>6, <2>1, <2>2, <2>3 DEF Fits, b
<1>9. ASSUME NEW i \in 1 .. n, i = n + 1 - Limit[b] - Limit[b]
      PROVE  time - hits[i] > Gap(b)
  <2>1. i <= n - Limit[b]
    BY <1>1, <1>3, <1>9
  <2>2. hits[i] < now + MaxStale - Window[b] /\ hits[i] \in Int
    BY <1>1, <1>7, <2>1
  <2>3. QED BY <1>2, <1>3, <2>2
<1>10. Spread(more, b, time)
  BY <1>1, <1>9, SpreadMore DEF more, b, n
<1>11. QED BY <1>8, <1>10 DEF new, more, b

LEMMA FitsFirst ==
    ASSUME NEW k \in Keys, NEW time \in Times, NEW now \in Times,
           time - MaxStale <= now, now <= time
    PROVE  LET new == [key |-> k, start |-> now, count |-> 1]
           IN Fits(new, <<time>>, time) /\ Spread(<<time>>, k[2], time)
<1> DEFINE new == [key |-> k, start |-> now, count |-> 1]
           hits == <<time>>
           b == k[2]
<1>1. k[2] \in Buckets
  BY DEF Keys
<1>2. /\ Limit[b] \in Nat \ {0} /\ Window[b] \in Nat \ {0} /\ MaxStale \in Nat
      /\ MaxStale < Window[b]
  BY <1>1, BucketNumbers
<1>3. DOMAIN hits = {1} /\ Len(hits) = 1 /\ hits[1] = time /\ time \in Int /\ now \in Int
  BY DEF Times
<1>4. new.key[2] = b /\ new.start = now /\ new.count = 1
  OBVIOUS
<1> HIDE DEF new, hits, b
<1>5. Fits(new, hits, time)
  <2>1. new.count \in 1 .. Limit[b]
    BY <1>2, <1>4
  <2>2. Len(hits) - new.count = 0
    BY <1>3, <1>4
  <2>3. \A i \in DOMAIN hits :
             /\ hits[i] < now + Window[b] + MaxStale
             /\ i > 0 => hits[i] >= now
             /\ i <= 0 => hits[i] < now + MaxStale
             /\ i <= 0 - Limit[b] => hits[i] < now + MaxStale - Window[b]
    BY <1>2, <1>3
  <2>4. QED BY <1>3, <1>4, <2>1, <2>2, <2>3 DEF Fits
<1>6. Spread(hits, b, time)
  <2>1. \A i, j \in DOMAIN hits : j # i + Limit[b] + Limit[b]
    BY <1>2, <1>3
  <2>2. QED BY <1>3, <2>1 DEF Spread
<1>7. QED BY <1>5, <1>6 DEF new, hits, b
-----------------------------------------------------------------------------
(* A second passes, and what cannot matter any more is dropped.            *)

LEMMA SpreadTick ==
    ASSUME NEW hits \in Seq(Times), NEW b \in Buckets, NEW time \in Times, NEW since \in Int,
           Spread(hits, b, time)
    PROVE  Spread(Recent(hits, since), b, time + 1)
<1> DEFINE n == Len(hits)
           L == Limit[b]
           back == Recent(hits, since)
<1>1. n \in Nat /\ DOMAIN hits = 1 .. n /\ \A i \in 1 .. n : hits[i] \in Int
  BY HitsTyped
<1>2. L \in Nat /\ time \in Int
  BY BucketNumbers DEF Times
<1>3. /\ \A i, j \in 1 .. n : i <= j => hits[i] <= hits[j]
      /\ \A i \in 1 .. n : hits[i] <= time
      /\ \A i, j \in 1 .. n : j = i + L + L => hits[j] - hits[i] > Gap(b)
  BY <1>1 DEF Spread
<1>4. PICK d \in 0 .. n : 
              /\ back \in Seq(Times) /\ Len(back) = n - d
              /\ \A i \in 1 .. n - d : back[i] = hits[i + d]
  BY <1>1, <1>3, RecentIsBack DEF Times
<1>5. DOMAIN back = 1 .. n - d
  BY <1>4, LenProperties
<1> HIDE DEF n, L, back
<1>6. \A i \in 1 .. n - d : i + d \in 1 .. n
  BY <1>1, <1>4
<1>7. ASSUME NEW i \in 1 .. n - d, NEW j \in 1 .. n - d
      PROVE  /\ i <= j => back[i] <= back[j]
             /\ back[i] <= time + 1
             /\ j = i + L + L => back[j] - back[i] > Gap(b)
  <2>1. i + d \in 1 .. n /\ j + d \in 1 .. n
    BY <1>6
  <2>2. back[i] = hits[i + d] /\ back[j] = hits[j + d]
    BY <1>4
  <2>3. i <= j => i + d <= j + d
    BY <1>4
  <2>4. j = i + L + L => j + d = (i + d) + L + L
    BY <1>2, <1>4
  <2>5. hits[i + d] \in Int /\ hits[i + d] <= time
    BY <1>1, <1>3, <2>1
  <2>6. QED BY <1>2, <1>3, <2>1, <2>2, <2>3, <2>4, <2>5
<1>8. QED BY <1>5, <1>7 DEF Spread, L, back

LEMMA FitsTick ==
    ASSUME NEW hits \in Seq(Times), NEW w \in Entries, NEW time \in Times,
           w.key[2] \in Buckets,
           Fits(w, hits, time), Spread(hits, w.key[2], time)
    PROVE  LET since == time + 1 - Window[w.key[2]] - MaxStale + 1
           IN Fits(w, Recent(hits, since), time + 1)
<1> DEFINE n == Len(hits)
           b == w.key[2]
           since == time + 1 - Window[b] - MaxStale + 1
           back == Recent(hits, since)
           before == n - w.count
<1>1. n \in Nat /\ DOMAIN hits = 1 .. n /\ \A i \in 1 .. n : hits[i] \in Int
  BY HitsTyped
<1>2. /\ time \in Int /\ w.start \in Int /\ w.count \in Int /\ w.key[2] = b
      /\ Limit[b] \in Int /\ Window[b] \in Int /\ MaxStale \in Int
  BY BucketNumbers DEF Times, Entries
<1>3. since \in Int /\ \A i, j \in 1 .. n : i <= j => hits[i] <= hits[j]
  <2>1. since \in Int
    BY <1>2
  <2>2. \A i, j \in 1 .. n : i <= j => hits[i] <= hits[j]
    BY <1>1 DEF Spread
  <2>3. QED BY <2>1, <2>2
<1>4. PICK d \in 0 .. n : 
              /\ back \in Seq(Times) /\ Len(back) = n - d
              /\ \A i \in 1 .. n - d : back[i] = hits[i + d]
              /\ \A i \in 1 .. d : hits[i] < since
  BY <1>1, <1>3, RecentIsBack DEF Times
<1>5. DOMAIN back = 1 .. n - d
  BY <1>4, LenProperties
<1>6. /\ w.start <= time /\ w.count \in 1 .. Limit[b]
      /\ time < w.start + Window[b] + MaxStale => before >= 0
      /\ \A i \in 1 .. n :
             /\ hits[i] < w.start + Window[b] + MaxStale
             /\ i > before => hits[i] >= w.start
             /\ i <= before => hits[i] < w.start + MaxStale
             /\ i <= before - Limit[b] => hits[i] < w.start + MaxStale - Window[b]
  BY <1>1 DEF Fits
<1>7. before = n - w.count /\ before \in Int
  BY <1>1, <1>2
<1>8. since = time + 2 - Window[b] - MaxStale
  BY <1>2
<1> HIDE DEF n, b, since, back, before
<1>9. (n - d) - w.count = before - d /\ d \in Int
  BY <1>1, <1>2, <1>4, <1>7
<1>10. ASSUME time + 1 < w.start + Window[b] + MaxStale
       PROVE  before - d >= 0
  <2>1. before >= 0
    BY <1>2, <1>6, <1>10
  <2>2. ASSUME d > before
        PROVE  FALSE
    <3>1. before + 1 \in 1 .. d /\ before + 1 \in 1 .. n /\ before + 1 > before
      BY <1>1, <1>4, <1>7, <2>1, <2>2
    <3>2. hits[before + 1] < since /\ hits[before + 1] >= w.start /\ hits[before + 1] \in Int
      BY <1>1, <1>4, <1>6, <3>1
    <3>3. \A x, start, t, win, wait \in Int :
             x >= start /\ x < t + 2 - win - wait => ~ (t + 1 < start + win + wait)
      OBVIOUS
    <3>4. QED BY <1>2, <1>8, <1>10, <3>2, <3>3
  <2>3. QED BY <1>7, <1>9, <2>2
<1>11. ASSUME NEW i \in 1 .. n - d
       PROVE  /\ back[i] < w.start + Window[b] + MaxStale
              /\ i > before - d => back[i] >= w.start
              /\ i <= before - d => back[i] < w.start + MaxStale
              /\ i <= before - d - Limit[b] => back[i] < w.start + MaxStale - Window[b]
  <2>1. i + d \in 1 .. n /\ back[i] = hits[i + d]
    <3>1. d \in 0 .. n /\ i \in 1 .. n - d
      OBVIOUS
    <3>2. i + d \in 1 .. n
      BY <1>1, <3>1
    <3>3. back[i] = hits[i + d]
      BY <1>4, <3>1
    <3>4. QED BY <3>2, <3>3
  <2>2. /\ i > before - d => i + d > before
        /\ i <= before - d => i + d <= before
        /\ i <= before - d - Limit[b] => i + d <= before - Limit[b]
    <3>1. \A x, y, z, l \in Int :
             /\ x > y - z => x + z > y
             /\ x <= y - z => x + z <= y
             /\ x <= y - z - l => x + z <= y - l
      OBVIOUS
    <3>2. i \in Int /\ Limit[b] \in Int
      BY <1>2
    <3>3. QED BY <1>7, <1>9, <3>1, <3>2
  <2>3. QED BY <1>6, <2>1, <2>2
<1>12. w.start <= time + 1
  BY <1>2, <1>6
<1>13. Fits(w, back, time + 1)
  BY <1>2, <1>4, <1>5, <1>6, <1>9, <1>10, <1>11, <1>12 DEF Fits
<1>14. QED BY <1>13 DEF back, since, b
-----------------------------------------------------------------------------
(* A request is denied: the last window's hits are as many as the limit.   *)
LEMMA LimitUsedUp ==
    ASSUME NEW hits \in Seq(Times), NEW w \in Entries, NEW time \in Times, NEW now \in Times,
           w.key[2] \in Buckets, Fits(w, hits, time), Spread(hits, w.key[2], time),
           ~Elapsed(w, now), time - MaxStale <= now, w.count >= Limit[w.key[2]]
    PROVE  Cardinality({i \in DOMAIN hits :
                hits[i] \in time - (Window[w.key[2]] + MaxStale - 1) .. time}) >= Limit[w.key[2]]
<1> DEFINE n == Len(hits)
           b == w.key[2]
           from == time - (Window[b] + MaxStale - 1)
           before == n - w.count
           T == {i \in DOMAIN hits : hits[i] \in from .. time}
<1>1. n \in Nat /\ DOMAIN hits = 1 .. n /\ \A i \in 1 .. n : hits[i] \in Int
  BY HitsTyped
<1>2. /\ time \in Int /\ now \in Int /\ w.start \in Int /\ w.count \in Int
      /\ Limit[b] \in Nat \ {0} /\ Window[b] \in Int /\ MaxStale \in Int
  BY BucketNumbers DEF Times, Entries
<1>3. now - w.start < Window[b]
  BY <1>2 DEF Elapsed
<1>4. from \in Int /\ from = time - (Window[b] + MaxStale - 1) /\ w.start >= from
  BY <1>2, <1>3
<1>5. w.count = Limit[b]
  BY <1>2 DEF Fits
<1>6. time < w.start + Window[b] + MaxStale
  BY <1>2, <1>3
<1>7. before >= 0 /\ before = n - w.count /\ before \in Int
  BY <1>1, <1>2, <1>6 DEF Fits
<1>8. \A i \in 1 .. n : hits[i] <= time /\ (i > before => hits[i] >= w.start)
  BY <1>1 DEF Fits, Spread
<1> HIDE DEF n, b, from, before
<1>9. before + 1 .. n \subseteq T
  <2>1. ASSUME NEW i \in before + 1 .. n
        PROVE  i \in T
    <3>1. i \in 1 .. n /\ i > before
      BY <1>1, <1>7
    <3>2. hits[i] <= time /\ hits[i] >= w.start /\ hits[i] \in Int
      BY <1>1, <1>8, <3>1
    <3>3. hits[i] \in from .. time
      BY <1>2, <1>4, <3>2
    <3>4. QED BY <1>1, <3>1, <3>3
  <2>2. QED BY <2>1
<1>10. IsFiniteSet(T)
  <2>1. IsFiniteSet(1 .. n)
    BY <1>1, FS_Interval
  <2>2. T \subseteq 1 .. n
    BY <1>1
  <2>3. QED BY <2>1, <2>2, FS_Subset
<1> HIDE DEF T
<1>11. Cardinality(before + 1 .. n) = Limit[b]
  <2>1. before + 1 \in Int /\ n \in Int
    BY <1>1, <1>7
  <2>2. Cardinality(before + 1 .. n) = IF before + 1 > n THEN 0 ELSE n - (before + 1) + 1
    BY <2>1, FS_Interval
  <2>3. n - before = Limit[b] /\ Limit[b] \in Nat /\ Limit[b] > 0
    BY <1>1, <1>2, <1>5, <1>7
  <2>4. ~(before + 1 > n) /\ n - (before + 1) + 1 = Limit[b]
    BY <1>1, <1>7, <2>3
  <2>5. QED BY ONLY <2>2, <2>4
<1>12. Cardinality(T) >= Limit[b]
  <2>1. /\ IsFiniteSet(before + 1 .. n)
        /\ Cardinality(before + 1 .. n) <= Cardinality(T)
    BY <1>9, <1>10, FS_Subset
  <2>2. Cardinality(T) \in Nat
    BY <1>10, FS_CardinalityType
  <2>3. QED BY <1>2, <1>11, <2>1, <2>2
<1>13. QED BY <1>12 DEF T, from, b
-----------------------------------------------------------------------------
(* The windows in their order, when one of them is moved to the end.       *)

Apart == \A i, j \in DOMAIN windows : windows[i].key = windows[j].key => i = j

(* All of ws but the last are the present windows but key's, in the same   *)
(* order: ws[i] is the one at from[i].  Only the first can be missing, if  *)
(* key had no window and there is no room.                                 *)
Moved(ws, from, key) ==
    LET n == Len(ws) - 1
    IN /\ from \in [1 .. n -> DOMAIN windows]
       /\ \A i \in 1 .. n : ws[i] = windows[from[i]] /\ ws[i].key # key
       /\ \A i, j \in 1 .. n : i < j => from[i] < from[j]
       /\ \A j \in DOMAIN windows :
             windows[j].key # key =>
                \/ \E i \in 1 .. n : from[i] = j
                \/ j = 1 /\ Len(ws) = MaxWindows

LEMMA RemovedAt ==
    ASSUME NEW S, NEW ws \in Seq(S), NEW p \in 1 .. Len(ws)
    PROVE  /\ RemoveAt(ws, p) \in Seq(S) /\ Len(RemoveAt(ws, p)) = Len(ws) - 1
           /\ \A i \in 1 .. Len(ws) - 1 :
                 RemoveAt(ws, p)[i] = IF i < p THEN ws[i] ELSE ws[i + 1]
<1> DEFINE n == Len(ws)
           front == SubSeq(ws, 1, p - 1)
           back == SubSeq(ws, p + 1, n)
<1>1. n \in Nat /\ p \in 1 .. n /\ \A i \in 1 .. n : ws[i] \in S
  BY LenProperties, ElementOfSeq
<1> HIDE DEF n
<1>2. /\ front \in Seq(S) /\ Len(front) = p - 1
      /\ \A i \in 1 .. p - 1 : front[i] = ws[i]
  <2>1. \A i \in 1 .. p - 1 : ws[i] \in S
    BY <1>1
  <2>2. 1 \in Int /\ p - 1 \in Int
    BY <1>1
  <2>3. /\ front \in Seq(S)
        /\ Len(front) = IF 1 <= p - 1 THEN (p - 1) - 1 + 1 ELSE 0
        /\ \A i \in 1 .. (p - 1) - 1 + 1 : front[i] = ws[1 + i - 1]
    BY <2>1, <2>2, SubSeqProperties
  <2>4. (p - 1) - 1 + 1 = p - 1 /\ \A i \in 1 .. p - 1 : 1 + i - 1 = i
    BY <1>1
  <2>5. QED BY <1>1, <2>3, <2>4
<1>3. /\ back \in Seq(S) /\ Len(back) = n - p
      /\ \A i \in 1 .. n - p : back[i] = ws[p + i]
  <2>1. \A i \in p + 1 .. n : ws[i] \in S
    BY <1>1
  <2>2. p + 1 \in Int /\ n \in Int
    BY <1>1
  <2>3. /\ back \in Seq(S)
        /\ Len(back) = IF p + 1 <= n THEN n - (p + 1) + 1 ELSE 0
        /\ \A i \in 1 .. n - (p + 1) + 1 : back[i] = ws[p + 1 + i - 1]
    BY <2>1, <2>2, SubSeqProperties
  <2>4. n - (p + 1) + 1 = n - p /\ \A i \in 1 .. n - p : p + 1 + i - 1 = p + i
    BY <1>1
  <2>5. QED BY <1>1, <2>3, <2>4
<1>4. RemoveAt(ws, p) = front \o back
  BY DEF RemoveAt, n
<1> HIDE DEF front, back
<1>5. /\ front \o back \in Seq(S) /\ Len(front \o back) = Len(front) + Len(back)
      /\ \A i \in 1 .. Len(front) + Len(back) :
            (front \o back)[i] = IF i <= Len(front) THEN front[i] ELSE back[i - Len(front)]
  BY <1>2, <1>3, ConcatProperties
<1>6. Len(front) + Len(back) = n - 1
  BY <1>1, <1>2, <1>3
<1>7. ASSUME NEW i \in 1 .. n - 1
      PROVE  (front \o back)[i] = IF i < p THEN ws[i] ELSE ws[i + 1]
  <2>1. CASE i < p
    <3>1. i \in 1 .. p - 1 /\ i <= p - 1
      BY <1>1, <2>1
    <3>2. QED BY <1>2, <1>5, <1>6, <2>1, <3>1
  <2>2. CASE ~(i < p)
    <3>1. i - (p - 1) \in 1 .. n - p /\ ~(i <= p - 1) /\ p + (i - (p - 1)) = i + 1
      BY <1>1, <2>2
    <3>2. back[i - (p - 1)] = ws[i + 1]
      BY <1>3, <3>1
    <3>3. QED BY <1>2, <1>5, <1>6, <2>2, <3>1, <3>2
  <2>3. QED BY <2>1, <2>2
<1>8. QED BY <1>4, <1>5, <1>6, <1>7 DEF n

LEMMA MovedToTheEnd ==
    ASSUME windows \in Seq(Entries), Len(windows) <= MaxWindows, Apart, NEW w \in Entries
    PROVE  LET ws == Evict(Update(w))
           IN /\ ws \in Seq(Entries) /\ Len(ws) \in 1 .. MaxWindows /\ ws[Len(ws)] = w
              /\ Held(w.key) => ws = Update(w)
              /\ \E from : Moved(ws, from, w.key)
<1> DEFINE n == Len(windows)
           ws == Evict(Update(w))
           key == w.key
<1>1. n \in Nat /\ DOMAIN windows = 1 .. n /\ MaxWindows \in Nat \ {0} /\ n <= MaxWindows
  BY LenProperties, LimiterAssumption
<1>2. CASE Held(key)
  <2> DEFINE p == Place(key)
             rest == RemoveAt(windows, p)
             from == [i \in 1 .. n - 1 |-> IF i < p THEN i ELSE i + 1]
  <2>1. p \in 1 .. n /\ windows[p].key = key
    BY <1>1, <1>2 DEF Held, Place
  <2>2. /\ rest \in Seq(Entries) /\ Len(rest) = n - 1
        /\ \A i \in 1 .. n - 1 : rest[i] = IF i < p THEN windows[i] ELSE windows[i + 1]
    BY <2>1, RemovedAt
  <2>3. Update(w) = Append(rest, w)
    BY <1>2 DEF Update, Others
  <2> HIDE DEF rest, p
  <2>4. /\ Update(w) \in Seq(Entries) /\ Len(Update(w)) = n
        /\ \A i \in 1 .. n - 1 : Update(w)[i] = rest[i]
        /\ Update(w)[n] = w
    <3>1. Len(rest) + 1 = n
      BY <1>1, <2>2
    <3>2. QED BY <2>2, <2>3, <3>1, AppendProperties
  <2>5. ws = Update(w)
    BY <1>1, <2>4 DEF Evict
  <2>6. ws \in Seq(Entries) /\ Len(ws) = n /\ ws[n] = w /\ \A i \in 1 .. n - 1 : ws[i] = rest[i]
    BY <2>4, <2>5
  <2> HIDE DEF ws, key, n
  <2>7. Moved(ws, from, key)
    <3>1. \A i \in 1 .. n - 1 : from[i] \in 1 .. n /\ from[i] # p
      BY <1>1, <2>1
    <3>2. from \in [1 .. n - 1 -> DOMAIN windows]
      BY <1>1, <3>1
    <3>3. \A i, j \in 1 .. n - 1 : i < j => from[i] < from[j]
      BY <1>1, <2>1
    <3>4. \A i \in 1 .. n - 1 : ws[i] = windows[from[i]]
      BY <1>1, <2>1, <2>2, <2>6
    <3>5. \A i \in 1 .. n - 1 : windows[from[i]].key # key
      BY <1>1, <2>1, <3>1 DEF Apart
    <3>6. \A j \in DOMAIN windows : windows[j].key # key => \E i \in 1 .. n - 1 : from[i] = j
      <4>1. ASSUME NEW j \in 1 .. n, j # p
            PROVE  \E i \in 1 .. n - 1 : from[i] = j
        <5>1. CASE j < p
          <6>1. j \in 1 .. n - 1 /\ from[j] = j
            BY <1>1, <2>1, <5>1
          <6>2. QED BY <6>1
        <5>2. CASE ~(j < p)
          <6>1. j - 1 \in 1 .. n - 1 /\ from[j - 1] = j
            BY <1>1, <2>1, <4>1, <5>2
          <6>2. QED BY <6>1
        <5>3. QED BY <5>1, <5>2
      <4>2. QED BY <1>1, <2>1, <4>1
    <3> HIDE DEF from
    <3>7. QED BY <2>6, <3>2, <3>3, <3>4, <3>5, <3>6 DEF Moved
  <2>8. n \in 1 .. MaxWindows
    BY <1>1, <2>1
  <2>9. QED BY <2>5, <2>6, <2>7, <2>8 DEF ws, key
<1>3. CASE ~Held(key)
  <2>1. Update(w) = Append(windows, w) /\ \A i \in 1 .. n : windows[i].key # key
    BY <1>1, <1>3 DEF Update, Others, Held
  <2>2. /\ Update(w) \in Seq(Entries) /\ Len(Update(w)) = n + 1 /\ Update(w) # <<>>
        /\ \A i \in 1 .. n : Update(w)[i] = windows[i]
        /\ Update(w)[n + 1] = w
    BY <2>1, AppendProperties
  <2>3. CASE n < MaxWindows
    <3> DEFINE from == [i \in 1 .. n |-> i]
    <3>1. ws = Update(w)
      BY <1>1, <2>2, <2>3 DEF Evict
    <3>2. (n + 1) - 1 = n /\ n + 1 \in 1 .. MaxWindows
      BY <1>1, <2>3
    <3>3. Len(ws) = n + 1 /\ \A i \in 1 .. n : ws[i] = windows[i]
      BY <2>2, <3>1
    <3> HIDE DEF ws, key, n
    <3>4. Moved(ws, from, key)
      <4>1. from \in [1 .. n -> DOMAIN windows] /\ \A i \in 1 .. n : from[i] = i
        BY <1>1
      <4> HIDE DEF from
      <4>2. \A i \in 1 .. n : ws[i] = windows[from[i]] /\ ws[i].key # key
        BY <2>1, <3>3, <4>1
      <4>3. \A i, j \in 1 .. n : i < j => from[i] < from[j]
        BY <4>1
      <4>4. \A j \in DOMAIN windows : \E i \in 1 .. n : from[i] = j
        BY <1>1, <4>1
      <4>5. QED BY <3>2, <3>3, <4>1, <4>2, <4>3, <4>4 DEF Moved
    <3>5. QED BY <1>3, <2>2, <3>1, <3>2, <3>4 DEF ws, key
  <2>4. CASE ~(n < MaxWindows)
    <3> DEFINE from == [i \in 1 .. n - 1 |-> i + 1]
    <3>1. ws = Tail(Update(w)) /\ n = MaxWindows
      <4> HIDE DEF n
      <4>1. n = MaxWindows
        BY <1>1, <2>4
      <4>2. Len(Update(w)) > MaxWindows
        BY <1>1, <2>2, <4>1
      <4>3. ws = Tail(Update(w))
        BY <4>2 DEF Evict
      <4>4. QED BY <4>1, <4>3
    <3>2. /\ ws \in Seq(Entries) /\ Len(ws) = n /\ \A i \in 1 .. n : ws[i] = Update(w)[i + 1]
      <4>1. /\ ws \in Seq(Entries) /\ Len(ws) = Len(Update(w)) - 1
            /\ \A i \in 1 .. Len(ws) : ws[i] = Update(w)[i + 1]
        BY <2>2, <3>1, HeadTailProperties
      <4>2. n + 1 - 1 = n
        BY <1>1
      <4>3. QED BY <2>2, <4>1, <4>2
    <3> HIDE DEF ws, key, n
    <3>3. n \in 1 .. n /\ ws[n] = w
      BY <1>1, <2>2, <3>1, <3>2
    <3>4. \A i \in 1 .. n - 1 : i \in 1 .. n /\ i + 1 \in 1 .. n
      BY <1>1
    <3>5. \A i \in 1 .. n - 1 : ws[i] = windows[i + 1]
      BY <2>2, <3>2, <3>4
    <3>6. Moved(ws, from, key)
      <4>1. from \in [1 .. n - 1 -> DOMAIN windows] /\ \A i \in 1 .. n - 1 : from[i] = i + 1
        BY <1>1, <3>4
      <4> HIDE DEF from
      <4>2. \A i \in 1 .. n - 1 : ws[i] = windows[from[i]] /\ ws[i].key # key
        BY <2>1, <3>4, <3>5, <4>1
      <4>3. \A i, j \in 1 .. n - 1 : i < j => from[i] < from[j]
        BY <1>1, <4>1
      <4>4. \A j \in DOMAIN windows : j = 1 \/ \E i \in 1 .. n - 1 : from[i] = j
        <5>1. \A j \in 1 .. n : j # 1 => j - 1 \in 1 .. n - 1 /\ (j - 1) + 1 = j
          BY <1>1
        <5>2. QED BY <1>1, <4>1, <5>1
      <4>5. QED BY <3>1, <3>2, <4>1, <4>2, <4>3, <4>4 DEF Moved
    <3>7. QED BY <1>3, <3>1, <3>2, <3>3, <3>6 DEF ws, key
  <2>5. QED BY <2>3, <2>4
<1>4. QED BY <1>2, <1>3
-----------------------------------------------------------------------------
(* The inductive invariant.                                                *)

Readings ==
    \A t \in Threads : thread[t] # Idle =>
        clock - MaxStale <= thread[t].now /\ thread[t].now <= clock

Counted ==
    /\ \A i \in DOMAIN windows : Fits(windows[i], admitted[windows[i].key], clock)
    /\ \A k \in Keys : Spread(admitted[k], k[2], clock) /\ (~Held(k) => admitted[k] = <<>>)

(* Whoever has a window after k's was seen since k was.                    *)
Seen(k) ==
    k \notin seenSince[k] =>
        /\ IsFiniteSet(seenSince[k])
        /\ Cardinality(seenSince[k]) < MaxWindows => Held(k)
        /\ \A i, j \in DOMAIN windows :
              windows[i].key = k /\ i < j => windows[j].key \in seenSince[k]

LimInv ==
    /\ TypeOK /\ Readings
    /\ Len(windows) <= MaxWindows /\ Apart
    /\ Counted
    /\ \A k \in Keys : Seen(k)
    /\ DeniedFairly

LEMMA LimInit == Init => LimInv
<1> SUFFICES ASSUME Init PROVE LimInv
  OBVIOUS
<1>1. MaxWindows \in Nat \ {0} /\ MaxClock \in Nat
  BY LimiterAssumption
<1>2. DOMAIN windows = {} /\ Len(windows) = 0 /\ windows \in Seq(Entries)
  BY DEF Init
<1>3. TypeOK
  BY <1>1, <1>2 DEF Init, TypeOK
<1>4. Readings /\ Apart /\ DeniedFairly
  BY <1>2 DEF Init, Readings, Apart, DeniedFairly, NoVerdict
<1>5. \A b : Spread(<<>>, b, clock)
  <2>1. DOMAIN <<>> = {}
    OBVIOUS
  <2>2. QED BY <2>1 DEF Spread
<1>6. Counted
  BY <1>2, <1>5 DEF Init, Counted
<1>7. \A k \in Keys : Seen(k)
  BY DEF Init, Seen
<1>8. QED BY <1>1, <1>2, <1>3, <1>4, <1>6, <1>7 DEF LimInv

LEMMA LimArrive ==
    ASSUME LimInv, NEW t \in Threads, NEW c \in Callers, NEW h \in Headers, NEW b \in Buckets,
           Arrive(t, c, h, b) \/ ArriveDirect(t, c, h, b)
    PROVE  LimInv'
<1> DEFINE request == [pc |-> "waiting", key |-> <<c, b>>, caller |-> <<c, b>>, now |-> clock]
<1>1. thread' = [thread EXCEPT ![t] = request]
  BY CountedUnderItsAddress DEF Arrive, ArriveDirect, Enter, ClientIp
<1>2. UNCHANGED <<windows, clock, admitted, seenSince, verdict>>
  BY DEF Arrive, ArriveDirect, Enter
<1>3. request \in Waiting /\ request.now = clock
  BY DEF LimInv, TypeOK, Waiting, Keys
<1>4. clock \in 0 .. MaxClock /\ MaxStale \in Nat /\ MaxClock \in Nat
  BY LimiterAssumption DEF LimInv, TypeOK
<1> HIDE DEF request
<1>5. thread' \in [Threads -> {Idle} \cup Waiting]
  BY <1>1, <1>3 DEF LimInv, TypeOK
<1>6. TypeOK'
  BY <1>2, <1>5 DEF LimInv, TypeOK
<1>7. Readings'
  <2>1. clock - MaxStale <= clock /\ clock <= clock
    BY <1>4
  <2>2. \A s \in Threads : thread'[s] = IF s = t THEN request ELSE thread[s]
    BY <1>1 DEF LimInv, TypeOK
  <2>3. QED BY <1>2, <1>3, <2>1, <2>2 DEF LimInv, Readings
<1>8. Len(windows') <= MaxWindows /\ Apart'
  BY <1>2 DEF LimInv, Apart
<1>9. Counted' /\ (\A k \in Keys : Seen(k))' /\ DeniedFairly'
  BY <1>2 DEF LimInv, Counted, Seen, Held, DeniedFairly, Hits, Entry, Place
<1>10. QED BY <1>6, <1>7, <1>8, <1>9 DEF LimInv

LEMMA LimTick == LimInv /\ Tick => LimInv'
<1> SUFFICES ASSUME LimInv, Tick PROVE LimInv'
  OBVIOUS
<1> USE DEF Times
<1>1. /\ windows' = windows /\ thread' = thread /\ seenSince' = seenSince
      /\ clock' = clock + 1 /\ clock < MaxClock /\ verdict' = NoVerdict
      /\ \A t \in Threads : thread[t] # Idle => clock - thread[t].now < MaxStale
  BY DEF Tick
<1>a. admitted' = [k \in Keys |->
                     Recent(admitted[k], clock' - Window[k[2]] - MaxStale + 1)]
  BY DEF Tick
<1>2. /\ windows \in Seq(Entries) /\ clock \in Times
      /\ thread \in [Threads -> {Idle} \cup Waiting]
      /\ admitted \in [Keys -> Seq(Times)] /\ seenSince \in [Keys -> SUBSET Keys]
      /\ MaxClock \in Nat /\ MaxStale \in Nat
  BY LimiterAssumption DEF LimInv, TypeOK
<1>3. clock' \in Times /\ clock \in Int
  BY <1>1, <1>2
<1>b. ASSUME NEW k \in Keys
      PROVE  admitted'[k] = Recent(admitted[k], clock + 1 - Window[k[2]] - MaxStale + 1)
  <2> DEFINE win == Window[k[2]]
  <2>1. admitted'[k] = Recent(admitted[k], clock' - win - MaxStale + 1)
    BY <1>a
  <2>5. win \in Int
    BY BucketNumbers DEF Keys
  <2> HIDE DEF win
  <2>2. clock' - win - MaxStale + 1 = clock + 1 - win - MaxStale + 1
    BY <1>1, <1>2, <1>3, <2>5
  <2>3. admitted'[k] = Recent(admitted[k], clock + 1 - win - MaxStale + 1)
    BY <2>1, <2>2
  <2>4. QED BY <2>3 DEF win
<1>4. ASSUME NEW k \in Keys
      PROVE  /\ admitted'[k] \in Seq(Times)
             /\ admitted[k] = <<>> => admitted'[k] = <<>>
             /\ Spread(admitted'[k], k[2], clock + 1)
  <2> DEFINE since == clock + 1 - Window[k[2]] - MaxStale + 1
             hits == admitted[k]
  <2>1. k[2] \in Buckets
    BY DEF Keys
  <2>2. since \in Int
    BY <1>2, <1>3, <2>1, BucketNumbers
  <2>3. hits \in Seq(Times) /\ Spread(hits, k[2], clock)
    BY <1>2 DEF LimInv, Counted
  <2>4. admitted'[k] = Recent(hits, since)
    BY <1>b
  <2> HIDE DEF hits, since
  <2>5. PICK d \in 0 .. Len(hits) :
           Recent(hits, since) \in Seq(Times) /\ Len(Recent(hits, since)) = Len(hits) - d
    <3>1. \A i, j \in DOMAIN hits : i <= j => hits[i] <= hits[j]
      BY <2>3 DEF Spread
    <3>2. QED BY <2>2, <2>3, <3>1, RecentIsBack
  <2>6. ASSUME hits = <<>>
        PROVE  Recent(hits, since) = <<>>
    <3>1. Len(hits) = 0
      BY <2>6
    <3>2. Len(Recent(hits, since)) = 0
      <4>1. d \in 0 .. 0
        BY <3>1
      <4>2. d = 0
        BY <4>1
      <4>3. QED BY <2>5, <3>1, <4>2
    <3>3. QED BY <2>5, <3>2, EmptySeq
  <2>7. Spread(Recent(hits, since), k[2], clock + 1)
    BY <1>2, <2>1, <2>2, <2>3, SpreadTick
  <2>8. QED BY <2>4, <2>5, <2>6, <2>7 DEF hits
<1>5. TypeOK'
  <2>1. admitted' \in [Keys -> Seq(Times)]
    BY <1>a, <1>4
  <2>2. QED BY <1>1, <1>2, <1>3, <2>1 DEF TypeOK
<1>6. Readings'
  <2>1. ASSUME NEW t \in Threads, thread[t] # Idle
        PROVE  clock + 1 - MaxStale <= thread[t].now /\ thread[t].now <= clock + 1
    <3>1. thread[t].now \in Int
      BY <1>2, <2>1 DEF Waiting
    <3>2. clock - thread[t].now < MaxStale /\ thread[t].now <= clock
      BY <1>1, <2>1 DEF LimInv, Readings
    <3>3. QED BY <1>2, <1>3, <3>1, <3>2
  <2>2. thread' = thread /\ clock' = clock + 1
    BY <1>1
  <2>3. ASSUME NEW t \in Threads, thread'[t] # Idle
        PROVE  clock' - MaxStale <= thread'[t].now /\ thread'[t].now <= clock'
    <3>1. thread[t] # Idle
      BY <2>2, <2>3
    <3>2. clock + 1 - MaxStale <= thread[t].now /\ thread[t].now <= clock + 1
      BY <2>1, <3>1
    <3>3. thread'[t].now = thread[t].now
      BY <2>2
    <3>4. thread[t].now \in Int
      BY <1>2, <3>1 DEF Waiting
    <3>5. QED BY <1>2, <1>3, <2>2, <3>2, <3>3, <3>4
  <2>4. QED BY <2>3 DEF Readings, Idle
<1>7. Len(windows') <= MaxWindows /\ Apart' /\ (\A k \in Keys : Seen(k))'
  BY <1>1 DEF LimInv, Apart, Seen, Held
<1>8. Counted'
  <2>1. ASSUME NEW i \in DOMAIN windows
        PROVE  Fits(windows[i], admitted'[windows[i].key], clock + 1)
    <3>1. windows[i] \in Entries
      BY <1>2
    <3>2. windows[i].key \in Keys /\ windows[i].key[2] \in Buckets
      BY <3>1 DEF Entries, Keys
    <3>3. /\ Fits(windows[i], admitted[windows[i].key], clock)
          /\ Spread(admitted[windows[i].key], windows[i].key[2], clock)
      BY <3>2 DEF LimInv, Counted
    <3>4. admitted[windows[i].key] \in Seq(Times)
      BY <1>2, <3>2
    <3>5. admitted'[windows[i].key]
            = Recent(admitted[windows[i].key],
                     clock + 1 - Window[windows[i].key[2]] - MaxStale + 1)
      BY <1>b, <3>2
    <3>6. QED BY <1>2, <3>1, <3>2, <3>3, <3>4, <3>5, FitsTick
  <2>2. \A k \in Keys : ~Held(k)' => admitted'[k] = <<>>
    BY <1>1, <1>4 DEF LimInv, Counted, Held
  <2>3. QED BY <1>1, <1>4, <2>1, <2>2 DEF Counted
<1>9. DeniedFairly'
  BY <1>1 DEF DeniedFairly, NoVerdict
<1>10. QED BY <1>5, <1>6, <1>7, <1>8, <1>9 DEF LimInv
-----------------------------------------------------------------------------
(* A request is let in or denied: w is its window now, hits are its hits.  *)

Checked(key, w, hits) ==
    /\ windows' = Evict(Update(w))
    /\ admitted' = [k \in Keys |-> IF k \in Forgotten(windows') THEN <<>>
                                   ELSE IF k = key THEN hits ELSE admitted[k]]
    /\ seenSince' = [k \in Keys |-> IF k = key THEN {} ELSE seenSince[k] \cup {key}]

LEMMA CheckedOrdered ==
    ASSUME LimInv, NEW w \in Entries, NEW hits, Checked(w.key, w, hits)
    PROVE  /\ windows' \in Seq(Entries) /\ Len(windows') \in 1 .. MaxWindows
           /\ windows'[Len(windows')] = w
           /\ \E from : Moved(windows', from, w.key)
           /\ Apart'
<1> DEFINE ws == windows'
           n == Len(ws)
<1>1. /\ ws \in Seq(Entries) /\ n \in 1 .. MaxWindows /\ ws[n] = w
      /\ \E from : Moved(ws, from, w.key)
  <2>1. ws = Evict(Update(w))
    BY DEF Checked
  <2>2. windows \in Seq(Entries) /\ Len(windows) <= MaxWindows /\ Apart
    BY DEF LimInv, TypeOK
  <2>3. QED BY <2>1, <2>2, MovedToTheEnd
<1>2. PICK from : Moved(ws, from, w.key)
  BY <1>1
<1>3. n \in Nat /\ DOMAIN ws = 1 .. n
  BY <1>1, LenProperties
<1> HIDE DEF n, ws
<1>4. /\ \A i \in 1 .. n - 1 : from[i] \in DOMAIN windows
      /\ \A i \in 1 .. n - 1 : ws[i] = windows[from[i]] /\ ws[i].key # w.key
      /\ \A i, j \in 1 .. n - 1 : i < j => from[i] < from[j]
  BY <1>2 DEF Moved, n
<1>5. \A i \in DOMAIN windows : i \in Int
  BY LenProperties DEF LimInv, TypeOK
<1>6. ASSUME NEW i \in 1 .. n, NEW j \in 1 .. n, ws[i].key = ws[j].key, i < j
      PROVE  FALSE
  <2>1. i \in 1 .. n - 1
    BY <1>3, <1>6
  <2>2. CASE j = n
    BY <1>1, <1>4, <1>6, <2>1, <2>2
  <2>3. CASE j # n
    <3>1. j \in 1 .. n - 1
      BY <1>3, <2>3
    <3>2. windows[from[i]].key = windows[from[j]].key
      BY <1>4, <1>6, <2>1, <3>1
    <3>3. from[i] = from[j]
      BY <1>4, <2>1, <3>1, <3>2 DEF LimInv, Apart
    <3>4. from[i] < from[j] /\ from[i] \in Int
      BY <1>4, <1>5, <1>6, <2>1, <3>1
    <3>5. QED BY <3>3, <3>4
  <2>4. QED BY <2>2, <2>3
<1>7. \A i, j \in DOMAIN ws : ws[i].key = ws[j].key => i = j
  <2>1. \A i, j \in 1 .. n : i = j \/ i < j \/ j < i
    BY <1>3
  <2>2. QED BY <1>3, <1>6, <2>1
<1>8. Apart'
  BY <1>7 DEF Apart, ws
<1>9. QED BY <1>1, <1>8 DEF n, ws

LEMMA CheckedCounted ==
    ASSUME LimInv, NEW w \in Entries, NEW hits \in Seq(Times),
           Fits(w, hits, clock), Spread(hits, w.key[2], clock),
           Checked(w.key, w, hits), clock' = clock
    PROVE  /\ admitted' \in [Keys -> Seq(Times)]
           /\ admitted'[w.key] = hits
           /\ Entry(w.key)' = w
           /\ Counted'
<1> DEFINE ws == windows'
           n == Len(ws)
           key == w.key
<1>1. ws \in Seq(Entries) /\ n \in 1 .. MaxWindows /\ ws[n] = w /\ Apart'
  BY CheckedOrdered
<1>2. PICK from : Moved(ws, from, key)
  BY CheckedOrdered
<1>3. n \in Nat /\ DOMAIN ws = 1 .. n /\ n \in 1 .. n
  BY <1>1, LenProperties
<1>4. w.key \in Keys
  BY DEF Entries
<1>5. admitted \in [Keys -> Seq(Times)] /\ windows \in Seq(Entries)
  BY DEF LimInv, TypeOK, Times
<1>6. \A k \in Keys : admitted'[k] = IF k \in Forgotten(ws) THEN <<>>
                                     ELSE IF k = key THEN hits ELSE admitted[k]
  BY DEF Checked
<1>7. \A k : k \in Forgotten(ws) <=> /\ k \in Keys /\ Held(k)
                                     /\ \A i \in DOMAIN ws : ws[i].key # k
  BY DEF Forgotten
<1> HIDE DEF n, ws, key
<1>8. /\ \A i \in 1 .. n - 1 : from[i] \in DOMAIN windows
      /\ \A i \in 1 .. n - 1 : ws[i] = windows[from[i]] /\ ws[i].key # key
  BY <1>2 DEF Moved, n
<1>9. key \notin Forgotten(ws) /\ admitted'[key] = hits
  <2>1. key \notin Forgotten(ws)
    BY <1>1, <1>3, <1>7 DEF key
  <2>2. QED BY <1>4, <1>6, <2>1 DEF key
<1>10. admitted' \in [Keys -> Seq(Times)]
  <2>1. \A k \in Keys : admitted'[k] \in Seq(Times)
    <3>1. <<>> \in Seq(Times)
      BY EmptySeq
    <3>2. QED BY <1>5, <1>6, <3>1
  <2>2. admitted' = [k \in Keys |-> admitted'[k]]
    BY DEF Checked
  <2>3. QED BY <2>1, <2>2
<1>11. Entry(key)' = w
  <2>1. n \in DOMAIN ws /\ ws[n].key = key
    BY <1>1, <1>3 DEF key
  <2>2. Place(key)' = n
    <3>1. \A i \in DOMAIN ws : ws[i].key = key => i = n
      BY <1>1, <2>1 DEF Apart, ws
    <3>2. Place(key)' = CHOOSE i \in DOMAIN ws : ws[i].key = key
      BY DEF Place, ws
    <3>3. QED BY <2>1, <3>1, <3>2
  <2>3. QED BY <1>1, <2>2 DEF Entry, ws
<1>12. ASSUME NEW i \in DOMAIN ws
       PROVE  Fits(ws[i], admitted'[ws[i].key], clock)
  <2>1. CASE i = n
    BY <1>1, <1>9, <2>1 DEF key
  <2>2. CASE i # n
    <3>1. i \in 1 .. n - 1
      BY <1>3, <2>2
    <3>2. /\ ws[i] = windows[from[i]] /\ ws[i].key # key /\ from[i] \in DOMAIN windows
      BY <1>8, <3>1
    <3>3. ws[i] \in Entries
      BY <1>1, <1>3, ElementOfSeq DEF n
    <3>4. ws[i].key \in Keys
      BY <3>3 DEF Entries
    <3>5. ws[i].key \notin Forgotten(ws)
      BY <1>7
    <3>6. admitted'[ws[i].key] = admitted[ws[i].key]
      BY <1>6, <3>2, <3>4, <3>5
    <3>7. QED BY <3>2, <3>6 DEF LimInv, Counted
  <2>3. QED BY <2>1, <2>2
<1>13. ASSUME NEW k \in Keys
       PROVE  /\ Spread(admitted'[k], k[2], clock)
              /\ ~Held(k)' => admitted'[k] = <<>>
  <2>1. Spread(admitted[k], k[2], clock) /\ (~Held(k) => admitted[k] = <<>>)
    BY DEF LimInv, Counted
  <2>2. Spread(<<>>, k[2], clock)
    <3>1. DOMAIN <<>> = {}
      OBVIOUS
    <3>2. QED BY <3>1 DEF Spread
  <2>3. Held(k)' <=> \E i \in DOMAIN ws : ws[i].key = k
    BY DEF Held, ws
  <2>4. CASE k \in Forgotten(ws)
    BY <1>6, <2>2, <2>4
  <2>5. CASE k = key
    BY <1>1, <1>3, <1>9, <2>3, <2>5 DEF key
  <2>6. CASE k \notin Forgotten(ws) /\ k # key
    <3>1. admitted'[k] = admitted[k]
      BY <1>6, <2>6
    <3>2. ~Held(k)' => ~Held(k)
      BY <1>7, <2>3, <2>6
    <3>3. QED BY <2>1, <3>1, <3>2
  <2>7. QED BY <2>4, <2>5, <2>6
<1>14. Counted'
  <2>1. /\ \A i \in DOMAIN ws : Fits(ws[i], admitted'[ws[i].key], clock')
        /\ \A k \in Keys : Spread(admitted'[k], k[2], clock')
        /\ \A k \in Keys : ~Held(k)' => admitted'[k] = <<>>
    BY <1>12, <1>13
  <2>2. QED BY <2>1 DEF Counted, ws
<1>15. QED BY <1>9, <1>10, <1>11, <1>14 DEF key

(* Whoever is forgotten had as many seen since as there is room for.       *)
LEMMA CheckedSeen ==
    ASSUME LimInv, NEW w \in Entries, NEW hits, Checked(w.key, w, hits), NEW k \in Keys
    PROVE  Seen(k)'
<1> DEFINE ws == windows'
           n == Len(ws)
           key == w.key
           since == seenSince'[k]
<1>1. ws \in Seq(Entries) /\ n \in 1 .. MaxWindows /\ ws[n] = w /\ Apart'
  BY CheckedOrdered
<1>2. PICK from : Moved(ws, from, key)
  BY CheckedOrdered
<1>3. n \in Nat /\ DOMAIN ws = 1 .. n /\ n \in 1 .. n /\ MaxWindows \in Nat
  BY <1>1, LenProperties, LimiterAssumption
<1>4. since = IF k = key THEN {} ELSE seenSince[k] \cup {key}
  BY DEF Checked
<1>5. Held(k)' <=> \E i \in DOMAIN ws : ws[i].key = k
  BY DEF Held
<1>6. Seen(k)
  BY DEF LimInv
<1>7. \A i \in DOMAIN windows : i \in Int /\ i >= 1
  BY LenProperties DEF LimInv, TypeOK
<1> SUFFICES ASSUME k \notin since
             PROVE  /\ IsFiniteSet(since)
                    /\ Cardinality(since) < MaxWindows => \E i \in DOMAIN ws : ws[i].key = k
                    /\ \A i, j \in DOMAIN ws : ws[i].key = k /\ i < j => ws[j].key \in since
  BY <1>5 DEF Seen
<1> HIDE DEF n, ws, key, since
<1>8. /\ \A i \in 1 .. n - 1 : from[i] \in DOMAIN windows
      /\ \A i \in 1 .. n - 1 : ws[i] = windows[from[i]] /\ ws[i].key # key
      /\ \A i, j \in 1 .. n - 1 : i < j => from[i] < from[j]
      /\ \A j \in DOMAIN windows : windows[j].key # key =>
            (\E i \in 1 .. n - 1 : from[i] = j) \/ (j = 1 /\ n = MaxWindows)
  BY <1>2 DEF Moved, n
<1>9. CASE k = key
  <2>1. IsFiniteSet(since)
    BY <1>4, <1>9, FS_EmptySet
  <2>2. ws[n].key = k
    BY <1>1, <1>9 DEF key
  <2>3. ASSUME NEW i \in DOMAIN ws, NEW j \in DOMAIN ws, ws[i].key = k, i < j
        PROVE  FALSE
    <3>1. i = n
      BY <1>1, <1>3, <2>2, <2>3 DEF Apart, ws
    <3>2. j <= n /\ j \in Int /\ n \in Int
      BY <1>3
    <3>3. QED BY <2>3, <3>1, <3>2
  <2>4. QED BY <1>3, <2>1, <2>2, <2>3
<1>10. CASE k # key
  <2>1. since = seenSince[k] \cup {key} /\ k \notin seenSince[k]
    BY <1>4, <1>10
  <2>2. /\ IsFiniteSet(seenSince[k])
        /\ Cardinality(seenSince[k]) < MaxWindows => Held(k)
        /\ \A i, j \in DOMAIN windows :
              windows[i].key = k /\ i < j => windows[j].key \in seenSince[k]
    BY <1>6, <2>1 DEF Seen
  <2>3. IsFiniteSet(since) /\ Cardinality(seenSince[k]) <= Cardinality(since)
    <3>1. IsFiniteSet(since)
      BY <2>1, <2>2, FS_AddElement
    <3>2. QED BY <2>1, <3>1, FS_Subset
  <2>4. ASSUME NEW i \in DOMAIN ws, NEW j \in DOMAIN ws, ws[i].key = k, i < j
        PROVE  ws[j].key \in since
    <3>1. i \in 1 .. n - 1
      BY <1>3, <2>4
    <3>2. CASE j = n
      BY <1>1, <2>1, <3>2 DEF key
    <3>3. CASE j # n
      <4>1. j \in 1 .. n - 1
        BY <1>3, <3>3
      <4>2. windows[from[i]].key = k /\ from[i] < from[j]
        BY <1>8, <2>4, <3>1, <4>1
      <4>3. windows[from[j]].key \in seenSince[k]
        BY <1>8, <2>2, <3>1, <4>1, <4>2
      <4>4. QED BY <1>8, <2>1, <4>1, <4>3
    <3>4. QED BY <3>2, <3>3
  <2>5. ASSUME Cardinality(since) < MaxWindows, ~\E i \in DOMAIN ws : ws[i].key = k
        PROVE  FALSE
    <3>1. Cardinality(seenSince[k]) \in Nat /\ Cardinality(since) \in Nat
      BY <2>2, <2>3, FS_CardinalityType
    <3>2. Held(k)
      BY <1>3, <2>2, <2>3, <2>5, <3>1
    <3>3. PICK p \in DOMAIN windows : windows[p].key = k
      BY <3>2 DEF Held
    <3>4. ~\E i \in 1 .. n - 1 : from[i] = p
      <4>1. \A i \in 1 .. n - 1 : i \in DOMAIN ws
        BY <1>3
      <4>2. QED BY <1>8, <2>5, <3>3, <4>1
    <3>5. p = 1 /\ n = MaxWindows
      BY <1>8, <1>10, <3>3, <3>4
    <3> DEFINE keys == [i \in 1 .. n |-> ws[i].key]
    <3>6. \A i \in 1 .. n : ws[i].key \in since
      <4>1. ASSUME NEW i \in 1 .. n - 1
            PROVE  ws[i].key \in since
        <5>1. from[i] \in DOMAIN windows /\ from[i] # p
          BY <1>8, <3>4
        <5>2. p < from[i]
          BY <1>7, <3>5, <5>1
        <5>3. windows[from[i]].key \in seenSince[k]
          BY <2>2, <3>3, <5>1, <5>2
        <5>4. QED BY <1>8, <2>1, <5>3
      <4>2. ws[n].key \in since
        BY <1>1, <2>1 DEF key
      <4>3. \A i \in 1 .. n : i \in 1 .. n - 1 \/ i = n
        BY <1>3
      <4>4. QED BY <4>1, <4>2, <4>3
    <3>7. keys \in Injection(1 .. n, since)
      <4>1. keys \in [1 .. n -> since]
        BY <3>6
      <4>2. \A i, j \in 1 .. n : keys[i] = keys[j] => i = j
        BY <1>1, <1>3 DEF Apart, ws
      <4> HIDE DEF keys
      <4>3. QED BY <4>1, <4>2 DEF Injection, IsInjective
    <3>8. Cardinality(1 .. n) <= Cardinality(since)
      BY <2>3, <3>7, FS_Injection
    <3>9. Cardinality(1 .. n) = n
      <4>1. 1 \in Int /\ n \in Int /\ n >= 1
        BY <1>3
      <4>2. QED BY <4>1, FS_Interval
    <3>10. QED BY <1>3, <2>5, <3>1, <3>5, <3>8, <3>9
  <2>6. QED BY <2>3, <2>4, <2>5
<1>11. QED BY <1>9, <1>10

(* What check does is one of these.                                        *)
LEMMA CheckIsChecked ==
    ASSUME LimInv, NEW t \in Threads, Check(t)
    PROVE  LET key == thread[t].key
               now == thread[t].now
           IN /\ key \in Keys /\ now \in Times /\ clock - MaxStale <= now /\ now <= clock
              /\ \E w \in Entries, hits \in Seq(Times) :
                    /\ w.key = key /\ Checked(key, w, hits)
                    /\ Fits(w, hits, clock) /\ Spread(hits, key[2], clock)
                    /\ \/ verdict' = NoVerdict
                       \/ /\ hits = admitted[key]
                          /\ ~Elapsed(w, now) /\ w.count >= Limit[key[2]]
                          /\ verdict' = [denied |-> TRUE, to |-> key,
                                         wait |-> RetryAfter(w, now)]
<1> DEFINE key == thread[t].key
           now == thread[t].now
           w0 == Entry(key)
           fresh == IF Held(key) THEN Elapsed(w0, now) ELSE TRUE
           old == admitted[key]
           more == Append(old, clock)
           new == [key |-> key, start |-> now, count |-> 1]
           next == [key |-> key, start |-> w0.start, count |-> w0.count + 1]
<1>1. /\ key \in Keys /\ now \in Times /\ thread[t].caller = key
  BY DEF LimInv, TypeOK, Check, Waiting, Times
<1>2. clock - MaxStale <= now /\ now <= clock
  BY DEF LimInv, Readings, Check
<1>3. /\ windows \in Seq(Entries) /\ clock \in Times /\ old \in Seq(Times)
      /\ key[2] \in Buckets
  BY <1>1 DEF LimInv, TypeOK, Times, Keys
<1>4. Spread(old, key[2], clock) /\ (~Held(key) => old = <<>>)
  BY <1>1 DEF LimInv, Counted
<1>5. more \in Seq(Times)
  BY <1>3, HitsTyped
<1>6. ASSUME Held(key)
      PROVE  /\ w0 \in Entries /\ w0.key = key
             /\ Fits(w0, old, clock)
  <2>1. Place(key) \in DOMAIN windows /\ windows[Place(key)].key = key
    BY <1>6 DEF Held, Place
  <2>2. w0 = windows[Place(key)]
    BY DEF Entry
  <2>3. w0 \in Entries
    BY <1>3, <2>1, <2>2, LenProperties, ElementOfSeq
  <2>4. QED BY <2>1, <2>2, <2>3 DEF LimInv, Counted
<1>7. \/ /\ fresh
         /\ windows' = Evict(Update(new)) /\ Record(key, key, windows', TRUE)
         /\ verdict' = NoVerdict
      \/ /\ ~fresh /\ w0.count < Limit[key[2]]
         /\ windows' = Update([w0 EXCEPT !.count = @ + 1])
         /\ Record(key, key, windows', TRUE) /\ verdict' = NoVerdict
      \/ /\ ~fresh /\ w0.count >= Limit[key[2]]
         /\ windows' = Update(w0) /\ Record(key, key, windows', FALSE)
         /\ verdict' = [denied |-> TRUE, to |-> key, wait |-> RetryAfter(w0, now)]
  BY <1>1 DEF Check
<1>8. new \in Entries /\ new.key = key
  BY <1>1 DEF Entries, Times
<1>9. /\ Record(key, key, windows', TRUE) =>
           /\ admitted' = [k \in Keys |-> IF k \in Forgotten(windows') THEN <<>>
                                          ELSE IF k = key THEN more ELSE admitted[k]]
           /\ seenSince' = [k \in Keys |-> IF k = key THEN {} ELSE seenSince[k] \cup {key}]
      /\ Record(key, key, windows', FALSE) =>
           /\ admitted' = [k \in Keys |-> IF k \in Forgotten(windows') THEN <<>>
                                          ELSE IF k = key THEN old ELSE admitted[k]]
           /\ seenSince' = [k \in Keys |-> IF k = key THEN {} ELSE seenSince[k] \cup {key}]
  BY DEF Record
<1>10. /\ windows \in Seq(Entries) /\ Len(windows) <= MaxWindows /\ Apart
  BY DEF LimInv, TypeOK
<1> HIDE DEF key, now, old, more, w0
<1>11. CASE /\ fresh /\ windows' = Evict(Update(new))
            /\ Record(key, key, windows', TRUE) /\ verdict' = NoVerdict
  <2>1. Fits(new, more, clock) /\ Spread(more, key[2], clock)
    <3>1. CASE Held(key)
      <4>1. Elapsed(w0, now)
        BY <1>11, <3>1
      <4>2. QED BY <1>1, <1>2, <1>3, <1>4, <1>6, <3>1, <4>1, FitsFresh DEF more
    <3>2. CASE ~Held(key)
      <4>1. more = <<clock>>
        BY <1>4, <3>2 DEF more
      <4>2. QED BY <1>1, <1>2, <1>3, <4>1, FitsFirst
    <3>3. QED BY <3>1, <3>2
  <2>2. Checked(key, new, more)
    BY <1>9, <1>11 DEF Checked
  <2> HIDE DEF new
  <2>3. QED BY <1>1, <1>2, <1>5, <1>8, <1>11, <2>1, <2>2 DEF key, now
<1>12. CASE /\ ~fresh /\ w0.count < Limit[key[2]]
            /\ windows' = Update([w0 EXCEPT !.count = @ + 1])
            /\ Record(key, key, windows', TRUE) /\ verdict' = NoVerdict
  <2>1. Held(key) /\ ~Elapsed(w0, now)
    BY <1>12
  <2>2. [w0 EXCEPT !.count = @ + 1] = next /\ next \in Entries /\ next.key = key
    <3>1. w0 \in [key : Keys, start : 0 .. MaxClock, count : Nat]
      BY <1>6, <2>1 DEF Entries
    <3>2. w0.start \in 0 .. MaxClock /\ w0.count + 1 \in Nat
      BY <3>1
    <3>3. next \in Entries
      BY <1>1, <3>2 DEF Entries
    <3>4. [w0 EXCEPT !.count = @ + 1] = next
      BY <1>6, <2>1, <3>1
    <3>5. QED BY <3>3, <3>4
  <2>3. Fits(next, more, clock) /\ Spread(more, key[2], clock)
    BY <1>1, <1>2, <1>3, <1>4, <1>6, <1>12, <2>1, FitsMore DEF more
  <2> HIDE DEF next
  <2>4. windows' = Evict(Update(next))
    BY <1>10, <1>12, <2>1, <2>2, MovedToTheEnd
  <2>5. Checked(key, next, more)
    BY <1>9, <1>12, <2>4 DEF Checked
  <2>6. QED BY <1>1, <1>2, <1>5, <1>12, <2>2, <2>3, <2>5 DEF key, now
<1>13. CASE /\ ~fresh /\ w0.count >= Limit[key[2]]
            /\ windows' = Update(w0) /\ Record(key, key, windows', FALSE)
            /\ verdict' = [denied |-> TRUE, to |-> key, wait |-> RetryAfter(w0, now)]
  <2>1. Held(key) /\ ~Elapsed(w0, now)
    BY <1>13
  <2>2. windows' = Evict(Update(w0))
    BY <1>6, <1>10, <1>13, <2>1, MovedToTheEnd
  <2>3. Checked(key, w0, old)
    BY <1>9, <1>13, <2>2 DEF Checked
  <2>4. QED BY <1>1, <1>2, <1>3, <1>4, <1>6, <1>13, <2>1, <2>3 DEF key, now, old
<1>14. QED BY <1>7, <1>11, <1>12, <1>13

LEMMA LimCheck ==
    ASSUME LimInv, NEW t \in Threads, Check(t)
    PROVE  LimInv'
<1>0. PICK key, now : key = thread[t].key /\ now = thread[t].now
  OBVIOUS
<1>1. /\ key \in Keys /\ now \in Times /\ clock - MaxStale <= now /\ now <= clock
      /\ \E w \in Entries, hits \in Seq(Times) :
            /\ w.key = key /\ Checked(key, w, hits)
            /\ Fits(w, hits, clock) /\ Spread(hits, key[2], clock)
            /\ \/ verdict' = NoVerdict
               \/ /\ hits = admitted[key]
                  /\ ~Elapsed(w, now) /\ w.count >= Limit[key[2]]
                  /\ verdict' = [denied |-> TRUE, to |-> key, wait |-> RetryAfter(w, now)]
  BY <1>0, CheckIsChecked
<1>2. PICK w \in Entries, hits \in Seq(Times) :
            /\ w.key = key /\ Checked(key, w, hits)
            /\ Fits(w, hits, clock) /\ Spread(hits, key[2], clock)
            /\ \/ verdict' = NoVerdict
               \/ /\ hits = admitted[key]
                  /\ ~Elapsed(w, now) /\ w.count >= Limit[key[2]]
                  /\ verdict' = [denied |-> TRUE, to |-> key, wait |-> RetryAfter(w, now)]
  BY <1>1
<1>3. clock' = clock /\ thread' = [thread EXCEPT ![t] = Idle]
  BY DEF Check
<1>4. /\ windows' \in Seq(Entries) /\ Len(windows') \in 1 .. MaxWindows /\ Apart'
  BY <1>2, CheckedOrdered
<1>5. /\ admitted' \in [Keys -> Seq(Times)] /\ admitted'[key] = hits
      /\ Entry(key)' = w /\ Counted'
  BY <1>2, <1>3, CheckedCounted
<1>6. \A k \in Keys : Seen(k)'
  BY <1>2, CheckedSeen
<1>7. /\ clock \in Times /\ MaxClock \in Nat /\ MaxWindows \in Nat /\ MaxStale \in Nat
      /\ thread \in [Threads -> {Idle} \cup Waiting]
      /\ seenSince \in [Keys -> SUBSET Keys]
  BY LimiterAssumption DEF LimInv, TypeOK, Times
<1>8. Len(windows') <= MaxWindows
  BY <1>4, <1>7
<1>9. thread' \in [Threads -> {Idle} \cup Waiting] /\ Readings'
  <2>1. \A s \in Threads : thread'[s] = IF s = t THEN Idle ELSE thread[s]
    BY <1>3, <1>7
  <2>2. Readings'
    BY <1>3, <2>1 DEF LimInv, Readings
  <2>3. QED BY <1>3, <1>7, <2>2
<1>10. seenSince' \in [Keys -> SUBSET Keys]
  <2>1. seenSince' = [k \in Keys |-> IF k = key THEN {} ELSE seenSince[k] \cup {key}]
    BY <1>2 DEF Checked
  <2>2. QED BY <1>1, <1>7, <2>1
<1>11. CASE verdict' = NoVerdict
  <2>1. TypeOK'
    BY <1>3, <1>4, <1>5, <1>7, <1>9, <1>10, <1>11 DEF TypeOK, Times
  <2>2. DeniedFairly'
    BY <1>11 DEF DeniedFairly, NoVerdict
  <2>3. QED BY <1>4, <1>5, <1>6, <1>8, <1>9, <2>1, <2>2 DEF LimInv
<1>12. CASE /\ hits = admitted[key]
            /\ ~Elapsed(w, now) /\ w.count >= Limit[key[2]]
            /\ verdict' = [denied |-> TRUE, to |-> key, wait |-> RetryAfter(w, now)]
  <2> DEFINE b == key[2]
             wait == RetryAfter(w, now)
  <2>1. /\ key[2] \in Buckets /\ w.key[2] = key[2]
    BY <1>1, <1>2 DEF Keys
  <2>2. /\ clock \in Int /\ now \in Int /\ w.start \in Int
        /\ Window[b] \in Nat \ {0} /\ w.start <= clock
    BY <1>1, <1>2, <1>7, <2>1, BucketNumbers DEF Times, Entries, Fits
  <2>3. wait = IF 1 >= Window[b] - (now - w.start) THEN 1 ELSE Window[b] - (now - w.start)
    <3>1. 1 \in Int /\ Window[b] - (now - w.start) \in Int
      BY <2>2
    <3>2. QED BY <2>1, <3>1, MaxOfTwo DEF RetryAfter
  <2> HIDE DEF wait, b
  <2>4. wait \in 1 .. (Window[b] + MaxStale)
    <3>1. now - w.start \in Int /\ now - w.start >= 0 - MaxStale
      BY <1>1, <1>7, <2>2
    <3>2. Window[b] - (now - w.start) \in Int
          /\ Window[b] - (now - w.start) <= Window[b] + MaxStale
      BY <1>7, <2>2, <3>1
    <3>3. wait \in Int /\ wait >= 1 /\ wait <= Window[b] + MaxStale
      BY <1>7, <2>2, <2>3, <3>2
    <3>4. QED BY <1>7, <2>2, <3>3
  <2>5. (clock + wait) - w.start >= Window[b]
    BY <1>1, <1>7, <2>2, <2>3
  <2>6. Cardinality({i \in DOMAIN hits :
            hits[i] \in clock - (Window[b] + MaxStale - 1) .. clock}) >= Limit[b]
    BY <1>1, <1>2, <1>7, <1>12, <2>1, LimitUsedUp DEF b
  <2>7. verdict' = [denied |-> TRUE, to |-> key, wait |-> wait]
    BY <1>12 DEF wait
  <2>8. verdict'.to = key /\ verdict'.wait = wait
    BY <2>7
  <2>9. TypeOK'
    <3>1. verdict' \in [denied : {TRUE}, to : Keys, wait : Nat]
      BY <1>1, <1>7, <2>2, <2>4, <2>7
    <3>2. QED BY <1>3, <1>4, <1>5, <1>7, <1>9, <1>10, <3>1 DEF TypeOK, Times
  <2>10. DeniedFairly'
    <3>1. Hits(key, clock - (Window[b] + MaxStale - 1), clock)' >= Limit[b]
      BY <1>3, <1>5, <2>6 DEF Hits, b
    <3>2. Elapsed(Entry(key), clock + wait)'
      <4>1. w.key[2] = b
        BY <2>1 DEF b
      <4>2. (clock + wait) - w.start >= Window[w.key[2]]
        BY <2>5, <4>1
      <4>3. Elapsed(w, clock + wait)
        BY <4>2 DEF Elapsed
      <4>4. Entry(key)' = w /\ clock' + wait = clock + wait
        BY <1>3, <1>5
      <4>5. QED BY <4>3, <4>4
    <3>3. QED BY <1>3, <2>4, <2>8, <3>1, <3>2 DEF DeniedFairly, b
  <2>11. QED BY <1>4, <1>5, <1>6, <1>8, <1>9, <2>9, <2>10 DEF LimInv
<1>13. QED BY <1>2, <1>11, <1>12

LEMMA LimKept == LimInv /\ [Next]_vars => LimInv'
<1> SUFFICES ASSUME LimInv, [Next]_vars PROVE LimInv'
  OBVIOUS
<1>1. ASSUME NEW t \in Threads, NEW c \in Callers, NEW h \in Headers, NEW b \in Buckets,
             Arrive(t, c, h, b) \/ ArriveDirect(t, c, h, b)
      PROVE  LimInv'
  BY <1>1, LimArrive
<1>2. ASSUME NEW t \in Threads, Check(t)
      PROVE  LimInv'
  BY <1>2, LimCheck
<1>3. CASE Tick
  BY <1>3, LimTick
<1>4. CASE UNCHANGED vars
  BY <1>4 DEF vars, LimInv, TypeOK, Readings, Apart, Counted, Seen, Held, DeniedFairly,
              Hits, Entry, Place
<1>5. QED BY <1>1, <1>2, <1>3, <1>4 DEF Next

THEOREM LimInvariant == Spec => []LimInv
<1>1. QED BY LimInit, LimKept, PTL DEF Spec

(* Every request is counted under the address it came from, whatever       *)
(* forwarding header it brought, and windows, readings, counts and answers *)
(* keep their types.                                                       *)
THEOREM LimiterTyped == Spec => []TypeOK
<1>1. LimInv => TypeOK
  BY DEF LimInv
<1>2. QED BY <1>1, LimInvariant, PTL

(* In no stretch of a window and a second, less the wait for the lock, is a*)
(* caller let in more than twice its limit, unless it was forgotten.       *)
THEOREM TwoWindowsAtMost == Spec => []AtMostTwoWindows
<1>1. LimInv => AtMostTwoWindows
  <2> SUFFICES ASSUME LimInv, NEW k \in Keys, NEW s \in Times
               PROVE  Hits(k, s, s + Window[k[2]] - MaxStale) <= 2 * Limit[k[2]]
    BY DEF AtMostTwoWindows, Times
  <2>1. /\ k[2] \in Buckets /\ admitted[k] \in Seq(Times) /\ clock \in Times
        /\ Spread(admitted[k], k[2], clock)
    BY DEF LimInv, TypeOK, Counted, Keys, Times
  <2>2. Limit[k[2]] + Limit[k[2]] = 2 * Limit[k[2]]
    BY <2>1, BucketNumbers
  <2>3. Hits(k, s, s + Window[k[2]] - MaxStale) <= Limit[k[2]] + Limit[k[2]]
    BY <2>1, FewInAGap DEF Hits
  <2>4. QED BY <2>2, <2>3
<1>2. QED BY <1>1, LimInvariant, PTL

(* Nobody is denied unless its own limit was used up in the last window's  *)
(* time, and the wait it is told is enough and not too long.               *)
THEOREM FairDenials == Spec => []DeniedFairly
<1>1. LimInv => DeniedFairly
  BY DEF LimInv
<1>2. QED BY <1>1, LimInvariant, PTL

(* No caller has two windows, the cap holds, and no caller is forgotten    *)
(* before as many others were seen since as the cap allows.                *)
THEOREM Remembered == Spec => []RememberedWhileSeen
<1>1. LimInv => RememberedWhileSeen
  BY DEF LimInv, Apart, Seen, RememberedWhileSeen
<1>2. QED BY <1>1, LimInvariant, PTL
=============================================================================
