--------------------------- MODULE JobPollerProofs ---------------------------
(***************************************************************************)
(* Theorems of JobPoller, for every number of pages, jobs and calls.       *)
(***************************************************************************)
EXTENDS JobPoller, FiniteSetTheorems, SequenceTheorems, TLAPS

LEMMA PagesAre == Pages = {i \in Nat : 1 <= i /\ i <= MaxPages} /\ MaxPages \in Nat
  BY PollerAssumption DEF Pages

-----------------------------------------------------------------------------
(* The limiter.                                                            *)

\* Callers have read the clock before now.
Arrived == \A c \in Callers : arrived[c] # None => arrived[c] \in 0..now

LInv == LimiterTypeOK /\ Arrived

LEMMA LimiterInitInv == LimiterInit => LInv
  BY LimiterAssumption DEF LimiterInit, LInv, LimiterTypeOK, Arrived

\* What is popped is the longest stretch at the front that is out of date.
LEMMA StaleIs ==
  ASSUME LInv, NEW t \in 0..now
  PROVE  LET m == Cardinality(Stale(t))
         IN  /\ m \in 0..Len(hits) /\ \A i \in 1..m : hits[i] < t - Window
             /\ m < Len(hits) => hits[m + 1] >= t - Window
<1> DEFINE m == Cardinality(Stale(t))
<1>1. hits \in Seq(0..now) /\ Len(hits) \in Nat /\ DOMAIN hits = 1..Len(hits) /\ now \in Nat
  BY LimiterAssumption DEF LInv, LimiterTypeOK
<1>2. Stale(t) \in SUBSET (1..Len(hits))
  BY <1>1 DEF Stale
<1>3. IsFiniteSet(Stale(t)) /\ m \in Nat /\ m <= Len(hits)
  <2>1. IsFiniteSet(1..Len(hits)) /\ Cardinality(1..Len(hits)) = Len(hits)
    <3>1. 1 \in Int /\ Len(hits) \in Int
      BY <1>1
    <3>2. IsFiniteSet(1..Len(hits)) /\ Cardinality(1..Len(hits)) = IF 1 > Len(hits) THEN 0 ELSE Len(hits) - 1 + 1
      BY <3>1, FS_Interval
    <3> QED
      BY <1>1, <3>2
  <2>2. IsFiniteSet(Stale(t)) /\ m <= Len(hits)
    BY <1>2, <2>1, FS_Subset
  <2> QED
    BY <2>2, FS_CardinalityType
<1>4. Stale(t) \subseteq 1..m
  <2> SUFFICES ASSUME NEW i \in Stale(t) PROVE i \in 1..m
    OBVIOUS
  <2>1. i \in 1..Len(hits) /\ \A j \in 1..i : hits[j] < t - Window
    BY <1>1 DEF Stale
  <2>2. 1..i \in SUBSET Stale(t)
    BY <1>1, <2>1 DEF Stale
  <2>3. Cardinality(1..i) = i
    BY <2>1, FS_Interval
  <2>4. Cardinality(1..i) <= m
    BY <1>3, <2>2, FS_Subset
  <2> QED
    BY <1>3, <2>1, <2>3, <2>4
<1>5. Stale(t) = 1..m
  <2>1. IsFiniteSet(1..m) /\ Cardinality(1..m) = m
    BY <1>3, FS_Interval
  <2> QED
    BY <1>4, <2>1, FS_Subset
<1>6. \A i \in 1..m : \A j \in 1..i : hits[j] < t - Window
  BY <1>5 DEF Stale
<1>7. \A i \in 1..m : hits[i] < t - Window
  BY <1>3, <1>6
<1>8. ASSUME m < Len(hits) PROVE hits[m + 1] >= t - Window
  <2>1. m + 1 \in 1..Len(hits) /\ m + 1 \notin Stale(t)
    BY <1>3, <1>5, <1>8, <1>1
  <2>2. PICK j \in 1..(m + 1) : ~(hits[j] < t - Window)
    BY <1>1, <2>1 DEF Stale
  <2>3. j = m + 1
    BY <1>3, <1>7, <2>2
  <2>4. hits[m + 1] \in 0..now
    BY <1>1, <2>1, ElementOfSeq
  <2> QED
    BY <1>1, <2>2, <2>3, <2>4, LimiterAssumption
<1> QED
  BY <1>3, <1>7, <1>8

\* What is left are the times from the first that is in date.
LEMMA FreshIs ==
  ASSUME LInv, NEW t \in 0..now
  PROVE  /\ Fresh(t) \in Seq(0..now)
         /\ \E m \in 0..Len(hits) :
              /\ Len(Fresh(t)) = Len(hits) - m
              /\ \A i \in 1..Len(hits) - m : Fresh(t)[i] = hits[m + i]
              /\ \A i \in 1..m : hits[i] < t - Window
              /\ m < Len(hits) => hits[m + 1] >= t - Window
<1>1. hits \in Seq(0..now) /\ Len(hits) \in Nat
  BY DEF LInv, LimiterTypeOK
<1>2. PICK m \in 0..Len(hits) :
        /\ m = Cardinality(Stale(t))
        /\ \A i \in 1..m : hits[i] < t - Window
        /\ m < Len(hits) => hits[m + 1] >= t - Window
  BY StaleIs
<1>3. \A i \in (m + 1)..Len(hits) : hits[i] \in 0..now
  <2> SUFFICES ASSUME NEW i \in (m + 1)..Len(hits) PROVE hits[i] \in 0..now
    OBVIOUS
  <2>1. i \in 1..Len(hits)
    BY <1>1
  <2> QED
    BY <1>1, <2>1, ElementOfSeq
<1>4. m + 1 \in Int /\ Len(hits) \in Int
  BY <1>1
<1>5. /\ SubSeq(hits, m + 1, Len(hits)) \in Seq(0..now)
      /\ Len(SubSeq(hits, m + 1, Len(hits))) = IF m + 1 <= Len(hits) THEN Len(hits) - (m + 1) + 1 ELSE 0
      /\ \A i \in 1..(Len(hits) - (m + 1) + 1) : SubSeq(hits, m + 1, Len(hits))[i] = hits[(m + 1) + i - 1]
  BY <1>3, <1>4, SubSeqProperties
<1>6. Fresh(t) = SubSeq(hits, m + 1, Len(hits))
  <2>1. m = Cardinality(Stale(t))
    BY <1>2
  <2> QED
    BY <2>1 DEF Fresh
<1>7. Fresh(t) \in Seq(0..now) /\ Len(Fresh(t)) = Len(hits) - m
  BY <1>1, <1>5, <1>6
<1>8. ASSUME NEW i \in 1..Len(hits) - m PROVE Fresh(t)[i] = hits[m + i]
  <2>1. i \in 1..(Len(hits) - (m + 1) + 1) /\ (m + 1) + i - 1 = m + i
    BY <1>1
  <2> QED
    BY <1>5, <1>6, <2>1
<1>9. /\ Len(Fresh(t)) = Len(hits) - m
      /\ \A i \in 1..Len(hits) - m : Fresh(t)[i] = hits[m + i]
      /\ \A i \in 1..m : hits[i] < t - Window
      /\ m < Len(hits) => hits[m + 1] >= t - Window
  BY <1>2, <1>7, <1>8
<1> QED
  BY <1>7, <1>9

LEMMA FreshType ==
  ASSUME LInv, NEW t \in 0..now
  PROVE  Fresh(t) \in Seq(0..now) /\ Len(Fresh(t)) <= Len(hits)
<1>1. Len(hits) \in Nat
  BY DEF LInv, LimiterTypeOK
<1> QED
  BY <1>1, FreshIs

LEMMA LimiterStep ==
  ASSUME LInv, \/ \E c \in Callers : Arrive(c) \/ Hit(c) \/ Exceeded(c)
               \/ Tick
               \/ UNCHANGED limiter
  PROVE  LInv'
<1> USE LimiterAssumption DEF LInv, LimiterTypeOK, Arrived
<1>1. ASSUME NEW c \in Callers, Arrive(c) PROVE LInv'
  BY <1>1 DEF Arrive
<1>2. ASSUME NEW c \in Callers, Hit(c) PROVE LInv'
  <2> DEFINE t == arrived[c]
  <2>1. t \in 0..now
    BY <1>2 DEF Hit
  <2>2. Fresh(t) \in Seq(0..now) /\ Len(Fresh(t)) < Limit
    BY <1>2, <2>1, FreshType DEF Hit, Free
  <2>3. hits' \in Seq(0..now) /\ Len(hits') = Len(Fresh(t)) + 1
    BY <1>2, <2>1, <2>2, AppendProperties DEF Hit
  <2>4. Len(hits') <= Limit
    BY <2>2, <2>3
  <2>5. granted' \in Seq(0..now)
    BY <1>2, <2>1, AppendProperties DEF Hit
  <2> QED
    BY <1>2, <2>3, <2>4, <2>5 DEF Hit
<1>3. ASSUME NEW c \in Callers, Exceeded(c) PROVE LInv'
  <2> DEFINE t == arrived[c]
  <2>1. t \in 0..now
    BY <1>3 DEF Exceeded
  <2>2. Fresh(t) \in Seq(0..now) /\ Len(Fresh(t)) <= Limit
    BY <2>1, FreshType
  <2> QED
    BY <1>3, <2>2 DEF Exceeded
<1>4. CASE Tick
  <2>1. hits \in Seq(0..now') /\ granted \in Seq(0..now')
    BY <1>4, SeqMonotonic DEF Tick
  <2> QED
    BY <1>4, <2>1 DEF Tick
<1>5. CASE UNCHANGED limiter
  BY <1>5 DEF limiter
<1> QED
  BY <1>1, <1>2, <1>3, <1>4, <1>5

-----------------------------------------------------------------------------
(* What the limiter lets through.                                          *)

\* The bucket holds the last times that were let through; the others are out
\* of date for every caller to come.
Kept ==
    /\ Len(hits) <= Len(granted)
    /\ \A i \in 1..Len(hits) : hits[i] = granted[Len(granted) - Len(hits) + i]
    /\ \A i \in 1..Len(granted) - Len(hits) : granted[i] < now - Window

\* Callers wait for the lock for MaxWait at most: no time is that much before
\* one that had the lock earlier.
InTurn ==
    /\ \A c \in Callers : arrived[c] # None => now - arrived[c] <= MaxWait
    /\ \A i, j \in 1..Len(granted) : i < j => granted[i] - MaxWait <= granted[j]

Few == \A from \in 0..MaxTime : Let(from, from + Window - MaxWait) <= Limit

Limited == Kept /\ InTurn /\ Few

\* What is left in the bucket are still the last times let through.
LEMMA FreshKept ==
  ASSUME LInv, Kept, NEW t \in 0..now
  PROVE  /\ Len(Fresh(t)) <= Len(granted)
         /\ \A i \in 1..Len(Fresh(t)) : Fresh(t)[i] = granted[Len(granted) - Len(Fresh(t)) + i]
         /\ \A i \in 1..Len(granted) - Len(Fresh(t)) : granted[i] < now - Window
         /\ Len(Fresh(t)) # 0 => granted[Len(granted) - Len(Fresh(t)) + 1] >= t - Window
<1> DEFINE n == Len(granted)
           k == Len(hits)
<1>1. n \in Nat /\ k \in Nat /\ now \in Nat /\ Window \in Nat /\ granted \in Seq(0..now)
  BY LimiterAssumption DEF LInv, LimiterTypeOK
<1>2. PICK m \in 0..k :
        /\ Len(Fresh(t)) = k - m
        /\ \A i \in 1..k - m : Fresh(t)[i] = hits[m + i]
        /\ \A i \in 1..m : hits[i] < t - Window
        /\ m < k => hits[m + 1] >= t - Window
  BY FreshIs
<1>3. k <= n /\ (\A i \in 1..k : hits[i] = granted[n - k + i])
        /\ \A i \in 1..n - k : granted[i] < now - Window
  BY DEF Kept
<1>4. ASSUME NEW i \in 1..k - m PROVE Fresh(t)[i] = granted[n - (k - m) + i]
  <2>1. m + i \in 1..k /\ n - k + (m + i) = n - (k - m) + i
    BY <1>1
  <2>2. hits[m + i] = granted[n - k + (m + i)]
    BY <1>3, <2>1
  <2> QED
    BY <1>2, <2>1, <2>2
<1>5. ASSUME NEW i \in 1..n - (k - m) PROVE granted[i] < now - Window
  <2>1. CASE i <= n - k
    BY <1>1, <1>3, <2>1
  <2>2. CASE i > n - k
    <3>1. i - (n - k) \in 1..m /\ i - (n - k) \in 1..k /\ n - k + (i - (n - k)) = i
      BY <1>1, <1>3, <2>2
    <3>2. granted[i] = hits[i - (n - k)]
      BY <1>3, <3>1
    <3>3. granted[i] < t - Window
      BY <1>2, <3>1, <3>2
    <3>4. granted[i] \in 0..now
      <4>1. i \in 1..Len(granted)
        BY <1>1, <1>3
      <4> QED
        BY <1>1, <4>1, ElementOfSeq
    <3> QED
      BY <1>1, <3>3, <3>4
  <2> QED
    BY <1>1, <2>1, <2>2
<1>6. ASSUME k - m # 0 PROVE granted[n - (k - m) + 1] >= t - Window
  <2>1. m + 1 \in 1..k /\ n - k + (m + 1) = n - (k - m) + 1 /\ m < k
    BY <1>1, <1>6
  <2>2. hits[m + 1] = granted[n - k + (m + 1)]
    BY <1>3, <2>1
  <2> QED
    BY <1>2, <2>1, <2>2
<1>7. k - m <= n
  BY <1>1, <1>3
<1> QED
  BY <1>2, <1>4, <1>5, <1>6, <1>7

LEMMA LimitedInit == LimiterInit => Limited
<1> SUFFICES ASSUME LimiterInit PROVE Limited
  OBVIOUS
<1>1. Len(granted) = 0 /\ Len(hits) = 0 /\ DOMAIN granted = {}
  BY EmptySeq DEF LimiterInit
<1>2. Kept /\ InTurn
  BY <1>1 DEF Kept, InTurn, LimiterInit
<1>3. \A from, to : Let(from, to) = 0
  BY <1>1, FS_EmptySet DEF Let
<1> QED
  BY <1>2, <1>3, LimiterAssumption DEF Few, Limited

\* A request is let through on top of fewer than Limit in the bucket, and no
\* other is within a window of it less the wait.
LEMMA HitLimited ==
  ASSUME LInv, Limited, NEW c \in Callers, Hit(c)
  PROVE  Limited'
<1>0. PICK t \in 0..now : t = arrived[c]
  BY DEF Hit, LInv, Arrived
<1> DEFINE n == Len(granted)
           f == Len(Fresh(t))
<1>1. n \in Nat /\ now \in Nat /\ Window \in Nat /\ MaxWait \in 0..Window /\ Limit \in Nat
        /\ granted \in Seq(0..now) /\ MaxTime \in Nat
  BY LimiterAssumption DEF LInv, LimiterTypeOK
<1>2. Fresh(t) \in Seq(0..now) /\ f \in Nat /\ f < Limit
  <2>1. Fresh(t) \in Seq(0..now)
    BY FreshType
  <2> QED
    BY <1>0, <2>1 DEF Hit, Free
<1>3. /\ f <= n /\ \A i \in 1..f : Fresh(t)[i] = granted[n - f + i]
      /\ \A i \in 1..n - f : granted[i] < now - Window
  BY FreshKept DEF Limited
<1>4. /\ hits' \in Seq(0..now) /\ Len(hits') = f + 1 /\ hits'[f + 1] = t
      /\ \A i \in 1..f : hits'[i] = Fresh(t)[i]
  BY <1>0, <1>2, AppendProperties DEF Hit
<1>5. /\ granted' \in Seq(0..now) /\ Len(granted') = n + 1 /\ granted'[n + 1] = t
      /\ \A i \in 1..n : granted'[i] = granted[i]
  BY <1>0, <1>1, AppendProperties DEF Hit
<1>6. now' = now /\ arrived' = [arrived EXCEPT ![c] = None]
  BY DEF Hit
<1>7. \A i \in 1..n : granted[i] \in 0..now
  BY <1>1, ElementOfSeq
<1>8. now - t <= MaxWait
  BY <1>0 DEF Hit, Limited, InTurn
<1>9. Kept'
  <2>1. ASSUME NEW i \in 1..(f + 1) PROVE hits'[i] = granted'[(n + 1) - (f + 1) + i]
    <3>1. CASE i = f + 1
      BY <1>1, <1>2, <1>4, <1>5, <3>1
    <3>2. CASE i \in 1..f
      <4>1. (n + 1) - (f + 1) + i = n - f + i /\ n - f + i \in 1..n
        BY <1>1, <1>2, <1>3, <3>2
      <4> QED
        BY <1>3, <1>4, <1>5, <3>2, <4>1
    <3> QED
      BY <1>2, <3>1, <3>2
  <2>2. ASSUME NEW i \in 1..(n + 1) - (f + 1) PROVE granted'[i] < now - Window
    <3>1. i \in 1..n - f /\ i \in 1..n
      BY <1>1, <1>2
    <3> QED
      BY <1>3, <1>5, <3>1
  <2> QED
    BY <1>1, <1>2, <1>3, <1>4, <1>5, <1>6, <2>1, <2>2 DEF Kept
<1>10. InTurn'
  <2>1. \A d \in Callers : arrived'[d] # None => now' - arrived'[d] <= MaxWait
    BY <1>6 DEF Limited, InTurn, LInv, LimiterTypeOK
  <2>2. ASSUME NEW i \in 1..(n + 1), NEW j \in 1..(n + 1), i < j
        PROVE  granted'[i] - MaxWait <= granted'[j]
    <3>1. i \in 1..n /\ granted'[i] = granted[i] /\ granted[i] \in 0..now
      BY <1>1, <1>5, <1>7, <2>2
    <3>2. CASE j = n + 1
      BY <1>1, <1>5, <1>8, <3>1, <3>2
    <3>3. CASE j \in 1..n
      BY <1>5, <2>2, <3>1, <3>3 DEF Limited, InTurn
    <3> QED
      BY <1>1, <3>2, <3>3
  <2> QED
    BY <1>5, <2>1, <2>2 DEF InTurn
<1>11. ASSUME NEW from \in 0..MaxTime PROVE Let(from, from + Window - MaxWait)' <= Limit
  <2> DEFINE to == from + Window - MaxWait
             S  == {i \in DOMAIN granted : granted[i] \in from..to}
             T  == {i \in DOMAIN granted' : granted'[i] \in from..to}
  <2>1. DOMAIN granted = 1..n /\ DOMAIN granted' = 1..(n + 1)
    BY <1>1, <1>5
  <2>2. Let(from, to)' = Cardinality(T)
    BY DEF Let
  <2>3. CASE t \notin from..to
    <3>1. T = S
      BY <1>1, <1>5, <2>1, <2>3
    <3> QED
      BY <2>2, <3>1 DEF Let, Limited, Few
  <2>4. CASE t \in from..to
    <3>1. T \in SUBSET ((n - f + 1)..(n + 1))
      <4> SUFFICES ASSUME NEW i \in T PROVE i \in (n - f + 1)..(n + 1)
        OBVIOUS
      <4>1. i \in 1..(n + 1) /\ granted'[i] \in from..to
        BY <2>1
      <4>2. ~(i \in 1..n - f)
        <5> SUFFICES ASSUME i \in 1..n - f PROVE FALSE
          OBVIOUS
        <5>0. i \in 1..n
          BY <1>1, <1>2
        <5>1. granted[i] < now - Window
          BY <1>3
        <5>2. granted'[i] = granted[i] /\ granted[i] \in 0..now
          BY <1>5, <1>7, <5>0
        <5> QED
          BY <1>1, <1>8, <2>4, <4>1, <5>1, <5>2
      <4> QED
        BY <1>1, <1>2, <1>3, <4>1, <4>2
    <3>2. IsFiniteSet((n - f + 1)..(n + 1)) /\ Cardinality((n - f + 1)..(n + 1)) = f + 1
      <4>1. n - f + 1 \in Int /\ n + 1 \in Int /\ ~(n - f + 1 > n + 1) /\ (n + 1) - (n - f + 1) + 1 = f + 1
        BY <1>1, <1>2
      <4> QED
        BY <4>1, FS_Interval
    <3>3. IsFiniteSet(T) /\ Cardinality(T) <= f + 1
      BY <3>1, <3>2, FS_Subset
    <3>4. Cardinality(T) \in Nat
      BY <3>3, FS_CardinalityType
    <3> QED
      BY <1>1, <1>2, <2>2, <3>3, <3>4
  <2> QED
    BY <2>3, <2>4
<1> QED
  BY <1>9, <1>10, <1>11 DEF Few, Limited

LEMMA LimitedStep ==
  ASSUME LInv, Limited, \/ \E c \in Callers : Arrive(c) \/ Hit(c) \/ Exceeded(c)
                        \/ Tick
                        \/ UNCHANGED limiter
  PROVE  Limited'
<1>t. /\ now \in Nat /\ arrived \in [Callers -> 0..MaxTime \cup {None}] /\ Window \in Nat /\ MaxWait \in Nat
      /\ granted \in Seq(0..now) /\ Len(granted) \in Nat /\ hits \in Seq(0..now) /\ Len(hits) \in Nat
      /\ \A c \in Callers : arrived[c] # None => arrived[c] \in 0..now
  BY LimiterAssumption DEF LInv, LimiterTypeOK, Arrived
<1>same. granted' = granted => (Few' <=> Few)
  BY DEF Few, Let
<1>1. ASSUME NEW c \in Callers, Arrive(c) PROVE Limited'
  <2>1. /\ arrived' = [arrived EXCEPT ![c] = now] /\ UNCHANGED <<now, hits, granted>>
    BY <1>1 DEF Arrive
  <2>2. \A d \in Callers : arrived'[d] # None => now' - arrived'[d] <= MaxWait
    BY <1>t, <2>1 DEF Limited, InTurn
  <2>3. Kept' /\ InTurn'
    BY <2>1, <2>2 DEF Limited, Kept, InTurn
  <2> QED
    BY <1>same, <2>1, <2>3 DEF Limited
<1>2. ASSUME NEW c \in Callers, Hit(c) PROVE Limited'
  BY <1>2, HitLimited
<1>3. ASSUME NEW c \in Callers, Exceeded(c) PROVE Limited'
  <2>0. PICK t \in 0..now : t = arrived[c]
    BY <1>3, <1>t DEF Exceeded
  <2>1. hits' = Fresh(t) /\ arrived' = [arrived EXCEPT ![c] = None] /\ UNCHANGED <<now, granted>>
    BY <1>3, <2>0 DEF Exceeded
  <2>2. Kept'
    BY <2>1, FreshKept DEF Limited, Kept
  <2>3. \A d \in Callers : arrived'[d] # None => now' - arrived'[d] <= MaxWait
    BY <1>t, <2>1 DEF Limited, InTurn
  <2>4. InTurn'
    BY <2>1, <2>3 DEF Limited, InTurn
  <2> QED
    BY <1>same, <2>1, <2>2, <2>4 DEF Limited
<1>4. CASE Tick
  <2>1. /\ now' = now + 1 /\ UNCHANGED <<arrived, hits, granted>>
        /\ \A c \in Callers : arrived[c] # None => now - arrived[c] < MaxWait
    BY <1>4 DEF Tick
  <2>2. \A i \in 1..Len(granted) : granted[i] \in 0..now
    BY <1>t, ElementOfSeq
  <2>3. ASSUME NEW i \in 1..Len(granted) - Len(hits) PROVE granted[i] < now' - Window
    <3>1. granted[i] < now - Window
      BY DEF Limited, Kept
    <3>2. granted[i] \in 0..now
      BY <1>t, <2>2 DEF Limited, Kept
    <3> QED
      BY <1>t, <2>1, <3>1, <3>2
  <2>4. Kept'
    BY <2>1, <2>3 DEF Limited, Kept
  <2>5. \A c \in Callers : arrived'[c] # None => now' - arrived'[c] <= MaxWait
    BY <1>t, <2>1
  <2>6. InTurn'
    BY <2>1, <2>5 DEF Limited, InTurn
  <2> QED
    BY <1>same, <2>1, <2>4, <2>6 DEF Limited
<1>5. CASE UNCHANGED limiter
  BY <1>same, <1>5 DEF limiter, Limited, Kept, InTurn
<1> QED
  BY <1>1, <1>2, <1>3, <1>4, <1>5

\* Who is refused finds Limit times in date, and the later ones are no more
\* than the wait before the first of them.
LEMMA RefusedAtLimit ==
  ASSUME LInv, Limited, NEW t \in 0..now, ~Free(t)
  PROVE  Let(t - Window - MaxWait, now) >= Limit
<1> DEFINE n == Len(granted)
           f == Len(Fresh(t))
           I == (n - f + 1)..n
           S == {i \in DOMAIN granted : granted[i] \in t - Window - MaxWait..now}
<1>1. /\ n \in Nat /\ now \in Nat /\ Window \in Nat /\ MaxWait \in Nat /\ Limit \in Nat /\ Limit > 0
      /\ granted \in Seq(0..now) /\ DOMAIN granted = 1..n
  BY LimiterAssumption DEF LInv, LimiterTypeOK
<1>2. f \in Nat /\ f >= Limit
  <2>1. Fresh(t) \in Seq(0..now)
    BY FreshType
  <2> QED
    BY <1>1, <2>1 DEF Free
<1>3. f <= n /\ granted[n - f + 1] >= t - Window
  BY <1>1, <1>2, FreshKept DEF Limited
<1>4. I \in SUBSET S
  <2> SUFFICES ASSUME NEW i \in I PROVE i \in S
    OBVIOUS
  <2>1. i \in 1..n /\ n - f + 1 \in 1..n
    BY <1>1, <1>2, <1>3
  <2>2. granted[i] \in 0..now /\ granted[n - f + 1] \in 0..now
    BY <1>1, <2>1, ElementOfSeq
  <2>3. CASE i = n - f + 1
    BY <1>1, <1>3, <2>1, <2>2, <2>3
  <2>4. CASE n - f + 1 < i
    <3>1. granted[n - f + 1] - MaxWait <= granted[i]
      BY <2>1, <2>4 DEF Limited, InTurn
    <3> QED
      BY <1>1, <1>3, <2>1, <2>2, <3>1
  <2> QED
    BY <1>1, <1>2, <2>3, <2>4
<1>5. IsFiniteSet(S) /\ Cardinality(S) \in Nat
  <2>1. IsFiniteSet(1..n)
    BY <1>1, FS_Interval
  <2>2. S \in SUBSET (1..n)
    BY <1>1
  <2>3. IsFiniteSet(S)
    BY <2>1, <2>2, FS_Subset
  <2> QED
    BY <2>3, FS_CardinalityType
<1>6. Cardinality(I) = f
  <2>1. n - f + 1 \in Int /\ n \in Int /\ ~(n - f + 1 > n) /\ n - (n - f + 1) + 1 = f
    BY <1>1, <1>2
  <2> QED
    BY <2>1, FS_Interval
<1>7. Cardinality(I) <= Cardinality(S)
  BY <1>4, <1>5, FS_Subset
<1> QED
  BY <1>1, <1>2, <1>5, <1>6, <1>7 DEF Let

-----------------------------------------------------------------------------
(* Types, and where the pollers are.                                       *)

ClientType ==
    /\ row \in [Jobs -> {"none", "queued", "running", "ended"}]
    /\ page \in 0..MaxPages /\ mounted \in BOOLEAN
    /\ call \in [Callers -> [from : Pages \cup {None}, job : Jobs \cup {None}]]
    /\ timers \subseteq Pages \X Jobs /\ late \subseteq Pages \X Jobs
    /\ asking \in [Pages \X Jobs -> {"active", "ended", None}]
    /\ list \in {"none", "due", "read"} /\ listed \subseteq Jobs
    /\ fails \in 0..MaxFails /\ missed \subseteq Jobs

\* Nothing is ahead of the last page; what it shows it is asking about; an
\* answer that a job has ended is true.
Behind ==
    /\ mounted => page \in Pages
    /\ \A t \in timers : t[1] <= page
    /\ \A c \in Callers : call[c].job # None => call[c].from \in Pages /\ call[c].from <= page
    /\ \A c \in Callers : call[c].from # None => call[c].from <= page
    /\ \A c \in Callers : arrived[c] # None => call[c].from \in Pages /\ call[c].job = None
    /\ \A p \in Pages \X Jobs : asking[p] # None =>
         /\ p[1] <= page
         /\ Shown(p[1]) => p \in timers
         /\ asking[p] = "ended" => row[p[2]] = "ended"
    /\ list # "read" => listed = {}
    /\ ~mounted => list = "none" /\ count = 0

CInv == ClientType /\ Behind

LEMMA CInvInit == Init => CInv
<1> SUFFICES ASSUME Init PROVE CInv
  OBVIOUS
<1> USE PagesAre, PollerAssumption DEF Init, NoCall
<1>1. ClientType
  <2>1. call \in [Callers -> [from : Pages \cup {None}, job : Jobs \cup {None}]]
    OBVIOUS
  <2>2. asking \in [Pages \X Jobs -> {"active", "ended", None}]
    OBVIOUS
  <2>3. page \in 0..MaxPages /\ fails \in 0..MaxFails
    OBVIOUS
  <2>4. row \in [Jobs -> {"none", "queued", "running", "ended"}]
    OBVIOUS
  <2>5. mounted \in BOOLEAN /\ timers \subseteq Pages \X Jobs /\ late \subseteq Pages \X Jobs
    OBVIOUS
  <2> QED
    BY <2>1, <2>2, <2>3, <2>4, <2>5 DEF ClientType
<1>2. Behind
  BY DEF Behind, LimiterInit
<1> QED
  BY <1>1, <1>2 DEF CInv

LEMMA StartType ==
  ASSUME CInv, NEW i \in Pages, NEW js \in SUBSET Jobs, Start(i, js)
  PROVE  timers' \subseteq Pages \X Jobs /\ late' \subseteq Pages \X Jobs
  BY DEF Start, CInv, ClientType

LEMMA CInvStep ==
  ASSUME LInv, CInv, [Next]_vars
  PROVE  CInv'
<1> USE PagesAre, PollerAssumption DEF LInv, LimiterTypeOK, CInv, ClientType, Behind, NoCall, Shown
<1>1. CASE Mount
  BY <1>1 DEF Mount, limiter
<1>2. CASE Leave
  BY <1>2 DEF Leave, limiter
<1>3. ASSUME NEW c \in Callers, Generate(c) PROVE CInv'
  BY <1>3 DEF Generate, Arrive
<1>4. ASSUME NEW c \in Callers, Accept(c) PROVE CInv'
  <2>1. PICK j \in Jobs :
          /\ row[j] = "none" /\ row' = [row EXCEPT ![j] = "queued"]
          /\ call' = [call EXCEPT ![c].job = j]
          /\ missed' \in {missed, missed \cup {j}}
    BY <1>4 DEF Accept
  <2>2. /\ UNCHANGED <<page, mounted, timers, asking, fails, list, listed, count, late>>
        /\ arrived[c] # None /\ arrived' = [arrived EXCEPT ![c] = None]
    BY <1>4 DEF Accept, Hit
  <2>3. ClientType'
    BY <2>1, <2>2
  <2>4. Behind'
    BY <2>1, <2>2
  <2> QED
    BY <2>3, <2>4
<1>5. ASSUME NEW c \in Callers, AcceptFails(c) \/ Refuse(c) PROVE CInv'
  <2>1. /\ arrived[c] # None /\ arrived' = [arrived EXCEPT ![c] = None]
        /\ call' = [call EXCEPT ![c] = NoCall]
        /\ UNCHANGED <<row, page, mounted, timers, asking, fails, list, listed, count, missed, late>>
    BY <1>5 DEF AcceptFails, Refuse, Hit, Exceeded
  <2> QED
    BY <2>1
<1>6. ASSUME NEW c \in Callers, Started(c) PROVE CInv'
  BY <1>6, StartType DEF Started, Start, limiter
<1>7. ASSUME NEW c \in Callers, StartLost(c) PROVE CInv'
  BY <1>7 DEF StartLost, limiter
<1>8. CASE ServeList
  BY <1>8 DEF ServeList, Listed, Active, limiter
<1>9. CASE Rehydrate
  BY <1>9, StartType DEF Rehydrate, Start, limiter
<1>10. CASE ListFails
  BY <1>10 DEF ListFails, Active, limiter
<1>11. ASSUME NEW p \in Pages \X Jobs, Ask(p) PROVE CInv'
  BY <1>11 DEF Ask, limiter
<1>12. ASSUME NEW p \in Pages \X Jobs, Update(p) PROVE CInv'
  BY <1>12 DEF Update, limiter
<1>13. ASSUME NEW p \in Pages \X Jobs, Settle(p) PROVE CInv'
  BY <1>13 DEF Settle, limiter
<1>14. ASSUME NEW p \in Pages \X Jobs, PollFails(p) PROVE CInv'
  BY <1>14 DEF PollFails, limiter
<1>15. ASSUME NEW j \in Jobs, Work(j) PROVE CInv'
  BY <1>15 DEF Work, Active, limiter
<1>16. CASE UNCHANGED client /\ (Tick \/ UNCHANGED limiter)
  BY <1>16 DEF client, limiter, Tick
<1> QED
  BY <1>1, <1>2, <1>3, <1>4, <1>5, <1>6, <1>7, <1>8, <1>9, <1>10, <1>11, <1>12, <1>13, <1>14,
     <1>15, <1>16 DEF Next, vars

LEMMA InvInit == Init => LInv /\ CInv
  BY LimiterInitInv, CInvInit DEF Init

\* What the pages do with the limiter.
LEMMA LimiterMoves ==
  [Next]_vars => \/ \E c \in Callers : Arrive(c) \/ Hit(c) \/ Exceeded(c)
                 \/ Tick
                 \/ UNCHANGED limiter
  BY DEF Next, vars, Mount, Leave, Generate, Accept, AcceptFails, Refuse, Started, StartLost, ServeList,
         Rehydrate, ListFails, Ask, Update, Settle, PollFails, Work

LEMMA InvStep == LInv /\ CInv /\ [Next]_vars => LInv' /\ CInv'
<1>1. LInv /\ [Next]_vars => LInv'
  BY LimiterMoves, LimiterStep
<1> QED
  BY <1>1, CInvStep

\* No more than Limit requests are let through in any stretch of time shorter
\* than the window by what callers wait for the lock, and none is refused unless
\* as many were let through within the window and that wait
\* (rate_limiter.py:22-36).
THEOREM LimitIsKept == Spec => []AtTheLimit
<1>1. LInv /\ Limited /\ [Next]_vars => Limited'
  BY LimiterMoves, LimitedStep
<1>2. LInv /\ Limited => AtTheLimit
  <2> SUFFICES ASSUME LInv, Limited, NEW c \in Callers, arrived[c] # None, ~Free(arrived[c])
               PROVE  Let(arrived[c] - Window - MaxWait, now) >= Limit
    BY DEF AtTheLimit, Limited, Few
  <2>1. arrived[c] \in 0..now
    BY DEF LInv, Arrived
  <2> QED
    BY <2>1, RefusedAtLimit
<1>3. Init => Limited
  BY LimitedInit DEF Init
<1> QED
  BY <1>1, <1>2, <1>3, InvInit, InvStep, PTL DEF Spec

-----------------------------------------------------------------------------
(* Pollers of pages that were left.                                        *)

LEMMA LateStep == CInv /\ OnlyLateOutlive /\ [Next]_vars => OnlyLateOutlive'
<1> SUFFICES ASSUME CInv, OnlyLateOutlive, [Next]_vars PROVE OnlyLateOutlive'
  OBVIOUS
<1> USE DEF OnlyLateOutlive, Shown
<1>1. CASE Mount
  BY <1>1 DEF Mount
<1>2. CASE Leave
  BY <1>2 DEF Leave
<1>3. ASSUME NEW i \in Pages, NEW js \in SUBSET Jobs, Start(i, js), UNCHANGED <<page, mounted>>
      PROVE  OnlyLateOutlive'
  BY <1>3 DEF Start
<1>4. ASSUME NEW c \in Callers, Started(c) PROVE OnlyLateOutlive'
  BY <1>3, <1>4 DEF Started, CInv, ClientType, Behind
<1>5. CASE Rehydrate
  <2>1. mounted /\ page \in Pages /\ listed \in SUBSET Jobs
    BY <1>5 DEF Rehydrate, CInv, ClientType, Behind
  <2> QED
    BY <1>3, <1>5, <2>1 DEF Rehydrate
<1>6. ASSUME timers' \subseteq timers, UNCHANGED <<page, mounted, late>> PROVE OnlyLateOutlive'
  BY <1>6
<1> QED
  BY <1>1, <1>2, <1>4, <1>5, <1>6
  DEF Next, vars, client, Generate, Accept, AcceptFails, Refuse, StartLost, ServeList, ListFails, Ask, Update,
      Settle, PollFails, Work

\* No interval outlives the page that made it, but one that the answer to a call
\* begins after the page was left (job-poller.ts:121-123).
THEOREM NoneOutlives == Spec => []OnlyLateOutlive
<1>1. Init => OnlyLateOutlive
  BY DEF Init, OnlyLateOutlive
<1> QED
  BY <1>1, InvInit, InvStep, LateStep, PTL DEF Spec

-----------------------------------------------------------------------------
(* The count of the page.                                                  *)

LEMMA PolledFinite == CInv => IsFiniteSet(Polled) /\ Cardinality(Polled) \in Nat
<1> SUFFICES ASSUME CInv PROVE IsFiniteSet(Polled) /\ Cardinality(Polled) \in Nat
  OBVIOUS
<1>1. IsFiniteSet(Polled)
  BY FS_Subset, PollerAssumption DEF Polled
<1> QED
  BY <1>1, FS_CardinalityType

LEMMA StartCounts ==
  ASSUME CInv, CountIsPollers, NEW i \in Pages, NEW js \in SUBSET Jobs, Start(i, js),
         UNCHANGED <<page, mounted>>
  PROVE  CountIsPollers'
<1> SUFFICES ASSUME mounted PROVE count' = Cardinality(Polled')
  BY DEF CountIsPollers, Polled
<1> DEFINE new == {j \in js : <<i, j>> \notin timers}
<1>1. CASE i = page
  <2>1. new = js \ Polled /\ Polled' = Polled \cup new
    BY <1>1 DEF Start, Polled
  <2>2. IsFiniteSet(Polled) /\ IsFiniteSet(new) /\ Cardinality(Polled) \in Nat
    BY PolledFinite, FS_Subset, PollerAssumption
  <2>3. Cardinality(new) \in Nat
    BY <2>2, FS_CardinalityType
  <2>4. Polled \cap new = {}
    BY <2>1
  <2>5. Cardinality(Polled \cup new) = Cardinality(Polled) + Cardinality(new) - Cardinality(Polled \cap new)
    BY <2>2, FS_Union
  <2>6. Cardinality(Polled \cap new) = 0
    BY <2>4, FS_EmptySet
  <2>7. count' = Cardinality(Polled) + Cardinality(new)
    BY <1>1 DEF Start, Shown, CountIsPollers
  <2> QED
    BY <2>1, <2>2, <2>3, <2>5, <2>6, <2>7
<1>2. CASE i # page
  <2>1. Polled' = Polled
    BY <1>2 DEF Start, Polled
  <2> QED
    BY <1>2, <2>1 DEF Start, Shown, CountIsPollers
<1> QED
  BY <1>1, <1>2

LEMMA CountStep == CInv /\ CountIsPollers /\ [Next]_vars => CountIsPollers'
<1> SUFFICES ASSUME CInv, CountIsPollers, [Next]_vars PROVE CountIsPollers'
  OBVIOUS
<1>1. CASE Mount
  <2>1. Polled' = {}
    BY <1>1 DEF Mount, Polled, CInv, ClientType, Behind
  <2>2. count' = 0
    BY <1>1 DEF Mount, CInv, Behind
  <2> QED
    BY <2>1, <2>2, FS_EmptySet DEF CountIsPollers
<1>2. CASE Leave
  BY <1>2 DEF Leave, CountIsPollers
<1>3. ASSUME NEW c \in Callers, Started(c) PROVE CountIsPollers'
  BY <1>3, StartCounts DEF Started, CInv, ClientType, Behind
<1>4. CASE Rehydrate
  <2>1. mounted /\ page \in Pages /\ listed \in SUBSET Jobs
    BY <1>4 DEF Rehydrate, CInv, ClientType, Behind
  <2> QED
    BY <1>4, <2>1, StartCounts DEF Rehydrate
<1>5. ASSUME NEW p \in Pages \X Jobs, Settle(p) PROVE CountIsPollers'
  <2> SUFFICES ASSUME mounted PROVE count' = Cardinality(Polled')
    BY <1>5 DEF Settle, CountIsPollers
  <2>1. CASE p[1] = page
    <3>1. p \in timers
      BY <1>5, <2>1, PollerAssumption DEF Settle, Shown, CInv, Behind
    <3>2. p[2] \in Polled /\ Polled' = Polled \ {p[2]}
      BY <1>5, <2>1, <3>1 DEF Settle, Polled
    <3>3. Cardinality(Polled') = Cardinality(Polled) - 1
      BY <3>2, PolledFinite, FS_RemoveElement
    <3>4. Cardinality(Polled) # 0
      BY <3>2, PolledFinite, FS_EmptySet
    <3>5. count = Cardinality(Polled)
      BY DEF CountIsPollers
    <3> QED
      BY <1>5, <2>1, <3>3, <3>4, <3>5, PolledFinite DEF Settle, Shown
  <2>2. CASE p[1] # page
    <3>1. Polled' = Polled
      BY <1>5, <2>2 DEF Settle, Polled
    <3> QED
      BY <1>5, <2>2, <3>1 DEF Settle, Shown, CountIsPollers
  <2> QED
    BY <2>1, <2>2
<1>6. ASSUME UNCHANGED <<page, mounted, timers, count>> PROVE CountIsPollers'
  BY <1>6 DEF CountIsPollers, Polled
<1> QED
  BY <1>1, <1>2, <1>3, <1>4, <1>5, <1>6
  DEF Next, vars, client, Generate, Accept, AcceptFails, Refuse, StartLost, ServeList, ListFails, Ask, Update,
      PollFails, Work

\* The rows a page shows are the jobs it polls, whichever of a call, the list or
\* a settled job comes first (briefing-jobs-context.tsx:40-107).
THEOREM CountsPollers == Spec => []CountIsPollers
<1>1. Init => CountIsPollers
  BY DEF Init, CountIsPollers
<1> QED
  BY <1>1, InvInit, InvStep, CountStep, PTL DEF Spec

-----------------------------------------------------------------------------
(* Jobs a page knows.                                                      *)

\* The list has been asked for: a job under way is polled, was missed, is in the
\* list that was read, or in a call of this page.
Known == mounted /\ list # "due" =>
    \A j \in Active : \/ j \in Polled \cup missed \cup listed
                      \/ \E c \in Callers : call[c].job = j /\ call[c].from = page

LEMMA KnownStep == CInv /\ Known /\ [Next]_vars => Known'
<1> SUFFICES ASSUME CInv, Known, [Next]_vars PROVE Known'
  OBVIOUS
<1> USE PollerAssumption DEF CInv, ClientType, Behind, Known, Active, Polled, NoCall
<1>1. CASE Mount
  BY <1>1 DEF Mount
<1>2. CASE Leave
  BY <1>2 DEF Leave
<1>3. ASSUME NEW c \in Callers, Generate(c) PROVE Known'
  BY <1>3 DEF Generate
<1>4. ASSUME NEW c \in Callers, Accept(c) PROVE Known'
  <2>1. PICK j \in Jobs :
          /\ row[j] = "none" /\ row' = [row EXCEPT ![j] = "queued"]
          /\ call' = [call EXCEPT ![c].job = j]
          /\ missed' = IF mounted /\ call[c].from # page /\ list # "due" THEN missed \cup {j} ELSE missed
    BY <1>4 DEF Accept
  <2>2. arrived[c] # None /\ UNCHANGED <<page, mounted, timers, list, listed>>
    BY <1>4 DEF Accept, Hit
  <2>3. call[c].job = None /\ call'[c].job = j /\ call'[c].from = call[c].from
    BY <2>1, <2>2
  <2>4. \A d \in Callers \ {c} : call'[d] = call[d]
    BY <2>1
  <2> SUFFICES ASSUME mounted, list # "due", NEW k \in Jobs, row'[k] \in {"queued", "running"}
               PROVE  \/ k \in (Polled \cup missed \cup listed)'
                      \/ \E d \in Callers : call'[d].job = k /\ call'[d].from = page
    BY <2>2
  <2>5. CASE k = j
    BY <2>1, <2>3, <2>5
  <2>6. CASE k # j
    <3>1. k \in Active /\ Polled' = Polled /\ missed \subseteq missed' /\ listed' = listed
      BY <2>1, <2>2, <2>6
    <3>2. \/ k \in Polled \cup missed \cup listed
          \/ \E d \in Callers \ {c} : call[d].job = k /\ call[d].from = page
      BY <2>3, <3>1
    <3> QED
      BY <2>4, <3>1, <3>2
  <2> QED
    BY <2>5, <2>6
<1>5. ASSUME NEW c \in Callers, AcceptFails(c) \/ Refuse(c) PROVE Known'
  <2>1. /\ arrived[c] # None /\ arrived' = [arrived EXCEPT ![c] = None]
        /\ call' = [call EXCEPT ![c] = NoCall]
        /\ UNCHANGED <<row, page, mounted, timers, asking, fails, list, listed, count, missed, late>>
    BY <1>5 DEF AcceptFails, Refuse, Hit, Exceeded
  <2> QED
    BY <2>1
<1>6. ASSUME NEW c \in Callers, Started(c) PROVE Known'
  BY <1>6 DEF Started, Start
<1>7. ASSUME NEW c \in Callers, StartLost(c) PROVE Known'
  BY <1>7 DEF StartLost
<1>8. CASE ServeList
  BY <1>8 DEF ServeList, Listed
<1>9. CASE Rehydrate
  BY <1>9 DEF Rehydrate, Start
<1>10. CASE ListFails
  BY <1>10 DEF ListFails
<1>11. ASSUME NEW p \in Pages \X Jobs, Ask(p) \/ Update(p) \/ PollFails(p) PROVE Known'
  <2>1. UNCHANGED <<row, page, mounted, call, timers, list, listed, missed>>
    BY <1>11 DEF Ask, Update, PollFails
  <2> QED
    BY <2>1
<1>12. ASSUME NEW p \in Pages \X Jobs, Settle(p) PROVE Known'
  BY <1>12 DEF Settle
<1>13. ASSUME NEW j \in Jobs, Work(j) PROVE Known'
  BY <1>13 DEF Work
<1>14. CASE UNCHANGED client
  BY <1>14 DEF client
<1> QED
  BY <1>1, <1>2, <1>3, <1>4, <1>5, <1>6, <1>7, <1>8, <1>9, <1>10, <1>11, <1>12, <1>13, <1>14
  DEF Next, vars

\* A page that has its list polls every job under way, but those whose list or
\* answer was lost (briefing-jobs-context.tsx:45-69).
THEOREM NoJobForgotten == Spec => []NoneForgotten
<1>1. Init => Known
  BY DEF Init, Known
<1>2. CInv /\ Known => NoneForgotten
  BY DEF CInv, Behind, Known, NoneForgotten
<1> QED
  BY <1>1, <1>2, InvInit, InvStep, KnownStep, PTL DEF Spec

\* Types of the limiter and of the pages; the limiter keeps at most as many
\* times as its limit (rate_limiter.py:22-36).
THEOREM TypeCorrect == Spec => []TypeOK
<1>1. LInv /\ CInv /\ CountIsPollers => TypeOK
  <2> SUFFICES ASSUME LInv, CInv, CountIsPollers PROVE TypeOK
    OBVIOUS
  <2>1. Cardinality(Polled) <= Cardinality(Jobs) /\ Cardinality(Jobs) \in Nat
    BY FS_Subset, FS_CardinalityType, PollerAssumption DEF Polled
  <2>2. count \in 0..Cardinality(Jobs)
    BY <2>1, PolledFinite DEF CountIsPollers, CInv, ClientType, Behind
  <2> QED
    BY <2>2 DEF LInv, CInv, ClientType, TypeOK
<1> QED
  BY <1>1, CountsPollers, InvInit, InvStep, PTL DEF Spec

=============================================================================
