---------------------------- MODULE RateLimiter ----------------------------
(***************************************************************************)
(* The limiter in front of the calls that cost: one bucket of the memory   *)
(* of one web process. Buckets share nothing but the lock.                 *)
(***************************************************************************)
EXTENDS Integers, FiniteSets, Sequences

CONSTANTS
    Callers,     \* threads
    Limit,
    Window,
    MaxWait,     \* bound: ticks between reading the clock and the lock
    MaxTime,     \* bound on the clock
    None

ASSUME LimiterAssumption ==
    Limit \in Nat \ {0} /\ Window \in Nat \ {0} /\ MaxWait \in 0..Window /\ MaxTime \in Nat

VARIABLES
    now,         \* time.monotonic()
    arrived,     \* caller -> the time it read, until it has the lock; or None
    hits,        \* _hits of the bucket, in the order of the lock
    granted      \* bookkeeping: the times of all who were let through, in that order

limiter == <<now, arrived, hits, granted>>

LimiterInit ==
    /\ now = 0 /\ hits = <<>> /\ granted = <<>>
    /\ arrived = [c \in Callers |-> None]

LimiterTypeOK ==
    /\ now \in 0..MaxTime
    /\ arrived \in [Callers -> 0..MaxTime \cup {None}]
    /\ hits \in Seq(0..now) /\ Len(hits) <= Limit
    /\ granted \in Seq(0..now)

\* The clock is read before the lock is taken.
Arrive(c) ==
    /\ arrived[c] = None
    /\ arrived' = [arrived EXCEPT ![c] = now]
    /\ UNCHANGED <<now, hits, granted>>

\* Mutant: every time before this one is dropped.
StaleAll(t) == {i \in DOMAIN hits : \A j \in 1..i : hits[j] < t}

\* Times are popped from the front only, up to the first that is fresh.
Stale(t) == {i \in DOMAIN hits : \A j \in 1..i : hits[j] < t - Window}
Fresh(t) == SubSeq(hits, Cardinality(Stale(t)) + 1, Len(hits))

Free(t) == Len(Fresh(t)) < Limit

\* check_rate_limit, under its lock.
Hit(c) ==
    LET t == arrived[c]
    IN /\ t # None /\ Free(t)
       /\ hits' = Append(Fresh(t), t)
       /\ granted' = Append(granted, t)
       /\ arrived' = [arrived EXCEPT ![c] = None]
       /\ UNCHANGED now
Exceeded(c) ==
    LET t == arrived[c]
    IN /\ t # None /\ ~Free(t)
       /\ hits' = Fresh(t)
       /\ arrived' = [arrived EXCEPT ![c] = None]
       /\ UNCHANGED <<now, granted>>

Tick ==
    /\ now < MaxTime
    /\ \A c \in Callers : arrived[c] # None => now - arrived[c] < MaxWait
    /\ now' = now + 1
    /\ UNCHANGED <<arrived, hits, granted>>

Let(from, to) == Cardinality({i \in DOMAIN granted : granted[i] \in from..to})

\* "{limit} requests per {window_seconds}s" (rate_limiter.py:33), wherever the
\* stretch begins, and short of the window by what callers wait for the lock;
\* and a request is refused only when as many were let through within the
\* window before it, and that wait.
AtTheLimit ==
    /\ \A from \in 0..MaxTime : Let(from, from + Window - MaxWait) <= Limit
    /\ \A c \in Callers : arrived[c] # None /\ ~Free(arrived[c]) =>
           Let(arrived[c] - Window - MaxWait, now) >= Limit

=============================================================================
