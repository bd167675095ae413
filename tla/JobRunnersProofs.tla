-------------------------- MODULE JobRunnersProofs --------------------------
(***************************************************************************)
(* Theorems of JobRunners, for every number of rows, competitors, threads  *)
(* and requesters, both transports and all thresholds of the assumed order.*)
(***************************************************************************)
EXTENDS JobRunners, TLAPS

Held(r) == \E t \in Threads : job[t] = r

\* Nothing was done for the row yet, and nobody is about to.
Unstarted(r) == drafts[r] = 0 /\ status[r] \in {"queued", "deleted"} /\ ~Held(r)

\* A thread holds a row exactly while it is busy, and counts time only once
\* it works.
ThreadsHold == \A t \in Threads :
    /\ pc[t] # "idle" => job[t] \in Rows
    /\ pc[t] = "idle" => job[t] = NoRow
    /\ pc[t] \in {"idle", "read"} => ran[t] = 0

\* A row not inserted yet is known to nobody.
AbsentUnknown == \A r \in Rows : status[r] = "absent" =>
    key[r] = "none" /\ drafts[r] = 0 /\ ~Held(r) /\ age[r] = 0 /\ r \notin rec.rows

\* A row queued has no draft, and no thread past its claim.
QueuedUndone == \A r \in Rows : status[r] \in {"absent", "queued"} =>
    /\ drafts[r] = 0
    /\ \A t \in Threads : job[t] = r => pc[t] = "read"

\* A row whose request has not dispatched it yet is nobody else's.
PendingFresh == \A q \in Requesters : req[q].pc = "dispatch" =>
    /\ req[q].row \in Rows
    /\ key[req[q].row] = "none" /\ age[req[q].row] = 0
    /\ Unstarted(req[q].row) /\ req[q].row \notin rec.rows
    /\ \A p \in Requesters : p # q /\ req[p].pc = "dispatch" => req[p].row # req[q].row

\* What the reconciler has selected.
PassSound ==
    /\ rec.pc = "idle" => rec.rows = {}
    /\ rec.pc = "redeliver" => mode = "queue"
    /\ rec.pc = "abandon" => \A r \in rec.rows : status[r] \notin {"absent", "queued"}

\* While Redis keeps its keys, an id in the queue is of a row not started,
\* a row being claimed is in progress, and a row is held by one thread.
KeysTell ==
    /\ \A r \in Rows : key[r] = "queued" => Unstarted(r)
    /\ \A t \in Threads : pc[t] = "read" => key[job[t]] = "running"
    /\ \A t, u \in Threads : job[t] = job[u] /\ pc[t] # "idle" => t = u
    /\ rec.pc = "redeliver" =>
         \A r \in rec.rows : key[r] = "none" => Unstarted(r)

\* A thread that has not finished its work finds no draft.
DraftsTell ==
    /\ \A t \in Threads : pc[t] \in {"read", "working"} => drafts[job[t]] = 0
    /\ \A r \in Rows : drafts[r] <= 1

Delivery ==
    /\ ThreadsHold /\ AbsentUnknown /\ QueuedUndone /\ PendingFresh /\ PassSound
    /\ ~RedisLost => KeysTell /\ DraftsTell

-----------------------------------------------------------------------------

\* A thread about to record has a verdict.
Typed == TypeOK /\ \A t \in Threads : pc[t] = "recording" => verdict[t] \in Terminal

LEMMA TypeInit == Init => Typed
  BY RunnersAssumption
  DEF Init, Typed, TypeOK, RowStates, Terminal, InFlight, ReqState, IdleReq, IdleRec

\* Every step keeps the types.
LEMMA TypeStep == Typed /\ [Next]_vars => Typed'
<1> SUFFICES ASSUME Typed, [Next]_vars PROVE Typed'
  OBVIOUS
<1> USE RunnersAssumption
    DEF Typed, TypeOK, rows, threads, history, crossings, RowStates, Terminal, InFlight, Kinds
<1>idle. IdleReq \in ReqState
  BY DEF IdleReq, ReqState
<1>queue. \A set : Enqueued(set) \in [Rows -> {"none", "queued", "running", "result"}]
  BY DEF Enqueued
<1>1. ASSUME NEW q \in Requesters, Request(q) PROVE Typed'
  <2>ask. ASSUME NEW k \in Kinds, NEW c \in Competitors \cup {NoCompetitor}, Ask(q, k, c)
          PROVE  req' \in [Requesters -> ReqState]
    <3>1. [IdleReq EXCEPT !.pc = "insert", !.kind = k, !.competitor = c] \in ReqState
      BY DEF IdleReq, ReqState
    <3>2. QED
      BY <2>ask, <3>1 DEF Ask
  <2>1. CASE AskBriefing(q)
    BY <2>ask, <2>1 DEF AskBriefing
  <2>2. ASSUME NEW c \in Competitors, AskBattlecard(q, c) PROVE Typed'
    BY <2>ask, <2>2 DEF AskBattlecard
  <2>3. ASSUME NEW c \in Competitors, CreateCompetitor(q, c) PROVE Typed'
    BY <2>ask, <2>3 DEF CreateCompetitor
  <2>4. ASSUME NEW c \in Competitors, NEW k \in Guarded, AskGuarded(q, k, c) PROVE Typed'
    <3>1. k \in Kinds
      BY DEF Guarded
    <3>2. QED
      BY <2>ask, <2>4, <3>1 DEF AskGuarded
  <2>5. ASSUME NEW r \in Rows, InsertRow(q, r) PROVE Typed'
    <3>1. [IdleReq EXCEPT !.pc = "dispatch", !.row = r] \in ReqState
      BY DEF IdleReq, ReqState
    <3>2. req[q].kind \in Kinds \cup {"none"}
          /\ req[q].competitor \in Competitors \cup {NoCompetitor}
      BY DEF ReqState
    <3>3. QED
      BY <1>idle, <2>5, <3>1, <3>2 DEF InsertRow
  <2>6. CASE Dispatch(q)
    BY <1>idle, <1>queue, <2>6 DEF Dispatch
  <2>7. QED
    BY <1>1, <2>1, <2>2, <2>3, <2>4, <2>5, <2>6 DEF Request, RequestStep
<1>2. ASSUME NEW t \in Threads, Thread(t) \/ JobTimeout(t) PROVE Typed'
  <2>end. ASSUME EndJob(t)
          PROVE  /\ pc' \in [Threads -> {"idle", "read", "working", "recording"}]
                 /\ job' \in [Threads -> Rows \cup {NoRow}]
                 /\ verdict' \in [Threads -> {"success", "failed", "none"}]
                 /\ ran' \in [Threads -> 0..Timeout]
                 /\ key' \in [Rows -> {"none", "queued", "running", "result"}]
                 /\ \A u \in Threads : pc'[u] = "recording" => verdict'[u] \in Terminal
    BY <2>end DEF EndJob, Returned
  <2>1. ASSUME NEW r \in Rows, StartJob(t, r) PROVE Typed'
    BY <2>1 DEF StartJob
  <2>2. ASSUME NEW r \in Rows, JobGone(t, r) PROVE Typed'
    BY <2>2 DEF JobGone, Returned
  <2>3. CASE Begin(t)
    <3>1. CASE status[job[t]] = "deleted"
      BY <2>end, <2>3, <3>1 DEF Begin
    <3>2. CASE status[job[t]] # "deleted"
      BY <2>3, <3>2 DEF Begin
    <3>3. QED
      BY <3>1, <3>2
  <2>4. CASE Work(t)
    <3>1. drafts' \in [Rows -> Nat]
      <4>1. \A r \in Rows : drafts[r] + 1 \in Nat
        OBVIOUS
      <4>2. QED
        BY <2>4, <4>1 DEF Work
    <3>2. QED
      BY <2>4, <3>1 DEF Work
  <2>5. CASE WorkFails(t)
    BY <2>5 DEF WorkFails
  <2>6. CASE Record(t)
    <3>1. status' \in [Rows -> RowStates]
      BY <2>6 DEF Record
    <3>2. QED
      BY <2>end, <2>6, <3>1 DEF Record
  <2>7. CASE JobTimeout(t)
    BY <2>7 DEF JobTimeout
  <2>8. QED
    BY <1>2, <2>1, <2>2, <2>3, <2>4, <2>5, <2>6, <2>7 DEF Thread, ShortStep
<1>3. ASSUME NEW r \in Rows, ResultExpires(r) \/ OrphanAborted(r) PROVE Typed'
  <2>1. CASE ResultExpires(r)
    BY <2>1 DEF ResultExpires
  <2>2. CASE OrphanAborted(r)
    BY <2>2 DEF OrphanAborted
  <2>3. QED
    BY <1>3, <2>1, <2>2
<1>4. ASSUME NEW phase \in {"abandon", "redeliver"}, NEW set \in SUBSET Rows,
             Select(phase, set)
      PROVE  Typed'
  BY <1>4 DEF Select
<1>5. Abandoned \in SUBSET Rows /\ Undelivered \in SUBSET Rows
  BY DEF Abandoned, Undelivered
<1>6. CASE RecWrite
  <2>1. CASE FailAbandoned
    <3>1. status' \in [Rows -> RowStates]
      BY <2>1 DEF FailAbandoned
    <3>2. QED
      BY <2>1, <3>1 DEF FailAbandoned, IdleRec
  <2>2. CASE RedeliverSelected
    BY <1>queue, <2>2 DEF RedeliverSelected, IdleRec
  <2>3. QED
    BY <1>6, <2>1, <2>2 DEF RecWrite
<1>7. CASE Environment
  <2>1. ASSUME NEW c \in Competitors, DeleteCompetitor(c) PROVE Typed'
    BY <2>1 DEF DeleteCompetitor, Event
  <2>2. ASSUME NEW q \in Requesters, DispatchFails(q) PROVE Typed'
    BY <1>idle, <2>2 DEF DispatchFails, Event
  <2>3. CASE RedisLoss
    BY <2>3 DEF RedisLoss, Event
  <2>4. CASE WorkerCrash
    BY <2>4 DEF WorkerCrash, ThreadsDie, Event
  <2>5. CASE WebCrash
    <3>1. CASE mode = "inline"
      BY <1>idle, <2>5, <3>1 DEF WebCrash, ThreadsDie, Event, IdleRec
    <3>2. CASE mode # "inline"
      BY <1>idle, <2>5, <3>2 DEF WebCrash, Event, IdleRec
    <3>3. QED
      BY <3>1, <3>2
  <2>6. QED
    BY <1>7, <2>1, <2>2, <2>3, <2>4, <2>5 DEF Environment
<1>8. CASE Tick
  BY <1>8 DEF Tick, Older
<1>9. CASE UNCHANGED vars
  BY <1>9 DEF vars
<1>10. QED
  BY <1>1, <1>2, <1>3, <1>4, <1>5, <1>6, <1>7, <1>8, <1>9
  DEF Next, SelectAbandoned, SelectUndelivered

\* Type correctness of every reachable state.
THEOREM TypeCorrect == Spec => []TypeOK
<1>1. Typed => TypeOK
  BY DEF Typed
<1>2. QED
  BY <1>1, TypeInit, TypeStep, PTL DEF Spec

LEMMA DeliveryInit == Init => Delivery
  BY RunnersAssumption
  DEF Init, Delivery, ThreadsHold, AbsentUnknown, QueuedUndone, PendingFresh,
      PassSound, KeysTell, DraftsTell, Unstarted, Held, IdleReq, IdleRec

\* Every step keeps the invariant.
LEMMA DeliveryStep == Typed /\ Delivery /\ [Next]_vars => Delivery'
<1> SUFFICES ASSUME Typed, Delivery, [Next]_vars PROVE Delivery'
  OBVIOUS
<1> USE RunnersAssumption
    DEF Typed, TypeOK, ReqState, rows, threads, history, crossings, RowStates, Terminal, InFlight,
        Delivery, ThreadsHold, AbsentUnknown, QueuedUndone, PendingFresh,
        PassSound, KeysTell, DraftsTell, Unstarted, Held, RedisLost
<1>1. ASSUME NEW q \in Requesters, AskBriefing(q) PROVE Delivery'
  BY <1>1 DEF AskBriefing, Ask, IdleReq
<1>2. ASSUME NEW q \in Requesters, NEW c \in Competitors, AskBattlecard(q, c)
      PROVE  Delivery'
  BY <1>2 DEF AskBattlecard, Ask, IdleReq
<1>3. ASSUME NEW q \in Requesters, NEW c \in Competitors, CreateCompetitor(q, c)
      PROVE  Delivery'
  BY <1>3 DEF CreateCompetitor, Ask, IdleReq
<1>4. ASSUME NEW q \in Requesters, NEW c \in Competitors, NEW k \in Guarded,
            AskGuarded(q, k, c)
     PROVE Delivery'
  BY <1>4 DEF AskGuarded, Ask, IdleReq
<1>5. ASSUME NEW q \in Requesters, NEW r \in Rows, InsertRow(q, r) PROVE Delivery'
  <2>1. ThreadsHold'
    BY <1>5 DEF InsertRow, IdleReq
  <2>2. AbsentUnknown'
    BY <1>5 DEF InsertRow, IdleReq
  <2>3. QueuedUndone'
    BY <1>5 DEF InsertRow, IdleReq
  <2>4. PendingFresh'
    <3>1. CASE req[q].competitor \in competitors \cup {NoCompetitor}
      <4>1. /\ req'[q] = [IdleReq EXCEPT !.pc = "dispatch", !.row = r]
            /\ status' = [status EXCEPT ![r] = "queued"]
            /\ \A p \in Requesters : p # q => req'[p] = req[p]
            /\ UNCHANGED <<key, age, drafts, job, rec>>
        BY <1>5, <3>1 DEF InsertRow
      <4>2. /\ req'[q].row = r
            /\ key[r] = "none" /\ age[r] = 0 /\ r \notin rec.rows /\ Unstarted(r)'
        BY <1>5, <4>1 DEF InsertRow, IdleReq
      <4>3. \A p \in Requesters : p # q /\ req[p].pc = "dispatch" => req[p].row # r
        BY <1>5 DEF InsertRow
      <4>4. ASSUME NEW p \in Requesters, p # q, req'[p].pc = "dispatch"
            PROVE  /\ req'[p].row \in Rows
                   /\ key'[req'[p].row] = "none" /\ age'[req'[p].row] = 0
                   /\ Unstarted(req[p].row)' /\ req'[p].row \notin rec.rows
        BY <4>1, <4>3, <4>4
      <4>5. ASSUME NEW p \in Requesters, NEW o \in Requesters, p # o,
                   req'[p].pc = "dispatch", req'[o].pc = "dispatch"
            PROVE  req'[p].row # req'[o].row
        <5>1. CASE p = q
          <6>1. req'[o].row # r
            BY <4>1, <4>3, <4>5, <5>1
          <6>2. QED
            BY <4>2, <5>1, <6>1
        <5>2. CASE o = q
          <6>1. req'[p].row # r
            BY <4>1, <4>3, <4>5, <5>2
          <6>2. QED
            BY <4>2, <5>2, <6>1
        <5>3. CASE p # q /\ o # q
          <6>1. req'[p] = req[p] /\ req'[o] = req[o]
            BY <4>1, <5>3
          <6>2. QED
            BY <4>5, <6>1
        <5>4. QED
          BY <5>1, <5>2, <5>3
      <4>6. /\ r \in Rows /\ key'[r] = "none" /\ age'[r] = 0 /\ r \notin rec'.rows
            /\ rec' = rec
        BY <4>1, <4>2
      <4>7. QED
        BY <4>2, <4>4, <4>5, <4>6 DEF PendingFresh
    <3>2. CASE req[q].competitor \notin competitors \cup {NoCompetitor}
      <4>1. /\ req' = [req EXCEPT ![q] = IdleReq]
            /\ UNCHANGED <<status, key, age, drafts, job, rec>>
        BY <1>5, <3>2 DEF InsertRow
      <4>2. QED
        BY <4>1 DEF IdleReq
    <3>3. QED
      BY <3>1, <3>2
  <2>5. PassSound'
    BY <1>5 DEF InsertRow, IdleReq
  <2>6. ~RedisLost' => KeysTell'
    <3>1. /\ UNCHANGED <<key, drafts, pc, job, rec, happened>>
          /\ status[r] = "absent" /\ status'[r] \in {"absent", "queued"}
          /\ \A x \in Rows : x # r => status'[x] = status[x]
      BY <1>5 DEF InsertRow
    <3>2. QED
      BY <3>1
  <2>7. ~RedisLost' => DraftsTell'
    BY <1>5 DEF InsertRow, IdleReq
  <2>8. QED
    BY <2>1, <2>2, <2>3, <2>4, <2>5, <2>6, <2>7
<1>6. ASSUME NEW q \in Requesters, Dispatch(q) PROVE Delivery'
  BY <1>6 DEF Dispatch, Enqueued, IdleReq
<1>7. ASSUME NEW t \in Threads, NEW r \in Rows, StartJob(t, r) PROVE Delivery'
  BY <1>7 DEF StartJob, MayStart
<1>8. ASSUME NEW t \in Threads, NEW r \in Rows, JobGone(t, r) PROVE Delivery'
  BY <1>8 DEF JobGone, MayStart, Returned
<1>9. ASSUME NEW t \in Threads, Begin(t) PROVE Delivery'
  BY <1>9 DEF Begin, EndJob, Returned
<1>10. ASSUME NEW t \in Threads, Work(t) PROVE Delivery'
  BY <1>10 DEF Work
<1>11. ASSUME NEW t \in Threads, WorkFails(t) PROVE Delivery'
  BY <1>11 DEF WorkFails
<1>12. ASSUME NEW t \in Threads, Record(t) PROVE Delivery'
  BY <1>12 DEF Record, EndJob, Returned
<1>13. ASSUME NEW t \in Threads, JobTimeout(t) PROVE Delivery'
  BY <1>13 DEF JobTimeout, TimedOut, Active
<1>14. ASSUME NEW r \in Rows, ResultExpires(r) PROVE Delivery'
  BY <1>14 DEF ResultExpires
<1>15. ASSUME NEW r \in Rows, OrphanAborted(r) PROVE Delivery'
  BY <1>15 DEF OrphanAborted
<1>16. CASE SelectAbandoned
  BY <1>16 DEF SelectAbandoned, Select, Abandoned
<1>17. CASE SelectUndelivered
  BY <1>17 DEF SelectUndelivered, Select, Undelivered
<1>18. CASE FailAbandoned
  BY <1>18 DEF FailAbandoned, IdleRec
<1>19. CASE RedeliverSelected
  BY <1>19 DEF RedeliverSelected, Enqueued, IdleRec
<1>20. ASSUME NEW c \in Competitors, DeleteCompetitor(c) PROVE Delivery'
  BY <1>20 DEF DeleteCompetitor, Event
<1>21. ASSUME NEW q \in Requesters, DispatchFails(q) PROVE Delivery'
  BY <1>21 DEF DispatchFails, Event, IdleReq
<1>22. CASE RedisLoss
  BY <1>22 DEF RedisLoss, Event
<1>23. CASE WorkerCrash
  BY <1>23 DEF WorkerCrash, ThreadsDie, Event
<1>24. CASE WebCrash
  BY <1>24 DEF WebCrash, ThreadsDie, Event, IdleReq, IdleRec
<1>25. CASE Tick
  BY <1>25 DEF Tick, Resting, Older
<1>26. CASE UNCHANGED vars
  BY <1>26 DEF vars
<1>27. QED
  BY <1>1, <1>2, <1>3, <1>4, <1>5, <1>6, <1>7, <1>8, <1>9, <1>10, <1>11, <1>12,
     <1>13, <1>14, <1>15, <1>16, <1>17, <1>18, <1>19, <1>20, <1>21, <1>22, <1>23,
     <1>24, <1>25, <1>26
  DEF Next, Request, RequestStep, Thread, ShortStep, RecWrite, Environment

\* As long as Redis keeps its keys, a job drafts at most once: whatever the
\* number of requests, threads and jobs, through crashes, timeouts, failed
\* dispatches, redeliveries and deletions, under both transports.
THEOREM OneDraftPerJob == Spec => []DraftedOnce
<1>1. Delivery => DraftedOnce
  BY DEF Delivery, DraftsTell, DraftedOnce
<1>2. QED
  BY <1>1, TypeInit, TypeStep, DeliveryInit, DeliveryStep, PTL DEF Spec

\* While Redis keeps its keys, a held row says what its thread does, until
\* it is 30 minutes old, and a thread that failed left no draft.
VerdictsTell ==
    /\ rec.pc = "abandon" => \A r \in rec.rows : age[r] >= Abandon
    /\ ~RedisLost => \A t \in Threads :
         /\ pc[t] = "read" => status[job[t]] \in {"queued", "deleted"}
         /\ pc[t] \in {"working", "recording"} =>
              status[job[t]] \in {"running", "deleted"} \/ age[job[t]] >= Abandon
         /\ pc[t] = "recording" /\ verdict[t] = "failed" => drafts[job[t]] = 0

LEMMA VerdictsInit == Init => VerdictsTell
  BY RunnersAssumption DEF Init, VerdictsTell, IdleRec

\* Every step keeps the invariant, and no step takes back a verdict or
\* disowns a draft.
LEMMA VerdictsStep ==
  Typed /\ Delivery /\ VerdictsTell /\ [Next]_vars
    => VerdictsTell' /\ [VerdictKept]_vars /\ [DraftKept]_vars
<1> DEFINE Goal == VerdictsTell' /\ [VerdictKept]_vars /\ [DraftKept]_vars
<1> SUFFICES ASSUME Typed, Delivery, VerdictsTell, [Next]_vars PROVE Goal
  OBVIOUS
<1> USE RunnersAssumption
    DEF Typed, TypeOK, ReqState, rows, threads, history, crossings, RowStates, Terminal, InFlight,
        Delivery, ThreadsHold, AbsentUnknown, QueuedUndone, PendingFresh,
        PassSound, KeysTell, DraftsTell, Unstarted, Held, RedisLost,
        VerdictsTell, VerdictKept, DraftKept, vars
<1>1. ASSUME NEW q \in Requesters, AskBriefing(q) PROVE Goal
  BY <1>1 DEF AskBriefing, Ask, IdleReq
<1>2. ASSUME NEW q \in Requesters, NEW c \in Competitors, AskBattlecard(q, c) PROVE Goal
  BY <1>2 DEF AskBattlecard, Ask, IdleReq
<1>3. ASSUME NEW q \in Requesters, NEW c \in Competitors, CreateCompetitor(q, c)
      PROVE  Goal
  BY <1>3 DEF CreateCompetitor, Ask, IdleReq
<1>4. ASSUME NEW q \in Requesters, NEW c \in Competitors, NEW k \in Guarded,
            AskGuarded(q, k, c)
     PROVE Goal
  BY <1>4 DEF AskGuarded, Ask, IdleReq
<1>5. ASSUME NEW q \in Requesters, NEW r \in Rows, InsertRow(q, r) PROVE Goal
  BY <1>5 DEF InsertRow, IdleReq
<1>6. ASSUME NEW q \in Requesters, Dispatch(q) PROVE Goal
  BY <1>6 DEF Dispatch, Enqueued, IdleReq
<1>7. ASSUME NEW t \in Threads, NEW r \in Rows, StartJob(t, r) PROVE Goal
  BY <1>7 DEF StartJob, MayStart
<1>8. ASSUME NEW t \in Threads, NEW r \in Rows, JobGone(t, r) PROVE Goal
  BY <1>8 DEF JobGone, MayStart, Returned
<1>9. ASSUME NEW t \in Threads, Begin(t) PROVE Goal
  BY <1>9 DEF Begin, EndJob, Returned
<1>10. ASSUME NEW t \in Threads, Work(t) PROVE Goal
  BY <1>10 DEF Work
<1>11. ASSUME NEW t \in Threads, WorkFails(t) PROVE Goal
  BY <1>11 DEF WorkFails
<1>12. ASSUME NEW t \in Threads, Record(t) PROVE Goal
  BY <1>12 DEF Record, EndJob, Returned
<1>13. ASSUME NEW t \in Threads, JobTimeout(t) PROVE Goal
  BY <1>13 DEF JobTimeout, TimedOut, Active
<1>14. ASSUME NEW r \in Rows, ResultExpires(r) PROVE Goal
  BY <1>14 DEF ResultExpires
<1>15. ASSUME NEW r \in Rows, OrphanAborted(r) PROVE Goal
  BY <1>15 DEF OrphanAborted
<1>16. CASE SelectAbandoned
  BY <1>16 DEF SelectAbandoned, Select, Abandoned
<1>17. CASE SelectUndelivered
  BY <1>17 DEF SelectUndelivered, Select, Undelivered
<1>18. CASE FailAbandoned
  BY <1>18 DEF FailAbandoned, IdleRec
<1>19. CASE RedeliverSelected
  BY <1>19 DEF RedeliverSelected, Enqueued, IdleRec
<1>20. ASSUME NEW c \in Competitors, DeleteCompetitor(c) PROVE Goal
  BY <1>20 DEF DeleteCompetitor, Event
<1>21. ASSUME NEW q \in Requesters, DispatchFails(q) PROVE Goal
  BY <1>21 DEF DispatchFails, Event, IdleReq
<1>22. CASE RedisLoss
  BY <1>22 DEF RedisLoss, Event
<1>23. CASE WorkerCrash
  BY <1>23 DEF WorkerCrash, ThreadsDie, Event
<1>24. CASE WebCrash
  BY <1>24 DEF WebCrash, ThreadsDie, Event, IdleReq, IdleRec
<1>25. CASE Tick
  BY <1>25 DEF Tick, Resting, Older
<1>26. CASE UNCHANGED vars
  BY <1>26
<1>27. QED
  BY <1>1, <1>2, <1>3, <1>4, <1>5, <1>6, <1>7, <1>8, <1>9, <1>10, <1>11, <1>12,
     <1>13, <1>14, <1>15, <1>16, <1>17, <1>18, <1>19, <1>20, <1>21, <1>22, <1>23,
     <1>24, <1>25, <1>26
  DEF Next, Request, RequestStep, Thread, ShortStep, RecWrite, Environment

\* A verdict stands until the job is 30 minutes old.
THEOREM VerdictsStand == Spec => VerdictStands
<1> QED
  BY TypeInit, TypeStep, DeliveryInit, DeliveryStep, VerdictsInit, VerdictsStep, PTL
  DEF Spec, VerdictStands

\* A job with a draft is not called failed before it is 30 minutes old.
THEOREM DraftsOwned == Spec => DraftNotDisowned
<1> QED
  BY TypeInit, TypeStep, DeliveryInit, DeliveryStep, VerdictsInit, VerdictsStep, PTL
  DEF Spec, DraftNotDisowned

\* What a row says of its competitor.
CompetitorTold == \A r \in Rows :
    /\ status[r] \in InFlight \cup Terminal =>
         competitorOf[r] \in competitors \cup {NoCompetitor}
    /\ status[r] = "deleted" => competitorOf[r] \notin competitors \cup {NoCompetitor}

\* A request that no rival overtook still finds no job in flight when it
\* inserts.
GuardHolds == \A q \in Requesters :
    req[q].pc = "insert" /\ req[q].kind \in Guarded
      => q \in overtaken \/ ~Busy(req[q].kind, req[q].competitor)

\* Of two jobs of a guarded kind in flight for a competitor one has crossed.
CrossedOnly == \A r, x \in Rows :
    /\ status[r] \in InFlight /\ status[x] \in InFlight
    /\ kind[r] \in Guarded /\ kind[x] = kind[r] /\ competitorOf[x] = competitorOf[r]
    => r = x \/ r \in crossed \/ x \in crossed

\* While Redis keeps its keys: without them a job ended may run again.
Apart == ~RedisLost => GuardHolds /\ CrossedOnly /\ WorkedAlone

LEMMA ApartInit == Init => CompetitorTold /\ Apart
  BY RunnersAssumption
  DEF Init, CompetitorTold, Apart, GuardHolds, CrossedOnly, WorkedAlone, InFlight,
      Terminal, IdleReq

\* Every step keeps what the guard achieves.
LEMMA ApartStep ==
  Typed /\ Delivery /\ VerdictsTell /\ CompetitorTold /\ Apart /\ [Next]_vars
    => CompetitorTold' /\ Apart'
<1> DEFINE Goal == CompetitorTold' /\ Apart'
<1> SUFFICES ASSUME Typed, Delivery, VerdictsTell, CompetitorTold, Apart,
                    [Next]_vars
             PROVE  Goal
  OBVIOUS
<1> USE RunnersAssumption
    DEF Typed, TypeOK, ReqState, rows, threads, history, crossings, RowStates,
        Terminal, InFlight, Delivery, ThreadsHold, AbsentUnknown, QueuedUndone,
        PassSound, KeysTell, RedisLost, VerdictsTell, Guarded,
        CompetitorTold, Apart, GuardHolds, CrossedOnly, WorkedAlone, Busy
<1>1. ASSUME NEW q \in Requesters, AskBriefing(q) PROVE Goal
  BY <1>1 DEF AskBriefing, Ask, IdleReq
<1>2. ASSUME NEW q \in Requesters, NEW c \in Competitors, AskBattlecard(q, c) PROVE Goal
  BY <1>2 DEF AskBattlecard, Ask, IdleReq
<1>3. ASSUME NEW q \in Requesters, NEW c \in Competitors, CreateCompetitor(q, c)
      PROVE  Goal
  BY <1>3 DEF CreateCompetitor, Ask, IdleReq
<1>4. ASSUME NEW q \in Requesters, NEW c \in Competitors, NEW k \in Guarded,
            AskGuarded(q, k, c)
     PROVE Goal
  BY <1>4 DEF AskGuarded, Ask, IdleReq
<1>5. ASSUME NEW q \in Requesters, NEW r \in Rows, InsertRow(q, r) PROVE Goal
  <2>1. CASE req[q].competitor \notin competitors \cup {NoCompetitor}
    BY <1>5, <2>1 DEF InsertRow, IdleReq
  <2>2. CASE req[q].competitor \in competitors \cup {NoCompetitor}
    <3> PICK k, c : k = req[q].kind /\ c = req[q].competitor
      OBVIOUS
    <3>1. /\ status[r] = "absent" /\ ~Held(r)
          /\ status' = [status EXCEPT ![r] = "queued"]
          /\ kind' = [kind EXCEPT ![r] = k]
          /\ competitorOf' = [competitorOf EXCEPT ![r] = c]
          /\ req' = [req EXCEPT ![q] = [IdleReq EXCEPT !.pc = "dispatch", !.row = r]]
          /\ crossed' = IF q \in overtaken /\ Busy(k, c) THEN crossed \cup {r}
                                                        ELSE crossed
          /\ overtaken' = {p \in Requesters \ {q} :
                              p \in overtaken \/ Inserting(p, k, c)}
          /\ req[q].pc = "insert"
          /\ UNCHANGED <<age, competitors, pc, job, happened>>
      BY <1>5, <2>2 DEF InsertRow
    <3>2. CompetitorTold'
      BY <2>2, <3>1
    <3>3. WorkedAlone'
      BY <3>1 DEF Held
    <3>4. GuardHolds' \/ RedisLost
      <4> SUFFICES ASSUME ~RedisLost, NEW p \in Requesters, req'[p].pc = "insert",
                          req'[p].kind \in Guarded, p \notin overtaken',
                          NEW x \in Rows, kind'[x] = req'[p].kind,
                          competitorOf'[x] = req'[p].competitor, status'[x] \in InFlight
                   PROVE  FALSE
        OBVIOUS
      <4>1. p # q
        BY <3>1 DEF IdleReq
      <4>2. req'[p] = req[p] /\ p \notin overtaken /\ ~Inserting(p, k, c)
        BY <3>1, <4>1
      <4>3. x # r
        BY <3>1, <4>2 DEF Inserting
      <4>4. QED
        BY <3>1, <4>2, <4>3
    <3>5. CrossedOnly' \/ RedisLost
      <4>1. ASSUME ~RedisLost, NEW x \in Rows, x # r, status[x] \in InFlight,
                   k \in Guarded, kind[x] = k, competitorOf[x] = c
            PROVE  r \in crossed'
        BY <3>1, <4>1
      <4>2. QED
        BY <3>1, <4>1
    <3>6. QED
      BY <3>1, <3>2, <3>3, <3>4, <3>5
  <2>3. QED
    BY <2>1, <2>2
<1>6. ASSUME NEW q \in Requesters, Dispatch(q) PROVE Goal
  BY <1>6 DEF Dispatch, Enqueued, IdleReq
<1>7. ASSUME NEW t \in Threads, NEW r \in Rows, StartJob(t, r) PROVE Goal
  BY <1>7 DEF StartJob, MayStart
<1>8. ASSUME NEW t \in Threads, NEW r \in Rows, JobGone(t, r) PROVE Goal
  BY <1>8 DEF JobGone, MayStart, Returned
<1>9. ASSUME NEW t \in Threads, Begin(t) PROVE Goal
  <2>1. CASE status[job[t]] = "deleted"
    BY <1>9, <2>1 DEF Begin, EndJob, Returned
  <2>2. CASE status[job[t]] # "deleted"
    <3>1. /\ status' = [status EXCEPT ![job[t]] = "running"]
          /\ pc' = [pc EXCEPT ![t] = "working"] /\ pc[t] = "read"
          /\ UNCHANGED <<kind, competitorOf, age, competitors, job, req, happened,
                         crossed, overtaken>>
      BY <1>9, <2>2 DEF Begin
    <3>2. CompetitorTold'
      BY <2>2, <3>1 DEF Held
    <3>3. ~RedisLost => status[job[t]] = "queued"
      BY <2>2, <3>1
    <3>4. ASSUME ~RedisLost, NEW u \in Threads, u # t, pc[u] = "working",
                 kind[job[u]] \in Guarded, kind[job[t]] = kind[job[u]],
                 competitorOf[job[t]] = competitorOf[job[u]]
          PROVE  age[job[u]] >= Abandon \/ job[t] \in crossed \/ job[u] \in crossed
      <4>1. job[t] \in Rows /\ job[u] \in Rows /\ job[t] # job[u]
        BY <3>1, <3>4
      <4>2. status[job[u]] \in {"running", "deleted"} \/ age[job[u]] >= Abandon
        BY <3>4
      <4>3. status[job[u]] # "deleted"
        BY <2>2, <3>3, <3>4, <4>1
      <4>4. status[job[u]] = "running" => job[t] \in crossed \/ job[u] \in crossed
        BY <3>3, <3>4, <4>1
      <4>5. QED
        BY <4>2, <4>3, <4>4
    <3>5. WorkedAlone'
      <4> SUFFICES ASSUME ~RedisLost, NEW u \in Threads, NEW v \in Threads,
                          pc'[u] = "working", pc'[v] = "working", u # v,
                          kind[job[u]] \in Guarded, kind[job[u]] = kind[job[v]],
                          competitorOf[job[u]] = competitorOf[job[v]]
                   PROVE  \E r \in {job[u], job[v]} : age[r] >= Abandon \/ r \in crossed
        BY <3>1
      <4>1. CASE u = t
        BY <3>1, <3>4, <4>1
      <4>2. CASE v = t
        BY <3>1, <3>4, <4>2
      <4>3. CASE u # t /\ v # t
        BY <3>1, <4>3
      <4>4. QED
        BY <4>1, <4>2, <4>3
    <3>6. GuardHolds' \/ RedisLost
      <4>1. ~RedisLost => \A r \in Rows :
              status'[r] \in InFlight => status[r] \in InFlight
        BY <3>1, <3>3
      <4>2. QED
        BY <3>1, <4>1
    <3>7. CrossedOnly' \/ RedisLost
      BY <3>1, <3>3
    <3>8. QED
      BY <3>1, <3>2, <3>5, <3>6, <3>7
  <2>3. QED
    BY <2>1, <2>2
<1>10. ASSUME NEW t \in Threads, Work(t) PROVE Goal
  BY <1>10 DEF Work
<1>11. ASSUME NEW t \in Threads, WorkFails(t) PROVE Goal
  BY <1>11 DEF WorkFails
<1>12. ASSUME NEW t \in Threads, Record(t) PROVE Goal
  BY <1>12 DEF Record, EndJob, Returned
<1>13. ASSUME NEW t \in Threads, JobTimeout(t) PROVE Goal
  BY <1>13 DEF JobTimeout, TimedOut, Active
<1>14. ASSUME NEW r \in Rows, ResultExpires(r) PROVE Goal
  BY <1>14 DEF ResultExpires
<1>15. ASSUME NEW r \in Rows, OrphanAborted(r) PROVE Goal
  BY <1>15 DEF OrphanAborted
<1>16. CASE SelectAbandoned
  BY <1>16 DEF SelectAbandoned, Select, Abandoned
<1>17. CASE SelectUndelivered
  BY <1>17 DEF SelectUndelivered, Select, Undelivered
<1>18. CASE FailAbandoned
  BY <1>18 DEF FailAbandoned, IdleRec
<1>19. CASE RedeliverSelected
  BY <1>19 DEF RedeliverSelected, Enqueued, IdleRec
<1>20. ASSUME NEW c \in Competitors, DeleteCompetitor(c) PROVE Goal
  BY <1>20 DEF DeleteCompetitor, Event
<1>21. ASSUME NEW q \in Requesters, DispatchFails(q) PROVE Goal
  BY <1>21 DEF DispatchFails, Event, IdleReq
<1>22. CASE RedisLoss
  BY <1>22 DEF RedisLoss, Event
<1>23. CASE WorkerCrash
  BY <1>23 DEF WorkerCrash, ThreadsDie, Event
<1>24. CASE WebCrash
  BY <1>24 DEF WebCrash, ThreadsDie, Event, IdleReq, IdleRec
<1>25. CASE Tick
  BY <1>25 DEF Tick, Resting, Older
<1>26. CASE UNCHANGED vars
  BY <1>26 DEF vars
<1>27. QED
  BY <1>1, <1>2, <1>3, <1>4, <1>5, <1>6, <1>7, <1>8, <1>9, <1>10, <1>11, <1>12,
     <1>13, <1>14, <1>15, <1>16, <1>17, <1>18, <1>19, <1>20, <1>21, <1>22, <1>23,
     <1>24, <1>25, <1>26
  DEF Next, Request, RequestStep, Thread, ShortStep, RecWrite, Environment

\* Two threads never do a guarded job for one competitor before one of the two
\* jobs is 30 minutes old, unless their requests crossed: whatever the number of
\* requests, threads and jobs, under both transports.
THEOREM SitesWorkedAlone == Spec => []WorkedAlone
<1>1. Apart => WorkedAlone
  BY DEF Apart, WorkedAlone
<1>2. QED
  BY <1>1, TypeInit, TypeStep, DeliveryInit, DeliveryStep, VerdictsInit, VerdictsStep,
     ApartInit, ApartStep, PTL DEF Spec

=============================================================================
