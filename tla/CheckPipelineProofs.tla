----------------------- MODULE CheckPipelineProofs -------------------------
(***************************************************************************)
(* Theorems about CheckPipeline for every number of surfaces, threads,     *)
(* requests, runs and sweeps, and all thresholds of the assumed order.     *)
(***************************************************************************)
EXTENDS CheckPipeline, FiniteSetTheorems, TLAPS

\* Sets of run ids are finite, so that their cardinalities are numbers.
LEMMA RunsFinite == \A R \in SUBSET Runs : IsFiniteSet(R) /\ Cardinality(R) \in Nat
<1>1. IsFiniteSet(Runs)
  BY FS_Interval, BoundsAssumption DEF Runs
<1>2. QED
  BY <1>1, FS_Subset, FS_CardinalityType

\* What the reconciler remembers of the sweeps it read has its type.
LEMMA IdleRecType == RecOK(IdleRec)
<1>1. [w \in {} |-> 0] \in [{} -> SweepRow]
  OBVIOUS
<1>2. QED
  BY <1>1 DEF IdleRec, RecOK, RecState, SeenOK

\* Updates of a request, a sweep row and a counter keep their types.
LEMMA LookType ==
  ASSUME NEW x \in ReqState, NEW s \in Surfaces, NEW T \in SUBSET Surfaces,
         NEW R \in SUBSET Runs
  PROVE  [x EXCEPT !.pc = IF R = {} THEN "guard" ELSE "reclaim",
                   !.surface = s, !.todo = T, !.stale = R] \in ReqState
  BY DEF ReqState

LEMMA TotalType ==
  ASSUME NEW x \in SweepRow, NEW n \in Nat, NEW st \in SweepStates
  PROVE  [x EXCEPT !.total = n, !.status = st] \in SweepRow
  BY DEF SweepRow

LEMMA VerdictType ==
  ASSUME NEW x \in SweepRow, NEW st \in SweepStates
  PROVE  [x EXCEPT !.status = st] \in SweepRow
  BY DEF SweepRow

LEMMA CountersType ==
  ASSUME NEW x \in SweepRow, NEW n \in Nat, NEW m \in Nat, NEW st \in SweepStates
  PROVE  [x EXCEPT !.failed = n, !.finished = m, !.status = st] \in SweepRow
  BY DEF SweepRow

LEMMA CountUp ==
  ASSUME NEW f \in [Runs -> Nat], NEW i
  PROVE  [f EXCEPT ![i] = @ + 1] \in [Runs -> Nat]
<1>1. \A x \in Runs : [f EXCEPT ![i] = @ + 1][x] \in Nat
  OBVIOUS
<1>2. QED
  BY <1>1

LEMMA TypeInit == Init => TypeOK
  BY IdleRecType, BoundsAssumption, ThresholdsAssumption
  DEF Init, TypeOK, RowStates, SweepRow, SweepStates, ReqState, IdleReq,
      NoSweepRow, NoSweep, Sweeps

\* Every step keeps the types.
LEMMA TypeStep == TypeOK /\ [Next]_vars => TypeOK'
<1> SUFFICES ASSUME TypeOK, [Next]_vars PROVE TypeOK'
  OBVIOUS
<1> USE BoundsAssumption, ThresholdsAssumption
    DEF TypeOK, rows, worker, history, bounds, RowStates, InFlight
<1>1. ASSUME NEW q \in Requesters, Request(q) PROVE TypeOK'
  <2>typed. req[q] \in ReqState /\ IdleReq \in ReqState
    BY <1>1 DEF IdleReq, ReqState, NoSweep
  <2>looked. ASSUME NEW s \in Surfaces, NEW todo \in SUBSET Surfaces, Look(q, s, todo)
         PROVE  req' \in [Requesters -> ReqState]
    <3>1. StaleRuns(s) \in SUBSET Runs
      BY DEF StaleRuns
    <3>2. QED
      BY <2>typed, <2>looked, <3>1, LookType DEF Look
  <2>sets. req[q].claimed \in SUBSET Runs /\ req[q].todo \in SUBSET Surfaces
    BY <2>typed DEF ReqState
  <2>moved. ASSUME NEW R \in SUBSET Runs, Move(q, R)
           PROVE  req' \in [Requesters -> ReqState]
    <3>1. /\ [IdleReq EXCEPT !.pc = "dispatch", !.claimed = R] \in ReqState
          /\ [IdleReq EXCEPT !.pc = "next", !.sweep = req[q].sweep,
                             !.todo = req[q].todo, !.claimed = R] \in ReqState
      BY <2>typed DEF ReqState
    <3>2. QED
      BY <2>typed, <2>moved, <3>1 DEF Move
  <2>1. ASSUME NEW s \in Surfaces, CheckSurface(q, s) PROVE TypeOK'
    BY <2>looked, <2>1 DEF CheckSurface
  <2>2. CASE BeginSweep(q)
    <3>1. \A watched \in SUBSET surfaces :
            [IdleReq EXCEPT !.pc = "open", !.todo = watched] \in ReqState
      BY <2>typed DEF ReqState
    <3>2. Cardinality(Surfaces) \in Nat
      BY FS_CardinalityType
    <3>3. PICK watched \in SUBSET surfaces :
            req' = [req EXCEPT ![q] = [IdleReq EXCEPT !.pc = "open", !.todo = watched]]
      BY <2>2 DEF BeginSweep
    <3>4. req' \in [Requesters -> ReqState]
      BY <3>1, <3>3
    <3>5. QED
      BY <2>2, <3>2, <3>4 DEF BeginSweep
  <2>3. CASE Reclaim(q)
    <3>1. [req[q] EXCEPT !.pc = "guard", !.stale = {}] \in ReqState
      BY <2>typed DEF ReqState
    <3>2. QED
      BY <2>typed, <2>3, <3>1 DEF Reclaim
  <2>4. CASE GuardPasses(q)
    BY <2>4 DEF GuardPasses, ReqState
  <2>5. CASE GuardRefuses(q)
    BY <2>sets, <2>moved, <2>5 DEF GuardRefuses
  <2>6. ASSUME NEW r \in Runs, InsertRun(q, r) PROVE TypeOK'
    <3>1. CASE req[q].surface \in surfaces
      <4>1. req' \in [Requesters -> ReqState]
        BY <2>sets, <2>moved, <2>6, <3>1 DEF InsertRun
      <4>2. req[q].surface \in Surfaces /\ req[q].sweep \in Sweeps \cup {NoSweep}
        BY <2>typed, <3>1 DEF ReqState
      <4>3. /\ status' \in [Runs -> RowStates]
            /\ surfaceOf' \in [Runs -> Surfaces \cup {NoSurface}]
            /\ sweepOf' \in [Runs -> Sweeps \cup {NoSweep}]
            /\ age' \in [Runs -> 0..Abandon]
        BY <2>6, <3>1, <4>2 DEF InsertRun
      <4>4. QED
        BY <2>6, <4>1, <4>3 DEF InsertRun
    <3>2. CASE req[q].surface \notin surfaces
      BY <2>typed, <2>6, <3>2 DEF InsertRun
    <3>3. QED
      BY <3>1, <3>2
  <2>7. ASSUME NEW w \in Sweeps, OpenSweep(q, w) PROVE TypeOK'
    <3>1. [req[q] EXCEPT !.pc = "next", !.sweep = w] \in ReqState
      BY <2>typed DEF ReqState
    <3>2. req' = [req EXCEPT ![q] = [req[q] EXCEPT !.pc = "next", !.sweep = w]]
      BY <2>7 DEF OpenSweep
    <3>3. sweep' \in [Sweeps -> SweepRow]
      BY <2>7 DEF OpenSweep, SweepRow, SweepStates
    <3>4. QED
      BY <2>7, <3>1, <3>2, <3>3 DEF OpenSweep
  <2>8. ASSUME NEW s \in Surfaces, NextSurface(q, s) PROVE TypeOK'
    <3>1. req[q].todo \ {s} \in SUBSET Surfaces
      BY <2>sets
    <3>2. QED
      BY <2>typed, <2>looked, <2>8, <3>1 DEF NextSurface
  <2>9. CASE SetTotal(q)
    <3>1. Cardinality(req[q].claimed) \in Nat
      BY <2>sets, RunsFinite
    <3>2. ASSUME NEW w \in Sweeps, w = req[q].sweep PROVE sweep'[w] \in SweepRow
      <4>1. sweep'[w] = [sweep[w] EXCEPT !.total = Cardinality(req[q].claimed),
                 !.status = IF req[q].claimed = {} THEN "success" ELSE sweep[w].status]
        BY <2>9, <3>2 DEF SetTotal
      <4>2. (IF req[q].claimed = {} THEN "success" ELSE sweep[w].status) \in SweepStates
        BY DEF SweepRow, SweepStates
      <4>3. sweep[w] \in SweepRow
        OBVIOUS
      <4>4. [sweep[w] EXCEPT !.total = Cardinality(req[q].claimed),
                 !.status = IF req[q].claimed = {} THEN "success" ELSE sweep[w].status]
              \in SweepRow
        BY <3>1, <4>2, <4>3, TotalType
      <4>5. QED
        BY <4>1, <4>4
    <3>3. sweep' \in [Sweeps -> SweepRow]
      BY <2>9, <3>2 DEF SetTotal
    <3>4. [IdleReq EXCEPT !.pc = "dispatch", !.claimed = req[q].claimed] \in ReqState
      BY <2>typed, <2>sets DEF ReqState
    <3>5. QED
      BY <2>typed, <2>9, <3>3, <3>4 DEF SetTotal
  <2>10. CASE Dispatch(q)
    BY <2>typed, <2>10 DEF Dispatch, Enqueued
  <2>11. QED
    BY <1>1, <2>1, <2>2, <2>3, <2>4, <2>5, <2>6, <2>7, <2>8, <2>9, <2>10
    DEF Request, RequestStep
<1>2. ASSUME NEW t \in Threads, Thread(t) PROVE TypeOK'
  <2>1. ASSUME NEW r \in Runs, StartJob(t, r) PROVE TypeOK'
    BY <2>1 DEF StartJob
  <2>2. ASSUME NEW r \in Runs, SkipJob(t, r) PROVE TypeOK'
    BY <2>2 DEF SkipJob
  <2>3. CASE Claim(t)
    <3>1. claims' \in [Runs -> Nat]
      BY <2>3, CountUp DEF Claim
    <3>2. QED
      BY <2>3, <3>1 DEF Claim
  <2>4. CASE SurfaceGone(t)
    BY <2>4 DEF SurfaceGone
  <2>5. CASE ClaimRaises(t)
    BY <2>5 DEF ClaimRaises, EndJob
  <2>6. ASSUME NEW result \in {"success", "failed"}, FinishRun(t, result)
        PROVE TypeOK'
    <3>1. status' \in [Runs -> RowStates]
      BY <2>6 DEF FinishRun
    <3>2. CASE sweepOf[job[t]] = NoSweep
      BY <2>6, <3>1, <3>2 DEF FinishRun, EndJob
    <3>3. CASE sweepOf[job[t]] # NoSweep
      BY <2>6, <3>1, <3>3 DEF FinishRun
    <3>4. QED
      BY <3>2, <3>3
  <2>7. CASE CountOutcome(t)
    <3>1. ASSUME NEW w \in Sweeps, w = sweepOf[job[t]] PROVE sweep'[w] \in SweepRow
      <4>1. /\ sweep[w].finished + 1 \in Nat
            /\ (IF outcome[t] = "failed" THEN sweep[w].failed + 1
                                        ELSE sweep[w].failed) \in Nat
        BY DEF SweepRow
      <4>2. sweep'[w] = [sweep[w] EXCEPT
                !.failed = IF outcome[t] = "failed" THEN sweep[w].failed + 1
                                                    ELSE sweep[w].failed,
                !.finished = sweep[w].finished + 1,
                !.status = "running"]
        BY <2>7, <3>1 DEF CountOutcome, SweepRow
      <4>3. sweep[w] \in SweepRow /\ "running" \in SweepStates
        BY DEF SweepStates
      <4>4. [sweep[w] EXCEPT
                !.failed = IF outcome[t] = "failed" THEN sweep[w].failed + 1
                                                    ELSE sweep[w].failed,
                !.finished = sweep[w].finished + 1,
                !.status = "running"] \in SweepRow
        BY <4>1, <4>3, CountersType
      <4>5. QED
        BY <4>2, <4>4
    <3>2. sweep' \in [Sweeps -> SweepRow]
      BY <2>7, <3>1 DEF CountOutcome
    <3>3. QED
      BY <2>7, <3>2 DEF CountOutcome
  <2>8. CASE ReadBack(t)
    <3>1. \A total, failedCount : Verdict(total, failedCount) \in {"success", "failed"}
      BY DEF Verdict
    <3>2. QED
      BY <2>8, <3>1 DEF ReadBack, EndJob
  <2>9. CASE CloseSweep(t)
    <3>1. ASSUME NEW w \in Sweeps, w = sweepOf[job[t]] PROVE sweep'[w] \in SweepRow
      <4>1. sweep'[w] = [sweep[w] EXCEPT !.status = outcome[t]] /\ outcome[t] \in SweepStates
        BY <2>9, <3>1 DEF CloseSweep, SweepStates
      <4>2. QED
        BY <4>1, VerdictType
    <3>2. sweep' \in [Sweeps -> SweepRow]
      BY <2>9, <3>1 DEF CloseSweep
    <3>3. QED
      BY <2>9, <3>2 DEF CloseSweep, EndJob
  <2>10. QED
    BY <1>2, <2>1, <2>2, <2>3, <2>4, <2>5, <2>6, <2>7, <2>8, <2>9
    DEF Thread, ShortStep, FinishCheck
<1>3. ASSUME NEW t \in Threads, JobTimeout(t) PROVE TypeOK'
  BY <1>3 DEF JobTimeout
<1>4. ASSUME NEW r \in Runs, ResultExpires(r) \/ OrphanAborted(r) PROVE TypeOK'
  BY <1>4 DEF ResultExpires, OrphanAborted
<1>5. CASE Reconciler
  <2>typed. RecOK(IdleRec) /\ SeenOK(rec.seen)
    BY IdleRecType DEF RecOK
  <2>1. CASE SelectAbandoned
    BY <2>typed, <2>1
    DEF SelectAbandoned, Select, Abandoned, RecOK, RecState, IdleRec, Nothing
  <2>2. CASE SelectUndelivered
    BY <2>typed, <2>2
    DEF SelectUndelivered, Select, Undelivered, RecOK, RecState, IdleRec, Nothing
  <2>3. CASE SelectExpired
    <3>1. SeenOK([w \in OpenSince(SweepMax) |-> sweep[w]])
      <4>1. OpenSince(SweepMax) \in SUBSET Sweeps
        BY DEF OpenSince
      <4>2. [w \in OpenSince(SweepMax) |-> sweep[w]] \in [OpenSince(SweepMax) -> SweepRow]
        BY <4>1
      <4>3. QED
        BY <4>1, <4>2 DEF SeenOK
    <3>2. QED
      BY <2>3, <3>1 DEF SelectExpired, Select, RecOK, RecState
  <2>4. CASE SelectStuck
    <3>1. SeenOK([w \in OpenSince(Stuck) |-> sweep[w]])
      <4>1. OpenSince(Stuck) \in SUBSET Sweeps
        BY DEF OpenSince
      <4>2. [w \in OpenSince(Stuck) |-> sweep[w]] \in [OpenSince(Stuck) -> SweepRow]
        BY <4>1
      <4>3. QED
        BY <4>1, <4>2 DEF SeenOK
    <3>2. QED
      BY <2>4, <3>1 DEF SelectStuck, Select, RecOK, RecState
  <2>5. CASE FailAbandoned
    BY <2>typed, <2>5 DEF FailAbandoned, FailSelected
  <2>6. CASE RedeliverSelected
    BY <2>typed, <2>6 DEF RedeliverSelected, Enqueued
  <2>7. CASE SelectOutstanding
    <3>1. UNION {Outstanding(w) : w \in DOMAIN rec.seen} \in SUBSET Runs
      BY DEF Outstanding, Children
    <3>2. rec' = [pc |-> "boundary", seen |-> rec.seen,
                  runs |-> UNION {Outstanding(w) : w \in DOMAIN rec.seen}]
      BY <2>7 DEF SelectOutstanding, RecOK
    <3>3. RecOK(rec')
      BY <2>typed, <3>1, <3>2 DEF RecOK, RecState
    <3>4. QED
      BY <2>7, <3>3 DEF SelectOutstanding
  <2>8. CASE CloseExpired
    <3>1. ASSUME NEW w \in DOMAIN rec.seen PROVE rec.seen[w] \in SweepRow /\ w \in Sweeps
      BY <2>typed, <3>1 DEF SeenOK
    <3>2. \A w \in Sweeps : Cardinality({r \in rec.runs : sweepOf[r] = w}) \in Nat
      BY RunsFinite DEF RecOK
    <3>3. ASSUME NEW w \in DOMAIN rec.seen PROVE Expired(w) \in SweepRow
      <4> DEFINE lost == Cardinality({r \in rec.runs : sweepOf[r] = w})
      <4>1. lost \in Nat /\ sweep[w] \in SweepRow /\ rec.seen[w] \in SweepRow
        BY <3>1, <3>2, <3>3
      <4>2. Verdict(rec.seen[w].total, rec.seen[w].failed + lost) \in SweepStates
        BY DEF Verdict, SweepStates
      <4>3. /\ (IF lost = 0 THEN sweep[w].failed
                ELSE rec.seen[w].failed + lost) \in Nat
            /\ (IF rec.seen[w].finished = rec.seen[w].total
                THEN sweep[w].finished ELSE rec.seen[w].total) \in Nat
        BY <4>1 DEF SweepRow
      <4>4. QED
        BY <4>1, <4>2, <4>3, CountersType DEF Expired
    <3>4. rec.runs \subseteq Runs
      BY DEF RecOK
    <3>5. QED
      BY <2>typed, <2>8, <3>3, <3>4 DEF CloseExpired, FailSelected
  <2>9. CASE CountChildren
    <3>1. PICK W \in SUBSET Sweeps : rec.seen \in [W -> SweepRow]
      BY <2>typed DEF SeenOK
    <3>2. PICK V \in SUBSET W : rec' = [pc |-> "resolved", runs |-> rec.runs,
                                       seen |-> [w \in V |-> rec.seen[w]]]
      BY <2>9, <3>1 DEF CountChildren, RecOK
    <3>3. [w \in V |-> rec.seen[w]] \in [V -> SweepRow]
      BY <3>1
    <3>4. SeenOK([w \in V |-> rec.seen[w]])
      BY <3>3 DEF SeenOK
    <3>5. RecOK(rec')
      BY <3>2, <3>4 DEF RecOK, RecState
    <3>6. QED
      BY <2>9, <3>5 DEF CountChildren
  <2>10. CASE CloseStuck
    BY <2>typed, <2>10 DEF CloseStuck, Verdict, SweepRow, SweepStates
  <2>11. QED
    BY <1>5, <2>1, <2>2, <2>3, <2>4, <2>5, <2>6, <2>7, <2>8, <2>9, <2>10
    DEF Reconciler, RecWrite
<1>6. CASE Environment
  <2>1. ASSUME NEW s \in Surfaces, DeleteSurface(s) PROVE TypeOK'
    BY <2>1 DEF DeleteSurface, Event
  <2>2. ASSUME NEW q \in Requesters, DispatchFails(q) PROVE TypeOK'
    BY <2>2 DEF DispatchFails, Event, Enqueued, IdleReq, ReqState, NoSweep
  <2>3. CASE RedisLoss
    BY <2>3 DEF RedisLoss, Event
  <2>4. CASE WorkerCrash
    BY <2>4 DEF WorkerCrash, Event
  <2>5. CASE WebCrash
    BY IdleRecType, <2>5 DEF WebCrash, Event, IdleReq, ReqState, NoSweep
  <2>6. QED
    BY <1>6, <2>1, <2>2, <2>3, <2>4, <2>5 DEF Environment
<1>7. CASE Tick
  <2>1. \A n \in 0..Abandon : Older(n, Abandon) \in 0..Abandon
    BY DEF Older
  <2>2. \A n \in 0..SweepMax : Older(n, SweepMax) \in 0..SweepMax
    BY DEF Older
  <2>3. sweep' \in [Sweeps -> SweepRow]
    BY <1>7, <2>2 DEF Tick, SweepRow
  <2>4. age' \in [Runs -> 0..Abandon]
    BY <1>7, <2>1 DEF Tick
  <2>5. QED
    BY <1>7, <2>3, <2>4 DEF Tick
<1>8. CASE UNCHANGED vars
  BY <1>8 DEF vars
<1>9. QED
  BY <1>1, <1>2, <1>3, <1>4, <1>5, <1>6, <1>7, <1>8 DEF Next

\* TypeOK holds in every reachable state.
THEOREM TypeCorrect == Spec => []TypeOK
  BY TypeInit, TypeStep, PTL DEF Spec

(***************************************************************************)
(* ExecutedOnce.  A row that has not been executed is protected in two     *)
(* ways: while it is queued no thread is past reading it, and while a      *)
(* thread has read it and not yet claimed it, its key in Redis is          *)
(* "running", so that no second delivery can start.  The invariant says    *)
(* how the two overlap; Redis must keep its keys.                          *)
(***************************************************************************)

\* Rows not yet picked up have not been executed.
FreshUnclaimed == \A r \in Runs : status[r] \in {"absent", "queued"} => claims[r] = 0

\* A thread between reading a row and claiming it is alone with a run that
\* was never executed, and arq knows the job to be in progress.
LoadedAlone == \A t \in Threads : pc[t] = "loaded" =>
    /\ job[t] \in Runs /\ status[job[t]] # "absent"
    /\ claims[job[t]] = 0 /\ key[job[t]] = "running"
    /\ \A u \in Threads : pc[u] # "idle" /\ job[u] = job[t] => u = t

\* A thread past the claim works on a row that is not queued any more.
PickedUp == \A t \in Threads : pc[t] \notin {"idle", "loaded"} =>
    job[t] \in Runs /\ status[job[t]] \notin {"absent", "queued"}

Delivery == FreshUnclaimed /\ LoadedAlone /\ PickedUp /\ ExecutedOnce

LEMMA DeliveryInit == Init => Delivery
  BY DEF Init, Delivery, FreshUnclaimed, LoadedAlone, PickedUp, ExecutedOnce

\* Steps of requests insert rows nobody works on, and fail rows.
LEMMA DeliveryRequest ==
  ASSUME TypeOK, Delivery, NEW q \in Requesters, Request(q)
  PROVE  Delivery'
<1> USE DEF Delivery, FreshUnclaimed, LoadedAlone, PickedUp, ExecutedOnce, TypeOK,
            rows, worker, history, bounds
<1>1. CASE Reclaim(q)
  BY <1>1 DEF Reclaim
<1>2. ASSUME NEW r \in Runs, InsertRun(q, r) PROVE Delivery'
  BY <1>2 DEF InsertRun
<1>3. CASE Dispatch(q)
  BY <1>3 DEF Dispatch, Enqueued
<1>4. CASE \/ \E s \in Surfaces : CheckSurface(q, s)
           \/ BeginSweep(q) \/ GuardPasses(q) \/ GuardRefuses(q)
           \/ \E w \in Sweeps : OpenSweep(q, w)
           \/ \E s \in Surfaces : NextSurface(q, s)
           \/ SetTotal(q)
  <2>1. UNCHANGED <<status, key, pc, job, claims>>
    BY <1>4 DEF CheckSurface, BeginSweep, GuardPasses, GuardRefuses, OpenSweep,
                NextSurface, SetTotal
  <2>2. QED
    BY <2>1
<1>5. QED
  BY <1>1, <1>2, <1>3, <1>4 DEF Request, RequestStep

\* Steps of a thread: the claim is the only one that executes a run.
LEMMA DeliveryThread ==
  ASSUME TypeOK, Delivery, NEW t \in Threads, Thread(t)
  PROVE  Delivery'
<1> USE DEF Delivery, FreshUnclaimed, LoadedAlone, PickedUp, ExecutedOnce, TypeOK,
            rows, worker, history, bounds
<1>1. ASSUME NEW r \in Runs, StartJob(t, r) PROVE Delivery'
  BY <1>1 DEF StartJob
<1>2. ASSUME NEW r \in Runs, SkipJob(t, r) PROVE Delivery'
  BY <1>2 DEF SkipJob
<1>3. CASE Claim(t)
  BY <1>3 DEF Claim
<1>4. CASE SurfaceGone(t)
  BY <1>4 DEF SurfaceGone
<1>5. CASE ClaimRaises(t)
  BY <1>5 DEF ClaimRaises, EndJob
<1>6. ASSUME NEW result \in {"success", "failed"}, FinishRun(t, result)
      PROVE Delivery'
  BY <1>6 DEF FinishRun, EndJob
<1>7. CASE CountOutcome(t)
  BY <1>7 DEF CountOutcome
<1>8. CASE ReadBack(t) \/ CloseSweep(t)
  BY <1>8 DEF ReadBack, CloseSweep, EndJob
<1>9. QED
  BY <1>1, <1>2, <1>3, <1>4, <1>5, <1>6, <1>7, <1>8
  DEF Thread, ShortStep, FinishCheck

\* Everything else: arq, the reconciler, the environment and time.
LEMMA DeliveryRest ==
  ASSUME TypeOK, Delivery, "redis" \notin Events,
         \/ \E t \in Threads : JobTimeout(t)
         \/ \E r \in Runs : ResultExpires(r) \/ OrphanAborted(r)
         \/ Reconciler \/ Environment \/ Tick
         \/ UNCHANGED vars
  PROVE  Delivery'
<1> USE DEF Delivery, FreshUnclaimed, LoadedAlone, PickedUp, ExecutedOnce, TypeOK,
            rows, worker, history, bounds
<1>1. ASSUME NEW t \in Threads, JobTimeout(t) PROVE Delivery'
  BY <1>1 DEF JobTimeout, TimedOut
<1>2. ASSUME NEW r \in Runs, ResultExpires(r) \/ OrphanAborted(r) PROVE Delivery'
  BY <1>2 DEF ResultExpires, OrphanAborted
<1>3. CASE Reconciler
  <2>1. CASE SelectAbandoned \/ SelectUndelivered \/ SelectExpired \/ SelectStuck
    BY <2>1 DEF SelectAbandoned, SelectUndelivered, SelectExpired, SelectStuck, Select
  <2>2. CASE FailAbandoned
    BY <2>2 DEF FailAbandoned, FailSelected
  <2>3. CASE RedeliverSelected
    BY <2>3 DEF RedeliverSelected, Enqueued
  <2>4. CASE SelectOutstanding \/ CountChildren
    BY <2>4 DEF SelectOutstanding, CountChildren
  <2>5. CASE CloseExpired
    BY <2>5 DEF CloseExpired, FailSelected
  <2>6. CASE CloseStuck
    BY <2>6 DEF CloseStuck
  <2>7. QED
    BY <1>3, <2>1, <2>2, <2>3, <2>4, <2>5, <2>6 DEF Reconciler, RecWrite
<1>4. CASE Environment
  <2>1. ASSUME NEW s \in Surfaces, DeleteSurface(s) PROVE Delivery'
    BY <2>1 DEF DeleteSurface
  <2>2. ASSUME NEW q \in Requesters, DispatchFails(q) PROVE Delivery'
    BY <2>2 DEF DispatchFails, Enqueued
  <2>3. CASE RedisLoss
    BY <2>3 DEF RedisLoss, Event
  <2>4. CASE WorkerCrash
    BY <2>4 DEF WorkerCrash
  <2>5. CASE WebCrash
    BY <2>5 DEF WebCrash
  <2>6. QED
    BY <1>4, <2>1, <2>2, <2>3, <2>4, <2>5 DEF Environment
<1>5. CASE Tick
  BY <1>5 DEF Tick
<1>6. CASE UNCHANGED vars
  BY <1>6 DEF vars
<1>7. QED
  BY <1>1, <1>2, <1>3, <1>4, <1>5, <1>6

LEMMA DeliveryStep ==
  ASSUME "redis" \notin Events
  PROVE  TypeOK /\ Delivery /\ [Next]_vars => Delivery'
  BY DeliveryRequest, DeliveryThread, DeliveryRest DEF Next

\* As long as Redis keeps its keys, the pipeline is executed at most once for
\* a run: crashes of the worker and of the web process, failed dispatches,
\* redeliveries, timeouts and concurrent requests never execute it again.
THEOREM DeliveredOnce ==
  ASSUME "redis" \notin Events
  PROVE  Spec => []ExecutedOnce
<1>1. Delivery => ExecutedOnce
  BY DEF Delivery
<1>2. QED
  BY <1>1, TypeCorrect, DeliveryInit, DeliveryStep, PTL DEF Spec

(***************************************************************************)
(* RefusedByFreshRun.  What a request has seen of stale runs cannot grow   *)
(* before it comes to the guard, for time passes between requests only.    *)
(***************************************************************************)

\* Every stale run of the surface a request looks at is one it is to fail, and
\* at the guard none is left.
StaleSeen == \A q \in Requesters : req[q].pc \in {"reclaim", "guard"} =>
    /\ StaleRuns(req[q].surface) \subseteq req[q].stale
    /\ req[q].pc = "guard" => req[q].stale = {}

\* The runs of a surface that are stale after a step.
StaleNext(s) == {r \in Runs : /\ surfaceOf'[r] = s
                              /\ status'[r] \in InFlight
                              /\ age'[r] >= Stale}

\* No row becomes stale: what comes in flight is new.
NoneAges == \A s \in Surfaces \cup {NoSurface} : StaleNext(s) \subseteq StaleRuns(s)

LEMMA NoneAgesStep == TypeOK /\ Next => NoneAges \/ Tick
<1> SUFFICES ASSUME TypeOK, Next, ~Tick PROVE NoneAges
  OBVIOUS
<1> USE ThresholdsAssumption DEF TypeOK, NoneAges, StaleNext, StaleRuns, InFlight, rows, worker, history, bounds
<1>1. ASSUME NEW q \in Requesters, Request(q) PROVE NoneAges
  <2>1. CASE Reclaim(q)
    BY <2>1 DEF Reclaim
  <2>2. ASSUME NEW r \in Runs, InsertRun(q, r) PROVE NoneAges
    BY <2>2 DEF InsertRun
  <2>3. CASE UNCHANGED rows
    BY <2>3
  <2> QED
    BY <1>1, <2>1, <2>2, <2>3 DEF Request, RequestStep, CheckSurface, BeginSweep, GuardPasses,
       GuardRefuses, OpenSweep, NextSurface, SetTotal, Dispatch
<1>2. ASSUME NEW t \in Threads, Thread(t) \/ JobTimeout(t) PROVE NoneAges
  <2>1. CASE Claim(t)
    BY <2>1 DEF Claim
  <2>2. ASSUME NEW result \in {"success", "failed"}, FinishRun(t, result) PROVE NoneAges
    BY <2>2 DEF FinishRun
  <2>3. CASE UNCHANGED rows
    BY <2>3
  <2> QED
    BY <1>2, <2>1, <2>2, <2>3 DEF Thread, ShortStep, FinishCheck, StartJob, SkipJob, SurfaceGone,
       ClaimRaises, CountOutcome, ReadBack, CloseSweep, JobTimeout
<1>3. CASE Reconciler
  <2>1. CASE FailAbandoned \/ CloseExpired
    BY <2>1 DEF FailAbandoned, CloseExpired, FailSelected
  <2>2. CASE UNCHANGED rows
    BY <2>2
  <2> QED
    BY <1>3, <2>1, <2>2 DEF Reconciler, RecWrite, SelectAbandoned, SelectUndelivered, SelectExpired,
       SelectStuck, Select, RedeliverSelected, SelectOutstanding, CountChildren, CloseStuck
<1>4. CASE Environment
  <2>1. ASSUME NEW s \in Surfaces, DeleteSurface(s) PROVE NoneAges
    BY <2>1 DEF DeleteSurface
  <2>2. CASE UNCHANGED rows
    BY <2>2
  <2> QED
    BY <1>4, <2>1, <2>2 DEF Environment, DispatchFails, RedisLoss, WorkerCrash, WebCrash
<1>5. ASSUME NEW r \in Runs, ResultExpires(r) \/ OrphanAborted(r) PROVE NoneAges
  BY <1>5 DEF ResultExpires, OrphanAborted
<1> QED
  BY <1>1, <1>2, <1>3, <1>4, <1>5 DEF Next

LEMMA StaleSeenStep == TypeOK /\ StaleSeen /\ [Next]_vars => StaleSeen'
<1> SUFFICES ASSUME TypeOK, StaleSeen, [Next]_vars, NEW p \in Requesters,
                    req'[p].pc \in {"reclaim", "guard"}
             PROVE  /\ StaleNext(req'[p].surface) \subseteq req'[p].stale
                    /\ req'[p].pc = "guard" => req'[p].stale = {}
  BY DEF StaleSeen, StaleRuns, StaleNext
<1>typed. req \in [Requesters -> ReqState]
  BY DEF TypeOK
<1>idle. IdleReq.pc = "idle"
  BY DEF IdleReq
<1>same. ASSUME req'[p] = req[p], NoneAges
         PROVE  /\ StaleNext(req'[p].surface) \subseteq req'[p].stale
                /\ req'[p].pc = "guard" => req'[p].stale = {}
  <2>1. req[p].surface \in Surfaces \cup {NoSurface}
    BY <1>typed DEF ReqState
  <2> QED
    BY <1>same, <2>1 DEF StaleSeen, NoneAges
<1>looked. ASSUME NEW s \in Surfaces, NEW todo, Look(p, s, todo), UNCHANGED rows
           PROVE  /\ StaleNext(req'[p].surface) \subseteq req'[p].stale
                  /\ req'[p].pc = "guard" => req'[p].stale = {}
  <2>1. req'[p].surface = s /\ req'[p].stale = StaleRuns(s)
        /\ req'[p].pc = IF StaleRuns(s) = {} THEN "guard" ELSE "reclaim"
    BY <1>looked, <1>typed DEF Look, ReqState
  <2>2. StaleNext(s) = StaleRuns(s)
    BY <1>looked DEF StaleRuns, StaleNext, rows
  <2> QED
    BY <2>1, <2>2
<1>1. CASE Tick
  BY <1>1 DEF Tick, Resting
<1>2. CASE UNCHANGED vars
  BY <1>2, <1>same DEF vars, rows, NoneAges, StaleNext, StaleRuns
<1>3. CASE Next /\ ~Tick
  <2>1. NoneAges
    BY <1>3, NoneAgesStep
  <2>2. ASSUME NEW q \in Requesters, Request(q), req' # req
        PROVE  \/ req'[p] = req[p]
               \/ q = p
    <3>1. \E x : req' = [req EXCEPT ![q] = x]
      BY <2>2, <1>typed DEF Request, RequestStep, CheckSurface, BeginSweep, Reclaim, GuardPasses,
         GuardRefuses, InsertRun, OpenSweep, NextSurface, SetTotal, Dispatch, Look, Move
    <3> QED
      BY <3>1, <1>typed
  <2>3. CASE Request(p)
    <3>1. CASE Reclaim(p)
      <4>1. CASE req' = [req EXCEPT ![p] = IdleReq]
        BY <4>1, <1>typed, <1>idle
      <4>2. CASE /\ req' = [req EXCEPT ![p] = [@ EXCEPT !.pc = "guard", !.stale = {}]]
                 /\ status' = [r \in Runs |-> IF r \in req[p].stale THEN "failed" ELSE status[r]]
        <5>1. req'[p].pc = "guard" /\ req'[p].stale = {} /\ req'[p].surface = req[p].surface
          BY <4>2, <1>typed DEF ReqState
        <5>2. StaleNext(req[p].surface) \subseteq StaleRuns(req[p].surface)
          BY <2>1, <1>typed DEF NoneAges, ReqState
        <5>3. StaleRuns(req[p].surface) \subseteq req[p].stale
          BY <3>1 DEF Reclaim, StaleSeen
        <5>4. \A r \in StaleNext(req[p].surface) : r \notin req[p].stale
          BY <4>2 DEF StaleNext, InFlight
        <5> QED
          BY <5>1, <5>2, <5>3, <5>4
      <4> QED
        BY <3>1, <4>1, <4>2 DEF Reclaim
    <3>2. ASSUME NEW s \in Surfaces, CheckSurface(p, s)
          PROVE  /\ StaleNext(req'[p].surface) \subseteq req'[p].stale
                 /\ req'[p].pc = "guard" => req'[p].stale = {}
      BY <3>2, <1>looked DEF CheckSurface
    <3>3. ASSUME NEW s \in Surfaces, NextSurface(p, s)
          PROVE  /\ StaleNext(req'[p].surface) \subseteq req'[p].stale
                 /\ req'[p].pc = "guard" => req'[p].stale = {}
      <4>1. CASE s \in surfaces
        BY <3>3, <4>1, <1>looked DEF NextSurface
      <4>2. CASE s \notin surfaces
        BY <3>3, <4>2, <1>typed, <1>idle DEF NextSurface
      <4> QED
        BY <4>1, <4>2
    <3>4. ASSUME \/ BeginSweep(p) \/ GuardPasses(p) \/ GuardRefuses(p)
                 \/ \E r \in Runs : InsertRun(p, r)
                 \/ \E w \in Sweeps : OpenSweep(p, w)
                 \/ SetTotal(p) \/ Dispatch(p)
          PROVE  FALSE
      <4>1. ASSUME NEW R, Move(p, R) PROVE req'[p].pc \in {"idle", "dispatch", "next"}
        BY <4>1, <1>typed DEF Move, IdleReq
      <4>2. CASE BeginSweep(p)
        BY <4>2, <1>typed DEF BeginSweep, IdleReq
      <4>3. CASE GuardPasses(p)
        BY <4>3, <1>typed DEF GuardPasses, ReqState
      <4>4. CASE GuardRefuses(p)
        BY <4>4, <4>1 DEF GuardRefuses
      <4>5. ASSUME NEW r \in Runs, InsertRun(p, r) PROVE FALSE
        BY <4>5, <4>1, <1>typed, <1>idle DEF InsertRun
      <4>6. ASSUME NEW w \in Sweeps, OpenSweep(p, w) PROVE FALSE
        BY <4>6, <1>typed DEF OpenSweep, ReqState
      <4>7. CASE SetTotal(p)
        BY <4>7, <1>typed DEF SetTotal, IdleReq
      <4>8. CASE Dispatch(p)
        BY <4>8, <1>typed, <1>idle DEF Dispatch
      <4> QED
        BY <3>4, <4>2, <4>3, <4>4, <4>5, <4>6, <4>7, <4>8
    <3> QED
      BY <2>3, <3>1, <3>2, <3>3, <3>4 DEF Request, RequestStep
  <2>4. CASE ~\E q \in Requesters : Request(q)
    <3>1. req'[p] = req[p] \/ req'[p] = IdleReq
      BY <1>3, <2>4, <1>typed DEF Next, Thread, ShortStep, FinishCheck, StartJob, SkipJob, Claim, SurfaceGone,
         ClaimRaises, FinishRun, CountOutcome, ReadBack, CloseSweep, JobTimeout, ResultExpires,
         OrphanAborted, Reconciler, RecWrite, SelectAbandoned, SelectUndelivered, SelectExpired,
         SelectStuck, Select, FailAbandoned, RedeliverSelected, SelectOutstanding, CloseExpired,
         CountChildren, CloseStuck, Environment, DeleteSurface, DispatchFails, RedisLoss, WorkerCrash, WebCrash
    <3> QED
      BY <3>1, <2>1, <1>same, <1>idle
  <2> QED
    BY <2>1, <2>2, <2>3, <2>4, <1>same
<1> QED
  BY <1>1, <1>2, <1>3

\* A request is never refused on account of a stale run, whatever fails and
\* however many requests overlap.
THEOREM RefusedByFresh == Spec => RefusedByFreshRun
<1> DEFINE Fresh == \A q \in Requesters : GuardRefuses(q) =>
             \E r \in Runs : /\ surfaceOf[r] = req[q].surface /\ age[r] < Stale
                            /\ status[r] \in InFlight
<1>1. Init => StaleSeen
  BY DEF Init, StaleSeen, IdleReq
<1>2. TypeOK /\ StaleSeen => Fresh
  BY ThresholdsAssumption DEF TypeOK, StaleSeen, GuardRefuses, Blocked, StaleRuns
<1>3. Spec => [](TypeOK /\ StaleSeen)
  BY <1>1, TypeCorrect, StaleSeenStep, PTL DEF Spec
<1> QED
  BY <1>2, <1>3, PTL DEF Spec, RefusedByFreshRun

(***************************************************************************)
(* NotStacked and CheckedApart.  A run can be overtaken only where the     *)
(* code gives it up: every step that fails a row in flight is taken on     *)
(* rows that are late, and every insert beside a row in flight is of a     *)
(* request that was overtaken or happens beside late and crossed rows.     *)
(* The invariant follows a run from its insert to the end of its thread.   *)
(***************************************************************************)

\* A run that is waited for and as old as the threshold is late; so are the
\* rows the reconciler is about to fail, and all of them exist.
LateRows ==
    /\ \A r \in Runs : Kept(r) /\ age[r] >= Stale => r \in late
    /\ rec.pc = "abandon" => rec.runs \subseteq late
    /\ \A r \in Runs : r \in late \cup rec.runs => status[r] # "absent"

\* A run that is not late has the status its thread expects, and its own thread.
LateThreads ==
    /\ \A t \in Threads : pc[t] = "loaded" =>
         status[job[t]] \in {"queued", "deleted"} \/ job[t] \in late
    /\ \A t \in Threads : Checking(t) =>
         status[job[t]] \in {"running", "deleted"} \/ job[t] \in late
    /\ \A t, u \in Threads : pc[t] # "idle" /\ pc[u] # "idle" /\ job[t] = job[u] => t = u
    /\ \A t \in Threads : pc[t] = "idle" => job[t] = NoRun

\* Rows are deleted with their surface.
RowsOfSurfaces == \A r \in Runs :
    /\ status[r] = "deleted" => surfaceOf[r] \notin surfaces
    /\ status[r] \notin {"absent", "deleted"} => surfaceOf[r] \in surfaces

\* A request fails late rows only, and inserts beside excused rows only, unless
\* it was overtaken.
LateRequest(q) ==
    /\ req[q].pc # "idle" => req[q].stale \subseteq late
    /\ req[q].pc = "insert" =>
         \/ q \in overtaken
         \/ \A r \in Runs : status[r] \in InFlight /\ surfaceOf[r] = req[q].surface => Excused(r)

RowsLate == LateRows /\ LateThreads /\ RowsOfSurfaces /\ NotStacked /\ CheckedApart
LateInv == RowsLate /\ \A q \in Requesters : LateRequest(q)

LEMMA LateInit == Init => LateInv
  BY ThresholdsAssumption
  DEF Init, LateInv, RowsLate, LateRows, LateThreads, RowsOfSurfaces, LateRequest, NotStacked, CheckedApart,
      Checking, Kept, IdleReq, IdleRec, InFlight

\* A step that puts nothing in flight, takes up no run, and fails or ends none
\* that is neither late nor its thread's.
LEMMA LateKept ==
  ASSUME TypeOK, LateInv,
         UNCHANGED <<surfaceOf, age, surfaces, crossed>>,
         late \subseteq late',
         \A r \in Runs : r \in late' \cup rec'.runs => status[r] # "absent",
         rec'.pc = "abandon" => rec'.runs \subseteq late',
         \A r \in Runs : \/ status'[r] = status[r]
                         \/ /\ status[r] \notin {"absent", "deleted"}
                            /\ status'[r] \notin InFlight \cup {"absent", "deleted"},
         \A t \in Threads : \/ pc'[t] = pc[t] /\ job'[t] = job[t]
                            \/ pc'[t] = "idle" /\ job'[t] = NoRun
                            \/ /\ pc[t] # "idle" /\ job'[t] = job[t]
                               /\ pc'[t] \notin {"idle", "loaded", "checking"},
         \A t \in Threads : pc'[t] \in {"loaded", "checking"} =>
            job[t] \in Runs /\ (status'[job[t]] = status[job[t]] \/ job[t] \in late')
  PROVE  /\ RowsLate'
         /\ \A q \in Requesters : req'[q] = req[q] /\ (q \in overtaken => q \in overtaken')
                                    => LateRequest(q)'
<1> USE DEF LateInv, RowsLate
<1>excused. \A r : Excused(r) => Excused(r)'
  BY DEF Excused
<1>held. \A t \in Threads : job'[t] \in Runs => job'[t] = job[t]
  BY BoundsAssumption
<1>1. LateRows'
  <2>1. \A r \in Runs : Kept(r)' => Kept(r)
    BY <1>held DEF Kept, InFlight
  <2> QED
    BY <2>1 DEF LateRows
<1>2. LateThreads'
  BY DEF LateThreads, Checking
<1>3. RowsOfSurfaces'
  BY DEF RowsOfSurfaces
<1>4. ASSUME NEW q \in Requesters, req'[q] = req[q], q \in overtaken => q \in overtaken'
      PROVE  LateRequest(q)'
  BY <1>4, <1>excused DEF LateRequest, InFlight
<1>5. NotStacked'
  BY <1>excused DEF NotStacked, InFlight
<1>6. CheckedApart'
  BY <1>excused DEF CheckedApart, Checking
<1> QED
  BY <1>1, <1>2, <1>3, <1>4, <1>5, <1>6

LEMMA LateOfRequest ==
  ASSUME TypeOK, Delivery, LateInv, NEW q \in Requesters, Request(q)
  PROVE  LateInv'
<1> USE ThresholdsAssumption DEF LateInv, RowsLate, rows, worker, history, bounds
<1>typed. /\ req \in [Requesters -> ReqState] /\ req[q] \in ReqState
          /\ status \in [Runs -> RowStates]
          /\ surfaceOf \in [Runs -> Surfaces \cup {NoSurface}]
          /\ age \in [Runs -> 0..Abandon]
          /\ late \subseteq Runs
  BY DEF TypeOK
<1>idle. IdleReq.pc = "idle"
  BY DEF IdleReq
<1>frame. ASSUME UNCHANGED <<rows, worker, rec, history>>, LateRequest(q)',
                 \A p \in Requesters : p # q => req'[p] = req[p]
          PROVE  LateInv'
  <2>1. \A p \in Requesters : LateRequest(p)'
    <3> SUFFICES ASSUME NEW p \in Requesters, p # q PROVE LateRequest(p)'
      BY <1>frame
    <3> QED
      BY <1>frame DEF LateRequest, Excused
  <2>2. LateRows' /\ LateThreads' /\ RowsOfSurfaces'
    BY <1>frame DEF LateRows, LateThreads, RowsOfSurfaces, Kept, Checking
  <2>3. NotStacked' /\ CheckedApart'
    BY <1>frame DEF NotStacked, CheckedApart, Checking, Excused
  <2> QED
    BY <2>1, <2>2, <2>3
<1>looked. ASSUME NEW s \in Surfaces, NEW todo, Look(q, s, todo), UNCHANGED <<rows, worker, rec, history>>
           PROVE  LateInv'
  <2>1. /\ req'[q].pc \in {"guard", "reclaim"} /\ req'[q].stale = StaleRuns(s)
        /\ \A p \in Requesters : p # q => req'[p] = req[p]
    BY <1>looked, <1>typed DEF Look, ReqState
  <2>2. StaleRuns(s) \subseteq late
    BY DEF StaleRuns, LateRows, Kept
  <2> QED
    BY <1>looked, <1>frame, <2>1, <2>2 DEF LateRequest
<1>moved. ASSUME NEW R, Move(q, R)
          PROVE  /\ req'[q].pc \in {"idle", "dispatch", "next"} /\ req'[q].stale = {}
                 /\ \A p \in Requesters : p # q => req'[p] = req[p]
  BY <1>moved, <1>typed DEF Move, IdleReq
<1>1. ASSUME NEW s \in Surfaces, CheckSurface(q, s) PROVE LateInv'
  BY <1>1, <1>looked DEF CheckSurface
<1>2. ASSUME NEW s \in Surfaces, NextSurface(q, s) PROVE LateInv'
  <2>1. CASE s \in surfaces
    BY <1>2, <2>1, <1>looked DEF NextSurface
  <2>2. CASE s \notin surfaces
    BY <1>2, <2>2, <1>frame, <1>idle, <1>typed DEF NextSurface, LateRequest
  <2> QED
    BY <2>1, <2>2
<1>3. CASE BeginSweep(q)
  <2>1. /\ req'[q].pc = "open" /\ req'[q].stale = {} /\ UNCHANGED <<rows, worker, rec, history>>
        /\ \A p \in Requesters : p # q => req'[p] = req[p]
    BY <1>3, <1>typed DEF BeginSweep, IdleReq
  <2> QED
    BY <2>1, <1>frame DEF LateRequest
<1>4. ASSUME NEW w \in Sweeps, OpenSweep(q, w) PROVE LateInv'
  <2>1. /\ req[q].pc = "open" /\ req'[q].pc = "next" /\ req'[q].stale = req[q].stale
        /\ UNCHANGED <<rows, worker, rec, history>>
        /\ \A p \in Requesters : p # q => req'[p] = req[p]
    BY <1>4, <1>typed DEF OpenSweep, ReqState
  <2> QED
    BY <2>1, <1>frame DEF LateRequest
<1>5. CASE GuardPasses(q)
  <2>1. /\ req[q].pc = "guard" /\ req'[q].pc = "insert" /\ req'[q].stale = req[q].stale
        /\ req'[q].surface = req[q].surface /\ ~Blocked(req[q].surface)
        /\ UNCHANGED <<rows, worker, rec, history>>
        /\ \A p \in Requesters : p # q => req'[p] = req[p]
    BY <1>5, <1>typed DEF GuardPasses, ReqState
  <2> QED
    BY <2>1, <1>frame DEF LateRequest, Blocked
<1>6. CASE GuardRefuses(q)
  BY <1>6, <1>moved, <1>frame DEF GuardRefuses, LateRequest
<1>7. CASE SetTotal(q) \/ Dispatch(q)
  <2>1. /\ req'[q].pc \in {"idle", "dispatch"} /\ req'[q].stale = {}
        /\ UNCHANGED <<rows, worker, rec, history>>
        /\ \A p \in Requesters : p # q => req'[p] = req[p]
    <3>1. CASE SetTotal(q)
      BY <1>typed, <3>1 DEF SetTotal, IdleReq
    <3>2. CASE Dispatch(q)
      BY <1>typed, <3>2 DEF Dispatch, IdleReq
    <3> QED
      BY <1>7, <3>1, <3>2
  <2> QED
    BY <2>1, <1>frame DEF LateRequest
<1>8. CASE Reclaim(q)
  <2>1. CASE req' = [req EXCEPT ![q] = IdleReq] /\ UNCHANGED status
    BY <1>8, <2>1, <1>frame, <1>idle, <1>typed DEF Reclaim, LateRequest
  <2>2. CASE /\ req' = [req EXCEPT ![q] = [@ EXCEPT !.pc = "guard", !.stale = {}]]
             /\ status' = [r \in Runs |-> IF r \in req[q].stale THEN "failed" ELSE status[r]]
    <3>1. /\ req'[q].pc = "guard" /\ req'[q].stale = {}
          /\ \A p \in Requesters : p # q => req'[p] = req[p]
      BY <2>2, <1>typed DEF ReqState
    <3>2. req[q].stale \subseteq late /\ \A r \in req[q].stale : status[r] # "deleted"
      BY <1>8, <2>2, <1>idle, <1>typed DEF Reclaim, LateRequest
    <3>3. \A r \in req[q].stale : r \in Runs /\ status[r] # "absent"
      BY <3>2, <1>typed DEF LateRows
    <3>4. \A t \in Threads : pc[t] \in {"loaded", "checking"} => job[t] \in Runs
      BY DEF Delivery, LoadedAlone, PickedUp
    <3>5. /\ RowsLate'
          /\ \A p \in Requesters : req'[p] = req[p] /\ (p \in overtaken => p \in overtaken')
                                     => LateRequest(p)'
      <4>1. \A r \in Runs : r \in late' \cup rec'.runs => status[r] # "absent"
        BY <1>8 DEF Reclaim, LateRows
      <4>2. \A r \in Runs : status'[r] = status[r] \/ (r \in late /\ status'[r] = "failed")
        BY <2>2, <3>2
      <4>3. rec'.pc = "abandon" => rec'.runs \subseteq late'
        BY <1>8 DEF Reclaim, LateRows
      <4> HIDE DEF LateInv, RowsLate
      <4> QED
        BY <1>8, <2>2, <3>2, <3>3, <3>4, <4>1, <4>2, <4>3, LateKept DEF Reclaim, InFlight
    <3>6. LateRequest(q)'
      BY <3>1 DEF LateRequest
    <3> QED
      BY <1>8, <3>1, <3>5, <3>6 DEF Reclaim
  <2> QED
    BY <1>8, <2>1, <2>2 DEF Reclaim
<1>9. ASSUME NEW r \in Runs, InsertRun(q, r) PROVE LateInv'
  <2>1. CASE req[q].surface \notin surfaces
    <3>1. /\ req'[q] = IdleReq /\ \A p \in Requesters : p # q => req'[p] = req[p]
          /\ overtaken' = overtaken \ {q} /\ UNCHANGED <<rows, worker, rec, late, crossed>>
      BY <1>9, <2>1, <1>typed DEF InsertRun
    <3>2. \A p \in Requesters : LateRequest(p)'
      BY <3>1, <1>idle DEF LateRequest, Excused
    <3>3. RowsLate'
      BY <3>1 DEF LateRows, LateThreads, RowsOfSurfaces, Kept, Checking, NotStacked, CheckedApart,
                  Excused
    <3> QED
      BY <3>2, <3>3
  <2>2. CASE req[q].surface \in surfaces
    <3> DEFINE s == req[q].surface
    <3>1. /\ req[q].pc = "insert" /\ status[r] = "absent"
          /\ status' = [status EXCEPT ![r] = "queued"]
          /\ surfaceOf' = [surfaceOf EXCEPT ![r] = s] /\ age' = [age EXCEPT ![r] = 0]
          /\ crossed' = (IF q \in overtaken /\ Blocked(s) THEN crossed \cup {r} ELSE crossed)
          /\ \A p \in Requesters : p # q /\ (p \in overtaken \/ Waits(p, s)) => p \in overtaken'
          /\ UNCHANGED <<surfaces, worker, rec, late>>
      BY <1>9, <2>2 DEF InsertRun
    <3>2. /\ req'[q].pc # "insert" /\ req'[q].stale = {}
          /\ \A p \in Requesters : p # q => req'[p] = req[p]
      BY <1>9, <2>2, <1>moved DEF InsertRun
    <3>3. \A t \in Threads : /\ pc[t] # "idle" => job[t] \in Runs /\ job[t] # r
                             /\ pc[t] = "idle" => job[t] # r
      BY <3>1, BoundsAssumption DEF Delivery, LoadedAlone, PickedUp, LateThreads
    <3>excused. \A x : Excused(x) => Excused(x)'
      BY <3>1 DEF Excused
    <3>4. \A p \in Requesters : LateRequest(p)'
      <4> SUFFICES ASSUME NEW p \in Requesters, p # q PROVE LateRequest(p)'
        BY <3>2 DEF LateRequest
      <4>1. CASE Waits(p, s)
        BY <3>1, <3>2, <4>1 DEF LateRequest
      <4>2. CASE ~Waits(p, s)
        BY <3>1, <3>2, <3>excused, <4>2, <1>typed DEF LateRequest, Waits, InFlight
      <4> QED
        BY <4>1, <4>2
    <3>5. LateRows'
      BY <3>1, <3>3, <1>typed DEF LateRows, Kept, InFlight
    <3>6. LateThreads'
      BY <3>1, <3>3, <1>typed DEF LateThreads, Checking
    <3>7. RowsOfSurfaces'
      BY <3>1, <2>2, <1>typed DEF RowsOfSurfaces
    <3>8. ASSUME NEW x \in Runs, x # r, status[x] \in InFlight, surfaceOf[x] = s
          PROVE  Excused(x)' \/ Excused(r)'
      <4>1. CASE q \in overtaken
        BY <3>1, <3>8, <4>1 DEF Blocked, Excused
      <4>2. CASE q \notin overtaken
        BY <3>1, <3>8, <3>excused, <4>2 DEF LateRequest
      <4> QED
        BY <4>1, <4>2
    <3>9. NotStacked'
      BY <3>1, <3>8, <3>excused, <1>typed DEF NotStacked
    <3>10. CheckedApart'
      BY <3>1, <3>3, <3>excused, <1>typed DEF CheckedApart, Checking
    <3> QED
      BY <3>4, <3>5, <3>6, <3>7, <3>9, <3>10
  <2> QED
    BY <2>1, <2>2
<1> QED
  BY <1>1, <1>2, <1>3, <1>4, <1>5, <1>6, <1>7, <1>8, <1>9 DEF Request, RequestStep

LEMMA LateOfThread ==
  ASSUME TypeOK, Delivery, LateInv, NEW t \in Threads, Thread(t) \/ JobTimeout(t)
  PROVE  LateInv'
<1> USE ThresholdsAssumption DEF rows, worker, history, bounds
<1>typed. /\ status \in [Runs -> RowStates] /\ pc \in [Threads -> {"idle", "loaded", "checking",
                                                     "counting", "reading", "closing"}]
          /\ job \in [Threads -> Runs \cup {NoRun}] /\ age \in [Runs -> 0..Abandon]
  BY DEF TypeOK
<1>held. \A u \in Threads : pc[u] # "idle" => job[u] \in Runs /\ status[job[u]] # "absent"
  BY DEF Delivery, LoadedAlone, PickedUp
<1>rows. /\ \A r \in Runs : r \in late \cup rec.runs => status[r] # "absent"
         /\ rec.pc = "abandon" => rec.runs \subseteq late
  BY DEF LateInv, RowsLate, LateRows
<1>apart. /\ \A u, v \in Threads : pc[u] # "idle" /\ pc[v] # "idle" /\ job[u] = job[v] => u = v
          /\ \A u \in Threads : pc[u] = "idle" => job[u] = NoRun
  BY DEF LateInv, RowsLate, LateThreads
<1>1. ASSUME NEW r \in Runs, StartJob(t, r) PROVE LateInv'
  <2>1. /\ pc[t] = "idle" /\ key[r] = "queued" /\ status[r] = "queued"
        /\ pc' = [pc EXCEPT ![t] = "loaded"] /\ job' = [job EXCEPT ![t] = r]
        /\ UNCHANGED <<rows, req, rec, history>>
    BY <1>1 DEF StartJob
  <2>2. \A u \in Threads : pc[u] # "idle" => job[u] # r
    BY <2>1 DEF Delivery, LoadedAlone, PickedUp
  <2>3. LateThreads'
    BY <2>1, <2>2, <1>apart, <1>typed DEF LateInv, RowsLate, LateThreads, Checking
  <2>4. LateRows'
    <3>1. \A x \in Runs : Kept(x)' => Kept(x)
      BY <2>1, <1>typed DEF Kept, InFlight
    <3> QED
      BY <2>1, <3>1 DEF LateInv, RowsLate, LateRows
  <2>5. CheckedApart'
    BY <2>1, <1>typed DEF LateInv, RowsLate, CheckedApart, Checking, Excused
  <2> QED
    BY <2>1, <2>3, <2>4, <2>5 DEF LateInv, RowsLate, RowsOfSurfaces, NotStacked, LateRequest, Excused
<1>2. ASSUME NEW r \in Runs, SkipJob(t, r) PROVE LateInv'
  BY <1>2, <1>held, <1>rows, LateKept DEF SkipJob, LateInv
<1>3. CASE Claim(t)
  <2> DEFINE r == job[t]
  <2>1. /\ pc[t] = "loaded" /\ r \in Runs /\ status[r] \notin {"absent", "deleted"}
        /\ status' = [status EXCEPT ![r] = "running"] /\ age' = [age EXCEPT ![r] = 0]
        /\ pc' = [pc EXCEPT ![t] = "checking"]
        /\ UNCHANGED <<surfaceOf, surfaces, job, req, rec, late, crossed, overtaken>>
    BY <1>3, <1>held DEF Claim
  <2>2. status[r] = "queued" \/ r \in late
    BY <2>1 DEF LateInv, RowsLate, LateThreads
  <2>3. \A u \in Threads : u # t /\ pc[u] # "idle" => job[u] # r
    BY <2>1, <1>apart
  <2>4. LateRows'
    BY <2>1, <1>typed, <1>rows DEF LateInv, RowsLate, LateRows, Kept, InFlight
  <2>5. LateThreads'
    BY <2>1, <2>3, <1>typed, <1>apart, <1>held DEF LateInv, RowsLate, LateThreads, Checking
  <2>6. RowsOfSurfaces'
    BY <2>1, <1>typed DEF LateInv, RowsLate, RowsOfSurfaces
  <2>7. NotStacked'
    BY <2>1, <2>2, <1>typed DEF LateInv, RowsLate, NotStacked, InFlight, Excused
  <2>8. CheckedApart'
    <3> SUFFICES ASSUME NEW u \in Threads, u # t, Checking(u), surfaceOf[job[u]] = surfaceOf[r]
                 PROVE  Excused(job[u]) \/ Excused(r)
      <4>1. \A u, v \in Threads : u # t /\ v # t /\ Checking(u) /\ Checking(v) /\ u # v
               /\ surfaceOf[job[u]] = surfaceOf[job[v]] => Excused(job[u]) \/ Excused(job[v])
        BY DEF LateInv, RowsLate, CheckedApart
      <4>2. \A u \in Threads : Checking(u)' <=> u = t \/ Checking(u)
        BY <2>1, <1>typed DEF Checking
      <4> QED
        BY <2>1, <4>1, <4>2 DEF CheckedApart, Excused
    <3>1. job[u] \in Runs /\ job[u] # r /\ pc[u] # "idle"
      BY <2>3, <1>held DEF Checking
    <3>2. status[job[u]] = "running" \/ job[u] \in late
      <4>1. surfaceOf[r] \in surfaces
        BY <2>1 DEF LateInv, RowsLate, RowsOfSurfaces
      <4>2. status[job[u]] # "deleted"
        BY <3>1, <4>1 DEF LateInv, RowsLate, RowsOfSurfaces
      <4> QED
        BY <4>2 DEF LateInv, RowsLate, LateThreads
    <3>3. CASE status[job[u]] = "running" /\ status[r] = "queued"
      BY <2>1, <3>1, <3>3 DEF LateInv, RowsLate, NotStacked, InFlight
    <3> QED
      BY <2>2, <3>2, <3>3 DEF Excused
  <2>9. \A q \in Requesters : LateRequest(q)'
    BY <2>1, <2>2, <1>typed DEF LateInv, LateRequest, InFlight, Excused
  <2> QED
    BY <2>4, <2>5, <2>6, <2>7, <2>8, <2>9 DEF LateInv, RowsLate
<1>4. ASSUME NEW result \in {"success", "failed"}, FinishRun(t, result) PROVE LateInv'
  <2>1. /\ pc[t] = "checking"
        /\ status' = [status EXCEPT ![job[t]] = IF @ = "deleted" THEN "deleted" ELSE result]
        /\ UNCHANGED <<surfaceOf, age, surfaces, req, rec, history>>
        /\ \/ pc'[t] = "idle" /\ job'[t] = NoRun
           \/ pc'[t] = "counting" /\ job'[t] = job[t]
        /\ \A u \in Threads : u # t => pc'[u] = pc[u] /\ job'[u] = job[u]
    BY <1>4, <1>typed DEF FinishRun, EndJob
  <2>2. \A u \in Threads : u # t /\ pc[u] # "idle" => job[u] \in Runs /\ job[u] # job[t]
    BY <2>1, <1>apart, <1>held
  <2>3. \A r \in Runs : \/ status'[r] = status[r]
                        \/ /\ status[r] \notin {"absent", "deleted"}
                           /\ status'[r] \notin InFlight \cup {"absent", "deleted"}
    BY <2>1, <1>held, <1>typed DEF InFlight
  <2>4. \A u \in Threads : pc'[u] \in {"loaded", "checking"} =>
          job[u] \in Runs /\ (status'[job[u]] = status[job[u]] \/ job[u] \in late')
    BY <2>1, <2>2, <1>typed
  <2>5. \A u \in Threads : \/ pc'[u] = pc[u] /\ job'[u] = job[u]
                           \/ pc'[u] = "idle" /\ job'[u] = NoRun
                           \/ /\ pc[u] # "idle" /\ job'[u] = job[u]
                              /\ pc'[u] \notin {"idle", "loaded", "checking"}
    BY <2>1
  <2>6. /\ RowsLate'
        /\ \A q \in Requesters : req'[q] = req[q] /\ (q \in overtaken => q \in overtaken')
                                   => LateRequest(q)'
    BY <2>1, <2>3, <2>4, <2>5, <1>rows, LateKept
  <2> QED
    BY <2>1, <2>6 DEF LateInv
<1>5. CASE SurfaceGone(t) \/ ClaimRaises(t) \/ CountOutcome(t) \/ ReadBack(t) \/ CloseSweep(t)
  <2>1. /\ pc[t] # "idle" /\ UNCHANGED <<rows, req, rec, history>>
        /\ \/ pc'[t] = "idle" /\ job'[t] = NoRun
           \/ pc'[t] \in {"counting", "reading", "closing"} /\ job'[t] = job[t]
        /\ \A u \in Threads : u # t => pc'[u] = pc[u] /\ job'[u] = job[u]
    BY <1>5, <1>typed DEF SurfaceGone, ClaimRaises, CountOutcome, ReadBack, CloseSweep, EndJob
  <2>2. \A u \in Threads : \/ pc'[u] = pc[u] /\ job'[u] = job[u]
                           \/ pc'[u] = "idle" /\ job'[u] = NoRun
                           \/ /\ pc[u] # "idle" /\ job'[u] = job[u]
                              /\ pc'[u] \notin {"idle", "loaded", "checking"}
    BY <2>1
  <2>3. \A u \in Threads : pc'[u] \in {"loaded", "checking"} => job[u] \in Runs
    BY <2>1, <1>held
  <2>4. /\ RowsLate'
        /\ \A q \in Requesters : req'[q] = req[q] /\ (q \in overtaken => q \in overtaken')
                                   => LateRequest(q)'
    BY <2>1, <2>2, <2>3, <1>rows, LateKept
  <2> QED
    BY <2>1, <2>4 DEF LateInv
<1>6. CASE JobTimeout(t)
  BY <1>6, <1>held, <1>rows, LateKept DEF JobTimeout, LateInv
<1> QED
  BY <1>1, <1>2, <1>3, <1>4, <1>5, <1>6 DEF Thread, ShortStep, FinishCheck

LEMMA LateOfRest ==
  ASSUME TypeOK, Delivery, LateInv,
         \/ \E r \in Runs : ResultExpires(r) \/ OrphanAborted(r)
         \/ Reconciler \/ Environment \/ Tick
         \/ UNCHANGED vars
  PROVE  LateInv'
<1> USE ThresholdsAssumption DEF rows, worker, history, bounds
<1>typed. /\ status \in [Runs -> RowStates] /\ age \in [Runs -> 0..Abandon]
          /\ surfaceOf \in [Runs -> Surfaces \cup {NoSurface}]
          /\ pc \in [Threads -> {"idle", "loaded", "checking", "counting", "reading", "closing"}]
          /\ req \in [Requesters -> ReqState] /\ rec.runs \subseteq Runs
  BY DEF TypeOK, RecOK
<1>held. \A u \in Threads : pc[u] # "idle" => job[u] \in Runs /\ status[job[u]] # "absent"
  BY DEF Delivery, LoadedAlone, PickedUp
<1>inv. LateRows /\ LateThreads /\ RowsOfSurfaces /\ NotStacked /\ CheckedApart
        /\ \A q \in Requesters : LateRequest(q)
  BY DEF LateInv, RowsLate
\* Steps that touch no row, no thread and no request.
<1>calm. ASSUME UNCHANGED <<rows, pc, job, req, rec, late, crossed, overtaken>>
         PROVE  LateInv'
  BY <1>calm DEF LateInv, RowsLate, LateRows, LateThreads, RowsOfSurfaces, NotStacked, CheckedApart,
     LateRequest, Excused, Checking, Kept
\* Steps of the reconciler, and crashes: rows fail, threads and requests go.
<1>less. ASSUME UNCHANGED <<surfaceOf, age, surfaces, crossed>>,
                late \subseteq late', late' \subseteq late \cup rec.runs,
                rec'.runs \subseteq Runs,
                \A r \in rec'.runs : status[r] # "absent",
                rec'.pc = "abandon" => rec'.runs \subseteq late',
                \A r \in Runs : \/ status'[r] = status[r]
                                \/ /\ r \in late' /\ status'[r] = "failed"
                                   /\ status[r] \notin {"absent", "deleted"},
                \/ UNCHANGED <<pc, job>>
                \/ \A t \in Threads : pc'[t] = "idle" /\ job'[t] = NoRun,
                \/ UNCHANGED <<req, overtaken>>
                \/ \A q \in Requesters : req'[q] = IdleReq
         PROVE  LateInv'
  <2>1. \A r \in Runs : r \in late' \cup rec'.runs => status[r] # "absent"
    BY <1>less, <1>inv DEF LateRows
  <2>2. \A t \in Threads : pc'[t] \in {"loaded", "checking"} =>
          job[t] \in Runs /\ (status'[job[t]] = status[job[t]] \/ job[t] \in late')
    BY <1>less, <1>held
  <2>3. \A r \in Runs : \/ status'[r] = status[r]
                        \/ /\ status[r] \notin {"absent", "deleted"}
                           /\ status'[r] \notin InFlight \cup {"absent", "deleted"}
    BY <1>less DEF InFlight
  <2>4. \A t \in Threads : \/ pc'[t] = pc[t] /\ job'[t] = job[t]
                           \/ pc'[t] = "idle" /\ job'[t] = NoRun
                           \/ /\ pc[t] # "idle" /\ job'[t] = job[t]
                              /\ pc'[t] \notin {"idle", "loaded", "checking"}
    BY <1>less
  <2>5. /\ RowsLate'
        /\ \A q \in Requesters : req'[q] = req[q] /\ (q \in overtaken => q \in overtaken')
                                   => LateRequest(q)'
    BY <1>less, <2>1, <2>2, <2>3, <2>4, LateKept
  <2>6. ASSUME NEW q \in Requesters PROVE LateRequest(q)'
    <3>1. CASE req'[q] = IdleReq
      BY <3>1 DEF LateRequest, IdleReq
    <3>2. CASE UNCHANGED <<req, overtaken>>
      BY <2>5, <3>2
    <3> QED
      BY <1>less, <3>1, <3>2
  <2> QED
    BY <2>5, <2>6 DEF LateInv
<1>1. ASSUME NEW r \in Runs, ResultExpires(r) \/ OrphanAborted(r) PROVE LateInv'
  BY <1>1, <1>calm DEF ResultExpires, OrphanAborted
<1>2. CASE Reconciler
  <2>idle. IdleRec.pc = "idle" /\ IdleRec.runs = {}
    BY DEF IdleRec
  <2>rows. /\ \A r \in Runs : r \in late \cup rec.runs => status[r] # "absent"
           /\ rec.pc = "abandon" => rec.runs \subseteq late
    BY <1>inv DEF LateRows
  <2>1. CASE SelectAbandoned
    <3>1. Abandoned \subseteq late /\ \A r \in Abandoned : status[r] # "absent" /\ r \in Runs
      BY <1>inv, <1>typed DEF Abandoned, LateRows, Kept, InFlight
    <3>2. rec'.runs = Abandoned /\ UNCHANGED <<rows, worker, req, history>>
      BY <2>1 DEF SelectAbandoned, Select
    <3> QED
      BY <3>1, <3>2, <1>less
  <2>2. CASE SelectUndelivered
    <3>1. \A r \in Undelivered : status[r] # "absent" /\ r \in Runs
      BY DEF Undelivered
    <3>2. rec'.runs = Undelivered /\ rec'.pc = "redeliver" /\ UNCHANGED <<rows, worker, req, history>>
      BY <2>2 DEF SelectUndelivered, Select
    <3> QED
      BY <3>1, <3>2, <1>less
  <2>3. CASE SelectExpired \/ SelectStuck
    <3>1. rec'.runs = {} /\ rec'.pc # "abandon" /\ UNCHANGED <<rows, worker, req, history>>
      BY <2>3 DEF SelectExpired, SelectStuck, Select
    <3> QED
      BY <3>1, <1>less
  <2>4. CASE FailAbandoned
    <3>1. /\ rec.runs \subseteq late /\ rec' = IdleRec
          /\ UNCHANGED <<surfaceOf, age, surfaces, worker, req, history>>
      BY <2>4, <2>rows DEF FailAbandoned
    <3>2. \A r \in Runs : \/ status'[r] = status[r]
                          \/ /\ r \in rec.runs /\ status'[r] = "failed"
                             /\ status[r] \notin {"absent", "deleted"}
      BY <2>4, <2>rows DEF FailAbandoned, FailSelected, Gone
    <3> QED
      BY <3>1, <3>2, <2>idle, <1>less
  <2>5. CASE CloseExpired
    <3>1. /\ rec' = IdleRec /\ UNCHANGED <<surfaceOf, age, surfaces, worker, req, crossed, overtaken>>
          /\ late' = IF Gone THEN late ELSE late \cup rec.runs
      BY <2>5 DEF CloseExpired
    <3>2. \A r \in Runs : \/ status'[r] = status[r]
                          \/ /\ r \in late' /\ status'[r] = "failed"
                             /\ status[r] \notin {"absent", "deleted"}
      BY <2>5, <3>1, <2>rows DEF CloseExpired, FailSelected, Gone
    <3> QED
      BY <3>1, <3>2, <2>idle, <1>less
  <2>6. CASE SelectOutstanding
    <3>1. /\ rec'.pc = "boundary" /\ \A r \in rec'.runs : r \in Runs /\ status[r] # "absent"
          /\ UNCHANGED <<rows, worker, req, history>>
      BY <2>6 DEF SelectOutstanding, Outstanding, Children, TypeOK, RecOK
    <3> QED
      BY <3>1, <1>less
  <2>7. CASE RedeliverSelected \/ CloseStuck
    <3>1. rec' = IdleRec /\ UNCHANGED <<rows, worker, req, history>>
      BY <2>7 DEF RedeliverSelected, CloseStuck
    <3> QED
      BY <3>1, <2>idle, <1>less
  <2>8. CASE CountChildren
    <3>1. /\ rec'.pc = "resolved" /\ rec'.runs = rec.runs /\ UNCHANGED <<rows, worker, req, history>>
      BY <2>8 DEF CountChildren, TypeOK, RecOK
    <3> QED
      BY <3>1, <2>rows, <1>typed, <1>less
  <2> QED
    BY <1>2, <2>1, <2>2, <2>3, <2>4, <2>5, <2>6, <2>7, <2>8 DEF Reconciler, RecWrite
<1>3. CASE Environment
  <2>rows. /\ \A r \in Runs : r \in late \cup rec.runs => status[r] # "absent"
           /\ rec.pc = "abandon" => rec.runs \subseteq late
    BY <1>inv DEF LateRows
  <2>1. ASSUME NEW s \in Surfaces, DeleteSurface(s) PROVE LateInv'
    <3>1. /\ surfaces' = surfaces \ {s}
          /\ status' = [r \in Runs |-> IF surfaceOf[r] = s THEN "deleted" ELSE status[r]]
          /\ UNCHANGED <<surfaceOf, age, worker, req, rec, history>>
      BY <2>1 DEF DeleteSurface
    <3>2. LateRows' /\ LateThreads' /\ RowsOfSurfaces'
      BY <3>1, <1>inv, <1>held DEF LateRows, LateThreads, RowsOfSurfaces, Kept, Checking, InFlight
    <3>3. NotStacked' /\ CheckedApart'
      BY <3>1, <1>inv DEF NotStacked, CheckedApart, Checking, Excused, InFlight
    <3>4. \A q \in Requesters : LateRequest(q)'
      BY <3>1, <1>inv DEF LateRequest, Excused, InFlight
    <3> QED
      BY <3>2, <3>3, <3>4 DEF LateInv, RowsLate
  <2>2. ASSUME NEW q \in Requesters, DispatchFails(q) PROVE LateInv'
    <3>1. /\ req'[q] = IdleReq /\ \A p \in Requesters : p # q => req'[p] = req[p]
          /\ UNCHANGED <<rows, worker, rec, history>>
      BY <2>2, <1>typed DEF DispatchFails
    <3>2. \A p \in Requesters : LateRequest(p)'
      BY <3>1, <1>inv DEF LateRequest, IdleReq, Excused
    <3>3. RowsLate'
      BY <3>1, <1>inv DEF RowsLate, LateRows, LateThreads, RowsOfSurfaces, Kept, Checking, NotStacked,
         CheckedApart, Excused
    <3> QED
      BY <3>2, <3>3 DEF LateInv
  <2>3. CASE RedisLoss
    BY <2>3, <1>calm DEF RedisLoss
  <2>4. CASE WorkerCrash
    <3>1. /\ \A t \in Threads : pc'[t] = "idle" /\ job'[t] = NoRun
          /\ UNCHANGED <<rows, req, rec, history>>
      BY <2>4 DEF WorkerCrash
    <3> QED
      BY <3>1, <2>rows, <1>typed, <1>less
  <2>5. CASE WebCrash
    <3>1. /\ \A q \in Requesters : req'[q] = IdleReq
          /\ rec'.runs = {} /\ rec'.pc = "idle" /\ UNCHANGED <<rows, worker, late, crossed>>
      BY <2>5 DEF WebCrash, IdleRec
    <3> QED
      BY <3>1, <1>less
  <2> QED
    BY <1>3, <2>1, <2>2, <2>3, <2>4, <2>5 DEF Environment
<1>4. CASE Tick
  <2>1. /\ Resting /\ UNCHANGED <<status, surfaceOf, surfaces, worker, req, rec, crossed, overtaken>>
        /\ late' = {r \in Runs : Kept(r) /\ (r \in late \/ age'[r] >= Stale)}
        /\ \A r \in Runs : ~Kept(r) => age'[r] = 0
    BY <1>4 DEF Tick
  <2>2. \A r \in Runs : Kept(r)' <=> Kept(r)
    BY <2>1 DEF Kept
  <2>3. /\ rec.pc = "idle" /\ \A q \in Requesters : req[q].pc = "idle"
        /\ \A t \in Threads : pc[t] \in {"idle", "checking"}
    BY <2>1 DEF Resting
  <2>4. \A t \in Threads : Checking(t) => Kept(job[t]) /\ job[t] \in Runs
    BY <1>held DEF Checking, Kept
  <2>5. \A r \in Runs : Kept(r) /\ Excused(r) => Excused(r)'
    BY <2>1 DEF Excused
  <2>6. LateRows'
    <3>1. \A r \in Runs : Kept(r) => status[r] # "absent"
      BY <1>inv, <1>held, BoundsAssumption DEF Kept, InFlight, LateThreads
    <3> QED
      BY <2>1, <2>2, <2>3, <3>1, <1>inv DEF LateRows
  <2>7. LateThreads'
    BY <2>1, <2>3, <2>4, <1>inv DEF LateThreads, Checking
  <2>8. NotStacked'
    BY <2>1, <2>5, <1>inv DEF NotStacked, Kept
  <2>9. CheckedApart'
    BY <2>1, <2>4, <2>5, <1>inv DEF CheckedApart, Checking
  <2> QED
    BY <2>1, <2>3, <2>6, <2>7, <2>8, <2>9, <1>inv DEF LateInv, RowsLate, RowsOfSurfaces, LateRequest
<1>5. CASE UNCHANGED vars
  BY <1>5, <1>calm DEF vars
<1> QED
  BY <1>1, <1>2, <1>3, <1>4, <1>5

LEMMA LateStep ==
  ASSUME "redis" \notin Events
  PROVE  TypeOK /\ Delivery /\ LateInv /\ [Next]_vars => LateInv'
  BY LateOfRequest, LateOfThread, LateOfRest DEF Next

LEMMA LateInvariant ==
  ASSUME "redis" \notin Events
  PROVE  Spec => []LateInv
  BY LateInit, LateStep, TypeCorrect, DeliveryInit, DeliveryStep, PTL DEF Spec

\* With any number of requests, whatever fails, two runs of a page are in
\* flight together only if one was given up on or their requests crossed.
THEOREM OnlyLateStack ==
  ASSUME "redis" \notin Events
  PROVE  Spec => []NotStacked
<1>1. LateInv => NotStacked
  BY DEF LateInv, RowsLate
<1> QED
  BY <1>1, LateInvariant, PTL

\* Two threads check one page at a time only under the same conditions, though
\* a thread outlives its timeout by any length of time.
THEOREM OnlyLateMeet ==
  ASSUME "redis" \notin Events
  PROVE  Spec => []CheckedApart
<1>1. LateInv => CheckedApart
  BY DEF LateInv, RowsLate
<1> QED
  BY <1>1, LateInvariant, PTL

-----------------------------------------------------------------------------
(* The pipeline when nothing fails, requests come one at a time, and       *)
(* neither waits nor checks reach a threshold: one check of a page at a    *)
(* time, exact counters, and sweeps closed once, by their last check.      *)

\* Nothing is lost, dies or is deleted; nobody asks while another request is
\* under way; no run waits and no check lasts until it is taken for stale (15
\* minutes), nor the two together until a sweep is taken for stuck (45).
Healthy ==
    /\ Events = {}
    /\ \A p, q \in Requesters : p = q
    /\ WaitBound < Stale /\ CheckBound < Stale
    /\ WaitBound + CheckBound < Stuck

\* Rows stay, age within the bounds, and a run is running in a thread.
RowsSound ==
    /\ surfaces = Surfaces
    /\ \A r \in Runs :
         /\ status[r] # "deleted"
         /\ status[r] = "absent" => key[r] = "none"
         /\ status[r] = "queued" => age[r] <= WaitBound
         /\ status[r] = "running" => /\ age[r] <= CheckBound
                                     /\ \E t \in Threads : pc[t] = "checking" /\ job[t] = r

\* What a thread holds, by its place.
ThreadsSound == \A t \in Threads :
    /\ pc[t] # "idle" => job[t] \in Runs
    /\ pc[t] = "idle" => job[t] = NoRun
    /\ pc[t] = "loaded" => status[job[t]] = "queued" /\ key[job[t]] = "running"
    /\ pc[t] = "checking" => status[job[t]] = "running"
    /\ pc[t] = "counting" => status[job[t]] = outcome[t]
    /\ pc[t] \in {"counting", "reading", "closing"} =>
         status[job[t]] \in Terminal /\ sweepOf[job[t]] \in Sweeps

\* No two threads hold one run.
HoldAlone == \A t, u \in Threads : pc[t] # "idle" /\ job[t] = job[u] => t = u

\* The reconciler has nothing to do but to redeliver.
PassSound ==
    /\ rec.pc \in {"idle", "redeliver"}
    /\ \A r \in rec.runs : status[r] # "absent"

\* A surface has at most one run in flight.
OneInFlight == \A r, x \in Runs :
    status[r] \in InFlight /\ status[x] \in InFlight /\ surfaceOf[r] = surfaceOf[x] => r = x

\* What a request has claimed has not moved since; its guard still holds when
\* it inserts; and it carries a sweep only through the loop of check_all.
RequestSound(q) ==
    /\ req[q].pc # "reclaim"
    /\ req[q].pc \in {"idle", "open"} => req[q].claimed = {}
    /\ req[q].pc \in {"idle", "open", "dispatch"} => req[q].sweep = NoSweep
    /\ req[q].sweep = NoSweep /\ req[q].pc \in {"guard", "insert"} => req[q].claimed = {}
    /\ req[q].pc = "next" => req[q].sweep # NoSweep
    /\ req[q].pc \in {"guard", "insert"} => req[q].surface \in Surfaces
    /\ req[q].pc = "insert" =>
         \A r \in Runs : status[r] \in InFlight => surfaceOf[r] # req[q].surface
    /\ \A r \in req[q].claimed : /\ status[r] = "queued" /\ age[r] = 0 /\ key[r] = "none"
                                 /\ r \notin rec.runs

Runners == RowsSound /\ ThreadsSound /\ HoldAlone /\ PassSound
Asking == OneInFlight /\ \A q \in Requesters : RequestSound(q)

-----------------------------------------------------------------------------
(* Sweeps.                                                                 *)

\* The total of a sweep is not written yet.
Building(w) == \E q \in Requesters : req[q].sweep = w

\* A thread has yet to count the outcome of a check of w, or to read w back, or
\* to close it.
Ending(w) == \E t \in Threads : /\ pc[t] \in {"counting", "reading", "closing"}
                                /\ sweepOf[job[t]] = w

\* Every check of w has ended and was counted.
Decided(w) ==
    /\ Outstanding(w) = {}
    /\ \A t \in Threads : pc[t] = "counting" => sweepOf[job[t]] # w

\* An open sweep has somebody who will close it, and is no older than its
\* checks can be; a closed one has nobody who could change it.
SweepSound(w) ==
    /\ sweep[w].status = "absent" => sweep[w] = NoSweepRow /\ Children(w) = {}
    /\ \A q \in Requesters : req[q].sweep = w =>
         /\ sweep[w] = [NoSweepRow EXCEPT !.status = "queued"]
         /\ Children(w) = req[q].claimed
    /\ ~Building(w) => sweep[w].total = Cardinality(Children(w))
    /\ Open(w) => /\ Building(w) \/ Outstanding(w) # {} \/ Ending(w)
                  /\ sweep[w].age <= WaitBound + CheckBound
    /\ \A r \in Children(w) :
         /\ status[r] = "queued" => sweep[w].age <= age[r]
         /\ status[r] = "running" => sweep[w].age <= WaitBound + age[r]
    /\ sweep[w].status \in Terminal =>
         Decided(w) /\ sweep[w].status = Verdict(sweep[w].total, sweep[w].failed)
    /\ \A t \in Threads : pc[t] = "closing" /\ sweepOf[job[t]] = w =>
         Decided(w) /\ outcome[t] = Verdict(sweep[w].total, sweep[w].failed)

SweepsSound == \A w \in Sweeps : SweepSound(w)

HealthyInv == Runners /\ Asking /\ SweepsSound /\ CountersExact

-----------------------------------------------------------------------------
(* Steps of a healthy pipeline.                                            *)

\* What a request may do when nothing is stale and nothing is deleted.
HealthyRequest(q) ==
    \/ \E s \in Surfaces : CheckSurface(q, s) \/ NextSurface(q, s)
    \/ BeginSweep(q) \/ GuardPasses(q) \/ GuardRefuses(q)
    \/ \E r \in Runs : InsertRun(q, r)
    \/ \E w \in Sweeps : OpenSweep(q, w)
    \/ SetTotal(q) \/ Dispatch(q)

HealthyThread(t) ==
    \/ \E r \in Runs : StartJob(t, r) \/ SkipJob(t, r)
    \/ Claim(t) \/ FinishCheck(t) \/ CountOutcome(t) \/ ReadBack(t) \/ CloseSweep(t)

HealthyNext ==
    \/ \E q \in Requesters : HealthyRequest(q)
    \/ \E t \in Threads : HealthyThread(t)
    \/ \E r \in Runs : ResultExpires(r) \/ OrphanAborted(r)
    \/ SelectUndelivered \/ RedeliverSelected \/ Tick
    \/ UNCHANGED vars

LEMMA HealthySteps ==
  ASSUME Healthy, TypeOK, HealthyInv, [Next]_vars
  PROVE  HealthyNext
<1> USE ThresholdsAssumption
<1>1. ASSUME NEW q \in Requesters PROVE ~Reclaim(q)
  BY <1>1 DEF HealthyInv, Asking, RequestSound, Reclaim
<1>2. ASSUME NEW t \in Threads PROVE ~SurfaceGone(t) /\ ~ClaimRaises(t)
  BY <1>2 DEF HealthyInv, Runners, RowsSound, ThreadsSound, SurfaceGone, ClaimRaises
<1>3. ASSUME NEW t \in Threads PROVE ~JobTimeout(t)
  BY <1>3 DEF HealthyInv, Runners, RowsSound, ThreadsSound, JobTimeout, TimedOut, Healthy, TypeOK
<1>4. ~Environment
  BY DEF Healthy, Environment, DeleteSurface, DispatchFails, RedisLoss, WorkerCrash, WebCrash, Event
<1>5. ~SelectAbandoned
  BY DEF SelectAbandoned, Abandoned, HealthyInv, Runners, RowsSound, Healthy, TypeOK
<1>6. ~SelectExpired /\ ~SelectStuck
  <2>1. \A w \in Sweeps : Open(w) => sweep[w].age <= WaitBound + CheckBound
    BY DEF HealthyInv, SweepsSound, SweepSound
  <2>2. \A w \in Sweeps : sweep[w].age \in Nat
    BY DEF TypeOK, SweepRow
  <2> QED
    BY <2>1, <2>2 DEF SelectExpired, SelectStuck, OpenSince, Healthy
<1>7. ~(FailAbandoned \/ SelectOutstanding \/ CloseExpired \/ CountChildren \/ CloseStuck)
  BY DEF HealthyInv, Runners, PassSound, FailAbandoned, SelectOutstanding, CloseExpired,
         CountChildren, CloseStuck
<1> QED
  BY <1>1, <1>2, <1>3, <1>4, <1>5, <1>6, <1>7
  DEF HealthyNext, HealthyRequest, HealthyThread, Next, Request, RequestStep, Thread, ShortStep,
      Reconciler, RecWrite

LEMMA NothingStale ==
  ASSUME Healthy, TypeOK, HealthyInv, NEW s
  PROVE  StaleRuns(s) = {}
  BY ThresholdsAssumption DEF StaleRuns, InFlight, HealthyInv, Runners, RowsSound, Healthy, TypeOK

\* What a request becomes by each of its steps.
LEMMA RequestMoves ==
  ASSUME Healthy, TypeOK, HealthyInv, NEW q \in Requesters
  PROVE  /\ \A s \in Surfaces : CheckSurface(q, s) \/ NextSurface(q, s) =>
               /\ req[q].pc \in {"idle", "next"} /\ req'[q].pc = "guard" /\ req'[q].surface = s
               /\ req'[q].sweep = req[q].sweep /\ req'[q].claimed = req[q].claimed
         /\ BeginSweep(q) =>
               req'[q].pc = "open" /\ req'[q].sweep = NoSweep /\ req'[q].claimed = {}
         /\ GuardPasses(q) =>
               /\ req'[q].pc = "insert" /\ req'[q].surface = req[q].surface
               /\ req'[q].sweep = req[q].sweep /\ req'[q].claimed = req[q].claimed
         /\ GuardRefuses(q) =>
               /\ req'[q].pc = IF req[q].sweep = NoSweep THEN "idle" ELSE "next"
               /\ req'[q].sweep = req[q].sweep /\ req'[q].claimed = req[q].claimed
         /\ \A r \in Runs : InsertRun(q, r) =>
               /\ req'[q].pc = IF req[q].sweep = NoSweep THEN "dispatch" ELSE "next"
               /\ req'[q].sweep = req[q].sweep /\ req'[q].claimed = req[q].claimed \cup {r}
               /\ status' = [status EXCEPT ![r] = "queued"]
               /\ surfaceOf' = [surfaceOf EXCEPT ![r] = req[q].surface]
               /\ sweepOf' = [sweepOf EXCEPT ![r] = req[q].sweep]
               /\ age' = [age EXCEPT ![r] = 0]
         /\ \A w \in Sweeps : OpenSweep(q, w) =>
               req'[q].pc = "next" /\ req'[q].sweep = w /\ req'[q].claimed = {}
         /\ SetTotal(q) =>
               /\ req'[q].pc = IF req[q].claimed = {} THEN "idle" ELSE "dispatch"
               /\ req'[q].sweep = NoSweep /\ req'[q].claimed = req[q].claimed
         /\ Dispatch(q) =>
               req'[q].pc = "idle" /\ req'[q].sweep = NoSweep /\ req'[q].claimed = {}
<1>typed. req \in [Requesters -> ReqState] /\ req[q] \in ReqState
  BY DEF TypeOK
<1>idle. IdleReq.pc = "idle" /\ IdleReq.sweep = NoSweep /\ IdleReq.claimed = {}
  BY DEF IdleReq
<1>sound. RequestSound(q) /\ surfaces = Surfaces
  BY DEF HealthyInv, Asking, Runners, RowsSound
<1>look. ASSUME NEW s \in Surfaces, NEW todo, Look(q, s, todo)
         PROVE  /\ req'[q].pc = "guard" /\ req'[q].surface = s
                /\ req'[q].sweep = req[q].sweep /\ req'[q].claimed = req[q].claimed
  <2>1. req' = [req EXCEPT ![q] = [req[q] EXCEPT !.pc = "guard", !.surface = s, !.todo = todo, !.stale = {}]]
    BY <1>look, NothingStale DEF Look
  <2> QED
    BY <2>1, <1>typed DEF ReqState
<1>move. ASSUME NEW R \in SUBSET Runs, Move(q, R), req[q].pc \in {"guard", "insert"}
         PROVE  /\ req'[q].pc = IF req[q].sweep # NoSweep THEN "next"
                                ELSE IF R = {} THEN "idle" ELSE "dispatch"
                /\ req'[q].sweep = req[q].sweep /\ req'[q].claimed = R
  BY <1>move, <1>typed DEF Move, IdleReq
<1>1. ASSUME NEW s \in Surfaces, CheckSurface(q, s) \/ NextSurface(q, s)
      PROVE  /\ req[q].pc \in {"idle", "next"} /\ req'[q].pc = "guard" /\ req'[q].surface = s
             /\ req'[q].sweep = req[q].sweep /\ req'[q].claimed = req[q].claimed
  BY <1>1, <1>look, <1>sound DEF CheckSurface, NextSurface
<1>2. BeginSweep(q) => req'[q].pc = "open" /\ req'[q].sweep = NoSweep /\ req'[q].claimed = {}
  BY <1>typed DEF BeginSweep, IdleReq
<1>3. GuardPasses(q) =>
        /\ req'[q].pc = "insert" /\ req'[q].surface = req[q].surface
        /\ req'[q].sweep = req[q].sweep /\ req'[q].claimed = req[q].claimed
  BY <1>typed DEF GuardPasses, ReqState
<1>4. GuardRefuses(q) =>
        /\ req'[q].pc = IF req[q].sweep = NoSweep THEN "idle" ELSE "next"
        /\ req'[q].sweep = req[q].sweep /\ req'[q].claimed = req[q].claimed
  <2> SUFFICES ASSUME GuardRefuses(q)
               PROVE  /\ req'[q].pc = IF req[q].sweep = NoSweep THEN "idle" ELSE "next"
                      /\ req'[q].sweep = req[q].sweep /\ req'[q].claimed = req[q].claimed
    OBVIOUS
  <2>1. req[q].pc = "guard" /\ Move(q, req[q].claimed) /\ req[q].claimed \in SUBSET Runs
    BY <1>typed DEF GuardRefuses, ReqState
  <2> QED
    BY <2>1, <1>move, <1>sound DEF RequestSound
<1>5. ASSUME NEW r \in Runs, InsertRun(q, r)
      PROVE  /\ req'[q].pc = IF req[q].sweep = NoSweep THEN "dispatch" ELSE "next"
             /\ req'[q].sweep = req[q].sweep /\ req'[q].claimed = req[q].claimed \cup {r}
             /\ status' = [status EXCEPT ![r] = "queued"]
             /\ surfaceOf' = [surfaceOf EXCEPT ![r] = req[q].surface]
             /\ sweepOf' = [sweepOf EXCEPT ![r] = req[q].sweep]
             /\ age' = [age EXCEPT ![r] = 0]
  <2>1. req[q].pc = "insert" /\ req[q].surface \in surfaces
    BY <1>5, <1>sound DEF InsertRun, RequestSound
  <2>2. Move(q, req[q].claimed \cup {r}) /\ req[q].claimed \cup {r} \in SUBSET Runs
    BY <1>5, <2>1, <1>typed DEF InsertRun, ReqState
  <2>3. req[q].claimed \cup {r} # {}
    OBVIOUS
  <2> QED
    BY <1>5, <2>1, <2>2, <2>3, <1>move DEF InsertRun
<1>6. ASSUME NEW w \in Sweeps, OpenSweep(q, w)
      PROVE  req'[q].pc = "next" /\ req'[q].sweep = w /\ req'[q].claimed = {}
  BY <1>6, <1>typed, <1>sound DEF OpenSweep, ReqState, RequestSound
<1>7. SetTotal(q) =>
        /\ req'[q].pc = IF req[q].claimed = {} THEN "idle" ELSE "dispatch"
        /\ req'[q].sweep = NoSweep /\ req'[q].claimed = req[q].claimed
  BY <1>typed, <1>idle DEF SetTotal, IdleReq
<1>8. Dispatch(q) => req'[q].pc = "idle" /\ req'[q].sweep = NoSweep /\ req'[q].claimed = {}
  BY <1>typed, <1>idle DEF Dispatch
<1> QED
  BY <1>1, <1>2, <1>3, <1>4, <1>5, <1>6, <1>7, <1>8

-----------------------------------------------------------------------------
(* Rows, threads and the reconciler.                                       *)

LEMMA RunnersStep ==
  ASSUME Healthy, TypeOK, HealthyInv, HealthyNext
  PROVE  Runners'
<1> USE ThresholdsAssumption, BoundsAssumption
    DEF Runners, RowsSound, ThreadsSound, HoldAlone, PassSound, HealthyInv, TypeOK,
        rows, worker, history, bounds, Healthy
<1>1. ASSUME NEW q \in Requesters, HealthyRequest(q) PROVE Runners'
  <2>1. ASSUME NEW r \in Runs, InsertRun(q, r) PROVE Runners'
    <3>1. /\ status' = [status EXCEPT ![r] = "queued"] /\ age' = [age EXCEPT ![r] = 0]
          /\ sweepOf' = [sweepOf EXCEPT ![r] = req[q].sweep]
      BY ONLY <2>1, RequestMoves, Healthy, TypeOK, HealthyInv, q \in Requesters, r \in Runs
    <3>0. status[r] = "absent" /\ UNCHANGED <<surfaces, key, worker, rec>>
      BY ONLY <2>1 DEF InsertRun
    <3>2. \A t \in Threads : job[t] # r
      BY <3>0 DEF Terminal
    <3> QED
      BY <3>0, <3>1, <3>2 DEF Terminal
  <2>2. CASE Dispatch(q)
    <3>1. \A r \in req[q].claimed : status[r] = "queued" /\ key[r] = "none"
      BY DEF Asking, RequestSound
    <3> QED
      BY <2>2, <3>1 DEF Dispatch, Enqueued
  <2>3. CASE UNCHANGED <<rows, key, worker, rec>>
    BY <2>3
  <2> QED
    BY <1>1, <2>1, <2>2, <2>3 DEF HealthyRequest, CheckSurface, NextSurface, BeginSweep, GuardPasses,
       GuardRefuses, OpenSweep, SetTotal
<1>2. ASSUME NEW t \in Threads, HealthyThread(t) PROVE Runners'
  <2>1. ASSUME NEW r \in Runs, StartJob(t, r) PROVE Runners'
    BY <2>1 DEF StartJob, Terminal
  <2>2. ASSUME NEW r \in Runs, SkipJob(t, r) PROVE Runners'
    BY <2>2 DEF SkipJob
  <2>3. CASE Claim(t)
    BY <2>3 DEF Claim, Terminal
  <2>4. ASSUME NEW result \in {"success", "failed"}, FinishRun(t, result) PROVE Runners'
    <3>1. CASE sweepOf[job[t]] = NoSweep
      BY <2>4, <3>1 DEF FinishRun, EndJob, Terminal
    <3>2. CASE sweepOf[job[t]] # NoSweep
      BY <2>4, <3>2 DEF FinishRun, Terminal
    <3> QED
      BY <3>1, <3>2
  <2>5. CASE CountOutcome(t)
    BY <2>5 DEF CountOutcome
  <2>6. CASE ReadBack(t)
    BY <2>6 DEF ReadBack, EndJob, Terminal
  <2>7. CASE CloseSweep(t)
    BY <2>7 DEF CloseSweep, EndJob, Terminal
  <2> QED
    BY <1>2, <2>1, <2>2, <2>3, <2>4, <2>5, <2>6, <2>7 DEF HealthyThread, FinishCheck
<1>3. ASSUME NEW r \in Runs, ResultExpires(r) \/ OrphanAborted(r) PROVE Runners'
  BY <1>3 DEF ResultExpires, OrphanAborted
<1>4. CASE SelectUndelivered
  BY <1>4 DEF SelectUndelivered, Select, Undelivered
<1>5. CASE RedeliverSelected
  BY <1>5 DEF RedeliverSelected, Enqueued, IdleRec
<1>6. CASE Tick
  <2>1. \A r \in Runs : /\ status[r] = "queued" => age'[r] <= WaitBound
                        /\ status[r] = "running" => age'[r] <= CheckBound
    <3> SUFFICES ASSUME NEW r \in Runs
                 PROVE  /\ status[r] = "queued" => age'[r] <= WaitBound
                        /\ status[r] = "running" => age'[r] <= CheckBound
      OBVIOUS
    <3>1. age'[r] <= age[r] + 1 /\ age[r] \in Nat /\ age'[r] \in Nat
      BY <1>6 DEF Tick, Older
    <3>2. Punctual(r)
      BY <1>6 DEF Tick
    <3> QED
      BY <3>1, <3>2 DEF Punctual
  <2> QED
    BY <1>6, <2>1 DEF Tick
<1>7. CASE UNCHANGED vars
  BY <1>7 DEF vars
<1> QED
  BY <1>1, <1>2, <1>3, <1>4, <1>5, <1>6, <1>7 DEF HealthyNext

-----------------------------------------------------------------------------
(* Requests and what they have claimed.                                    *)

LEMMA AskingStep ==
  ASSUME Healthy, TypeOK, HealthyInv, HealthyNext
  PROVE  Asking'
<1> USE DEF rows, worker, history, bounds
<1>typed. /\ status \in [Runs -> RowStates] /\ surfaceOf \in [Runs -> Surfaces \cup {NoSurface}]
          /\ age \in [Runs -> 0..Abandon] /\ key \in [Runs -> {"none", "queued", "running", "result"}]
          /\ job \in [Threads -> Runs \cup {NoRun}]
          /\ \A q \in Requesters : req[q] \in ReqState
  BY DEF TypeOK
<1>inv. OneInFlight /\ \A q \in Requesters : RequestSound(q)
  BY DEF HealthyInv, Asking
<1>1. ASSUME NEW q \in Requesters, HealthyRequest(q) PROVE Asking'
  <2>one. \A p \in Requesters : p = q
    BY DEF Healthy
  <2>sound. RequestSound(q) /\ OneInFlight
    BY <1>inv
  <2>moves. /\ \A s \in Surfaces : CheckSurface(q, s) \/ NextSurface(q, s) =>
                  /\ req[q].pc \in {"idle", "next"} /\ req'[q].pc = "guard" /\ req'[q].surface = s
                  /\ req'[q].sweep = req[q].sweep /\ req'[q].claimed = req[q].claimed
            /\ BeginSweep(q) =>
                  req'[q].pc = "open" /\ req'[q].sweep = NoSweep /\ req'[q].claimed = {}
            /\ GuardPasses(q) =>
                  /\ req'[q].pc = "insert" /\ req'[q].surface = req[q].surface
                  /\ req'[q].sweep = req[q].sweep /\ req'[q].claimed = req[q].claimed
            /\ GuardRefuses(q) =>
                  /\ req'[q].pc = IF req[q].sweep = NoSweep THEN "idle" ELSE "next"
                  /\ req'[q].sweep = req[q].sweep /\ req'[q].claimed = req[q].claimed
            /\ \A w \in Sweeps : OpenSweep(q, w) =>
                  req'[q].pc = "next" /\ req'[q].sweep = w /\ req'[q].claimed = {}
            /\ SetTotal(q) =>
                  /\ req'[q].pc = IF req[q].claimed = {} THEN "idle" ELSE "dispatch"
                  /\ req'[q].sweep = NoSweep /\ req'[q].claimed = req[q].claimed
            /\ Dispatch(q) =>
                  req'[q].pc = "idle" /\ req'[q].sweep = NoSweep /\ req'[q].claimed = {}
    BY RequestMoves
  <2>frame. ASSUME UNCHANGED <<rows, rec>>, RequestSound(q)' PROVE Asking'
    BY <2>frame, <2>one, <2>sound DEF Asking, OneInFlight
  <2>1. ASSUME NEW r \in Runs, InsertRun(q, r) PROVE Asking'
    <3>1. /\ req'[q].pc = IF req[q].sweep = NoSweep THEN "dispatch" ELSE "next"
          /\ req'[q].sweep = req[q].sweep /\ req'[q].claimed = req[q].claimed \cup {r}
          /\ status' = [status EXCEPT ![r] = "queued"]
          /\ surfaceOf' = [surfaceOf EXCEPT ![r] = req[q].surface]
          /\ age' = [age EXCEPT ![r] = 0]
      BY <2>1, RequestMoves
    <3>2. req[q].pc = "insert" /\ status[r] = "absent" /\ UNCHANGED <<key, rec>>
      BY <2>1 DEF InsertRun
    <3>3. key[r] = "none" /\ r \notin rec.runs
      BY <3>2 DEF HealthyInv, Runners, RowsSound, PassSound
    <3>4. OneInFlight'
      BY <1>typed, <2>sound, <3>1, <3>2 DEF OneInFlight, RequestSound, InFlight
    <3>5. RequestSound(q)'
      BY <1>typed, <2>sound, <3>1, <3>2, <3>3 DEF RequestSound, ReqState
    <3> QED
      BY <3>4, <3>5, <2>one DEF Asking
  <2>2. ASSUME NEW s \in Surfaces, CheckSurface(q, s) \/ NextSurface(q, s) PROVE Asking'
    <3>1. UNCHANGED <<rows, key, rec>>
      BY <2>2 DEF CheckSurface, NextSurface
    <3>2. RequestSound(q)'
      BY <2>2, <2>moves, <2>sound, <3>1 DEF RequestSound
    <3> QED
      BY <3>1, <3>2, <2>frame
  <2>3. CASE BeginSweep(q)
    <3>1. UNCHANGED <<rows, key, rec>>
      BY <2>3 DEF BeginSweep
    <3>2. RequestSound(q)'
      BY <2>3, <2>moves, <2>sound, <3>1 DEF RequestSound
    <3> QED
      BY <3>1, <3>2, <2>frame
  <2>4. CASE GuardPasses(q)
    <3>1. UNCHANGED <<rows, key, rec>> /\ ~Blocked(req[q].surface) /\ req[q].pc = "guard"
      BY <2>4 DEF GuardPasses
    <3>2. RequestSound(q)'
      BY <2>4, <2>moves, <2>sound, <3>1 DEF RequestSound, Blocked
    <3> QED
      BY <3>1, <3>2, <2>frame
  <2>5. CASE GuardRefuses(q)
    <3>1. UNCHANGED <<rows, key, rec>> /\ req[q].pc = "guard"
      BY <2>5 DEF GuardRefuses
    <3>2. RequestSound(q)'
      BY <2>5, <2>moves, <2>sound, <3>1 DEF RequestSound
    <3> QED
      BY <3>1, <3>2, <2>frame
  <2>6. ASSUME NEW w \in Sweeps, OpenSweep(q, w) PROVE Asking'
    <3>1. UNCHANGED <<rows, key, rec>> /\ w # NoSweep
      BY <2>6 DEF OpenSweep, Sweeps, NoSweep
    <3>2. RequestSound(q)'
      BY <2>6, <2>moves, <2>sound, <3>1 DEF RequestSound
    <3> QED
      BY <3>1, <3>2, <2>frame
  <2>7. CASE SetTotal(q)
    <3>1. UNCHANGED <<rows, key, rec>>
      BY <2>7 DEF SetTotal
    <3>2. RequestSound(q)'
      BY <2>7, <2>moves, <2>sound, <3>1 DEF RequestSound
    <3> QED
      BY <3>1, <3>2, <2>frame
  <2>8. CASE Dispatch(q)
    <3>1. UNCHANGED <<rows, rec>>
      BY <2>8 DEF Dispatch
    <3>2. RequestSound(q)'
      BY <2>8, <2>moves, <2>sound, <3>1 DEF RequestSound
    <3> QED
      BY <3>1, <3>2, <2>frame
  <2> QED
    BY <1>1, <2>1, <2>2, <2>3, <2>4, <2>5, <2>6, <2>7, <2>8 DEF HealthyRequest
\* Nobody else touches what was claimed or puts a run in flight.
<1>other. ASSUME UNCHANGED <<surfaces, surfaceOf, req>>,
                 \A r \in Runs : status'[r] \in InFlight => status[r] \in InFlight,
                 \A q \in Requesters : \A r \in req[q].claimed :
                   /\ status'[r] = "queued" /\ age'[r] = 0 /\ key'[r] = "none"
                   /\ r \notin rec'.runs
          PROVE  Asking'
  <2>1. OneInFlight'
    BY <1>other, <1>inv DEF OneInFlight
  <2>2. ASSUME NEW q \in Requesters PROVE RequestSound(q)'
    BY <1>other, <1>inv DEF RequestSound
  <2> QED
    BY <2>1, <2>2 DEF Asking
<1>claimed. \A q \in Requesters : \A r \in req[q].claimed :
    r \in Runs /\ status[r] = "queued" /\ age[r] = 0 /\ key[r] = "none" /\ r \notin rec.runs
  BY <1>inv, <1>typed DEF RequestSound, ReqState
<1>held. \A t \in Threads : \A q \in Requesters : pc[t] # "idle" => job[t] \notin req[q].claimed
  BY <1>claimed DEF HealthyInv, Runners, ThreadsSound, Terminal, TypeOK
<1>2. ASSUME NEW t \in Threads, HealthyThread(t) PROVE Asking'
  <2>1. ASSUME NEW r \in Runs, StartJob(t, r) \/ SkipJob(t, r) PROVE Asking'
    BY <2>1, <1>claimed, <1>other, <1>typed DEF StartJob, SkipJob
  <2>2. CASE Claim(t)
    <3>1. pc[t] = "loaded" /\ status[job[t]] = "queued" /\ job[t] \in Runs
      BY <2>2 DEF Claim, HealthyInv, Runners, ThreadsSound
    <3>2. /\ status' = [status EXCEPT ![job[t]] = "running"] /\ age' = [age EXCEPT ![job[t]] = 0]
          /\ UNCHANGED <<surfaces, surfaceOf, req, key, rec>>
      BY <2>2 DEF Claim
    <3>3. \A r \in Runs : status'[r] \in InFlight => status[r] \in InFlight
      BY <3>1, <3>2, <1>typed DEF InFlight
    <3>4. \A q \in Requesters : \A r \in req[q].claimed : r # job[t]
      BY <3>1, <1>held
    <3>5. \A q \in Requesters : \A r \in req[q].claimed :
            status'[r] = "queued" /\ age'[r] = 0 /\ key'[r] = "none" /\ r \notin rec'.runs
      BY <3>2, <3>4, <1>claimed, <1>typed
    <3> QED
      BY <3>2, <3>3, <3>5, <1>other
  <2>3. ASSUME NEW result \in {"success", "failed"}, FinishRun(t, result) PROVE Asking'
    <3>1. /\ pc[t] = "checking" /\ job[t] \in Runs /\ status[job[t]] = "running"
      BY <2>3 DEF FinishRun, HealthyInv, Runners, ThreadsSound
    <3>2. /\ status' = [status EXCEPT ![job[t]] = result]
          /\ UNCHANGED <<surfaces, surfaceOf, req, age, rec>>
      BY <2>3, <3>1, <1>typed DEF FinishRun
    <3>3. \A r \in Runs : key[r] = "none" => key'[r] = "none"
      BY <2>3, <1>typed DEF FinishRun, EndJob
    <3>4. \A r \in Runs : status'[r] \in InFlight => status[r] \in InFlight
      BY <3>1, <3>2, <1>typed DEF InFlight
    <3>5. \A q \in Requesters : \A r \in req[q].claimed : r # job[t]
      BY <3>1, <1>held
    <3>6. \A q \in Requesters : \A r \in req[q].claimed :
            status'[r] = "queued" /\ age'[r] = 0 /\ key'[r] = "none" /\ r \notin rec'.runs
      BY <3>2, <3>3, <3>5, <1>claimed, <1>typed
    <3> QED
      BY <3>2, <3>4, <3>6, <1>other
  <2>4. CASE CountOutcome(t) \/ ReadBack(t) \/ CloseSweep(t)
    <3>1. \A r \in Runs : key[r] = "none" => key'[r] = "none"
      BY <2>4 DEF CountOutcome, ReadBack, CloseSweep, EndJob
    <3>2. UNCHANGED <<status, age, surfaces, surfaceOf, req, rec>>
      BY <2>4 DEF CountOutcome, ReadBack, CloseSweep
    <3> QED
      BY <3>1, <3>2, <1>claimed, <1>other
  <2> QED
    BY <1>2, <2>1, <2>2, <2>3, <2>4 DEF HealthyThread, FinishCheck
<1>3. ASSUME NEW r \in Runs, ResultExpires(r) \/ OrphanAborted(r) PROVE Asking'
  BY <1>3, <1>claimed, <1>other, <1>typed DEF ResultExpires, OrphanAborted
<1>4. CASE SelectUndelivered
  BY <1>4, <1>claimed, <1>other, ThresholdsAssumption DEF SelectUndelivered, Select, Undelivered
<1>5. CASE RedeliverSelected
  <2>1. \A r \in Runs : key[r] = "none" /\ r \notin rec.runs => key'[r] = "none"
    BY <1>5 DEF RedeliverSelected, Enqueued
  <2>2. UNCHANGED <<rows, req>> /\ rec'.runs = {}
    BY <1>5 DEF RedeliverSelected, IdleRec
  <2> QED
    BY <2>1, <2>2, <1>claimed, <1>other
<1>6. CASE Tick
  <2>1. UNCHANGED <<status, surfaces, surfaceOf, req, key, rec>> /\ Resting
    BY <1>6 DEF Tick
  <2>2. \A q \in Requesters : req[q].claimed = {}
    BY <2>1, <1>inv DEF Resting, RequestSound
  <2> QED
    BY <2>1, <2>2, <1>other
<1>7. CASE UNCHANGED vars
  BY <1>7, <1>claimed, <1>other DEF vars
<1> QED
  BY <1>1, <1>2, <1>3, <1>4, <1>5, <1>6, <1>7 DEF HealthyNext

-----------------------------------------------------------------------------
(* Counters.                                                               *)

EndedIn(w, S) == {r \in Children(w) : status[r] \in S}
CountingIn(w, S) == {t \in Threads : /\ pc[t] = "counting" /\ outcome[t] \in S
                                     /\ sweepOf[job[t]] = w}

LEMMA SetsFinite ==
  ASSUME NEW w, NEW S
  PROVE  /\ IsFiniteSet(Children(w)) /\ Cardinality(Children(w)) \in Nat
         /\ IsFiniteSet(EndedIn(w, S)) /\ Cardinality(EndedIn(w, S)) \in Nat
         /\ IsFiniteSet(CountingIn(w, S)) /\ Cardinality(CountingIn(w, S)) \in Nat
         /\ EndedIn(w, S) \subseteq Children(w)
<1>1. Children(w) \in SUBSET Runs /\ EndedIn(w, S) \in SUBSET Runs /\ CountingIn(w, S) \subseteq Threads
  BY DEF Children, EndedIn, CountingIn
<1>2. IsFiniteSet(CountingIn(w, S))
  BY <1>1, FS_Subset, BoundsAssumption
<1> QED
  BY <1>1, <1>2, RunsFinite, FS_CardinalityType DEF EndedIn

\* What the counters stand for, before and after a step.
LEMMA CountedIs ==
  ASSUME NEW w, NEW S
  PROVE  /\ Counted(w, S) = Cardinality(EndedIn(w, S)) - Cardinality(CountingIn(w, S))
         /\ Counted(w, S)' = Cardinality(EndedIn(w, S)') - Cardinality(CountingIn(w, S)')
  BY DEF Counted, EndedIn, CountingIn

\* The counters count the same rows and threads as before.
LEMMA CountersKept ==
  ASSUME CountersExact,
         \A w \in Sweeps :
           /\ sweep'[w].finished = sweep[w].finished /\ sweep'[w].failed = sweep[w].failed
           /\ \A S \in {Terminal, {"failed"}} :
                EndedIn(w, S)' = EndedIn(w, S) /\ CountingIn(w, S)' = CountingIn(w, S)
  PROVE  CountersExact'
<1>1. \A w \in Sweeps : \A S \in {Terminal, {"failed"}} : Counted(w, S)' = Counted(w, S)
  BY DEF Counted, EndedIn, CountingIn
<1> QED
  BY <1>1 DEF CountersExact

LEMMA CountersStep ==
  ASSUME Healthy, TypeOK, HealthyInv, HealthyNext
  PROVE  CountersExact'
<1> USE DEF rows, worker, history, bounds
<1>typed. /\ status \in [Runs -> RowStates] /\ sweepOf \in [Runs -> Sweeps \cup {NoSweep}]
          /\ pc \in [Threads -> {"idle", "loaded", "checking", "counting", "reading", "closing"}]
          /\ job \in [Threads -> Runs \cup {NoRun}]
          /\ outcome \in [Threads -> {"none", "success", "failed"}]
          /\ sweep \in [Sweeps -> SweepRow]
  BY DEF TypeOK
<1>inv. CountersExact /\ ThreadsSound /\ RowsSound /\ HoldAlone
  BY DEF HealthyInv, Runners
<1>calm. ASSUME UNCHANGED <<status, sweepOf, pc, job, outcome>>,
                \A w \in Sweeps : sweep'[w].finished = sweep[w].finished /\ sweep'[w].failed = sweep[w].failed
         PROVE  CountersExact'
  BY <1>calm, <1>inv, CountersKept DEF EndedIn, CountingIn, Children
<1>1. ASSUME NEW q \in Requesters, HealthyRequest(q) PROVE CountersExact'
  <2>1. ASSUME NEW r \in Runs, InsertRun(q, r) PROVE CountersExact'
    <3>1. /\ status' = [status EXCEPT ![r] = "queued"]
          /\ sweepOf' = [sweepOf EXCEPT ![r] = req[q].sweep]
      BY <2>1, RequestMoves
    <3>2. status[r] = "absent" /\ UNCHANGED <<pc, job, outcome, sweep>>
      BY <2>1 DEF InsertRun
    <3>3. \A t \in Threads : pc[t] = "counting" => job[t] # r /\ job[t] \in Runs
      BY <3>2, <1>inv DEF ThreadsSound, Terminal
    <3>4. ASSUME NEW w \in Sweeps, NEW S \in {Terminal, {"failed"}}
          PROVE  EndedIn(w, S)' = EndedIn(w, S) /\ CountingIn(w, S)' = CountingIn(w, S)
      <4>1. EndedIn(w, S)' = EndedIn(w, S)
        BY <3>1, <3>2, <1>typed DEF EndedIn, Children, Terminal
      <4>2. CountingIn(w, S)' = CountingIn(w, S)
        BY <3>1, <3>2, <3>3, <1>typed DEF CountingIn
      <4> QED
        BY <4>1, <4>2
    <3> QED
      BY <3>2, <3>4, <1>inv, CountersKept
  <2>2. ASSUME NEW w \in Sweeps, OpenSweep(q, w) PROVE CountersExact'
    BY <2>2, <1>calm, <1>typed DEF OpenSweep, SweepRow
  <2>3. CASE SetTotal(q)
    BY <2>3, <1>calm, <1>typed DEF SetTotal, SweepRow
  <2>4. CASE UNCHANGED <<rows, sweep, worker>>
    BY <2>4, <1>calm
  <2> QED
    BY <1>1, <2>1, <2>2, <2>3, <2>4 DEF HealthyRequest, CheckSurface, NextSurface, BeginSweep,
       GuardPasses, GuardRefuses, Dispatch
<1>2. ASSUME NEW t \in Threads, HealthyThread(t) PROVE CountersExact'
  <2>held. pc[t] # "idle" => job[t] \in Runs
    BY <1>inv DEF ThreadsSound
  <2>1. ASSUME NEW r \in Runs, StartJob(t, r) PROVE CountersExact'
    <3>1. /\ pc[t] = "idle" /\ pc' = [pc EXCEPT ![t] = "loaded"] /\ job' = [job EXCEPT ![t] = r]
          /\ UNCHANGED <<rows, sweep, outcome>>
      BY <2>1 DEF StartJob
    <3>2. ASSUME NEW w \in Sweeps, NEW S
          PROVE  EndedIn(w, S)' = EndedIn(w, S) /\ CountingIn(w, S)' = CountingIn(w, S)
      BY <3>1, <1>typed DEF EndedIn, Children, CountingIn
    <3> QED
      BY <3>1, <3>2, <1>inv, CountersKept
  <2>2. ASSUME NEW r \in Runs, SkipJob(t, r) PROVE CountersExact'
    BY <2>2, <1>calm DEF SkipJob
  <2>3. CASE Claim(t)
    <3>1. /\ pc[t] = "loaded" /\ pc' = [pc EXCEPT ![t] = "checking"]
          /\ status' = [status EXCEPT ![job[t]] = "running"] /\ UNCHANGED <<sweepOf, sweep, job, outcome>>
      BY <2>3 DEF Claim
    <3>2. status[job[t]] = "queued"
      BY <3>1, <1>inv DEF ThreadsSound
    <3>3. ASSUME NEW w \in Sweeps, NEW S \in {Terminal, {"failed"}}
          PROVE  EndedIn(w, S)' = EndedIn(w, S) /\ CountingIn(w, S)' = CountingIn(w, S)
      BY <3>1, <3>2, <1>typed DEF EndedIn, Children, CountingIn, Terminal
    <3> QED
      BY <3>1, <3>3, <1>inv, CountersKept
  <2>4. ASSUME NEW result \in {"success", "failed"}, FinishRun(t, result) PROVE CountersExact'
    <3>1. pc[t] = "checking" /\ job[t] \in Runs /\ status[job[t]] = "running"
      BY <2>4, <2>held, <1>inv DEF FinishRun, ThreadsSound
    <3>2. status' = [status EXCEPT ![job[t]] = result] /\ UNCHANGED <<sweepOf, sweep>>
      BY <2>4, <3>1, <1>typed DEF FinishRun
    <3>3. CASE sweepOf[job[t]] = NoSweep
      <4>1. /\ pc' = [pc EXCEPT ![t] = "idle"] /\ job' = [job EXCEPT ![t] = NoRun]
            /\ outcome' = [outcome EXCEPT ![t] = "none"]
        BY <2>4, <3>3 DEF FinishRun, EndJob
      <4>2. ASSUME NEW w \in Sweeps, NEW S \in {Terminal, {"failed"}}
            PROVE  EndedIn(w, S)' = EndedIn(w, S) /\ CountingIn(w, S)' = CountingIn(w, S)
        <5>1. w # NoSweep
          BY DEF Sweeps, NoSweep
        <5>2. Children(w)' = Children(w) /\ job[t] \notin Children(w)
          BY <3>1, <3>2, <3>3, <5>1, <1>typed DEF Children
        <5>3. EndedIn(w, S)' = EndedIn(w, S)
          BY <3>1, <3>2, <5>2, <1>typed DEF EndedIn, Children
        <5>4. CountingIn(w, S)' = CountingIn(w, S)
          BY <3>1, <3>2, <4>1, <1>typed DEF CountingIn
        <5> QED
          BY <5>3, <5>4
      <4> QED
        BY <3>2, <4>2, <1>inv, CountersKept
    <3>4. CASE sweepOf[job[t]] # NoSweep
      <4>1. /\ pc' = [pc EXCEPT ![t] = "counting"] /\ outcome' = [outcome EXCEPT ![t] = result]
            /\ UNCHANGED job
        BY <2>4, <3>4 DEF FinishRun
      <4>2. ASSUME NEW w \in Sweeps, NEW S \in {Terminal, {"failed"}}
            PROVE  Counted(w, S)' = Counted(w, S)
        <5>1. CASE sweepOf[job[t]] = w /\ result \in S
          <6>1. EndedIn(w, S)' = EndedIn(w, S) \cup {job[t]} /\ job[t] \notin EndedIn(w, S)
            BY <3>1, <3>2, <5>1, <1>typed DEF EndedIn, Children, Terminal
          <6>2. CountingIn(w, S)' = CountingIn(w, S) \cup {t} /\ t \notin CountingIn(w, S)
            BY <3>1, <3>2, <4>1, <5>1, <1>typed DEF CountingIn
          <6>3. /\ Cardinality(EndedIn(w, S)') = Cardinality(EndedIn(w, S)) + 1
                /\ Cardinality(CountingIn(w, S)') = Cardinality(CountingIn(w, S)) + 1
            BY <6>1, <6>2, SetsFinite, FS_AddElement
          <6> QED
            BY <6>3, SetsFinite, CountedIs
        <5>2. CASE ~(sweepOf[job[t]] = w /\ result \in S)
          <6>1. EndedIn(w, S)' = EndedIn(w, S)
            BY <3>1, <3>2, <5>2, <1>typed DEF EndedIn, Children, Terminal
          <6>2. CountingIn(w, S)' = CountingIn(w, S)
            BY <3>1, <3>2, <4>1, <5>2, <1>typed DEF CountingIn
          <6> QED
            BY <6>1, <6>2 DEF Counted, EndedIn, CountingIn
        <5> QED
          BY <5>1, <5>2
      <4> QED
        BY <3>2, <4>2, <1>inv DEF CountersExact
    <3> QED
      BY <3>3, <3>4
  <2>5. CASE CountOutcome(t)
    <3> DEFINE v == sweepOf[job[t]]
    <3>1. /\ pc[t] = "counting" /\ pc' = [pc EXCEPT ![t] = "reading"]
          /\ UNCHANGED <<rows, job, outcome>>
      BY <2>5 DEF CountOutcome
    <3>2. v \in Sweeps /\ outcome[t] \in Terminal
      BY <3>1, <1>inv DEF ThreadsSound
    <3>3. /\ \A w \in Sweeps : w # v => sweep'[w] = sweep[w]
          /\ sweep'[v].finished = sweep[v].finished + 1
          /\ sweep'[v].failed = IF outcome[t] = "failed" THEN sweep[v].failed + 1 ELSE sweep[v].failed
      BY <2>5, <3>2, <1>typed DEF CountOutcome, SweepRow
    <3>4. ASSUME NEW w \in Sweeps, NEW S \in {Terminal, {"failed"}}
          PROVE  Counted(w, S)' = IF w = v /\ outcome[t] \in S THEN Counted(w, S) + 1 ELSE Counted(w, S)
      <4>1. EndedIn(w, S)' = EndedIn(w, S)
        BY <3>1 DEF EndedIn, Children
      <4>2. CASE w = v /\ outcome[t] \in S
        <5>1. CountingIn(w, S)' = CountingIn(w, S) \ {t} /\ t \in CountingIn(w, S)
          BY <3>1, <4>2, <1>typed DEF CountingIn
        <5>2. Cardinality(CountingIn(w, S)') = Cardinality(CountingIn(w, S)) - 1
          BY <5>1, SetsFinite, FS_RemoveElement
        <5> QED
          BY <4>1, <4>2, <5>2, SetsFinite, CountedIs
      <4>3. CASE ~(w = v /\ outcome[t] \in S)
        <5>1. CountingIn(w, S)' = CountingIn(w, S)
          BY <3>1, <4>3, <1>typed DEF CountingIn
        <5> QED
          BY <4>1, <4>3, <5>1 DEF Counted, EndedIn, CountingIn
      <4> QED
        BY <4>2, <4>3
    <3>5. ASSUME NEW w \in Sweeps PROVE /\ sweep'[w].finished = Counted(w, Terminal)'
                                       /\ sweep'[w].failed = Counted(w, {"failed"})'
      <4>1. sweep[w].finished = Counted(w, Terminal) /\ sweep[w].failed = Counted(w, {"failed"})
        BY <1>inv DEF CountersExact
      <4>2. Counted(w, Terminal)' = IF w = v THEN Counted(w, Terminal) + 1 ELSE Counted(w, Terminal)
        BY <3>2, <3>4
      <4>3. Counted(w, {"failed"})' = IF w = v /\ outcome[t] = "failed" THEN Counted(w, {"failed"}) + 1
                                     ELSE Counted(w, {"failed"})
        BY <3>4
      <4> QED
        BY <3>3, <4>1, <4>2, <4>3
    <3> QED
      BY <3>5 DEF CountersExact
  <2>6. CASE ReadBack(t) \/ CloseSweep(t)
    <3>1. /\ pc[t] \in {"reading", "closing"} /\ UNCHANGED rows
          /\ \E x \in {"idle", "closing"} : pc' = [pc EXCEPT ![t] = x]
          /\ \A u \in Threads : u # t => job'[u] = job[u] /\ outcome'[u] = outcome[u]
      BY <2>6, <1>typed DEF ReadBack, CloseSweep, EndJob
    <3>2. \A w \in Sweeps : sweep'[w].finished = sweep[w].finished /\ sweep'[w].failed = sweep[w].failed
      BY <2>6, <1>typed DEF ReadBack, CloseSweep, SweepRow
    <3>3. ASSUME NEW w \in Sweeps, NEW S
          PROVE  EndedIn(w, S)' = EndedIn(w, S) /\ CountingIn(w, S)' = CountingIn(w, S)
      BY <3>1, <1>typed DEF EndedIn, Children, CountingIn
    <3> QED
      BY <3>2, <3>3, <1>inv, CountersKept
  <2> QED
    BY <1>2, <2>1, <2>2, <2>3, <2>4, <2>5, <2>6 DEF HealthyThread, FinishCheck
<1>3. CASE Tick
  BY <1>3, <1>calm, <1>typed DEF Tick, SweepRow
<1>4. CASE \/ \E r \in Runs : ResultExpires(r) \/ OrphanAborted(r)
           \/ SelectUndelivered \/ RedeliverSelected \/ UNCHANGED vars
  <2>1. UNCHANGED <<rows, worker, sweep>>
    BY <1>4 DEF ResultExpires, OrphanAborted, SelectUndelivered, Select, RedeliverSelected, vars
  <2> QED
    BY <2>1, <1>calm
<1> QED
  BY <1>1, <1>2, <1>3, <1>4 DEF HealthyNext

-----------------------------------------------------------------------------
(* The sweeps.                                                             *)

\* A step that neither moves a sweep nor takes from it who will close it.
LEMMA SweepKept ==
  ASSUME NEW w \in Sweeps, SweepSound(w), sweep'[w] = sweep[w],
         Children(w)' = Children(w), Outstanding(w)' = Outstanding(w),
         \A q \in Requesters : /\ req'[q].sweep = w <=> req[q].sweep = w
                               /\ req[q].sweep = w => req'[q].claimed = req[q].claimed,
         \A r \in Children(w) :
           /\ status'[r] = "queued" => status[r] = "queued" /\ age'[r] = age[r]
           /\ status'[r] = "running" => sweep[w].age <= WaitBound + age'[r],
         \A t \in Threads : pc'[t] \in {"counting", "closing"} /\ sweepOf'[job'[t]] = w
                              => /\ pc[t] = pc'[t] /\ sweepOf[job[t]] = w
                                 /\ outcome'[t] = outcome[t],
         Ending(w) => Ending(w)'
  PROVE  SweepSound(w)'
<1>1. Building(w)' <=> Building(w)
  BY DEF Building
<1>2. Open(w)' <=> Open(w)
  BY DEF Open
<1>3. Decided(w) => Decided(w)'
  BY DEF Decided
<1> QED
  BY <1>1, <1>2, <1>3 DEF SweepSound

LEMMA SweepsStep ==
  ASSUME Healthy, TypeOK, HealthyInv, HealthyNext
  PROVE  SweepsSound'
<1>typed. /\ status \in [Runs -> RowStates] /\ sweepOf \in [Runs -> Sweeps \cup {NoSweep}]
          /\ age \in [Runs -> 0..Abandon]
          /\ pc \in [Threads -> {"idle", "loaded", "checking", "counting", "reading", "closing"}]
          /\ job \in [Threads -> Runs \cup {NoRun}]
          /\ outcome \in [Threads -> {"none", "success", "failed"}]
          /\ sweep \in [Sweeps -> SweepRow]
          /\ \A q \in Requesters : req[q] \in ReqState
  BY DEF TypeOK
<1>inv. /\ CountersExact /\ ThreadsSound /\ RowsSound /\ HoldAlone
        /\ \A q \in Requesters : RequestSound(q)
        /\ \A w \in Sweeps : SweepSound(w)
  BY DEF HealthyInv, Runners, Asking, SweepsSound
<1>nosweep. NoSweep \notin Sweeps
  BY DEF Sweeps, NoSweep
<1>child. ASSUME NEW t \in Threads, pc[t] # "idle", sweepOf[job[t]] \in Sweeps
          PROVE  job[t] \in Runs /\ job[t] \in Children(sweepOf[job[t]])
  BY <1>child, <1>inv, <1>typed DEF ThreadsSound, Children, Terminal
<1>running. \A w \in Sweeps : \A r \in Children(w) :
              status[r] = "running" => sweep[w].age <= WaitBound + age[r]
  BY <1>inv DEF SweepSound
\* While a sweep is built none of its checks has begun.
<1>begun. ASSUME NEW w \in Sweeps, NEW r \in Children(w), status[r] # "queued"
          PROVE  ~Building(w) /\ sweep[w].status # "absent"
  BY <1>begun, <1>inv DEF SweepSound, Building, RequestSound
\* Nobody closes it either, nor while a check is outstanding.
<1>early. ASSUME NEW w \in Sweeps, Building(w) \/ Children(w) = {} \/ Outstanding(w) # {},
                 NEW t \in Threads, pc[t] \in {"reading", "closing"}, sweepOf[job[t]] = w
          PROVE  pc[t] = "reading" /\ ~Building(w)
  <2>1. job[t] \in Children(w) /\ status[job[t]] # "queued"
    BY <1>early, <1>child, <1>inv DEF ThreadsSound, Terminal
  <2>2. ~Building(w)
    BY <2>1, <1>begun
  <2> QED
    BY <2>1, <2>2, <1>early, <1>inv DEF SweepSound, Decided
\* A step that no sweep notices.
<1>still. ASSUME UNCHANGED <<status, sweepOf, age, sweep>>,
                 \A q \in Requesters :
                   /\ req'[q].sweep = req[q].sweep
                   /\ req[q].sweep # NoSweep => req'[q].claimed = req[q].claimed,
                 \A t \in Threads : \/ pc'[t] \in {"counting", "reading", "closing"}
                                     \/ pc[t] \in {"counting", "reading", "closing"}
                   => pc'[t] = pc[t] /\ job'[t] = job[t] /\ outcome'[t] = outcome[t]
          PROVE  SweepsSound'
  <2> SUFFICES ASSUME NEW w \in Sweeps PROVE SweepSound(w)'
    BY DEF SweepsSound
  <2>1. Children(w)' = Children(w) /\ Outstanding(w)' = Outstanding(w)
    BY <1>still DEF Children, Outstanding
  <2>2. Ending(w) => Ending(w)'
    BY <1>still DEF Ending
  <2>3. \A t \in Threads : pc'[t] \in {"counting", "closing"} /\ sweepOf'[job'[t]] = w
         => pc[t] = pc'[t] /\ sweepOf[job[t]] = w /\ outcome'[t] = outcome[t]
    BY <1>still
  <2>4. \A q \in Requesters : /\ req'[q].sweep = w <=> req[q].sweep = w
                              /\ req[q].sweep = w => req'[q].claimed = req[q].claimed
    BY <1>still, <1>nosweep
  <2> QED
    BY <1>still, <2>1, <2>2, <2>3, <2>4, <1>inv, <1>running, SweepKept
<1>1. ASSUME NEW q \in Requesters, HealthyRequest(q) PROVE SweepsSound'
  <2>one. \A p \in Requesters : p = q
    BY DEF Healthy
  <2>sound. RequestSound(q) /\ req[q] \in ReqState
    BY <1>inv, <1>typed
  <2>1. ASSUME NEW r \in Runs, InsertRun(q, r) PROVE SweepsSound'
    <3>1. /\ req'[q].sweep = req[q].sweep /\ req'[q].claimed = req[q].claimed \cup {r}
          /\ status' = [status EXCEPT ![r] = "queued"]
          /\ sweepOf' = [sweepOf EXCEPT ![r] = req[q].sweep]
          /\ age' = [age EXCEPT ![r] = 0]
      BY <2>1, RequestMoves
    <3>2. status[r] = "absent" /\ UNCHANGED <<worker, sweep>>
      BY <2>1 DEF InsertRun
    <3>3. \A t \in Threads : pc[t] # "idle" => job[t] # r /\ job[t] \in Runs
      BY <3>2, <1>inv, <1>typed DEF ThreadsSound, Terminal
    <3>4. ASSUME NEW w \in Sweeps PROVE SweepSound(w)'
      <4>threads. \A t \in Threads : pc[t] # "idle" => sweepOf'[job'[t]] = sweepOf[job[t]]
        BY <3>1, <3>2, <3>3, <1>typed DEF worker
      <4>1. Children(w)' = IF w = req[q].sweep THEN Children(w) \cup {r} ELSE Children(w)
        BY <3>1, <3>2, <1>typed DEF Children
      <4>2. r \notin Children(w)
        BY <3>2 DEF Children
      <4>3. CASE w = req[q].sweep
        <5>1. /\ sweep'[w] = [NoSweepRow EXCEPT !.status = "queued"]
              /\ Children(w) = req[q].claimed
          BY <3>2, <4>3, <1>inv DEF SweepSound
        <5>2. Children(w)' = req'[q].claimed /\ Building(w)'
          BY <3>1, <4>1, <4>3, <5>1 DEF Building
        <5>3. sweep'[w].status = "queued" /\ sweep'[w].age = 0
          BY <5>1 DEF NoSweepRow
        <5>4. \A x \in Runs : age'[x] \in Nat
          BY <3>1, <1>typed, ThresholdsAssumption
        <5>5. Children(w)' \subseteq Runs
          BY DEF Children
        <5>6. WaitBound \in Nat /\ CheckBound \in Nat
          BY ThresholdsAssumption
        <5>7. \A t \in Threads : pc'[t] = "closing" => sweepOf'[job'[t]] # w
          BY <3>2, <4>3, <4>threads, <1>early DEF Building, worker
        <5> QED
          BY <5>1, <5>2, <5>3, <5>4, <5>5, <5>6, <5>7, <2>one DEF SweepSound, Terminal
      <4>4. CASE w # req[q].sweep
        <5>1. Children(w)' = Children(w) /\ Outstanding(w)' = Outstanding(w)
          BY <3>1, <4>1, <4>2, <4>4, <1>typed DEF Outstanding, Children
        <5>2. Ending(w) => Ending(w)'
          BY <4>threads, <3>2 DEF Ending, worker
        <5>3. \A x \in Children(w) : status'[x] = status[x] /\ age'[x] = age[x]
          BY <3>1, <4>2, <1>typed DEF Children
        <5>4. \A t \in Threads : pc'[t] \in {"counting", "closing"} /\ sweepOf'[job'[t]] = w
               => pc[t] = pc'[t] /\ sweepOf[job[t]] = w /\ outcome'[t] = outcome[t]
          BY <4>threads, <3>2 DEF worker
        <5> QED
          BY <5>1, <5>2, <5>3, <5>4, <3>1, <3>2, <4>4, <2>one, <1>inv, <1>running, SweepKept
      <4> QED
        BY <4>3, <4>4
    <3> QED
      BY <3>4 DEF SweepsSound
  <2>2. ASSUME NEW v \in Sweeps, OpenSweep(q, v) PROVE SweepsSound'
    <3>1. /\ req'[q].sweep = v /\ req'[q].claimed = {}
          /\ req[q].sweep = NoSweep /\ sweep[v].status = "absent"
          /\ sweep' = [sweep EXCEPT ![v].status = "queued"]
          /\ UNCHANGED <<rows, worker>>
      BY <2>2, RequestMoves, <2>sound DEF OpenSweep, RequestSound
    <3>2. ASSUME NEW w \in Sweeps PROVE SweepSound(w)'
      <4>1. Children(w)' = Children(w) /\ Outstanding(w)' = Outstanding(w)
        BY <3>1 DEF Outstanding, Children, rows
      <4>2. CASE w = v
        <5>1. sweep[v] = NoSweepRow /\ Children(v) = {}
          BY <3>1, <1>inv DEF SweepSound
        <5>2. sweep'[v] = [NoSweepRow EXCEPT !.status = "queued"]
          BY <3>1, <5>1, <1>typed
        <5>3. sweep'[v].status = "queued" /\ sweep'[v].age = 0
          BY <5>2 DEF NoSweepRow
        <5>4. Building(v)' /\ WaitBound \in Nat /\ CheckBound \in Nat
          BY <3>1, ThresholdsAssumption DEF Building
        <5>5. \A t \in Threads : pc'[t] = "closing" => sweepOf'[job'[t]] # v
          BY <3>1, <5>1, <1>early DEF rows, worker
        <5> QED
          BY <3>1, <4>1, <4>2, <5>1, <5>2, <5>3, <5>4, <5>5, <2>one DEF SweepSound, Terminal
      <4>3. CASE w # v
        <5>1. Ending(w) => Ending(w)'
          BY <3>1 DEF Ending, rows, worker
        <5>2. sweep'[w] = sweep[w]
          BY <3>1, <4>3, <1>typed
        <5> QED
          BY <3>1, <4>1, <4>3, <5>1, <5>2, <2>one, <1>inv, <1>running, <1>nosweep, SweepKept
          DEF rows, worker
      <4> QED
        BY <4>2, <4>3
    <3> QED
      BY <3>2 DEF SweepsSound
  <2>3. CASE SetTotal(q)
    <3> DEFINE v == req[q].sweep
               claimed == req[q].claimed
    <3>1. /\ v \in Sweeps /\ req'[q].sweep = NoSweep /\ UNCHANGED <<rows, worker>>
          /\ sweep' = [sweep EXCEPT ![v].total = Cardinality(claimed),
                                    ![v].status = IF claimed = {} THEN "success" ELSE @]
      BY <2>3, RequestMoves, <2>sound DEF SetTotal, RequestSound, ReqState
    <3>2. ASSUME NEW w \in Sweeps PROVE SweepSound(w)'
      <4>1. Children(w)' = Children(w) /\ Outstanding(w)' = Outstanding(w)
        BY <3>1 DEF Outstanding, Children, rows
      <4>2. CASE w = v
        <5>1. sweep[w] = [NoSweepRow EXCEPT !.status = "queued"] /\ Children(w) = claimed
          BY <3>1, <4>2, <1>inv DEF SweepSound
        <5>2. /\ sweep'[w].total = Cardinality(claimed) /\ sweep'[w].age = 0 /\ sweep'[w].failed = 0
              /\ sweep'[w].status = IF claimed = {} THEN "success" ELSE "queued"
          BY <3>1, <4>2, <5>1, <1>typed DEF NoSweepRow, SweepRow
        <5>3. ~Building(w)' /\ \A p \in Requesters : req'[p].sweep # w
          BY <3>1, <4>2, <2>one, <1>nosweep DEF Building
        <5>4. \A r \in claimed : status[r] = "queued"
          BY <2>sound DEF RequestSound
        <5>5. claimed # {} => Outstanding(w)' # {}
          BY <4>1, <4>2, <5>1, <5>4 DEF Outstanding, InFlight
        <5>6. \A r \in Children(w) : age'[r] \in Nat
          BY <3>1, <1>typed, ThresholdsAssumption DEF Children, rows
        <5>7. claimed = {} => /\ Decided(w)'
                              /\ sweep'[w].status = Verdict(sweep'[w].total, sweep'[w].failed)
          <6> SUFFICES ASSUME claimed = {}
                       PROVE  /\ Decided(w)'
                              /\ sweep'[w].status = Verdict(sweep'[w].total, sweep'[w].failed)
            OBVIOUS
          <6>1. Outstanding(w)' = {}
            BY <4>1, <4>2, <5>1 DEF Outstanding
          <6>2. \A t \in Threads : pc'[t] = "counting" => sweepOf'[job'[t]] # w
            BY <3>1, <5>1, <1>child DEF rows, worker
          <6>3. sweep'[w].status = Verdict(sweep'[w].total, sweep'[w].failed)
            BY <5>2, FS_EmptySet DEF Verdict
          <6> QED
            BY <6>1, <6>2, <6>3 DEF Decided
        <5>11. \A t \in Threads : pc'[t] = "closing" => sweepOf'[job'[t]] # w
          BY <3>1, <4>2, <1>early DEF Building, rows, worker
        <5>8. sweep'[w].status \in {"queued", "success"} /\ WaitBound \in Nat /\ CheckBound \in Nat
          BY <5>2, ThresholdsAssumption
        <5>9. sweep'[w].total = Cardinality(Children(w)')
          BY <4>1, <4>2, <5>1, <5>2
        <5>10. sweep'[w].status = "success" <=> claimed = {}
          BY <5>2
        <5> QED
          BY <4>1, <4>2, <5>2, <5>3, <5>5, <5>6, <5>7, <5>8, <5>9, <5>10, <5>11
          DEF SweepSound, Terminal, Open, InFlight
      <4>3. CASE w # v
        <5>1. Ending(w) => Ending(w)'
          BY <3>1 DEF Ending, rows, worker
        <5>2. sweep'[w] = sweep[w]
          BY <3>1, <4>3, <1>typed
        <5> QED
          BY <3>1, <4>1, <4>3, <5>1, <5>2, <2>one, <1>inv, <1>running, <1>nosweep, SweepKept
          DEF rows, worker
      <4> QED
        BY <4>2, <4>3
    <3> QED
      BY <3>2 DEF SweepsSound
  <2>4. CASE \/ \E s \in Surfaces : CheckSurface(q, s) \/ NextSurface(q, s)
             \/ BeginSweep(q) \/ GuardPasses(q) \/ GuardRefuses(q) \/ Dispatch(q)
    <3>1. UNCHANGED <<rows, sweep, worker>>
      BY <2>4 DEF CheckSurface, NextSurface, BeginSweep, GuardPasses, GuardRefuses, Dispatch
    <3>2. req'[q].sweep = req[q].sweep /\ (req[q].sweep # NoSweep => req'[q].claimed = req[q].claimed)
      BY <2>4, RequestMoves, <2>sound DEF RequestSound, BeginSweep, Dispatch
    <3> QED
      BY <3>1, <3>2, <2>one, <1>still DEF rows, worker
  <2> QED
    BY <1>1, <2>1, <2>2, <2>3, <2>4 DEF HealthyRequest
<1>2. ASSUME NEW t \in Threads, HealthyThread(t) PROVE SweepsSound'
  <2>1. ASSUME NEW r \in Runs, StartJob(t, r) \/ SkipJob(t, r) PROVE SweepsSound'
    BY <2>1, <1>still, <1>typed DEF StartJob, SkipJob, rows, worker
  <2>2. CASE Claim(t)
    <3>1. /\ pc[t] = "loaded" /\ status[job[t]] = "queued" /\ job[t] \in Runs
          /\ status' = [status EXCEPT ![job[t]] = "running"] /\ age' = [age EXCEPT ![job[t]] = 0]
          /\ pc' = [pc EXCEPT ![t] = "checking"]
          /\ UNCHANGED <<surfaceOf, sweepOf, sweep, job, outcome, req>>
      BY <2>2, <1>inv DEF Claim, ThreadsSound
    <3>2. ASSUME NEW w \in Sweeps PROVE SweepSound(w)'
      <4>1. Children(w)' = Children(w)
        BY <3>1, <1>typed DEF Children
      <4>2. Outstanding(w)' = Outstanding(w)
        BY <3>1, <4>1, <1>typed DEF Outstanding, InFlight, Children
      <4>3. ASSUME NEW r \in Children(w)
            PROVE  /\ status'[r] = "queued" => status[r] = "queued" /\ age'[r] = age[r]
                   /\ status'[r] = "running" => sweep[w].age <= WaitBound + age'[r]
        <5>1. CASE r = job[t]
          <6>1. /\ status'[r] = "running" /\ age'[r] = 0
                /\ sweep[w].age <= age[r] /\ age[r] <= WaitBound
            BY <3>1, <5>1, <1>inv, <1>typed DEF SweepSound, RowsSound
          <6>2. sweep[w].age \in Nat /\ age[r] \in Nat /\ WaitBound \in Nat
            BY <3>1, <5>1, <1>typed, ThresholdsAssumption DEF SweepRow
          <6> QED
            BY <6>1, <6>2
        <5>2. CASE r # job[t]
          BY <3>1, <5>2, <1>running, <1>typed DEF Children
        <5> QED
          BY <5>1, <5>2
      <4>4. Ending(w) => Ending(w)'
        BY <3>1, <1>typed DEF Ending
      <4>5. \A u \in Threads : pc'[u] \in {"counting", "closing"} /\ sweepOf'[job'[u]] = w
             => pc[u] = pc'[u] /\ sweepOf[job[u]] = w /\ outcome'[u] = outcome[u]
        BY <3>1, <1>typed
      <4> QED
        BY <3>1, <4>1, <4>2, <4>3, <4>4, <4>5, <1>inv, SweepKept
    <3> QED
      BY <3>2 DEF SweepsSound
  <2>3. ASSUME NEW result \in {"success", "failed"}, FinishRun(t, result) PROVE SweepsSound'
    <3>1. pc[t] = "checking" /\ job[t] \in Runs /\ status[job[t]] = "running"
      BY <2>3, <1>inv DEF FinishRun, ThreadsSound
    <3>2. /\ status' = [status EXCEPT ![job[t]] = result]
          /\ UNCHANGED <<sweepOf, age, sweep, req>>
      BY <2>3, <3>1, <1>typed DEF FinishRun
    <3>3. /\ sweepOf[job[t]] # NoSweep => pc' = [pc EXCEPT ![t] = "counting"] /\ job' = job
          /\ sweepOf[job[t]] = NoSweep => /\ pc' = [pc EXCEPT ![t] = "idle"]
                                          /\ job' = [job EXCEPT ![t] = NoRun]
      BY <2>3 DEF FinishRun, EndJob
    <3>4. ASSUME NEW w \in Sweeps PROVE SweepSound(w)'
      <4>1. Children(w)' = Children(w)
        BY <3>1, <3>2, <1>typed DEF Children
      <4>2. \A u \in Threads : u # t => pc'[u] = pc[u] /\ job'[u] = job[u] /\ outcome'[u] = outcome[u]
        BY <2>3, <3>3, <1>typed DEF FinishRun, EndJob
      <4>3. Ending(w) => Ending(w)'
        BY <3>1, <3>2, <4>2 DEF Ending
      <4>4. \A r \in Children(w) : r # job[t] => status'[r] = status[r] /\ age'[r] = age[r]
        BY <3>2, <1>typed DEF Children
      <4>5. CASE sweepOf[job[t]] = w
        <5>1. job[t] \in Outstanding(w)
          BY <3>1, <4>5, <1>child DEF Outstanding, InFlight
        <5>2. sweep[w].status \notin Terminal /\ ~Building(w) /\ sweep[w].status # "absent"
          BY <3>1, <5>1, <1>begun, <1>inv DEF SweepSound, Decided, Outstanding
        <5>9. \A u \in Threads : pc'[u] = "closing" => sweepOf'[job'[u]] # w
          BY <3>1, <3>2, <3>3, <4>2, <4>5, <5>1, <1>early, <1>nosweep, <1>typed
        <5>3. Ending(w)'
          BY <3>2, <3>3, <4>5, <1>nosweep, <1>typed DEF Ending
        <5>4. status'[job[t]] \notin InFlight
          BY <3>1, <3>2, <1>typed DEF InFlight
        <5>5. \A r \in Children(w) :
                /\ status'[r] = "queued" => sweep[w].age <= age'[r]
                /\ status'[r] = "running" => sweep[w].age <= WaitBound + age'[r]
          BY <4>4, <5>4, <1>inv DEF SweepSound, InFlight
        <5>6. /\ sweep[w].total = Cardinality(Children(w))
              /\ \A q \in Requesters : req[q].sweep # w
              /\ Open(w) => sweep[w].age <= WaitBound + CheckBound
          BY <5>2, <1>inv DEF SweepSound, Building
        <5>7. Building(w)' <=> Building(w)
          BY <3>2 DEF Building
        <5>8. Open(w)' <=> Open(w)
          BY <3>2 DEF Open
        <5> QED
          BY <3>2, <4>1, <5>2, <5>3, <5>5, <5>6, <5>7, <5>8, <5>9 DEF SweepSound
      <4>6. CASE sweepOf[job[t]] # w
        <5>1. job[t] \notin Children(w)
          BY <4>6 DEF Children
        <5>2. Outstanding(w)' = Outstanding(w)
          BY <4>1, <4>4, <5>1 DEF Outstanding
        <5>3. \A u \in Threads : pc'[u] \in {"counting", "closing"} /\ sweepOf'[job'[u]] = w
               => pc[u] = pc'[u] /\ sweepOf[job[u]] = w /\ outcome'[u] = outcome[u]
          BY <3>1, <3>2, <3>3, <4>2, <4>6, <1>typed
        <5> QED
          BY <3>2, <4>1, <4>3, <4>4, <5>1, <5>2, <5>3, <1>inv, <1>running, SweepKept
      <4> QED
        BY <4>5, <4>6
    <3> QED
      BY <3>4 DEF SweepsSound
  <2>4. CASE CountOutcome(t)
    <3> DEFINE v == sweepOf[job[t]]
    <3>1. /\ pc[t] = "counting" /\ v \in Sweeps /\ job[t] \in Runs /\ status[job[t]] \in Terminal
          /\ pc' = [pc EXCEPT ![t] = "reading"]
          /\ UNCHANGED <<status, sweepOf, age, job, outcome, req>>
      BY <2>4, <1>inv DEF CountOutcome, ThreadsSound, rows
    <3>2. /\ \A w \in Sweeps : w # v => sweep'[w] = sweep[w]
          /\ sweep'[v].status = "running" /\ sweep'[v].total = sweep[v].total
          /\ sweep'[v].age = sweep[v].age
      BY <2>4, <3>1, <1>typed DEF CountOutcome, SweepRow
    <3>3. ASSUME NEW w \in Sweeps PROVE SweepSound(w)'
      <4>1. Children(w)' = Children(w) /\ Outstanding(w)' = Outstanding(w)
        BY <3>1 DEF Children, Outstanding
      <4>2. Ending(w) => Ending(w)'
        BY <3>1, <1>typed DEF Ending
      <4>3. \A u \in Threads : pc'[u] \in {"counting", "closing"} /\ sweepOf'[job'[u]] = w
             => pc[u] = pc'[u] /\ sweepOf[job[u]] = w /\ outcome'[u] = outcome[u]
        BY <3>1, <1>typed
      <4>4. CASE w = v
        <5>1. job[t] \in Children(w) /\ status[job[t]] # "queued"
          BY <3>1, <4>4, <1>child DEF Terminal
        <5>2. ~Building(w) /\ sweep[w].status # "absent"
          BY <5>1, <1>begun
        <5>3. sweep[w].status \notin Terminal
          BY <3>1, <4>4, <1>inv DEF SweepSound, Decided
        <5>8. \A u \in Threads : pc'[u] = "closing" => sweepOf'[job'[u]] # w
          BY <3>1, <4>4, <1>inv, <1>typed DEF SweepSound, Decided
        <5>4. Open(w)
          BY <5>2, <5>3, <1>typed DEF Open, SweepRow, SweepStates, InFlight, Terminal
        <5>5. Ending(w)'
          BY <3>1, <4>4, <1>typed DEF Ending
        <5>6. /\ sweep[w].total = Cardinality(Children(w))
              /\ \A q \in Requesters : req[q].sweep # w
              /\ sweep[w].age <= WaitBound + CheckBound
          BY <5>2, <5>4, <1>inv DEF SweepSound, Building
        <5>7. \A r \in Children(w) :
                /\ status[r] = "queued" => sweep[w].age <= age[r]
                /\ status[r] = "running" => sweep[w].age <= WaitBound + age[r]
          BY <1>inv DEF SweepSound
        <5> QED
          BY <3>1, <3>2, <4>1, <4>4, <5>5, <5>6, <5>7, <5>8 DEF SweepSound, Terminal
      <4>5. CASE w # v
        BY <3>1, <3>2, <4>1, <4>2, <4>3, <4>5, <1>inv, <1>running, SweepKept
      <4> QED
        BY <4>4, <4>5
    <3> QED
      BY <3>3 DEF SweepsSound
  <2>5. CASE ReadBack(t)
    <3> DEFINE v == sweepOf[job[t]]
               total == sweep[v].total
               decides == ~(sweep[v].finished < total \/ sweep[v].status = Verdict(total, sweep[v].failed))
    <3>1. /\ pc[t] = "reading" /\ v \in Sweeps /\ job[t] \in Runs /\ status[job[t]] \in Terminal
          /\ UNCHANGED <<status, sweepOf, age, sweep, req>>
      BY <2>5, <1>inv DEF ReadBack, ThreadsSound, rows
    <3>2. \A u \in Threads : u # t => pc'[u] = pc[u] /\ job'[u] = job[u] /\ outcome'[u] = outcome[u]
      BY <2>5, <1>typed DEF ReadBack, EndJob
    <3>3. /\ ~decides => pc'[t] = "idle"
          /\ decides => /\ pc'[t] = "closing" /\ job'[t] = job[t]
                        /\ outcome'[t] = Verdict(total, sweep[v].failed)
      BY <2>5, <1>typed DEF ReadBack, EndJob
    <3>4. job[t] \in Children(v) /\ ~Building(v) /\ sweep[v].status # "absent"
      BY <3>1, <1>child, <1>begun DEF Terminal
    <3>5. /\ total = Cardinality(Children(v))
          /\ sweep[v].finished = Cardinality(EndedIn(v, Terminal))
                                 - Cardinality(CountingIn(v, Terminal))
      BY <3>1, <3>4, <1>inv, CountedIs DEF SweepSound, CountersExact
    <3>6. \A r \in Children(v) : r \notin Outstanding(v) <=> r \in EndedIn(v, Terminal)
      BY <1>inv, <1>typed DEF Outstanding, EndedIn, InFlight, Terminal, Children, RowStates
    <3>decided. ASSUME decides PROVE Decided(v)
      <4>1. Cardinality(EndedIn(v, Terminal)) <= Cardinality(Children(v))
        BY SetsFinite, FS_Subset
      <4>2. /\ Cardinality(CountingIn(v, Terminal)) = 0
            /\ Cardinality(EndedIn(v, Terminal)) = Cardinality(Children(v))
        BY <3>5, <3>decided, <4>1, SetsFinite
      <4>3. CountingIn(v, Terminal) = {} /\ EndedIn(v, Terminal) = Children(v)
        BY <4>2, SetsFinite, FS_EmptySet, FS_Subset
      <4>4. Outstanding(v) = {}
        BY <3>6, <4>3 DEF Outstanding
      <4>5. \A u \in Threads : pc[u] = "counting" => sweepOf[job[u]] # v
        BY <4>3, <1>inv DEF CountingIn, ThreadsSound
      <4> QED
        BY <4>4, <4>5 DEF Decided
    <3>ending. ASSUME NEW w \in Sweeps, w = v, Open(w), Outstanding(w) = {} PROVE Ending(w)'
      <4>1. CASE decides
        BY <3>1, <3>3, <3>ending, <4>1 DEF Ending
      <4>2. CASE ~decides
        <5>1. sweep[v].finished < total
          BY <3>ending, <4>2 DEF Verdict, Open, InFlight
        <5>2. EndedIn(v, Terminal) = Children(v)
          BY <3>6, <3>ending, SetsFinite
        <5>3. Cardinality(CountingIn(v, Terminal)) # 0
          BY <3>5, <5>1, <5>2, SetsFinite
        <5>4. PICK u \in CountingIn(v, Terminal) : TRUE
          BY <5>3, FS_EmptySet
        <5>5. u \in Threads /\ u # t /\ pc[u] = "counting" /\ sweepOf[job[u]] = v
          BY <5>4, <3>1 DEF CountingIn
        <5> QED
          BY <5>5, <3>1, <3>2, <3>ending DEF Ending
      <4> QED
        BY <4>1, <4>2
    <3>7. ASSUME NEW w \in Sweeps PROVE SweepSound(w)'
      <4>1. Children(w)' = Children(w) /\ Outstanding(w)' = Outstanding(w)
        BY <3>1 DEF Children, Outstanding
      <4>2. CASE w = v
        <5>1. Decided(w) => Decided(w)'
          BY <3>1, <3>2, <3>3, <4>1 DEF Decided
        <5>2. \A u \in Threads : pc'[u] = "closing" /\ sweepOf'[job'[u]] = w =>
                Decided(w)' /\ outcome'[u] = Verdict(sweep[w].total, sweep[w].failed)
          <6> SUFFICES ASSUME NEW u \in Threads, pc'[u] = "closing", sweepOf'[job'[u]] = w
                       PROVE  Decided(w)' /\ outcome'[u] = Verdict(sweep[w].total, sweep[w].failed)
            OBVIOUS
          <6>1. CASE u = t
            BY <3>3, <3>decided, <4>2, <5>1, <6>1
          <6>2. CASE u # t
            BY <3>1, <3>2, <5>1, <6>2, <1>inv DEF SweepSound
          <6> QED
            BY <6>1, <6>2
        <5>3. Building(w)' <=> Building(w)
          BY <3>1 DEF Building
        <5>4. Open(w)' <=> Open(w)
          BY <3>1 DEF Open
        <5>5. Open(w) /\ Outstanding(w) = {} => Ending(w)'
          BY <3>ending, <4>2
        <5>6. SweepSound(w) /\ ~Building(w)
          BY <3>4, <4>2, <1>inv
        <5> QED
          BY <3>1, <4>1, <5>1, <5>2, <5>3, <5>4, <5>5, <5>6 DEF SweepSound
      <4>3. CASE w # v
        <5>1. Ending(w) => Ending(w)'
          BY <3>1, <3>2, <4>3 DEF Ending
        <5>2. \A u \in Threads : pc'[u] \in {"counting", "closing"} /\ sweepOf'[job'[u]] = w
                => pc[u] = pc'[u] /\ sweepOf[job[u]] = w /\ outcome'[u] = outcome[u]
          BY <3>1, <3>2, <3>3, <4>3
        <5> QED
          BY <3>1, <4>1, <5>1, <5>2, <1>inv, <1>running, SweepKept
      <4> QED
        BY <4>2, <4>3
    <3> QED
      BY <3>7 DEF SweepsSound
  <2>6. CASE CloseSweep(t)
    <3> DEFINE v == sweepOf[job[t]]
    <3>1. /\ pc[t] = "closing" /\ v \in Sweeps /\ job[t] \in Runs /\ status[job[t]] \in Terminal
          /\ UNCHANGED <<status, sweepOf, age, req>>
          /\ pc'[t] = "idle"
      BY <2>6, <1>inv, <1>typed DEF CloseSweep, EndJob, ThreadsSound, rows
    <3>2. \A u \in Threads : u # t => pc'[u] = pc[u] /\ job'[u] = job[u] /\ outcome'[u] = outcome[u]
      BY <2>6, <1>typed DEF CloseSweep, EndJob
    <3>3. ~Building(v)
      BY <3>1, <1>child, <1>begun DEF Terminal
    <3>4. /\ \A w \in Sweeps : w # v => sweep'[w] = sweep[w]
          /\ sweep'[v].status = outcome[t] /\ sweep'[v].total = sweep[v].total
          /\ sweep'[v].failed = sweep[v].failed /\ sweep'[v].age = sweep[v].age
      BY <2>6, <3>1, <1>typed DEF CloseSweep, SweepRow
    <3>5. Decided(v) /\ outcome[t] = Verdict(sweep[v].total, sweep[v].failed)
      BY <3>1, <1>inv DEF SweepSound
    <3>6. ASSUME NEW w \in Sweeps PROVE SweepSound(w)'
      <4>1. Children(w)' = Children(w) /\ Outstanding(w)' = Outstanding(w)
        BY <3>1 DEF Children, Outstanding
      <4>2. Decided(w) => Decided(w)'
        BY <3>1, <3>2, <4>1 DEF Decided
      <4>3. CASE w = v
        <5>1. outcome[t] \in Terminal /\ ~Open(w)' /\ sweep'[w].status # "absent"
          BY <3>4, <3>5, <4>3 DEF Verdict, Terminal, Open, InFlight
        <5>2. ~Building(w)' /\ \A q \in Requesters : req'[q].sweep # w
          BY <3>1, <3>3, <4>3 DEF Building
        <5>3. \A u \in Threads : pc'[u] = "closing" /\ sweepOf'[job'[u]] = w =>
                Decided(w)' /\ outcome'[u] = Verdict(sweep[w].total, sweep[w].failed)
          BY <3>1, <3>2, <4>2, <1>inv DEF SweepSound
        <5>4. /\ sweep[w].total = Cardinality(Children(w))
              /\ \A r \in Children(w) :
                   /\ status[r] = "queued" => sweep[w].age <= age[r]
                   /\ status[r] = "running" => sweep[w].age <= WaitBound + age[r]
          BY <3>3, <4>3, <1>inv DEF SweepSound
        <5> QED
          BY <3>1, <3>4, <3>5, <4>1, <4>2, <4>3, <5>1, <5>2, <5>3, <5>4 DEF SweepSound
      <4>4. CASE w # v
        <5>1. Ending(w) => Ending(w)'
          BY <3>1, <3>2, <4>4 DEF Ending
        <5>2. \A u \in Threads : pc'[u] \in {"counting", "closing"} /\ sweepOf'[job'[u]] = w
                => pc[u] = pc'[u] /\ sweepOf[job[u]] = w /\ outcome'[u] = outcome[u]
          BY <3>1, <3>2
        <5> QED
          BY <3>1, <3>4, <4>1, <4>4, <5>1, <5>2, <1>inv, <1>running, SweepKept
      <4> QED
        BY <4>3, <4>4
    <3> QED
      BY <3>6 DEF SweepsSound
  <2> QED
    BY <1>2, <2>1, <2>2, <2>3, <2>4, <2>5, <2>6 DEF HealthyThread, FinishCheck
<1>3. CASE Tick
  <2>1. /\ UNCHANGED <<status, sweepOf, pc, job, req>> /\ Resting
        /\ \A r \in Runs : Punctual(r)
    BY <1>3 DEF Tick, worker
  <2>2. RowsSound'
    BY RunnersStep DEF Runners
  <2>3. \A q \in Requesters : req[q].sweep = NoSweep
    BY <2>1, <1>inv DEF Resting, RequestSound
  <2>4. ASSUME NEW w \in Sweeps PROVE SweepSound(w)'
    <3>1. Children(w)' = Children(w) /\ Outstanding(w)' = Outstanding(w)
      BY <2>1 DEF Children, Outstanding
    <3>2. ~Building(w) /\ ~Building(w)' /\ \A q \in Requesters : req'[q].sweep # w
      BY <2>1, <2>3, <1>nosweep DEF Building
    <3>3. ~Ending(w) /\ \A t \in Threads : pc'[t] \notin {"counting", "closing"}
      BY <2>1 DEF Ending, Resting
    <3>4. /\ sweep'[w] = [sweep[w] EXCEPT !.age = sweep'[w].age]
          /\ sweep'[w].age \in Nat /\ sweep'[w].age <= sweep[w].age + 1
          /\ sweep[w].status = "absent" /\ Children(w) = {} => sweep'[w].age = 0
      <4>1. sweep[w] \in SweepRow
        BY <1>typed
      <4>2. PICK a : /\ sweep'[w] = [sweep[w] EXCEPT !.age = a]
                     /\ a \in {Older(sweep[w].age, SweepMax), 0}
                     /\ sweep[w].status = "absent" /\ Children(w) = {} => a = 0
        <5>1. CASE \/ Open(w) \/ Outstanding(w) # {}
                   \/ \E t \in Threads : pc[t] # "idle" /\ sweepOf[job[t]] = w
          <6>1. sweep'[w] = [sweep[w] EXCEPT !.age = Older(sweep[w].age, SweepMax)]
            BY <1>3, <5>1 DEF Tick
          <6>2. ~(sweep[w].status = "absent" /\ Children(w) = {})
            BY <5>1, <1>child DEF Open, InFlight, Outstanding
          <6> QED
            BY <6>1, <6>2
        <5>2. CASE ~(\/ Open(w) \/ Outstanding(w) # {}
                     \/ \E t \in Threads : pc[t] # "idle" /\ sweepOf[job[t]] = w)
          <6>1. sweep'[w] = [sweep[w] EXCEPT !.age = 0]
            BY <1>3, <5>2 DEF Tick
          <6> QED
            BY <6>1
        <5> QED
          BY <5>1, <5>2
      <4>3. a \in Nat /\ a <= sweep[w].age + 1 /\ sweep[w].age \in Nat
        BY <4>1, <4>2, ThresholdsAssumption DEF SweepRow, Older
      <4>4. sweep'[w].age = a
        BY <4>1, <4>2 DEF SweepRow
      <4> QED
        BY <4>2, <4>3, <4>4
    <3>5. /\ sweep'[w].status = sweep[w].status /\ sweep'[w].total = sweep[w].total
          /\ sweep'[w].failed = sweep[w].failed /\ sweep[w].age \in Nat
      BY <3>4, <1>typed, ThresholdsAssumption DEF SweepRow
    <3>6. ASSUME NEW r \in Outstanding(w) PROVE age'[r] = age[r] + 1 /\ age[r] \in Nat
      <4>1. r \in Runs /\ status[r] \in InFlight
        BY DEF Outstanding, Children
      <4>2. age[r] < Abandon
        <5>1. status[r] = "queued" => age[r] < WaitBound
          BY <2>1, <4>1 DEF Punctual
        <5>2. status[r] = "running" => age[r] <= CheckBound
          BY <4>1, <1>inv DEF RowsSound
        <5>3. status[r] = "queued" \/ status[r] = "running"
          BY <4>1 DEF InFlight
        <5>4. age[r] \in Int
          BY <4>1, <1>typed, ThresholdsAssumption
        <5> QED
          BY <5>1, <5>2, <5>3, <5>4, ThresholdsAssumption DEF Healthy
      <4> QED
        BY <1>3, <4>1, <4>2, <1>typed, ThresholdsAssumption DEF Tick, Older, Kept
    <3>7. ASSUME NEW r \in Children(w)
          PROVE  /\ status[r] = "queued" => sweep'[w].age <= age'[r]
                 /\ status[r] = "running" => sweep'[w].age <= WaitBound + age'[r]
      <4>1. /\ status[r] = "queued" => sweep[w].age <= age[r]
            /\ status[r] = "running" => sweep[w].age <= WaitBound + age[r]
        BY <1>inv DEF SweepSound
      <4>2. status[r] \in InFlight => age'[r] = age[r] + 1 /\ age[r] \in Nat
        BY <3>6 DEF Outstanding
      <4> QED
        BY <3>4, <3>5, <4>1, <4>2, ThresholdsAssumption DEF InFlight
    <3>8. Open(w) => Outstanding(w) # {} /\ sweep'[w].age <= WaitBound + CheckBound
      <4> SUFFICES ASSUME Open(w)
                   PROVE  Outstanding(w) # {} /\ sweep'[w].age <= WaitBound + CheckBound
        OBVIOUS
      <4>1. Outstanding(w) # {}
        BY <3>2, <3>3, <1>inv DEF SweepSound
      <4>2. PICK r \in Outstanding(w) : TRUE
        BY <4>1
      <4>3. r \in Children(w) /\ r \in Runs /\ (status[r] = "queued" \/ status[r] = "running")
        BY <4>2 DEF Outstanding, Children, InFlight
      <4>4. /\ status[r] = "queued" => age'[r] <= WaitBound
            /\ status[r] = "running" => age'[r] <= CheckBound
        BY <2>1, <2>2, <4>3 DEF RowsSound
      <4>5. age'[r] \in Nat
        BY <3>6, <4>2
      <4> QED
        BY <3>4, <3>7, <4>1, <4>3, <4>4, <4>5, ThresholdsAssumption
    <3>9. /\ sweep[w].status = "absent" => sweep[w] = NoSweepRow /\ Children(w) = {}
          /\ sweep[w].total = Cardinality(Children(w))
          /\ sweep[w].status \in Terminal =>
               Outstanding(w) = {} /\ sweep[w].status = Verdict(sweep[w].total, sweep[w].failed)
      BY <3>2, <1>inv DEF SweepSound, Decided
    <3>10. sweep[w].status = "absent" => sweep'[w] = NoSweepRow
      BY <3>4, <3>9 DEF NoSweepRow
    <3>11. Open(w)' <=> Open(w)
      BY <3>5 DEF Open
    <3> QED
      BY <2>1, <3>1, <3>2, <3>3, <3>5, <3>7, <3>8, <3>9, <3>10, <3>11 DEF SweepSound, Decided
  <2> QED
    BY <2>4 DEF SweepsSound
<1>4. CASE \/ \E r \in Runs : ResultExpires(r) \/ OrphanAborted(r)
           \/ SelectUndelivered \/ RedeliverSelected \/ UNCHANGED vars
  <2>1. UNCHANGED <<rows, worker, sweep, req>>
    BY <1>4 DEF ResultExpires, OrphanAborted, SelectUndelivered, Select, RedeliverSelected, vars
  <2> QED
    BY <2>1, <1>still DEF rows, worker
<1> QED
  BY <1>1, <1>2, <1>3, <1>4 DEF HealthyNext

-----------------------------------------------------------------------------
(* What a healthy pipeline promises.                                       *)

LEMMA HealthyInit ==
  ASSUME Healthy, Init
  PROVE  HealthyInv
<1>1. \A w : Children(w) = {} /\ Outstanding(w) = {}
  BY DEF Init, Children, Outstanding
<1>2. Runners /\ Asking
  BY DEF Init, Runners, RowsSound, ThreadsSound, HoldAlone, PassSound, Asking, OneInFlight,
     RequestSound, IdleReq, IdleRec, InFlight
<1>3. SweepsSound
  <2> SUFFICES ASSUME NEW w \in Sweeps PROVE SweepSound(w)
    BY DEF SweepsSound
  <2>1. sweep[w] = NoSweepRow /\ ~Building(w)
    BY DEF Init, Building, IdleReq, Sweeps, NoSweep
  <2> QED
    BY <1>1, <2>1, FS_EmptySet DEF Init, SweepSound, Building, NoSweepRow, Open, InFlight, Terminal
<1>4. CountersExact
  <2> SUFFICES ASSUME NEW w \in Sweeps, NEW S PROVE Counted(w, S) = 0
    BY DEF CountersExact, Init, NoSweepRow
  <2>1. EndedIn(w, S) = {} /\ CountingIn(w, S) = {}
    BY <1>1 DEF EndedIn, CountingIn, Init
  <2> QED
    BY <2>1, CountedIs, FS_EmptySet
<1> QED
  BY <1>2, <1>3, <1>4 DEF HealthyInv

\* The healthy invariant holds in every reachable state.
THEOREM HealthyInvariant ==
  ASSUME Healthy
  PROVE  Spec => []HealthyInv
<1>1. Init => HealthyInv
  BY HealthyInit
<1>2. TypeOK /\ HealthyInv /\ [Next]_vars => HealthyInv'
  <2> SUFFICES ASSUME TypeOK, HealthyInv, [Next]_vars PROVE HealthyInv'
    OBVIOUS
  <2>1. HealthyNext
    BY HealthySteps
  <2> QED
    BY <2>1, RunnersStep, AskingStep, SweepsStep, CountersStep DEF HealthyInv
<1> QED
  BY <1>1, <1>2, TypeCorrect, PTL DEF Spec

\* The counters of every sweep are exact, in whatever order its checks end,
\* are counted and close it.
THEOREM HealthyCounts ==
  ASSUME Healthy
  PROVE  Spec => []CountersExact
<1>1. HealthyInv => CountersExact
  BY DEF HealthyInv
<1> QED
  BY <1>1, HealthyInvariant, PTL

\* What SweepSound and the counters say of a closed sweep.
LEMMA ClosedSweep ==
  ASSUME TypeOK, HealthyInv
  PROVE  ClosedByLastCheck
<1> SUFFICES ASSUME NEW w \in Sweeps, sweep[w].status \in Terminal
             PROVE  /\ Outstanding(w) = {}
                    /\ sweep[w].finished = sweep[w].total
                    /\ sweep[w].total = Cardinality(Children(w))
                    /\ sweep[w].status = "failed" <=>
                         (Children(w) # {} /\ \A r \in Children(w) : status[r] = "failed")
  BY DEF ClosedByLastCheck
<1>inv. SweepSound(w) /\ CountersExact /\ ThreadsSound /\ RowsSound
  BY DEF HealthyInv, SweepsSound, Runners
<1>1. /\ Outstanding(w) = {} /\ sweep[w].status = Verdict(sweep[w].total, sweep[w].failed)
      /\ \A t \in Threads : pc[t] = "counting" => sweepOf[job[t]] # w
  BY <1>inv DEF SweepSound, Decided
<1>2. sweep[w].total = Cardinality(Children(w))
  BY <1>inv DEF SweepSound, Building, NoSweepRow, Terminal
<1>3. EndedIn(w, Terminal) = Children(w)
  <2>1. \A r \in Children(w) : status[r] \in Terminal
    BY <1>1, <1>inv DEF Outstanding, Children, TypeOK, RowStates, InFlight, Terminal
  <2> QED
    BY <2>1 DEF EndedIn
<1>4. \A S : CountingIn(w, S) = {}
  BY <1>1 DEF CountingIn
<1>5. /\ sweep[w].finished = Cardinality(Children(w))
      /\ sweep[w].failed = Cardinality(EndedIn(w, {"failed"}))
  <2>1. \A S : Counted(w, S) = Cardinality(EndedIn(w, S))
    BY <1>4, CountedIs, SetsFinite, FS_EmptySet
  <2> QED
    BY <1>3, <2>1, <1>inv DEF CountersExact
<1>6. sweep[w].failed >= sweep[w].total <=> \A r \in Children(w) : status[r] = "failed"
  <2>1. /\ Cardinality(EndedIn(w, {"failed"})) <= Cardinality(Children(w))
        /\ Cardinality(EndedIn(w, {"failed"})) = Cardinality(Children(w))
             => EndedIn(w, {"failed"}) = Children(w)
    BY SetsFinite, FS_Subset
  <2>2. EndedIn(w, {"failed"}) = Children(w) <=> \A r \in Children(w) : status[r] = "failed"
    BY DEF EndedIn
  <2> QED
    BY <1>2, <1>5, <2>1, <2>2, SetsFinite
<1>7. sweep[w].total > 0 <=> Children(w) # {}
  BY <1>2, SetsFinite, FS_EmptySet
<1> QED
  BY <1>1, <1>2, <1>5, <1>6, <1>7 DEF Verdict

\* A sweep is closed by its last check and never earlier, and its verdict is
\* "failed" exactly when every one of its checks failed, whichever of the
\* threads that find it complete closes it (models/check_sweep.py:35-37).
THEOREM HealthyCloses ==
  ASSUME Healthy
  PROVE  Spec => []ClosedByLastCheck
<1>1. TypeOK /\ HealthyInv => ClosedByLastCheck
  BY ClosedSweep
<1> QED
  BY <1>1, HealthyInvariant, TypeCorrect, PTL

\* A run that ended and a sweep that was closed are not written again, but by
\* the verdict they have: a poller that stops there has seen the last word.
THEOREM HealthyIsFinal ==
  ASSUME Healthy
  PROVE  Spec => TerminalIsFinal
<1>1. TypeOK /\ HealthyInv /\ [Next]_vars =>
        /\ \A r \in Runs : status[r] \in Terminal => status'[r] \in {status[r], "deleted"}
        /\ \A w \in Sweeps : sweep[w].status \in Terminal =>
             sweep'[w] = [sweep[w] EXCEPT !.age = sweep'[w].age]
  <2> SUFFICES ASSUME TypeOK, HealthyInv, [Next]_vars
               PROVE  /\ \A r \in Runs : status[r] \in Terminal => status'[r] = status[r]
                      /\ \A w \in Sweeps : sweep[w].status \in Terminal =>
                           sweep'[w] = [sweep[w] EXCEPT !.age = sweep'[w].age]
    OBVIOUS
  <2> USE DEF rows
  <2>typed. /\ status \in [Runs -> RowStates] /\ sweep \in [Sweeps -> SweepRow]
    BY DEF TypeOK
  <2>inv. /\ ThreadsSound /\ \A q \in Requesters : RequestSound(q)
          /\ \A w \in Sweeps : SweepSound(w)
    BY DEF HealthyInv, Runners, Asking, SweepsSound
  <2>next. HealthyNext
    BY HealthySteps
  <2>same. \A w \in Sweeps : sweep[w] = [sweep[w] EXCEPT !.age = sweep[w].age]
    BY <2>typed DEF SweepRow
  <2>building. \A q \in Requesters : req[q].sweep \in Sweeps => sweep[req[q].sweep].status \notin Terminal
    BY <2>inv DEF SweepSound, NoSweepRow, Terminal
  <2>1. \A r \in Runs : status[r] \in Terminal => status'[r] = status[r]
    <3>1. ASSUME NEW q \in Requesters, NEW x \in Runs, InsertRun(q, x)
          PROVE  \A r \in Runs : status[r] \in Terminal => status'[r] = status[r]
      BY <3>1, RequestMoves, <2>typed DEF InsertRun, Terminal
    <3>2. ASSUME NEW t \in Threads, Claim(t) \/ FinishCheck(t)
          PROVE  \A r \in Runs : status[r] \in Terminal => status'[r] = status[r]
      BY <3>2, <2>inv, <2>typed DEF Claim, FinishCheck, FinishRun, ThreadsSound, Terminal
    <3> QED
      BY <2>next, <3>1, <3>2 DEF HealthyNext, HealthyRequest, HealthyThread, CheckSurface, NextSurface,
         BeginSweep, GuardPasses, GuardRefuses, OpenSweep, SetTotal, Dispatch, StartJob, SkipJob,
         CountOutcome, ReadBack, CloseSweep, ResultExpires, OrphanAborted, SelectUndelivered, Select,
         RedeliverSelected, Tick, vars
  <2>2. ASSUME NEW w \in Sweeps, sweep[w].status \in Terminal
        PROVE  sweep'[w] = [sweep[w] EXCEPT !.age = sweep'[w].age]
    <3>1. ASSUME NEW q \in Requesters, SetTotal(q) \/ \E v \in Sweeps : OpenSweep(q, v)
          PROVE  sweep'[w] = sweep[w]
      <4>1. SetTotal(q) => req[q].sweep \in Sweeps
        BY <2>inv DEF SetTotal, RequestSound, TypeOK, ReqState
      <4> QED
        BY <3>1, <4>1, <2>2, <2>building, <2>typed DEF SetTotal, OpenSweep, Terminal
    <3>2. ASSUME NEW t \in Threads, CountOutcome(t) PROVE sweep'[w] = sweep[w]
      BY <3>2, <2>2, <2>inv, <2>typed DEF CountOutcome, SweepSound, Decided
    <3>3. ASSUME NEW t \in Threads, CloseSweep(t) PROVE sweep'[w] = sweep[w]
      <4>1. sweepOf[job[t]] = w => outcome[t] = sweep[w].status
        BY <2>2, <3>3, <2>inv DEF SweepSound, CloseSweep
      <4>2. [sweep[w] EXCEPT !.status = sweep[w].status] = sweep[w]
        BY <2>typed DEF SweepRow
      <4> QED
        BY <3>3, <4>1, <4>2, <2>typed DEF CloseSweep
    <3>4. CASE Tick
      <4>1. PICK a : sweep'[w] = [sweep[w] EXCEPT !.age = a]
        BY <3>4 DEF Tick
      <4> QED
        BY <4>1, <2>typed DEF SweepRow
    <3>5. Tick \/ sweep'[w] = sweep[w]
      BY <2>next, <3>1, <3>2, <3>3 DEF HealthyNext, HealthyRequest, HealthyThread, CheckSurface,
         NextSurface, BeginSweep, GuardPasses, GuardRefuses, InsertRun, Dispatch, StartJob, SkipJob,
         Claim, FinishCheck, FinishRun, ReadBack, ResultExpires, OrphanAborted, SelectUndelivered, Select,
         RedeliverSelected, vars
    <3> QED
      BY <3>4, <3>5, <2>same
  <2> QED
    BY <2>1, <2>2
<1> QED
  BY <1>1, HealthyInvariant, TypeCorrect, PTL DEF Spec, TerminalIsFinal

=============================================================================
