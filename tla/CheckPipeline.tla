--------------------------- MODULE CheckPipeline ---------------------------
(***************************************************************************)
(* The check pipeline: web requests (check one surface, check all) claim   *)
(* CheckRun rows in Postgres and hand them to arq; worker threads execute  *)
(* them, write their outcome and count it against the sweep they belong    *)
(* to; the job reconciler of the web process repairs what was lost.        *)
(*                                                                         *)
(* Every action is one database commit, one Redis call, or one query whose *)
(* answer is used by a later commit: those are the points at which the     *)
(* processes interleave.  Rows are identified by the order they are        *)
(* inserted in.  Time is a count of ticks kept as the age of each row.     *)
(***************************************************************************)
EXTENDS Integers, FiniteSets

CONSTANTS
    Surfaces, NoSurface,  \* pages watched in one workspace; the null
    Threads, NoRun,       \* threads of the arq worker process; the null
    Requesters,           \* concurrent web requests and scheduler jobs
    MaxRuns,              \* bound on CheckRun rows
    MaxSweeps,            \* bound on CheckSweep rows
    MaxJobs,              \* settings.arq_max_jobs
    Redeliver,            \* _QUEUED_REDELIVER_MINUTES     (10)
    Stale,                \* _STALE_RUN_MINUTES, job_timeout (15)
    Abandon,              \* _RUNNING_ABANDONED_MINUTES    (30)
    Stuck,                \* _SWEEP_STUCK_MINUTES          (45)
    SweepMax,             \* _SWEEP_MAX_MINUTES            (90)
    WaitBound,            \* environment: no run is queued longer than this
    CheckBound,           \* environment: no check runs longer than this
    Events,               \* what the environment may do, see below
    MaxEvents             \* bound on those events

Runs == 1..MaxRuns
Sweeps == 1..MaxSweeps
NoSweep == 0

ASSUME BoundsAssumption ==
    /\ MaxRuns \in Nat \ {0} /\ MaxSweeps \in Nat /\ MaxEvents \in Nat
    /\ MaxJobs \in Nat \ {0}
    /\ NoSurface \notin Surfaces /\ NoRun \notin Runs
    /\ IsFiniteSet(Surfaces) /\ IsFiniteSet(Threads)

ASSUME ThresholdsAssumption ==
    /\ {Redeliver, Stale, Abandon, Stuck, SweepMax} \subseteq Nat
    /\ 0 < Redeliver /\ Redeliver < Stale /\ Stale < Abandon
    /\ Abandon < Stuck /\ Stuck < SweepMax
    /\ WaitBound \in Nat /\ CheckBound \in Nat

ASSUME EventsAssumption ==
    Events \subseteq {"redis", "worker", "web", "enqueue", "delete"}

RowStates   == {"absent", "queued", "running", "success", "failed", "deleted"}
InFlight    == {"queued", "running"}
SweepStates == {"absent", "queued", "running", "success", "failed"}

VARIABLES
    \* Postgres, check_runs and surfaces
    status, surfaceOf, sweepOf, age, surfaces,
    \* Postgres, check_sweeps
    sweep,
    \* Redis: what arq knows of the job "check:run:<id>"
    key,
    \* worker threads
    pc, job, outcome,
    \* web process: requests in progress and the reconciler's pass
    req, rec,
    \* bookkeeping: pipeline executions of a run; runs that waited or ran for
    \* the stale threshold, or were closed with their sweep; runs inserted beside
    \* another because their request had passed the guard; requests so overtaken
    claims, late, crossed, overtaken,
    \* run ids promised to requests, events so far
    quota, events

rows   == <<status, surfaceOf, sweepOf, age, surfaces>>
worker == <<pc, job, outcome>>
history == <<claims, late, crossed, overtaken>>
bounds == <<quota, events>>
vars   == <<rows, sweep, key, worker, req, rec, history, bounds>>

Open(w) == sweep[w].status \in InFlight
Children(w) == {r \in Runs : sweepOf[r] = w /\ status[r] \notin {"absent", "deleted"}}
Outstanding(w) == {r \in Children(w) : status[r] \in InFlight}

\* The verdict on a sweep, from a failure count that may have been read
\* earlier than it is used.
Verdict(total, failedCount) ==
    IF total > 0 /\ failedCount >= total THEN "failed" ELSE "success"

IdleReq == [pc |-> "idle", surface |-> NoSurface, sweep |-> NoSweep,
            todo |-> {}, claimed |-> {}, stale |-> {}]
IdleRec == [pc |-> "idle", runs |-> {}, seen |-> [w \in {} |-> 0]]
NoSweepRow == [status |-> "absent", total |-> 0, finished |-> 0,
               failed |-> 0, age |-> 0]

Init ==
    /\ status = [r \in Runs |-> "absent"]
    /\ surfaceOf = [r \in Runs |-> NoSurface]
    /\ sweepOf = [r \in Runs |-> NoSweep]
    /\ age = [r \in Runs |-> 0]
    /\ surfaces = Surfaces
    /\ sweep = [w \in Sweeps |-> NoSweepRow]
    /\ key = [r \in Runs |-> "none"]
    /\ pc = [t \in Threads |-> "idle"]
    /\ job = [t \in Threads |-> NoRun]
    /\ outcome = [t \in Threads |-> "none"]
    /\ req = [q \in Requesters |-> IdleReq]
    /\ rec = IdleRec
    /\ claims = [r \in Runs |-> 0]
    /\ late = {} /\ crossed = {} /\ overtaken = {}
    /\ quota = MaxRuns
    /\ events = 0

(***************************************************************************)
(* Requests: routers/surfaces.check_surface, scheduler.run_scheduled_check *)
(* and routers/jobs.check_all, which all go through enqueue_surface_check. *)
(***************************************************************************)

\* Mutants of the two queries.
StaleRunsAnyAge(s) == {r \in Runs : surfaceOf[r] = s /\ status[r] \in InFlight}
StaleRunsRunning(s) == {r \in Runs : /\ surfaceOf[r] = s /\ status[r] = "running"
                                     /\ age[r] >= Stale}
BlockedByRunning(s) == \E r \in Runs : surfaceOf[r] = s /\ status[r] = "running"

\* The stale rows _reclaim_stale_running_checks selects.
StaleRuns(s) == {r \in Runs : /\ surfaceOf[r] = s
                              /\ status[r] \in InFlight
                              /\ age[r] >= Stale}

\* The first row of the duplicate-check guard's SELECT exists.
Blocked(s) == \E r \in Runs : surfaceOf[r] = s /\ status[r] \in InFlight

\* enqueue_surface_check's first query, for surface s.
Look(q, s, todo) ==
    req' = [req EXCEPT ![q] = [@ EXCEPT
        !.pc = IF StaleRuns(s) = {} THEN "guard" ELSE "reclaim",
        !.surface = s, !.todo = todo, !.stale = StaleRuns(s)]]

\* A request for one surface: the surface is read, then the stale runs.
CheckSurface(q, s) ==
    /\ req[q].pc = "idle" /\ s \in surfaces
    /\ quota > 0 /\ quota' = quota - 1
    /\ Look(q, s, {})
    /\ UNCHANGED <<rows, sweep, key, worker, rec, history, events>>

\* What follows one surface's turn: the next one of a sweep, or the end.
Move(q, claimed) ==
    LET old == req[q]
        done == IF claimed = {} THEN IdleReq
                ELSE [IdleReq EXCEPT !.pc = "dispatch", !.claimed = claimed]
    IN req' = [req EXCEPT ![q] =
                 IF old.sweep = NoSweep THEN done
                 ELSE [IdleReq EXCEPT !.pc = "next", !.sweep = old.sweep,
                                      !.todo = old.todo, !.claimed = claimed]]

\* The stale rows become failed.  The ORM update of a row that is gone
\* raises, and the request ends there.
Reclaim(q) ==
    /\ req[q].pc = "reclaim"
    /\ IF \E r \in req[q].stale : status[r] = "deleted"
       THEN /\ req' = [req EXCEPT ![q] = IdleReq]
            /\ UNCHANGED status
       ELSE /\ req' = [req EXCEPT ![q] = [@ EXCEPT !.pc = "guard", !.stale = {}]]
            /\ status' = [r \in Runs |->
                             IF r \in req[q].stale THEN "failed" ELSE status[r]]
    /\ UNCHANGED <<surfaceOf, sweepOf, age, surfaces, sweep, key, worker, rec,
                   history, bounds>>

\* The duplicate-check guard reads; the insert is a later statement.
GuardPasses(q) ==
    /\ req[q].pc = "guard" /\ ~Blocked(req[q].surface)
    /\ req' = [req EXCEPT ![q].pc = "insert"]
    /\ UNCHANGED <<rows, sweep, key, worker, rec, history, bounds>>

GuardRefuses(q) ==
    /\ req[q].pc = "guard" /\ Blocked(req[q].surface)
    /\ Move(q, req[q].claimed)
    /\ UNCHANGED <<rows, sweep, key, worker, rec, history, bounds>>

\* A request has passed the guard for s and not inserted yet.
Waits(p, s) == req[p].pc = "insert" /\ req[p].surface = s

\* INSERT of the queued row.  The foreign key refuses a deleted surface,
\* which ends the request.
InsertRun(q, r) ==
    /\ req[q].pc = "insert"
    /\ status[r] = "absent" /\ \A i \in Runs : i < r => status[i] # "absent"
    /\ IF req[q].surface \in surfaces
       THEN /\ status' = [status EXCEPT ![r] = "queued"]
            /\ surfaceOf' = [surfaceOf EXCEPT ![r] = req[q].surface]
            /\ sweepOf' = [sweepOf EXCEPT ![r] = req[q].sweep]
            /\ age' = [age EXCEPT ![r] = 0]
            /\ crossed' = IF q \in overtaken /\ Blocked(req[q].surface)
                          THEN crossed \cup {r} ELSE crossed
            /\ overtaken' = {p \in Requesters \ {q} : \/ p \in overtaken
                                                    \/ Waits(p, req[q].surface)}
            /\ Move(q, req[q].claimed \cup {r})
       ELSE /\ req' = [req EXCEPT ![q] = IdleReq]
            /\ overtaken' = overtaken \ {q}
            /\ UNCHANGED <<status, surfaceOf, sweepOf, age, crossed>>
    /\ UNCHANGED <<surfaces, sweep, key, worker, rec, claims, late, bounds>>

\* check_all: no open sweep was found, and the active surfaces were read.
\* partition_by_cap keeps some of them: which ones is SurfaceSelection's.
BeginSweep(q) ==
    /\ req[q].pc = "idle" /\ ~\E w \in Sweeps : Open(w)
    /\ Cardinality({p \in Requesters : req[p].pc = "open"})
         < Cardinality({w \in Sweeps : sweep[w].status = "absent"})
    /\ quota >= Cardinality(Surfaces) /\ quota' = quota - Cardinality(Surfaces)
    /\ \E watched \in SUBSET surfaces :
         req' = [req EXCEPT ![q] = [IdleReq EXCEPT !.pc = "open", !.todo = watched]]
    /\ UNCHANGED <<rows, sweep, key, worker, rec, history, events>>

OpenSweep(q, w) ==
    /\ req[q].pc = "open"
    /\ sweep[w].status = "absent"
    /\ \A v \in Sweeps : v < w => sweep[v].status # "absent"
    /\ sweep' = [sweep EXCEPT ![w].status = "queued"]
    /\ req' = [req EXCEPT ![q].pc = "next", ![q].sweep = w]
    /\ UNCHANGED <<rows, key, worker, rec, history, bounds>>

\* One iteration of check_all's loop begins.  Reading the attributes of a
\* surface deleted meanwhile raises, and the request ends there.
NextSurface(q, s) ==
    /\ req[q].pc = "next" /\ s \in req[q].todo
    /\ IF s \in surfaces THEN Look(q, s, req[q].todo \ {s})
                         ELSE req' = [req EXCEPT ![q] = IdleReq]
    /\ UNCHANGED <<rows, sweep, key, worker, rec, history, bounds>>

\* The sweep's total is what was claimed; with nothing claimed it is closed.
SetTotal(q) ==
    LET w == req[q].sweep
        claimed == req[q].claimed
    IN /\ req[q].pc = "next" /\ req[q].todo = {}
       /\ sweep' = [sweep EXCEPT
                      ![w].total = Cardinality(claimed),
                      ![w].status = IF claimed = {} THEN "success" ELSE @]
       /\ req' = [req EXCEPT ![q] =
                    IF claimed = {} THEN IdleReq
                    ELSE [IdleReq EXCEPT !.pc = "dispatch", !.claimed = claimed]]
       /\ UNCHANGED <<rows, key, worker, rec, history, bounds>>

\* Mutant: every dispatch makes a job, whatever arq knows of the id.
EnqueuedAgain(set) == [r \in Runs |-> IF r \in set THEN "queued" ELSE key[r]]

\* arq refuses a job whose id is queued, in progress, or has a result.
Enqueued(set) == [r \in Runs |-> IF r \in set /\ key[r] = "none"
                                 THEN "queued" ELSE key[r]]

Dispatch(q) ==
    /\ req[q].pc = "dispatch"
    /\ key' = Enqueued(req[q].claimed)
    /\ req' = [req EXCEPT ![q] = IdleReq]
    /\ UNCHANGED <<rows, sweep, worker, rec, history, bounds>>

RequestStep(q) ==
    \/ Reclaim(q) \/ GuardPasses(q) \/ GuardRefuses(q)
    \/ \E r \in Runs : InsertRun(q, r)
    \/ \E w \in Sweeps : OpenSweep(q, w)
    \/ \E s \in Surfaces : NextSurface(q, s)
    \/ SetTotal(q) \/ Dispatch(q)

Request(q) ==
    \/ \E s \in Surfaces : CheckSurface(q, s)
    \/ BeginSweep(q)
    \/ RequestStep(q)

(***************************************************************************)
(* The arq worker: execute_surface_check on a thread of asyncio.to_thread. *)
(***************************************************************************)

\* Threads whose coroutine arq still counts as one of its running jobs.
Active == {t \in Threads : pc[t] # "idle" /\ key[job[t]] = "running"}

\* Mutant: the thread does not look at the status it reads.
StartJobAnyStatus(t, r) ==
    /\ pc[t] = "idle" /\ key[r] = "queued"
    /\ Cardinality(Active) < MaxJobs
    /\ status[r] # "deleted"
    /\ key' = [key EXCEPT ![r] = "running"]
    /\ pc' = [pc EXCEPT ![t] = "loaded"]
    /\ job' = [job EXCEPT ![t] = r]
    /\ UNCHANGED <<rows, sweep, outcome, req, rec, history, bounds>>

\* arq takes the job and the thread reads its row: still queued.
StartJob(t, r) ==
    /\ pc[t] = "idle" /\ key[r] = "queued"
    /\ Cardinality(Active) < MaxJobs
    /\ status[r] = "queued"
    /\ key' = [key EXCEPT ![r] = "running"]
    /\ pc' = [pc EXCEPT ![t] = "loaded"]
    /\ job' = [job EXCEPT ![t] = r]
    /\ UNCHANGED <<rows, sweep, outcome, req, rec, history, bounds>>

\* The row is gone or not queued any more: a duplicate delivery.
SkipJob(t, r) ==
    /\ pc[t] = "idle" /\ key[r] = "queued"
    /\ Cardinality(Active) < MaxJobs
    /\ status[r] # "queued"
    /\ key' = [key EXCEPT ![r] = "result"]
    /\ UNCHANGED <<rows, sweep, worker, req, rec, history, bounds>>

\* The job returns: its coroutine, if arq has not cancelled it, leaves a result.
EndJob(t) ==
    /\ pc' = [pc EXCEPT ![t] = "idle"]
    /\ job' = [job EXCEPT ![t] = NoRun]
    /\ outcome' = [outcome EXCEPT ![t] = "none"]
    /\ key' = [r \in Runs |-> IF r = job[t] /\ key[r] = "running"
                              THEN "result" ELSE key[r]]

\* The row becomes running, whatever its status is by now.
Claim(t) ==
    /\ pc[t] = "loaded" /\ status[job[t]] # "deleted"
    /\ status' = [status EXCEPT ![job[t]] = "running"]
    /\ age' = [age EXCEPT ![job[t]] = 0]
    /\ claims' = [claims EXCEPT ![job[t]] = @ + 1]
    /\ pc' = [pc EXCEPT ![t] = "checking"]
    /\ UNCHANGED <<surfaceOf, sweepOf, surfaces, sweep, key, job, outcome, req,
                   rec, late, crossed, overtaken, bounds>>

\* The surface's row is gone when it is read: a failure to count.
SurfaceGone(t) ==
    /\ pc[t] = "loaded" /\ status[job[t]] = "deleted"
    /\ sweepOf[job[t]] # NoSweep
    /\ pc' = [pc EXCEPT ![t] = "counting"]
    /\ outcome' = [outcome EXCEPT ![t] = "failed"]
    /\ UNCHANGED <<rows, sweep, key, job, req, rec, history, bounds>>

\* The run's row is gone when it is claimed: the commit raises, outside the
\* try of _run_claimed_check, and nothing is counted.
ClaimRaises(t) ==
    /\ pc[t] = "loaded" /\ status[job[t]] = "deleted"
    /\ EndJob(t)
    /\ UNCHANGED <<rows, sweep, req, rec, history, bounds>>

\* The check ends and _finish_run overwrites the row's status, if it exists.
FinishRun(t, result) ==
    /\ pc[t] = "checking"
    /\ status' = [status EXCEPT ![job[t]] =
                     IF @ = "deleted" THEN "deleted" ELSE result]
    /\ IF sweepOf[job[t]] = NoSweep
       THEN EndJob(t)
       ELSE /\ pc' = [pc EXCEPT ![t] = "counting"]
            /\ outcome' = [outcome EXCEPT ![t] = result]
            /\ UNCHANGED <<job, key>>
    /\ UNCHANGED <<surfaceOf, sweepOf, age, surfaces, sweep, req, rec, history,
                   bounds>>

\* Mutant: a failed check is not counted as finished.
CountOutcomeApart(t) ==
    LET w == sweepOf[job[t]]
    IN /\ pc[t] = "counting"
       /\ sweep' = [sweep EXCEPT
                      ![w].finished = IF outcome[t] = "failed" THEN @ ELSE @ + 1,
                      ![w].failed = IF outcome[t] = "failed" THEN @ + 1 ELSE @,
                      ![w].status = "running"]
       /\ pc' = [pc EXCEPT ![t] = "reading"]
       /\ UNCHANGED <<rows, key, job, outcome, req, rec, history, bounds>>

\* The SQL-side increments of _record_sweep_outcome.
CountOutcome(t) ==
    LET w == sweepOf[job[t]]
    IN /\ pc[t] = "counting"
       /\ sweep' = [sweep EXCEPT
                      ![w].finished = @ + 1,
                      ![w].failed = IF outcome[t] = "failed" THEN @ + 1 ELSE @,
                      ![w].status = "running"]
       /\ pc' = [pc EXCEPT ![t] = "reading"]
       /\ UNCHANGED <<rows, key, job, outcome, req, rec, history, bounds>>

\* Mutant: the sweep is closed one check early.
ReadBackEarly(t) ==
    LET w == sweepOf[job[t]]
        verdict == Verdict(sweep[w].total, sweep[w].failed)
    IN /\ pc[t] = "reading"
       /\ IF sweep[w].finished + 1 < sweep[w].total \/ sweep[w].status = verdict
          THEN EndJob(t)
          ELSE /\ pc' = [pc EXCEPT ![t] = "closing"]
               /\ outcome' = [outcome EXCEPT ![t] = verdict]
               /\ UNCHANGED <<job, key>>
       /\ UNCHANGED <<rows, sweep, req, rec, history, bounds>>

\* The sweep is read back after the commit.  Its last check decides on a
\* verdict; the ORM has nothing to write when that is the status it read.
ReadBack(t) ==
    LET w == sweepOf[job[t]]
        verdict == Verdict(sweep[w].total, sweep[w].failed)
    IN /\ pc[t] = "reading"
       /\ IF sweep[w].finished < sweep[w].total \/ sweep[w].status = verdict
          THEN EndJob(t)
          ELSE /\ pc' = [pc EXCEPT ![t] = "closing"]
               /\ outcome' = [outcome EXCEPT ![t] = verdict]
               /\ UNCHANGED <<job, key>>
       /\ UNCHANGED <<rows, sweep, req, rec, history, bounds>>

\* The verdict is committed, whatever the sweep is by now.
CloseSweep(t) ==
    /\ pc[t] = "closing"
    /\ sweep' = [sweep EXCEPT ![sweepOf[job[t]]].status = outcome[t]]
    /\ EndJob(t)
    /\ UNCHANGED <<rows, req, rec, history, bounds>>

ShortStep(t) ==
    \/ Claim(t) \/ SurfaceGone(t) \/ ClaimRaises(t)
    \/ CountOutcome(t) \/ ReadBack(t) \/ CloseSweep(t)

FinishCheck(t) == \E result \in {"success", "failed"} : FinishRun(t, result)

Thread(t) ==
    \/ \E r \in Runs : StartJob(t, r) \/ SkipJob(t, r)
    \/ ShortStep(t)
    \/ FinishCheck(t)

(***************************************************************************)
(* arq's own steps.                                                        *)
(***************************************************************************)

\* job_timeout cancels the coroutine; the thread goes on.
TimedOut(t) == pc[t] = "checking" /\ key[job[t]] = "running" /\ age[job[t]] >= Stale

JobTimeout(t) ==
    /\ TimedOut(t)
    /\ key' = [key EXCEPT ![job[t]] = "result"]
    /\ UNCHANGED <<rows, sweep, worker, req, rec, history, bounds>>

\* keep_result seconds later arq has forgotten the job.
ResultExpires(r) ==
    /\ key[r] = "result"
    /\ key' = [key EXCEPT ![r] = "none"]
    /\ UNCHANGED <<rows, sweep, worker, req, rec, history, bounds>>

\* A job whose worker died is tried again, and refused by max_tries = 1.
OrphanAborted(r) ==
    /\ key[r] = "running" /\ \A t \in Threads : job[t] # r
    /\ key' = [key EXCEPT ![r] = "result"]
    /\ UNCHANGED <<rows, sweep, worker, req, rec, history, bounds>>

(***************************************************************************)
(* The job reconciler.  A pass is a sequence of phases; between two phases *)
(* it holds nothing it has read, and a phase that selects nothing changes  *)
(* nothing, so a phase may begin whenever the reconciler is idle.          *)
(***************************************************************************)

Select(phase, runs, seen) ==
    /\ rec.pc = "idle"
    /\ rec' = [pc |-> phase, runs |-> runs, seen |-> seen]
    /\ UNCHANGED <<rows, sweep, key, worker, req, history, bounds>>

\* Mutants: the two queries of rows with each other's status.
AbandonedQueued == {r \in Runs : status[r] = "queued" /\ age[r] >= Abandon}
UndeliveredRunning == {r \in Runs : status[r] = "running" /\ age[r] >= Redeliver}

Abandoned   == {r \in Runs : status[r] = "running" /\ age[r] >= Abandon}
Undelivered == {r \in Runs : status[r] = "queued" /\ age[r] >= Redeliver}
OpenSince(n) == {w \in Sweeps : Open(w) /\ sweep[w].age >= n}
Nothing == [w \in {} |-> 0]

SelectAbandoned   == Abandoned # {} /\ Select("abandon", Abandoned, Nothing)
SelectUndelivered == Undelivered # {} /\ Select("redeliver", Undelivered, Nothing)
\* Mutant: the hard boundary waits for the children, as the soft one does.
SelectExpiredResolved ==
    /\ OpenSince(SweepMax) # {} /\ \A w \in OpenSince(SweepMax) : Outstanding(w) = {}
    /\ Select("expire", {}, [w \in OpenSince(SweepMax) |-> sweep[w]])

SelectExpired ==
    /\ OpenSince(SweepMax) # {}
    /\ Select("expire", {}, [w \in OpenSince(SweepMax) |-> sweep[w]])
SelectStuck ==
    /\ OpenSince(Stuck) # {}
    /\ Select("close", {}, [w \in OpenSince(Stuck) |-> sweep[w]])

\* Every selected row becomes failed.  The update of a row that is gone
\* raises and the pass ends with nothing of this phase written.
Gone == \E r \in rec.runs : status[r] = "deleted"

FailSelected ==
    status' = [r \in Runs |-> IF r \in rec.runs THEN "failed" ELSE status[r]]

FailAbandoned ==
    /\ rec.pc = "abandon"
    /\ IF Gone THEN UNCHANGED status ELSE FailSelected
    /\ rec' = IdleRec
    /\ UNCHANGED <<surfaceOf, sweepOf, age, surfaces, sweep, key, worker, req,
                   history, bounds>>

RedeliverSelected ==
    /\ rec.pc = "redeliver"
    /\ key' = Enqueued(rec.runs)
    /\ rec' = IdleRec
    /\ UNCHANGED <<rows, sweep, worker, req, history, bounds>>

\* The outstanding children of the sweeps past the hard boundary are read.
SelectOutstanding ==
    /\ rec.pc = "expire"
    /\ rec' = [rec EXCEPT !.pc = "boundary",
                          !.runs = UNION {Outstanding(w) : w \in DOMAIN rec.seen}]
    /\ UNCHANGED <<rows, sweep, key, worker, req, history, bounds>>

\* The counters written are computed from the sweep read at the start of the
\* phase; the ORM writes failed_count only when that changes it.
Expired(w) ==
    LET seen == rec.seen[w]
        lost == Cardinality({r \in rec.runs : sweepOf[r] = w})
    IN [sweep[w] EXCEPT
          !.failed = IF lost = 0 THEN @ ELSE seen.failed + lost,
          !.finished = IF seen.finished = seen.total THEN @ ELSE seen.total,
          !.status = Verdict(seen.total, seen.failed + lost)]

CloseExpired ==
    /\ rec.pc = "boundary"
    /\ IF Gone THEN UNCHANGED <<status, sweep>>
       ELSE /\ FailSelected
            /\ sweep' = [w \in Sweeps |-> IF w \in DOMAIN rec.seen
                                          THEN Expired(w) ELSE sweep[w]]
    /\ late' = IF Gone THEN late ELSE late \cup rec.runs
    /\ rec' = IdleRec
    /\ UNCHANGED <<surfaceOf, sweepOf, age, surfaces, key, worker, req, claims,
                   crossed, overtaken, bounds>>

\* The outstanding children of each are counted: a sweep with none stays.
CountChildren ==
    /\ rec.pc = "close"
    /\ LET resolved == {w \in DOMAIN rec.seen : Outstanding(w) = {}}
       IN rec' = [rec EXCEPT !.pc = "resolved",
                             !.seen = [w \in resolved |-> rec.seen[w]]]
    /\ UNCHANGED <<rows, sweep, key, worker, req, history, bounds>>

\* Those are closed, with the verdict on the failure count read at the start
\* of the phase.
CloseStuck ==
    /\ rec.pc = "resolved"
    /\ sweep' = [w \in Sweeps |->
                   IF w \in DOMAIN rec.seen
                   THEN [sweep[w] EXCEPT !.status =
                           Verdict(rec.seen[w].total, rec.seen[w].failed)]
                   ELSE sweep[w]]
    /\ rec' = IdleRec
    /\ UNCHANGED <<rows, key, worker, req, history, bounds>>

RecWrite == FailAbandoned \/ RedeliverSelected \/ SelectOutstanding
            \/ CloseExpired \/ CountChildren \/ CloseStuck

Reconciler == SelectAbandoned \/ SelectUndelivered \/ SelectExpired
              \/ SelectStuck \/ RecWrite

(***************************************************************************)
(* The environment: deletions, failures and time.                          *)
(***************************************************************************)

Event(e) == e \in Events /\ events < MaxEvents /\ events' = events + 1

\* competitor_service.delete_competitor: the runs and the surfaces of the
\* competitor go in one transaction.
DeleteSurface(s) ==
    /\ Event("delete") /\ s \in surfaces
    /\ surfaces' = surfaces \ {s}
    /\ status' = [r \in Runs |-> IF surfaceOf[r] = s THEN "deleted" ELSE status[r]]
    /\ UNCHANGED <<surfaceOf, sweepOf, age, sweep, key, worker, req, rec,
                   history, quota>>

\* The Redis call of a dispatch fails part way; the rows stay queued.
DispatchFails(q) ==
    /\ Event("enqueue") /\ req[q].pc = "dispatch"
    /\ \E sent \in SUBSET req[q].claimed :
         sent # req[q].claimed /\ key' = Enqueued(sent)
    /\ req' = [req EXCEPT ![q] = IdleReq]
    /\ UNCHANGED <<rows, sweep, worker, rec, history, quota>>

\* Redis restarts without its data.
RedisLoss ==
    /\ Event("redis")
    /\ key' = [r \in Runs |-> "none"]
    /\ UNCHANGED <<rows, sweep, worker, req, rec, history, quota>>

\* The worker process dies; its jobs stay marked in progress in Redis.
WorkerCrash ==
    /\ Event("worker") /\ \E t \in Threads : pc[t] # "idle"
    /\ pc' = [t \in Threads |-> "idle"]
    /\ job' = [t \in Threads |-> NoRun]
    /\ outcome' = [t \in Threads |-> "none"]
    /\ UNCHANGED <<rows, sweep, key, req, rec, history, quota>>

\* The web process dies: requests and the reconciler's pass are lost.
WebCrash ==
    /\ Event("web") /\ (rec # IdleRec \/ \E q \in Requesters : req[q] # IdleReq)
    /\ req' = [q \in Requesters |-> IdleReq]
    /\ rec' = IdleRec
    /\ overtaken' = {}
    /\ UNCHANGED <<rows, sweep, key, worker, claims, late, crossed, quota>>

Environment ==
    \/ \E s \in Surfaces : DeleteSurface(s)
    \/ \E q \in Requesters : DispatchFails(q)
    \/ RedisLoss \/ WorkerCrash \/ WebCrash

\* Database steps take no time on the scale of the thresholds: time passes
\* while requests and the reconciler rest and threads are inside a check.
\* arq's timeout is punctual, and the two bounds are the environment's.
Resting ==
    /\ rec.pc = "idle" /\ \A q \in Requesters : req[q].pc = "idle"
    /\ \A t \in Threads : pc[t] \in {"idle", "checking"} /\ ~TimedOut(t)

Punctual(r) ==
    /\ status[r] = "queued" => age[r] < WaitBound
    /\ (\E t \in Threads : job[t] = r) => age[r] < CheckBound

Older(n, max) == IF n < max THEN n + 1 ELSE max

\* Only what somebody may still read of a run is kept.
Kept(r) == status[r] \in InFlight \/ \E t \in Threads : job[t] = r

Tick ==
    /\ Resting /\ \A r \in Runs : Punctual(r)
    /\ age' = [r \in Runs |->
                 IF Kept(r) THEN Older(age[r], Abandon) ELSE 0]
    /\ sweep' = [w \in Sweeps |-> [sweep[w] EXCEPT !.age =
                   IF Open(w) \/ Outstanding(w) # {}
                      \/ \E t \in Threads : pc[t] # "idle" /\ sweepOf[job[t]] = w
                   THEN Older(@, SweepMax) ELSE 0]]
    /\ late' = {r \in Runs : Kept(r) /\ (r \in late \/ age'[r] >= Stale)}
    /\ UNCHANGED <<status, surfaceOf, sweepOf, surfaces, key, worker, req, rec,
                   claims, crossed, overtaken, bounds>>

Next ==
    \/ \E q \in Requesters : Request(q)
    \/ \E t \in Threads : Thread(t) \/ JobTimeout(t)
    \/ \E r \in Runs : ResultExpires(r) \/ OrphanAborted(r)
    \/ Reconciler
    \/ Environment
    \/ Tick

Spec == Init /\ [][Next]_vars

(***************************************************************************)
(* Fairness.  Time passes; APScheduler runs a pass every five minutes and  *)
(* a pass ends; a request and the statements around a check end.  Nothing  *)
(* makes a user ask, and LiveSpec lets the worker never run a job.         *)
(***************************************************************************)

LiveSpec ==
    /\ Spec
    /\ SF_vars(Tick)
    /\ WF_vars(RecWrite)
    /\ SF_vars(SelectAbandoned) /\ SF_vars(SelectUndelivered)
    /\ SF_vars(SelectExpired) /\ SF_vars(SelectStuck)
    /\ \A q \in Requesters : WF_vars(RequestStep(q))
    /\ \A t \in Threads : WF_vars(ShortStep(t) \/ JobTimeout(t))

\* A worker is up: it takes queued jobs, and every check ends.
WorkerUp ==
    /\ WF_vars(\E t \in Threads : FinishCheck(t))
    /\ SF_vars(\E t \in Threads, r \in Runs : StartJob(t, r) \/ SkipJob(t, r))
    /\ WF_vars(\E r \in Runs : ResultExpires(r) \/ OrphanAborted(r))

(***************************************************************************)
(* Properties.                                                             *)
(***************************************************************************)

SweepRow == [status : SweepStates, total : Nat, finished : Nat, failed : Nat,
             age : 0..SweepMax]
ReqState == [pc : {"idle", "reclaim", "guard", "insert", "open", "next", "dispatch"},
             surface : Surfaces \cup {NoSurface}, sweep : Sweeps \cup {NoSweep},
             todo : SUBSET Surfaces, claimed : SUBSET Runs, stale : SUBSET Runs]
RecState == {"idle", "abandon", "redeliver", "expire", "boundary", "close", "resolved"}
SeenOK(f) == \E W \in SUBSET Sweeps : f \in [W -> SweepRow]
RecOK(x) ==
    /\ x = [pc |-> x.pc, runs |-> x.runs, seen |-> x.seen]
    /\ x.pc \in RecState /\ x.runs \in SUBSET Runs /\ SeenOK(x.seen)

\* Every column, queue entry and local variable has a value of its type.
TypeOK ==
    /\ status \in [Runs -> RowStates]
    /\ surfaceOf \in [Runs -> Surfaces \cup {NoSurface}]
    /\ sweepOf \in [Runs -> Sweeps \cup {NoSweep}]
    /\ age \in [Runs -> 0..Abandon]
    /\ surfaces \subseteq Surfaces
    /\ sweep \in [Sweeps -> SweepRow]
    /\ key \in [Runs -> {"none", "queued", "running", "result"}]
    /\ pc \in [Threads -> {"idle", "loaded", "checking", "counting", "reading", "closing"}]
    /\ job \in [Threads -> Runs \cup {NoRun}]
    /\ outcome \in [Threads -> {"none", "success", "failed"}]
    /\ \A t \in Threads : pc[t] = "closing" => outcome[t] # "none"
    /\ req \in [Requesters -> ReqState]
    /\ RecOK(rec)
    /\ claims \in [Runs -> Nat]
    /\ late \subseteq Runs /\ crossed \subseteq Runs /\ overtaken \subseteq Requesters
    /\ quota \in 0..MaxRuns /\ events \in 0..MaxEvents

Terminal == {"success", "failed"}
Holds(t, r) == pc[t] # "idle" /\ job[t] = r
Checking(t) == pc[t] = "checking"

\* The pipeline is executed at most once for a run, however often its message
\* is delivered: "a re-run would re-bill NIM tokens" (check_service.py:165-167).
ExecutedOnce == \A r \in Runs : claims[r] <= 1

\* What the in-flight guard does not keep apart: runs that waited or ran for
\* the stale threshold, and runs whose requests crossed.
Excused(r) == r \in late \cup crossed

\* Two checks of a page wait or run beside each other only if one of them was
\* given up on or 15 minutes old, or if both requests had passed the guard before
\* either inserted: the guard is a read, not the transaction of
\* routers/surfaces.py:282-283.
NotStacked == \A r, x \in Runs :
    /\ status[r] \in InFlight /\ status[x] \in InFlight
    /\ surfaceOf[r] = surfaceOf[x] /\ r # x
    => Excused(r) \/ Excused(x)

\* Two threads check a page at a time only under the same conditions: a thread
\* that outlived its timeout does meet the retry (against worker.py:18-21), and
\* one that did not meets nobody unless two requests crossed.
CheckedApart == \A t, u \in Threads :
    /\ Checking(t) /\ Checking(u) /\ t # u
    /\ surfaceOf[job[t]] = surfaceOf[job[u]]
    => Excused(job[t]) \/ Excused(job[u])

\* A request is refused only on account of a run younger than the stale
\* threshold: a lost message never blocks a surface (check_service.py:272-275).
RefusedByFreshRun ==
    [][\A q \in Requesters : GuardRefuses(q) =>
         \E r \in Runs : /\ surfaceOf[r] = req[q].surface /\ age[r] < Stale
                        /\ status[r] \in InFlight]_vars

\* The rows a sweep's counters stand for: its children that ended, less those
\* whose thread is about to count them.
Counted(w, states) ==
    Cardinality({r \in Children(w) : status[r] \in states})
    - Cardinality({t \in Threads : /\ pc[t] = "counting" /\ outcome[t] \in states
                                   /\ sweepOf[job[t]] = w})

\* The two counters of a sweep count its ended and failed children exactly,
\* although workers count concurrently and without reading.
CountersExact == \A w \in Sweeps :
    /\ sweep[w].finished = Counted(w, Terminal)
    /\ sweep[w].failed = Counted(w, {"failed"})

\* A sweep is closed by its last check, never earlier, and its verdict is
\* "failed" exactly when every check failed (models/check_sweep.py:35-37).
ClosedByLastCheck == \A w \in Sweeps : sweep[w].status \in Terminal =>
    /\ Outstanding(w) = {}
    /\ sweep[w].finished = sweep[w].total
    /\ sweep[w].total = Cardinality(Children(w))
    /\ sweep[w].status = "failed" <=>
         (Children(w) # {} /\ \A r \in Children(w) : status[r] = "failed")

\* Nothing changes a run that ended or a sweep that was closed, so that a
\* poller that stops at a terminal status has seen the last word.
TerminalIsFinal ==
    [][/\ \A r \in Runs : status[r] \in Terminal => status'[r] \in {status[r], "deleted"}
       /\ \A w \in Sweeps : sweep[w].status \in Terminal =>
            sweep'[w] = [sweep[w] EXCEPT !.age = sweep'[w].age]]_vars

\* Every sweep is closed for good in the end, whatever becomes of its checks
\* (job_reconciler.py:60-65).
SweepsClose == <>[](\A w \in Sweeps : ~Open(w))

\* Every run ends: a claimed one through its worker, the reconciler or its
\* deletion, though nothing be known of the worker; a queued one, however its
\* message was lost (queue.py:21-23), if a worker is up.  The runs are finitely
\* many, so the states are left for good.
RunsEnd ==
    /\ <>[](\A r \in Runs : status[r] # "running")
    /\ WorkerUp => <>[](\A r \in Runs : status[r] # "queued")

=============================================================================
