----------------------------- MODULE JobRunners -----------------------------
(***************************************************************************)
(* The four other background jobs: briefing, battlecard update, discovery  *)
(* of a competitor's pages and site summary.  A request inserts a job row  *)
(* and dispatches it; a runner reads the row, marks it running, does the   *)
(* work and records the outcome on the row; the job reconciler repairs     *)
(* what was lost.  Unlike a check, a runner does not look at the status it *)
(* reads, and a row keeps the age of its request.                          *)
(*                                                                         *)
(* Both transports are modelled: "queue" (arq, a worker process) and       *)
(* "inline" (no REDIS_URL: FastAPI's BackgroundTasks in the web process).  *)
(* Every action is one database commit, one Redis call, or one query whose *)
(* answer is used by a later commit.  Budget and rate limit only refuse a  *)
(* request and are left out; what the work does is one commit or a failure.*)
(***************************************************************************)
EXTENDS Integers, FiniteSets

CONSTANTS
    Rows,                 \* job rows, of all four tables
    Competitors, NoCompetitor,
    Threads, NoRow,       \* threads of the executing process; the null
    Requesters,           \* concurrent web requests
    Asked,                \* the kinds of job they ask for
    MaxJobs,              \* settings.arq_max_jobs
    Redeliver,            \* _QUEUED_REDELIVER_MINUTES  (10)
    Timeout,              \* settings.arq_job_timeout   (15)
    Abandon,              \* _RUNNING_ABANDONED_MINUTES (30)
    Modes,                \* the transports to consider
    Events,               \* what the environment may do, each kind once
    MaxEvents             \* how many kinds in one behaviour

Kinds     == {"briefing", "battlecard", "discovery", "summary"}
Drafting  == {"briefing", "battlecard"}
Guarded   == {"discovery", "summary"}
InFlight  == {"queued", "running"}
Terminal  == {"success", "failed"}
RowStates == {"absent", "deleted"} \cup InFlight \cup Terminal

ASSUME RunnersAssumption ==
    /\ IsFiniteSet(Rows) /\ NoRow \notin Rows
    /\ NoCompetitor \notin Competitors
    /\ MaxJobs \in Nat \ {0} /\ MaxEvents \in Nat
    /\ {Redeliver, Timeout, Abandon} \subseteq Nat
    /\ 0 < Redeliver /\ Redeliver < Timeout /\ Timeout < Abandon
    /\ Asked \subseteq Kinds
    /\ Modes \subseteq {"queue", "inline"}
    /\ Events \subseteq {"redis", "worker", "web", "enqueue", "delete"}

VARIABLES
    kind, competitorOf, status, age, \* the job tables; age is of created_at
    competitors,                     \* the competitors there are
    key,                             \* what the transport knows of a job
    pc, job, verdict, ran,           \* threads, and how long each has worked
    req, rec,                        \* requests, the reconciler's pass
    mode, drafts, happened,          \* transport; drafts committed; events
    \* Bookkeeping: rows inserted beside another because their request had
    \* passed the guard already, and the requests so overtaken.
    crossed, overtaken

rows    == <<kind, competitorOf, status, age, competitors>>
threads == <<pc, job, verdict, ran>>
crossings == <<crossed, overtaken>>
history == <<mode, drafts, happened, crossings>>
vars    == <<rows, key, threads, req, rec, history>>

IdleReq == [pc |-> "idle", kind |-> "none", competitor |-> NoCompetitor, row |-> NoRow]
IdleRec == [pc |-> "idle", rows |-> {}]

Init ==
    /\ kind = [r \in Rows |-> "none"]
    /\ competitorOf = [r \in Rows |-> NoCompetitor]
    /\ status = [r \in Rows |-> "absent"]
    /\ age = [r \in Rows |-> 0]
    /\ competitors = {}
    /\ key = [r \in Rows |-> "none"]
    /\ pc = [t \in Threads |-> "idle"]
    /\ job = [t \in Threads |-> NoRow]
    /\ verdict = [t \in Threads |-> "none"]
    /\ ran = [t \in Threads |-> 0]
    /\ req = [q \in Requesters |-> IdleReq]
    /\ rec = IdleRec
    /\ mode \in Modes
    /\ drafts = [r \in Rows |-> 0]
    /\ happened = {}
    /\ crossed = {} /\ overtaken = {}

(***************************************************************************)
(* Requests.                                                               *)
(***************************************************************************)

\* Model bounds: the kinds of job asked for, and a request begins only if a
\* row is left for it to insert.
RowLeft == Cardinality({q \in Requesters : req[q].pc = "insert"})
             < Cardinality({r \in Rows : status[r] = "absent"})

Ask(q, k, c) ==
    /\ k \in Asked /\ RowLeft
    /\ req' = [req EXCEPT ![q] = [IdleReq EXCEPT !.pc = "insert", !.kind = k,
                                                 !.competitor = c]]

\* generate_now: a briefing has no guard against a second one.
AskBriefing(q) ==
    /\ req[q].pc = "idle" /\ Ask(q, "briefing", NoCompetitor)
    /\ UNCHANGED <<rows, key, threads, rec, history>>

\* propose_update: the same, for a competitor of the workspace.
AskBattlecard(q, c) ==
    /\ req[q].pc = "idle" /\ c \in competitors /\ Ask(q, "battlecard", c)
    /\ UNCHANGED <<rows, key, threads, rec, history>>

\* create_competitor with a website: the competitor is committed first.
\* Model bound: a competitor is created while it has no row.
CreateCompetitor(q, c) ==
    /\ req[q].pc = "idle" /\ c \notin competitors
    /\ \A r \in Rows : competitorOf[r] # c
    /\ competitors' = competitors \cup {c}
    /\ Ask(q, "discovery", c)
    /\ UNCHANGED <<kind, competitorOf, status, age, key, threads, rec, history>>

\* Mutant: the guard looks at running jobs only.
BusyRunning(k, c) == \E r \in Rows :
    kind[r] = k /\ competitorOf[r] = c /\ status[r] = "running"

\* The in-flight job the guard's SELECT finds.
Busy(k, c) == \E r \in Rows :
    kind[r] = k /\ competitorOf[r] = c /\ status[r] \in InFlight

\* refresh_site_summary and discover_more_surfaces: a job in flight is
\* returned as it is, and nothing is inserted.
AskGuarded(q, k, c) ==
    /\ req[q].pc = "idle" /\ c \in competitors /\ ~Busy(k, c)
    /\ Ask(q, k, c)
    /\ UNCHANGED <<rows, key, threads, rec, history>>

\* Requests of a guarded kind that have looked for a job in flight already.
Inserting(p, k, c) ==
    /\ k \in Guarded
    /\ req[p].pc = "insert" /\ req[p].kind = k /\ req[p].competitor = c

\* INSERT of the queued row.  The foreign key refuses a competitor deleted
\* meanwhile, which ends the request.  Nothing looks for a rival's row.
InsertRow(q, r) ==
    LET k == req[q].kind  c == req[q].competitor
    IN
    /\ req[q].pc = "insert" /\ status[r] = "absent"
    /\ IF c \in competitors \cup {NoCompetitor}
       THEN /\ kind' = [kind EXCEPT ![r] = k]
            /\ competitorOf' = [competitorOf EXCEPT ![r] = c]
            /\ status' = [status EXCEPT ![r] = "queued"]
            /\ req' = [req EXCEPT ![q] = [IdleReq EXCEPT !.pc = "dispatch", !.row = r]]
            /\ crossed' = IF q \in overtaken /\ Busy(k, c) THEN crossed \cup {r}
                                                          ELSE crossed
            /\ overtaken' = {p \in Requesters \ {q} :
                                p \in overtaken \/ Inserting(p, k, c)}
       ELSE /\ req' = [req EXCEPT ![q] = IdleReq]
            /\ overtaken' = overtaken \ {q}
            /\ UNCHANGED <<kind, competitorOf, status, crossed>>
    /\ UNCHANGED <<age, competitors, key, threads, rec, mode, drafts, happened>>

\* Mutant: every dispatch makes a job, whatever arq knows of the id.
EnqueuedAgain(set) == [r \in Rows |-> IF r \in set THEN "queued" ELSE key[r]]

\* arq refuses a job whose id is queued, in progress, or has a result; a
\* background task is simply added.
Enqueued(set) == [r \in Rows |->
    IF r \in set /\ (key[r] = "none" \/ mode = "inline") THEN "queued" ELSE key[r]]

Dispatch(q) ==
    /\ req[q].pc = "dispatch"
    /\ key' = Enqueued({req[q].row})
    /\ req' = [req EXCEPT ![q] = IdleReq]
    /\ UNCHANGED <<rows, threads, rec, history>>

RequestStep(q) == Dispatch(q) \/ \E r \in Rows : InsertRow(q, r)

Request(q) ==
    \/ AskBriefing(q)
    \/ \E c \in Competitors :
         \/ AskBattlecard(q, c) \/ CreateCompetitor(q, c)
         \/ \E k \in Guarded : AskGuarded(q, k, c)
    \/ RequestStep(q)

(***************************************************************************)
(* The runners, on a thread of the worker or of the web process.           *)
(***************************************************************************)

\* Threads whose coroutine arq still counts as one of its running jobs.
Active == {t \in Threads : pc[t] # "idle" /\ key[job[t]] = "running"}
MayStart(t, r) ==
    /\ pc[t] = "idle" /\ key[r] = "queued"
    /\ mode = "queue" => Cardinality(Active) < MaxJobs

\* The runner reads its row and finds one.  Its status is not looked at.
StartJob(t, r) ==
    /\ MayStart(t, r) /\ status[r] # "deleted"
    /\ key' = [key EXCEPT ![r] = "running"]
    /\ pc' = [pc EXCEPT ![t] = "read"]
    /\ job' = [job EXCEPT ![t] = r]
    /\ UNCHANGED <<rows, verdict, ran, req, rec, history>>

Returned == IF mode = "queue" THEN "result" ELSE "none"

\* The row is gone: the runner returns.
JobGone(t, r) ==
    /\ MayStart(t, r) /\ status[r] = "deleted"
    /\ key' = [key EXCEPT ![r] = Returned]
    /\ UNCHANGED <<rows, threads, req, rec, history>>

EndJob(t) ==
    /\ pc' = [pc EXCEPT ![t] = "idle"]
    /\ job' = [job EXCEPT ![t] = NoRow]
    /\ verdict' = [verdict EXCEPT ![t] = "none"]
    /\ ran' = [ran EXCEPT ![t] = 0]
    /\ key' = [r \in Rows |-> IF r = job[t] /\ key[r] = "running"
                              THEN Returned ELSE key[r]]

\* The row becomes running.  The update of a row that is gone raises, and
\* the runner ends with nothing recorded.
Begin(t) ==
    /\ pc[t] = "read"
    /\ IF status[job[t]] = "deleted"
       THEN EndJob(t) /\ UNCHANGED status
       ELSE /\ status' = [status EXCEPT ![job[t]] = "running"]
            /\ pc' = [pc EXCEPT ![t] = "working"]
            /\ UNCHANGED <<job, verdict, ran, key>>
    /\ UNCHANGED <<kind, competitorOf, age, competitors, req, rec, history>>

\* The work commits what it makes, in the same commit as the approval item
\* of a draft, before the job's row says so.
Work(t) ==
    LET r == job[t]
    IN /\ pc[t] = "working"
       /\ competitorOf[r] \in competitors \cup {NoCompetitor}
       /\ drafts' = [drafts EXCEPT ![r] = IF kind[r] \in Drafting THEN @ + 1 ELSE @]
       /\ pc' = [pc EXCEPT ![t] = "recording"]
       /\ verdict' = [verdict EXCEPT ![t] = "success"]
       /\ UNCHANGED <<rows, key, job, ran, req, rec, mode, happened, crossings>>

\* Mutant: the draft is committed by a failing run too.
WorkFailsLate(t) ==
    /\ pc[t] = "working"
    /\ pc' = [pc EXCEPT ![t] = "recording"]
    /\ verdict' = [verdict EXCEPT ![t] = "failed"]
    /\ drafts' = [drafts EXCEPT ![job[t]] = IF kind[job[t]] \in Drafting THEN @ + 1 ELSE @]
    /\ UNCHANGED <<rows, key, job, ran, req, rec, mode, happened, crossings>>

\* The work raises and is rolled back: nothing found, over budget, no model,
\* a page or provider that fails, a competitor deleted meanwhile.
WorkFails(t) ==
    /\ pc[t] = "working"
    /\ pc' = [pc EXCEPT ![t] = "recording"]
    /\ verdict' = [verdict EXCEPT ![t] = "failed"]
    /\ UNCHANGED <<rows, key, job, ran, req, rec, history>>

\* The outcome is written over whatever the row says; without a row the
\* assignment or the commit raises and nothing is written.
Record(t) ==
    /\ pc[t] = "recording"
    /\ status' = [status EXCEPT ![job[t]] =
                     IF @ = "deleted" THEN "deleted" ELSE verdict[t]]
    /\ EndJob(t)
    /\ UNCHANGED <<kind, competitorOf, age, competitors, req, rec, history>>

ShortStep(t) == Begin(t) \/ Record(t)
Thread(t) == \/ \E r \in Rows : StartJob(t, r) \/ JobGone(t, r)
             \/ ShortStep(t) \/ Work(t) \/ WorkFails(t)

\* job_timeout: arq cancels the coroutine and forgets it; the thread goes on.
TimedOut(t) == t \in Active /\ mode = "queue" /\ ran[t] >= Timeout
JobTimeout(t) ==
    /\ TimedOut(t)
    /\ key' = [key EXCEPT ![job[t]] = "result"]
    /\ UNCHANGED <<rows, threads, req, rec, history>>

\* keep_result (5 minutes) later arq has forgotten the job: longer than the
\* reconciler takes between a query and what it does with the answer.
ResultExpires(r) ==
    /\ key[r] = "result" /\ rec.pc = "idle"
    /\ key' = [key EXCEPT ![r] = "none"]
    /\ UNCHANGED <<rows, threads, req, rec, history>>

\* A job whose worker died is tried again, and refused by max_tries = 1.
OrphanAborted(r) ==
    /\ mode = "queue" /\ key[r] = "running" /\ \A t \in Threads : job[t] # r
    /\ key' = [key EXCEPT ![r] = "result"]
    /\ UNCHANGED <<rows, threads, req, rec, history>>

(***************************************************************************)
(* The job reconciler.                                                     *)
(***************************************************************************)

\* Mutants: the two queries with each other's status, or threshold.
AbandonedEarly == {r \in Rows : status[r] = "running" /\ age[r] >= Redeliver}
AbandonedQueued == {r \in Rows : status[r] = "queued" /\ age[r] >= Abandon}
UndeliveredRunning == {r \in Rows : status[r] = "running" /\ age[r] >= Redeliver}

Abandoned   == {r \in Rows : status[r] = "running" /\ age[r] >= Abandon}
Undelivered == {r \in Rows : status[r] = "queued" /\ age[r] >= Redeliver}

Select(phase, set) ==
    /\ rec.pc = "idle" /\ set # {}
    /\ rec' = [pc |-> phase, rows |-> set]
    /\ UNCHANGED <<rows, key, threads, req, history>>

SelectAbandoned   == Select("abandon", Abandoned)
SelectUndelivered == mode = "queue" /\ Select("redeliver", Undelivered)

\* One commit for all tables: a selected row that is gone loses it for all.
FailAbandoned ==
    /\ rec.pc = "abandon"
    /\ status' = IF \E r \in rec.rows : status[r] = "deleted" THEN status
                 ELSE [r \in Rows |-> IF r \in rec.rows THEN "failed" ELSE status[r]]
    /\ rec' = IdleRec
    /\ UNCHANGED <<kind, competitorOf, age, competitors, key, threads, req, history>>

RedeliverSelected ==
    /\ rec.pc = "redeliver"
    /\ key' = Enqueued(rec.rows)
    /\ rec' = IdleRec
    /\ UNCHANGED <<rows, threads, req, history>>

RecWrite == FailAbandoned \/ RedeliverSelected

(***************************************************************************)
(* The environment: deletions, failures and time.                          *)
(***************************************************************************)

Event(e) ==
    /\ e \in Events \ happened /\ Cardinality(happened) < MaxEvents
    /\ happened' = happened \cup {e} /\ UNCHANGED mode

\* delete_competitor: its jobs go with it, and a battlecard's drafts.  A
\* briefing is the workspace's and stays.
DeleteCompetitor(c) ==
    LET gone == {r \in Rows : competitorOf[r] = c}
    IN /\ Event("delete") /\ c \in competitors
       /\ competitors' = competitors \ {c}
       /\ status' = [r \in Rows |-> IF r \in gone THEN "deleted" ELSE status[r]]
       /\ drafts' = [r \in Rows |-> IF r \in gone THEN 0 ELSE drafts[r]]
       /\ UNCHANGED <<kind, competitorOf, age, key, threads, req, rec, crossings>>

\* The Redis call fails; the row stays queued.
DispatchFails(q) ==
    /\ Event("enqueue") /\ mode = "queue" /\ req[q].pc = "dispatch"
    /\ req' = [req EXCEPT ![q] = IdleReq]
    /\ UNCHANGED <<rows, key, threads, rec, drafts, crossings>>

\* Redis restarts without its data.
RedisLoss ==
    /\ Event("redis") /\ mode = "queue"
    /\ key' = [r \in Rows |-> "none"]
    /\ UNCHANGED <<rows, threads, req, rec, drafts, crossings>>

ThreadsDie ==
    /\ pc' = [t \in Threads |-> "idle"]
    /\ job' = [t \in Threads |-> NoRow]
    /\ verdict' = [t \in Threads |-> "none"]
    /\ ran' = [t \in Threads |-> 0]

\* The worker process dies; its jobs stay marked in progress in Redis.
WorkerCrash ==
    /\ Event("worker") /\ mode = "queue" /\ \E t \in Threads : pc[t] # "idle"
    /\ ThreadsDie
    /\ UNCHANGED <<rows, key, req, rec, drafts, crossings>>

\* The web process dies, and without a queue its background tasks with it.
WebCrash ==
    /\ Event("web")
    /\ req' = [q \in Requesters |-> IdleReq]
    /\ rec' = IdleRec
    /\ IF mode = "inline" THEN ThreadsDie /\ key' = [r \in Rows |-> "none"]
                          ELSE UNCHANGED <<threads, key>>
    /\ overtaken' = {}
    /\ UNCHANGED <<rows, drafts, crossed>>

Environment ==
    \/ \E c \in Competitors : DeleteCompetitor(c)
    \/ \E q \in Requesters : DispatchFails(q)
    \/ RedisLoss \/ WorkerCrash \/ WebCrash

\* Database steps take no time on the scale of the thresholds: time passes
\* while requests and the reconciler rest and threads are at work, and
\* arq's timeout is punctual.
Resting ==
    /\ rec.pc = "idle" /\ \A q \in Requesters : req[q].pc = "idle"
    /\ \A t \in Threads : pc[t] \in {"idle", "working"} /\ ~TimedOut(t)

Older(n, max) == IF n < max THEN n + 1 ELSE max

\* Only the ages somebody may still read are kept.
Tick ==
    /\ Resting
    /\ age' = [r \in Rows |->
                 IF status[r] \in InFlight \/ \E t \in Threads : job[t] = r
                 THEN Older(age[r], Abandon) ELSE 0]
    /\ ran' = [t \in Threads |-> IF pc[t] = "working" THEN Older(ran[t], Timeout) ELSE 0]
    /\ UNCHANGED <<kind, competitorOf, status, competitors, key, pc, job, verdict,
                   req, rec, history>>

Next ==
    \/ \E q \in Requesters : Request(q)
    \/ \E t \in Threads : Thread(t) \/ JobTimeout(t)
    \/ \E r \in Rows : ResultExpires(r) \/ OrphanAborted(r)
    \/ SelectAbandoned \/ SelectUndelivered \/ RecWrite
    \/ Environment
    \/ Tick

Spec == Init /\ [][Next]_vars

(***************************************************************************)
(* Fairness: time passes; the reconciler makes its passes; requests and    *)
(* the short statements of a runner end; whoever executes jobs takes them. *)
(* The work itself need not end: a page or a provider may hang.            *)
(***************************************************************************)
LiveSpec ==
    /\ Spec
    /\ SF_vars(Tick) /\ WF_vars(RecWrite)
    /\ SF_vars(SelectAbandoned) /\ SF_vars(SelectUndelivered)
    /\ WF_vars(\E q \in Requesters : RequestStep(q))
    /\ WF_vars(\E t \in Threads : ShortStep(t))
    /\ WF_vars(\E t \in Threads : JobTimeout(t))
    /\ WF_vars(\E r \in Rows : OrphanAborted(r))
    /\ SF_vars(\E r \in Rows : ResultExpires(r))
    /\ SF_vars(\E t \in Threads, r \in Rows : StartJob(t, r) \/ JobGone(t, r))

(***************************************************************************)
(* Properties.                                                             *)
(***************************************************************************)

ReqState == [pc : {"idle", "insert", "dispatch"}, kind : Kinds \cup {"none"},
             competitor : Competitors \cup {NoCompetitor}, row : Rows \cup {NoRow}]

\* Every column, queue entry and local variable has a value of its type.
TypeOK ==
    /\ kind \in [Rows -> Kinds \cup {"none"}]
    /\ competitorOf \in [Rows -> Competitors \cup {NoCompetitor}]
    /\ status \in [Rows -> RowStates]
    /\ age \in [Rows -> 0..Abandon]
    /\ competitors \subseteq Competitors
    /\ key \in [Rows -> {"none", "queued", "running", "result"}]
    /\ pc \in [Threads -> {"idle", "read", "working", "recording"}]
    /\ job \in [Threads -> Rows \cup {NoRow}]
    /\ verdict \in [Threads -> Terminal \cup {"none"}]
    /\ ran \in [Threads -> 0..Timeout]
    /\ req \in [Requesters -> ReqState]
    /\ rec \in [pc : {"idle", "abandon", "redeliver"}, rows : SUBSET Rows]
    /\ mode \in Modes
    /\ drafts \in [Rows -> Nat]
    /\ happened \subseteq Events
    /\ crossed \subseteq Rows /\ overtaken \subseteq Requesters

RedisLost == "redis" \in happened

\* A job makes at most one draft for approval, however often it is delivered,
\* redelivered, timed out or crashed: "nothing happens twice"
\* (job_reconciler.py:19-22).  It rests on Redis keeping its keys: a runner
\* does not look at its row's status.
DraftedOnce == ~RedisLost => \A r \in Rows : drafts[r] <= 1

\* Two threads do one guarded job for a competitor at a time only once a job is
\* 30 minutes old and given up on, or if both requests had passed the in-flight
\* check before either inserted: that check is a read without a lock, and does
\* not stop every double-click (against models/site_summary_job.py:31-33).
WorkedAlone == ~RedisLost => \A t, u \in Threads :
    /\ pc[t] = "working" /\ pc[u] = "working" /\ t # u
    /\ kind[job[t]] \in Guarded /\ kind[job[t]] = kind[job[u]]
    /\ competitorOf[job[t]] = competitorOf[job[u]]
    => \E r \in {job[t], job[u]} : age[r] >= Abandon \/ r \in crossed

\* A verdict a poller may have read stands, unless the job is 30 minutes old
\* and the reconciler and a late thread disagree about it.
VerdictKept == \A r \in Rows : status[r] \in Terminal /\ status'[r] # status[r] =>
    status'[r] = "deleted" \/ age[r] >= Abandon \/ RedisLost
VerdictStands == [][VerdictKept]_vars

\* A job whose draft awaits approval is called failed only by the
\* reconciler's 30-minute verdict: an error rolls the draft back first.
DraftKept == \A r \in Rows :
    status[r] # "failed" /\ status'[r] = "failed" /\ drafts[r] > 0
      => age[r] >= Abandon \/ RedisLost
DraftNotDisowned == [][DraftKept]_vars

\* Every job ends for whoever polls it: a running one though its work may hang
\* or its process die; with a queue a queued one too, though its message is lost
\* and earlier jobs hang (queue.py:21-23).
JobsEnd == \A r \in Rows :
    /\ status[r] = "running" ~> status[r] # "running"
    /\ mode = "queue" /\ status[r] = "queued" ~> status[r] # "queued"

=============================================================================
