# Competitive Intelligence Monitor: specification and proofs

The repository is a web application that watches the pages of competitors. A
FastAPI process serves the requests, an arq worker process executes the slow
jobs, Postgres holds the truth about every job, Redis carries the messages
between the two processes, and a reconciler in the web process repairs what was
lost. This directory holds TLA+ modules of the parts of that system where
processes interleave and fail, the TLC configurations that check them, and
proofs for TLAPS. Paths below are relative to `src/backend/app` unless they
begin with `src/`.

1. [Inventory](#inventory)
2. [Modules and how they correspond to the code](#modules-and-the-code)
3. [What the runs check](#runs)
4. [Bounds](#bounds)
5. [Fairness](#fairness)
6. [What is proved](#proofs)
7. [Disagreements between the code and its comments](#disagreements)
8. [What is not modelled](#not-modelled)
9. [Plan](#plan)

## Inventory

| Component | Keeps | Operations | Talks to | Correct when |
|---|---|---|---|---|
| Check pipeline, `services/check_service.py`, `routers/jobs.py`, `routers/surfaces.py` | `CheckRun` rows (queued, running, success, failed), `CheckSweep` rows (total, finished, failed_count, status) | claim a run under the in-flight guard, reclaim stale runs, execute, count against the sweep, close the sweep | queue (dispatch), worker (execution), reconciler, scheduler | a run is executed once; two checks of a page meet only if one is late or their requests crossed; the counters of a sweep say how its checks ended; every run and sweep ends |
| Job runners: briefing, battlecard update, discovery, site summary, `services/*_service.py` | one job row per request, the draft it makes, the approval item of the draft | request (two kinds with an in-flight guard), execute, record the verdict | queue or BackgroundTasks, approvals, reconciler | one draft per job; a verdict that was shown stands; every job ends |
| Job reconciler, `services/job_reconciler.py` | nothing between passes | fail abandoned rows, redeliver queued ones, close expired and stuck sweeps | Postgres, queue | it ends whatever nobody else will end, and leaves the living alone |
| Queue seam, `queue.py`; worker, `worker.py` | Redis keys of arq, one per job id | dispatch (Redis or BackgroundTasks), refuse duplicates, time out, keep results | Redis, runners | a committed row is delivered or repaired, never executed twice |
| Approvals and delivery, `services/approval_service.py`, `services/delivery/`, `services/battlecard_service.py` | approval items, briefings, updates of battlecards, battlecards, integrations | draft, decide, apply the decision, deliver now or in the digest | connectors, scheduler, deletion | a draft is decided once and only an approved one leaves; the battlecard says what was approved |
| Surface watching, `scheduler.py`, `services/competitor_discovery_service.py`, `services/surface_selection.py`, migrations 0026 to 0028 | rows, `is_active`, APScheduler jobs in memory | add, delete, discover, choose under the cap, rebuild the jobs at start-up | check pipeline, page discovery | the three places agree, the cap holds, the choice is of the best pages |
| Page discovery, `services/sitemap_discovery_service.py`, `services/surface_discovery_service.py` | nothing between calls | walk sitemaps, merge, cut; read links in a browser | the site | it ends, within its budgets, and crowds no better page out |
| Check content, `services/check_service.py:301-589`, `diff_engine.py`, `noise_filter.py`, `site_summary_service.py` | snapshots, change log, scores, embeddings, summaries | compare, score, log, embed, refresh the summary | LLM providers, budget | a change is logged once, against the snapshot before it; a model that fails costs neither |
| Budget, `services/budget_service.py` | usage log, limit per workspace | check before a call, log after it | every LLM caller | spend exceeds the cap by a bounded amount |
| Workspaces and the demo, `routers/workspace.py`, `services/gdpr_service.py`, `src/backend/scripts/provision_demo.py`, `dependencies.py` | accounts, members and roles, the demo flag | register, create, invite, change, remove, delete an account, provision | all routes | a workspace keeps an owner; the script takes nobody's workspace; a locked demo stays as it is |
| Job pollers of the browser, `src/frontend/lib/job-poller.ts` and its contexts | intervals, answers under way | start, poll, settle, leave, find the jobs again after a reload | `GET` routes of the jobs | what is shown is what is polled, nothing is forgotten, polling ends |
| Rate limiter, `services/rate_limiter.py` | request times in process memory | allow or refuse | routes | the limit per window, neither more nor less |
| Rendering, visual diff, reports, plain CRUD, schema, user interface | little or nothing | I/O, queries, formatting | | |

Most of the hard behaviours are in the first four rows. A job row is written by up to
four parties without any lock between their reads and their writes: the
request that inserts it, the worker thread that executes it, the reconciler of
the web process, and the next request for the same page, which reclaims what
looks dead. arq cancels a coroutine at `job_timeout`, but the thread below it
(`asyncio.to_thread`) cannot be cancelled and goes on to write. Five time
thresholds (10, 15, 30, 45 and 90 minutes) decide which of them believes that
another one is dead. Either process may stop between any
two commits, an enqueue may fail after the row was committed, and Redis may
lose its keys. `PROJECT.json` lists the hazards one by one, at the line where
they bite.

## Modules and the code

### CheckPipeline

An action is one database commit, one Redis call, or one query whose answer a
later commit uses. Those are the points where another process can come between.

| State | Code |
|---|---|
| `status`, `surfaceOf`, `sweepOf`, `age` | a `CheckRun` row: `status`, `surface_id`, `sweep_id`, ticks since `started_at` (set again by the claim). "absent" is not inserted yet, "deleted" went with its competitor |
| `surfaces` | the surfaces that exist; all are active |
| `sweep` | a `CheckSweep` row with its three counters and ticks since `created_at` |
| `key` | what arq knows of the id `check:run:<id>`: nothing, queued, in progress, or a kept result |
| `pc`, `job`, `outcome` | a worker thread: which statement comes next, which run it holds, the outcome it has yet to count |
| `req` | a request under way (`check_surface`, `run_scheduled_check` or `check_all`) with what it has read |
| `rec` | the reconciler's phase with what it has read |
| `claims` | how often the pipeline was executed for a run (bookkeeping) |
| `late`, `crossed`, `overtaken` | bookkeeping: runs that waited or ran for the stale threshold, or were closed with their sweep; runs inserted beside another because their request had passed the guard; requests that were so overtaken |
| `quota`, `events` | bounds: rows still to be promised, events so far |

| Actions | Code |
|---|---|
| `CheckSurface`, `Reclaim`, `GuardPasses`, `GuardRefuses`, `InsertRun` | `enqueue_surface_check` and `_reclaim_stale_running_checks`, statement by statement, for one surface |
| `BeginSweep`, `OpenSweep`, `NextSurface`, `SetTotal` | `check_all`: the refusal of a second sweep, the row, the loop over the surfaces that `partition_by_cap` leaves (any of them: which ones is `SurfaceSelection`'s question), the total |
| `Dispatch`, `DispatchFails` | `dispatch_jobs`, after the commits |
| `StartJob`, `SkipJob`, `Claim`, `SurfaceGone`, `ClaimRaises`, `FinishRun` | `execute_surface_check` and `_run_claimed_check`: the row is read, then claimed unconditionally, then overwritten with the outcome |
| `CountOutcome`, `ReadBack`, `CloseSweep` | `_record_sweep_outcome`: the increments, the decision on a fresh read, and the commit of the verdict, with the sweep as it may be by then |
| `JobTimeout`, `ResultExpires`, `OrphanAborted` | arq: `job_timeout`, `keep_result`, `max_tries = 1` for a job whose worker died |
| `SelectAbandoned`/`FailAbandoned`, `SelectUndelivered`/`RedeliverSelected`, `SelectExpired`/`SelectOutstanding`/`CloseExpired`, `SelectStuck`/`CountChildren`/`CloseStuck` | the four phases of `reconcile_stuck_jobs`, each split between what it reads and what it writes |
| `DeleteSurface` | `delete_competitor`, whose transaction removes the runs and the surfaces |
| `WorkerCrash`, `WebCrash`, `RedisLoss` | the processes and Redis |
| `Tick` | time |

What a check does to the page's history (`_perform_check`) is one step with a
free outcome. Two details matter and are modelled: writing to a row that was
deleted meanwhile raises and ends that request, pass or job; and the increments
of the sweep are SQL side, while the reconciler writes values it computed from
an earlier read, and only the columns it changed.

Time is a count of ticks kept as an age per row. A tick is possible while
requests and the reconciler rest and every busy thread is inside its check:
database statements take no time on the scale of minutes. arq's timeout is
punctual. `WaitBound` and `CheckBound` let a configuration say that checks and
queue waits are short; 9 stands for no bound.

### JobRunners

The four job tables share one life: insert, dispatch, read, mark running, work,
record. `kind` tells them apart where the code does:

| State | Code |
|---|---|
| `kind`, `competitorOf`, `status`, `age` | a job row; `age` counts from `created_at`, which no runner resets (a `CheckRun` differs here) |
| `competitors` | the competitors that exist; adding one starts its discovery job |
| `key` | arq's key, or the entry of BackgroundTasks |
| `pc`, `job`, `verdict`, `ran` | a thread, the verdict it has yet to record, and the ticks of its own run, which is what arq's timeout measures |
| `req`, `rec` | a request and the reconciler's pass |
| `mode` | "queue" with `REDIS_URL`, "inline" without: chosen in `Init` |
| `drafts` | committed drafts per job (bookkeeping) |
| `happened` | the failures so far, each kind at most once |
| `crossed`, `overtaken` | bookkeeping: rows inserted beside another of their kind because their request had passed the guard; requests that were so overtaken |

| Actions | Code |
|---|---|
| `AskBriefing`, `AskBattlecard`, `CreateCompetitor`, `AskGuarded`, `InsertRow`, `Dispatch` | the routes; discovery and site summary have an in-flight guard, the other two have none |
| `StartJob`, `JobGone`, `Begin`, `Work`, `WorkFails`, `Record` | the `run_*_job` functions: a missing row returns, the status that was read is not looked at, the work ends in a commit or a rollback, the verdict is a commit of its own |
| `JobTimeout`, `ResultExpires`, `OrphanAborted` | arq |
| `SelectAbandoned`/`FailAbandoned`, `SelectUndelivered`/`RedeliverSelected` | the reconciler; redelivery only with a queue |
| `DeleteCompetitor`, `DispatchFails`, `RedisLoss`, `WorkerCrash`, `WebCrash`, `Tick` | as above; without a queue the web process takes its background tasks along |

The refusals of the budget and the rate limiter come before the insert and
change no state of this module, so they are left out. A new battlecard's empty
row is only flushed (`battlecard_service.py`), and committed with its draft.

`CheckPipeline` and `JobRunners` do not share variables: check runs and job rows
are different tables with different ids, served by one pool of `max_jobs`
threads. Each module has the whole pool for itself, and every job of the other
would only make waits longer, which the models already allow without bound.

### Approvals and DraftLife

`Approvals` is the queue between the jobs that draft and the readers who get the
result, for one workspace and one battlecard. An action is one commit, one read
that a later commit uses, or one message.

| State | Code |
|---|---|
| `item`, `kind`, `content` | `approval_items.status`, the kind of the draft (urgent briefing, digest briefing, update of the battlecard), and the draft's own status column |
| `proposal`, `inserting` | the text an update proposes, drafted from the text it read; drafts that saw no battlecard and will insert it |
| `card` | the battlecard: row, version, text (the set of updates it reflects) |
| `dec`, `digest` | a reviewer's request and the digest job with what they have read |
| `enabled`, `demo` | integrations, and the flag under which nothing is sent |
| `sends`, `approvals`, `contested`, `crowded`, `crashes` | bookkeeping: rounds in which a draft went out, drafts some reviewer's commit approved, drafts two reviewers decided at a time, whether two updates were |

`BeginDraft`, `CommitDraft`, `FailDraft` are the two drafting services around
their call to the model; `ReadItem`, `ReadContent`, `Decide` are `decide` from its
first query to its commit, which writes the columns that differ from what was
read; `Send` and `Mark` are the delivery after that commit; `DigestSelect`,
`DigestSend`, `DigestMark` the scheduler's digest; then integrations, the demo
flag, the deletion of the competitor and a crash of the web process.

Two reviewers may decide one item at the same time: nothing locks it. The module
keeps that behaviour and calls the item `contested`. `OnlyApprovedSent` is about
those too: what they lose is that a draft is still approved when it goes out. The
other properties are about the rest, and about how those fare beside contested ones.

`DraftLife` is the abstract specification: a draft is submitted, decided once,
perhaps delivered, perhaps deleted. `Approvals` implements it (`DraftsLive`) under
the mapping `LifeOf`, which reads both tables.

### SurfaceSelection and SurfaceWatch

`SurfaceSelection` translates `surface_selection.py` as operators: the role of a
page (tables in the order of the code, cut down to words that tell its rules
apart), the rank, the walk that skips excluded pages and twins, and the cut; and
the three migrations with their frozen copies. Migration 0028 reads an address in a way
of its own, which goes by the first "/" where `urlsplit` also stops at "?" and "#"
(`frozen_netloc`, `frozen_path_of`); its walk, its identity and its cap are translated
with it. The two readings agree on addresses that have a "/" after the host
(`AddressAssumption`), as `HttpUrl` and `normalize_url` write them. Double slashes within
a path, which the two would treat alike, are left out. `Best` is the reference both are
compared with: the best-ranked pages, one per address, none excluded.

`SurfaceWatch` extends it with the three places that say a page is watched: the
row, its `is_active`, and a job of the web process's scheduler. Requests take a
step to their commit and one after it (`AddPage`/`ArmPage`,
`DisarmPage`/`DropPage`, `SetOwn`/`InsertOwn`), a discovery job one per commit and
read (`Look`, `Insert`, `Choose`, `Flag`, `Commit`, `Reread`, `Arm`, and `FailDiscovery`
anywhere), in the web process or, with a queue, in the worker, whose own scheduler never
runs. Two requests can each find no discovery under way (`routers/surfaces.py:162` is a read
without a lock), so several `Discoveries` overlap, each with what it has read (`disc`); a
page two of them find is two rows if both look before either inserts. `Restart` rebuilds
the jobs from the rows. The run starts from a new database or from one at revision 25.
The cap is a constant: lowering the setting takes effect at the next discovery only.

### PageDiscovery

The walk of `collect_sitemap_urls` over a queue sorted by tier, one fetch an action
(`Read`, `Miss`, `Skip`), with the entries of a document folded in the order they are
read and cut at the budget. A status, a refused connection or a body that is not gzip is a
`Miss`; a gzip body that is cut short or corrupt (`EOFError`, `zlib.error`), that of
`robots.txt` too, ends the whole discovery (`BreakOff`), and so does an address that
`urlsplit` cannot parse (`Malformed`) in a sitemap, which then has no `Read`, or among
the browser's links (`StumbleOnLink`). Then come the round-robin merge of each tier; then the loop
that keeps pages by address and name, and the browser's loop over links. What an
address looks like to `normalize_url` and `_name_from_url` is data of the instance.

### Budget and CheckContent

`Budget` is the abstract contract of every caller of a model: `check_budget`, the
call, the log, with no lock from the first to the last. `CheckContent` is
`_perform_check` with what it calls, and implements it (`BudgetSpec`): fetch, clean,
compare with the latest snapshot, flush, score, commit, embed or describe, and the
site summary, which a refresh by hand shares. Each call may be refused, fail or
answer, and what follows a failure is the code's own fallback (`Without`). A page is a
sequence of lines that have words, a time or a kind; `strip_noise` and
`extract_text` work on those. The table may begin with the rows migration 0003
made of older columns (`Backfilled`).

### Workspaces

Members and roles of some workspaces, and `provision_demo`. A request that changes
members is checked when it begins and written by `Commit`; one that adds or deletes a
competitor passes its guard in `Edit` and is written by `SetHolds`. Other requests, new
workspaces and the script come between. The script has three steps: `ProvisionFinds` looks
for its workspace and counts what is in it, `ProvisionReads` reads the two memberships,
`ProvisionCommits` writes what differs from what was read, with or without `--unlock` and
`--admin-email`; the database refuses it when a row it would make is there by then
(`Accepted`). `script` holds what it read, and in `open` whether the demo account was a
member of the workspace it found, or a call on it under way (bookkeeping). A refused
request, or a script that finds a workspace in use, changes nothing and is no step.

### RateLimiter and JobPoller

`RateLimiter` is one bucket: a thread reads the clock (`Arrive`) before it has the lock
(`Hit`, `Exceeded`). `AcceptFails` is a call the limiter let through whose row then fails
to be committed: it used up a place in the window. `JobPoller` composes it with the browser: the call that starts a
job goes through the limiter; a page that is left and loaded again is a new page,
and calls and answers under way belong to the page that made them. `Generate`,
`Accept`, `Started`, `StartLost` are a call and its answer, `ServeList`, `Rehydrate`,
`ListFails` the list of active jobs, `Ask`, `Update`, `Settle`, `PollFails` the registry's
interval, with one answer awaited at a time. A job's row moves as `JobRunners` says:
queued, running, ended.

## Runs

The configuration of a run is `MC<Module>_<name>.cfg`, without the prefix `jobs_`.

| Run | Question | Answer |
|---|---|---|
| `healthy` | When nothing fails, requests come one at a time and checks are quicker than every threshold, is the bookkeeping exact? | Counters equal the ended and the failed children at every state, a sweep is closed by its last check with the right verdict and never changes again |
| `faults` | Two requests at a time, checks and waits of any length, a crash of either process, a failed enqueue, a deletion: what survives? | A run is executed once; two checks of a page are in flight together, or run together, only if one of them is late or their requests crossed, and both happen; and a request is only ever refused on account of a run younger than 15 minutes |
| `live` | With a worker of which nothing is assumed, does everything end? | Every sweep is closed and stays closed, and no run stays running; with a worker that takes jobs no run stays queued, also after Redis lost its keys |
| `jobs_safe` | Two requests, two jobs of any kinds, both transports, three threads, one failure of any kind anywhere | One draft per job, two threads on one site only after the 30 minutes or when their requests crossed (a double click), verdicts that stand, drafts not disowned by a failed job (each until Redis loses its keys, if it does) |
| `jobs_live` | Work that may hang for ever | No job stays running; with a queue none stays queued |
| `approvals` | Two drafts, two reviewers, the digest, switches, a deletion, a crash | A draft lives as `DraftLife` says, the two tables agree, nothing leaves that no reviewer approved, or twice, the battlecard tells what was approved, and an approved digest goes out in the end |
| `watch` | Pages added, deleted, discovered in either process by two discoveries at a time, restarts and upgrades | The cap holds beyond what was added by hand, the choice is the best, an upgraded database is as a fresh discovery would leave it, and a page without a job is one the code could not give a job |
| `content` | Two checks of a page that changes in its words or only in a time, a model that fails, a crash, two refreshes | Change logs tell the whole story of a page, the newest text is recorded in the end whatever the model does, and the budget's contract is kept |
| `discovery` | A shop whose indexes name each other and themselves, with sitemaps that are missed or break the walk off and an address that cannot be parsed | The walk reads nothing twice, keeps its budgets and ends; short of them, and unless something broke it off, it misses nothing; no page takes the place of a better one; a page and a name are kept once |
| `workspaces` | A request that changes members and one that changes content, with the script in three steps and everything else between check and commit | A workspace with members has an owner; what the script takes is empty as it commits, unless it was open when the script looked; in a locked demo nothing begins, and what the lock found under way runs out |
| `owners` | The same with two requests under way | violated: see [below](#disagreements) |
| `poller` | Two pages, two jobs, two calls, lost and late answers | The page shows what it polls, polls what is under way, its intervals end with it or their jobs, and the limiter grants the limit, neither more nor less |

Properties that deserve a word:

* `CountersExact` relates a sweep row to the rows of its children *less* those
  whose thread has finished and not yet counted. It is the invariant the
  comment on the SQL side increments promises; a counter that is read and
  written back breaks it with two threads.
* `ClosedByLastCheck` is what the final `if` of `_record_sweep_outcome` is for:
  two threads count, then each reads, so either may be the one to close, and
  both may.
* `NotStacked` and `CheckedApart` say what the in-flight guard achieves and what it
  does not. Two things get past it: time (a run that is 15 minutes old is given up on,
  though its thread may go on) and two requests of which each reads before the other
  inserts. `late` and `crossed` are those, and both do occur in run `faults`: with either
  taken out of `Excused` TLC has a counterexample. `WorkedAlone` is the same for jobs.
* `ExecutedOnce` and `DraftedOnce` are about money: a second execution bills the
  LLM provider again. They hold for different reasons. A check looks at the
  status it read and so depends on Redis only between that read and the claim; a
  runner does not look, and depends on Redis remembering the job for as long as
  it is under way and, through its kept result, past the reconciler's read.
* `RefusedByFreshRun` is the promise that a lost message never blocks a page.
* `SweepsClose` is stated as `<>[]`: a late child reopens a closed sweep
  (`CountOutcome` writes "running" unconditionally) and the sweep must then be
  closed again, by that child or by the reconciler.
* `VerdictStands` and `DraftNotDisowned` are about the poller in the browser,
  which stops at the first terminal status it reads.
* `SentOnce` allows a digest one more sending per crash: it is marked after it has
  gone out. An urgent briefing is never sent again, not even if it was not sent.
* `OnlyApprovedSent` is about every draft, contested or not: none goes out that no
  commit approved. One that two reviewers decide may be rejected by the second between
  the digest's selection and its sending, and goes out all the same; any other is
  approved when it goes out.
* `CapKept` counts the pages that were there when the choice last committed was made.
  Added since, or switched on by a discovery that overlapped it, a page is `loose`.
* `ActiveHasJob` names its exceptions: a request or a discovery about to make the job,
  a delete that was refused after the job had gone, and pages a discovery in the
  worker activates, which have no job until the web process restarts, and pages that two overlapping discoveries
  decided differently.
* `Overshoot` is what is left of "skip the call entirely" with callers that check and
  log apart: less than one call of every caller past the cap, or past what had
  been spent when the cap was set below it.
* `LogsTellAll` leaves out pages that two checks looked at at the same time, whose logs
  form no chain; `CaughtUp` is about those too. A snapshot that follows a row without a
  text (migration 0003 may make such rows) has no log, as the first one has none.
* `NotTakenOver` and `DemoIsFrozen` are action properties over histories of the
  script: locked, unlocked, joined by an admin, left by one. The script counts long
  before it commits, and a call reads the lock before it does its work. What keeps the
  first promise nevertheless is that a workspace with no member and no call under way is
  one nobody can get into; `script.open` is what that argument cannot cover, and there
  the script does take over what was made meanwhile. The second promise holds of calls
  that begin after the lock; each call that was under way makes at most one change.

## Bounds

The thresholds keep their order and lose their proportions: 10, 15, 30, 45 and
90 minutes become 1 to 5. What the code can do depends on which of two
thresholds is reached first and on what happens between them; every action can
happen between any two. The proportions 2, 3, 6, 9 and 18 give the same answers.

| Run | Instance | Why it is enough |
|---|---|---|
| `healthy` | 2 surfaces, 2 threads, 4 runs, 2 sweeps, no failure; waits and checks of at most 1 tick | two children of one sweep counted at the same time, a second sweep after the first, a single check beside a sweep |
| `faults` | 1 surface, 2 requests, 2 threads, 2 runs, 1 sweep, one failure | a late thread beside the run that replaced its own; two requests between read and insert; the failure at any point of it |
| `live` | 1 surface, 1 thread, 2 runs, 1 sweep, one failure of Redis, the web process or an enqueue, or a deletion; a check may hang for ever | a sweep whose child hangs, is lost or is deleted, one whose request died, a lost message behind another job |
| `jobs_safe` | 2 requests, 2 rows, 3 threads, 1 competitor, one slot, one failure of any kind | a double click, two jobs of one competitor, and two deliveries of one job, with a cancelled thread still at work |
| `jobs_live` | 2 rows, 2 threads, 1 failure | one hanging job in front of another, on the only slot |
| `approvals` | 2 drafts, 2 reviewers, 1 integration, 1 crash | two updates of one battlecard, a digest of two, a decision beside a digest and a deletion |
| `watch` | 5 pages (two of one address, one excluded, of several roles), cap 2 (4, 3 and 2 in the migrations), the own site twice, 2 requests, 2 discoveries with 4 listings, 3 requests or discoveries begun (`MaxEdits`), revisions 25 and 28 | two discoveries beside a request, one beside a deletion during a restart; the three upgrades from any set of rows |
| `content` | 1 page with 3 texts, no history or one whose newest text may be missing, 2 checks, 1 edit or new cap, 1 crash, refreshes until 1 token is spent; two checks overlap once | a check that fetched earlier and commits later; both writers of the summary find none |
| `discovery` | 7 sitemaps of 4 tiers, 16 addresses, one of them malformed, budgets of 6 fetches, 9 pages, 5 kept; 96 sites | walks that end by each of the budgets, walks that end by themselves and walks broken off anywhere; indexes in a circle; a full and an empty result |
| `workspaces` | the demo account, 2 others, 2 workspaces, 1 request for members, 1 for content | an owner who leaves one workspace and an admin the script adds to another; a competitor made between the script's count and its commit |
| `owners` | the demo account, 2 others, 1 workspace, 2 requests | the smallest in which two owners can go |
| `poller` | 2 calls, 2 jobs, 2 pages, 1 failed poll; limit 2, window 2, 5 instants, a wait of at most 1 (`MaxWait`) | a page left with a call and an answer under way; two times held out of order, the older behind the younger and past its window |

`MaxEvents = 1`: the code's repairs are claims about one failure at a time.
`Requests = {r1}` in `workspaces` is the premise of `KeepsAnOwner`, as `owners` shows;
the script and new workspaces interleave with the request all the same. The
theorems have no such bounds. Symmetry is used in safety runs only.

Run `poller` has a constraint, `ClockOrJobs`: the clock moves only while no job was
accepted. The pages never read the clock and the limiter never reads the jobs, so that
the run explores the two beside each other at one instant, and the limiter through all
instants with calls whose rows fail (`AcceptFails`). No fair action is cut off: fairness
is about intervals, answers and jobs, and the clock is none of them.

## Fairness

`LiveSpec` of `CheckPipeline` assumes what runs by itself:

* time passes (`SF(Tick)`: a tick is disabled while a statement is under way);
* APScheduler starts a pass every five minutes, and each phase of a pass is
  reached, hence strong fairness on the four selections: while another phase or
  a request is under way a selection is disabled and comes back;
* a statement that was begun ends: weak fairness on the reconciler's writes, on
  a request that has begun, on the short steps of a thread, and on arq's timer.

It assumes nothing of users, of failures, or of the check itself: a page may
hang for ever, and no job need ever be taken. That no run stays running and that
sweeps close holds all the same, since the reconciler ends both. Only the second
half of `RunsEnd` has `WorkerUp` as its premise, a worker that is up: some check ends
while any is under way, and some job is taken if again and again there is one that could
be (strong fairness, since another job may have the slot). It does not say which.

`LiveSpec` of `JobRunners` has the same shape; there the work may hang even
when the worker is up. What keeps the queue moving is arq's timeout, which frees
the slot. Strong fairness on `ResultExpires` is needed since the action waits
for the reconciler to be idle (a result is kept for 5 minutes more than a pass
can last), which it is again and again.

`LiveSpec` of `Approvals` assumes a scheduler that runs its digest again and again
(strong fairness on the selection, which a crash may interrupt). `DigestArrives` has
the premise that in the end there is an integration, and `LiveSpec` says that it
does not refuse for ever. Nothing is assumed of reviewers and urgent messages.

`LiveSpec` of `CheckContent` assumes that the steps of a check end, that the scheduler
starts checks of a page again and again, and that a fetch succeeds now and then.
It assumes no success of any call to a model. `PageDiscovery` runs in one thread that
goes on. `JobPoller` assumes that jobs end, which `JobRunners` shows, that intervals
tick and that a poll is answered or fails.

## Proofs

Eight modules hold theorems: `CheckPipelineProofs`, `JobRunnersProofs`,
`ApprovalsProofs`, `SurfaceWatchProofs`, `PageDiscoveryProofs`, `CheckContentProofs`
(which begins with those of `Budget`), `WorkspacesProofs` and `JobPollerProofs`. What they say holds for every number of
rows, pages, threads, requests and failures, and for all thresholds in the order
`ThresholdsAssumption` gives them. TLC evaluates the assumptions in every run.

| Theorem | Says | Assumes |
|---|---|---|
| `CheckPipelineProofs!TypeCorrect` | `TypeOK` is invariant | |
| `DeliveredOnce` | `ExecutedOnce` is invariant | Redis does not lose its keys |
| `OnlyLateStack` | `NotStacked` is invariant | Redis does not lose its keys |
| `OnlyLateMeet` | `CheckedApart` is invariant | likewise |
| `RefusedByFresh` | no step breaks `RefusedByFreshRun` | |
| `HealthyInvariant` | `HealthyInv` is invariant | a healthy pipeline (below), as for the next three |
| `HealthyCounts` | `CountersExact` is invariant | |
| `HealthyCloses` | `ClosedByLastCheck` is invariant | |
| `HealthyIsFinal` | no step breaks `TerminalIsFinal` | |
| `JobRunnersProofs!TypeCorrect` | `TypeOK` is invariant | |
| `OneDraftPerJob` | `DraftedOnce` is invariant | (the property itself is conditional on Redis) |
| `SitesWorkedAlone` | `WorkedAlone` is invariant | (the property itself is conditional on Redis) |
| `VerdictsStand` | no step breaks `VerdictStands` | |
| `DraftsOwned` | no step breaks `DraftNotDisowned` | |
| `ApprovalsProofs!TypeCorrect` | `TypeOK` is invariant | |
| `DraftsLived` | `Approvals` implements `DraftLife` (`DraftsLive`) | |
| `ApprovedOnlySent` | no step sends what no commit approved (`OnlyApprovedSent`) | |
| `QueueAgreed` | `QueueAgrees` is invariant | |
| `SentAtMostOnce` | `SentOnce` is invariant | (its exceptions are part of the property) |
| `CardIsApproved` | `CardApproved` is invariant | (likewise) |
| `SurfaceWatchProofs!TypeCorrect` | `TypeOK` is invariant | |
| `CapIsKept` | `CapKept` is invariant | |
| `ActiveHaveJobs` | `ActiveHasJob` is invariant | |
| `ChoosesTheBest` | `ChoiceIsBest` is invariant | |
| `UpgradesToTheBest` | no step breaks `UpgradeIsBest` | |
| `PageDiscoveryProofs!WalkCompletes` | `WalkIsComplete` is invariant | |
| `BestComeFirst` | `NoneIsCrowdedOut` is invariant | |
| `SurfacesAreApart` | `OneEach` is invariant | |
| `CheckContentProofs!BudgetTypeCorrect` | `BudgetTypeOK` is invariant | |
| `OvershootBounded` | `Overshoot` is invariant | |
| `CheckContentProofs!TypeCorrect` | `TypeOK` is invariant | |
| `ContentKeepsContract` | `CheckContent` implements `Budget` (`BudgetSpec`) | |
| `ContentOvershoots` | `Overshoot` is invariant of `CheckContent` | |
| `CallsMatched` | `CallsMatch` is invariant: who waits for the model has asked the budget | |
| `LogsTellTheStory` | `LogsTellAll` is invariant | (unless two checks of the page ran at a time, as the property says) |
| `WorkspacesProofs!TypeCorrect` | `TypeOK` is invariant | |
| `AnOwnerIsKept` | `KeepsAnOwner` is invariant | one request at a time |
| `OnlyEmptyTaken` | no step breaks `NotTakenOver` | |
| `DemoFrozen` | no step breaks `DemoIsFrozen` | |
| `JobPollerProofs!TypeCorrect` | `TypeOK` is invariant | |
| `CountsPollers` | `CountIsPollers` is invariant | |
| `NoJobForgotten` | `NoneForgotten` is invariant | |
| `NoneOutlives` | `OnlyLateOutlive` is invariant | |
| `LimitIsKept` | `AtTheLimit` is invariant | |

**ExecutedOnce** is not inductive: that no run was executed twice says nothing
of a thread about to execute it. `Delivery` adds three facts. A row that is
queued or absent was never executed (`FreshUnclaimed`). A thread that has read a
row and not claimed it is the only one to hold it, the row was not executed yet,
and its key in Redis is in progress, so that no second delivery can start
(`LoadedAlone`). A thread past the claim holds a row that is not queued any more
(`PickedUp`). The claim makes the count 1;
nothing makes the row queued again, so no thread reads it as queued again. Where
Redis loses its keys the second fact fails, and TLC shows the double execution.

**NotStacked** and **CheckedApart** are proved together (`LateInv`), since each needs the
other's ingredients. `LateRows`: what the reconciler is about to fail is late, and a run
that somebody still holds and that has reached the threshold is in `late`. `LateRequest`: a
request reclaims late runs only, and one that has passed the guard finds every run in
flight on its surface excused, or has been overtaken by the request that inserted it.
`LateThreads` and `RowsOfSurfaces`: a thread whose run is not late finds its row in the
status it expects, unless the surface is gone with all its runs, and no two threads hold
one run. So every step that ends a run somebody else has in hand is a step on a late one,
and an insert beside a run in flight makes the new one crossed. Two deliveries of one run
are excluded by `Delivery`, whence the assumption about Redis.

**RefusedByFreshRun** follows what a request has read of stale runs (`StaleSeen`): each
stale run of its surface is one it is about to fail, and at the guard none is left. Time
passes only while no request is under way, and what comes in flight has age 0
(`NoneAges`), so that no run can turn stale between the read and the guard.

**CountersExact**, **ClosedByLastCheck** and **TerminalIsFinal** are
claims about a pipeline in which nothing fails: run `faults` is there to show what is
left of them otherwise. `Healthy` says what that means: no event, one request at a time,
`WaitBound` and `CheckBound` below `Stale`, their sum below `Stuck` (in the code: no wait
and no check of 15 minutes, both together less than 45). `HealthySteps` then shows which
actions remain: the reconciler finds nothing to fail, no job times out. `HealthyInv` says
why. `Runners`: a running row is in a thread, and no thread shares its run (`HoldAlone`).
`Asking`: a surface has one run in flight, and what a request has claimed has not moved.
`SweepSound`: an open sweep has somebody who will close it (the request that builds it, a
child not ended, or a thread that has yet to count, to read or to close) and is not older than
its children can be; the ages of children bound the age of the sweep, which is what
keeps the reconciler away from it. A thread that is about to commit a verdict has the
right one, and no count can change it any more (`Decided`). A sweep that is closed has no child outstanding and no
thread left that could count. The counters themselves are one more conjunct. A free set of
threads is finite (`BoundsAssumption`), as a pool is.

**DraftedOnce** cannot use the status, since a runner does not look at it.
`Delivery` of `JobRunners` instead follows the key. As long as Redis keeps its
keys an id in the queue is of a row nobody began, the row a thread has just read
is in progress, two threads never hold one row, and of the rows the reconciler
is about to redeliver those without a key were never begun (`KeysTell`); so a
thread that has not finished its work finds no draft of its row (`DraftsTell`).
What these need holds with or without Redis: a row not inserted is known to
nobody (`AbsentUnknown`), a queued row has no draft and no thread past reading
it (`QueuedUndone`), a row its request has yet to dispatch is nobody else's
(`PendingFresh`), and what threads and the reconciler hold is well formed
(`ThreadsHold`, `PassSound`).

**VerdictStands** and **DraftNotDisowned** follow from `VerdictsTell`: a thread
with a verdict to record holds a row that is still running, or whose 30 minutes
are over, or Redis has lost its keys. Every step that writes a terminal status
then either finds "running" or is excused.

**WorkedAlone** follows what the guard achieves with any number of requests: one that has
passed it finds no job of its kind and competitor in flight, or was overtaken
(`GuardHolds`), so that of two such jobs in flight one has crossed (`CrossedOnly`). By
`VerdictsTell` a thread at work has a row that is running until its 30 minutes are over.
`CompetitorTold` says which rows a deletion has taken along.

**DraftsLive** needs to know what a reviewer or the digest may still write.
`DecidesAlone`: who decides a draft that is not contested is alone in it and has
read both tables as undecided, so its commit is a step from "pending".
`SendsApproved`: what is being sent was approved when it was picked up, and stays
so unless it is contested. `UndraftedUnknown` and `ReviewersHold` say that nobody
holds a draft that is not in the queue, `DeletedAreCards` that a deletion takes
updates of battlecards only. `StepLife` then maps every action to a step of
`DraftLife` or to none, and `QueueAgrees`, one of the conjuncts, says that reading
either table gives the same life.

**OnlyApprovedSent** adds `FromApproval`, which has no exception: whoever is about to send,
a reviewer or the digest, holds drafts that some commit approved, and so is every draft
whose own table says approved or delivered. That a draft nobody contests is approved when
it goes out is `SendsApproved`.

**SentOnce** needs to know who may still send (`FewSent`). An urgent briefing is sent
by the reviewer that approved it, who is the first to do so and alone (`UrgentOnce`). A digest
is marked after it has gone out, so between the two the number of sendings may be one
ahead of what crashes account for, and only then (`DigestOnce`).

**CardApproved** has three parts: an update that is in the queue has a battlecard
(`CardThere`), the text there is a proposal that was approved unless two reviewers decided
it (`CardText`), and, as long as no two updates were decided at the same time, the version
counts the approved ones and the one reviewer who decides holds the version that is there
(`CardVersion`).

**Overshoot** is not inductive, since a caller that has asked has not logged yet.
`RoomLeft` counts callers: what is logged lies below the limit plus one call's
worth for each caller that is *idle*, so that a caller under way has already been
given its share, and gets it back when it ends. A caller begins only below the
cap, where all the room is free (`CapBelowLimit`). For `CheckContent` the bound then
needs no argument of its own: `StepBudget` shows that each of its steps is a step of
`Budget` or leaves the budget alone. `ContentInv` relates a check's place in
`_perform_check` to the state of its call (`Fits`).

**LogsTellAll** says nothing of a check that has compared and not yet committed, and two
calls to the model may lie between. `Story` adds it: such a check is the only one that looks
at the page (`Start` puts the page in `clash` otherwise), and the snapshot it compared with
is still the highest one, has a text, differs from the new one, and has an id below the one
the new snapshot was flushed with (`Looks`). So what it commits goes on top, and what is told of those
below stays true (`ToldStays`). That a new text holds no noise needs what the filters
leave of a page (`Cleaned`), a recursion over its lines (`FlattenIs`).

**CapKept** and **ActiveHasJob** follow each discovery between its commits, with any number
of them. `Sound`: from the choice to the commit of the flags, the pages that were there at
the choice are among the watched or the others, the watched are no more than the cap, and
what is still active of the others is about to be switched off. `seen` holds
these pages, and the commit of a rival takes out those it switches on: they become loose
when this discovery commits, and its own choice bounds the rest. `Unborn`: the pages a
discovery is about to insert are known to nobody else. A page added or deleted by a
request in between falls under `Requested`.

**ChoiceIsBest** and **UpgradeIsBest** compare what the code computes with what it is
for: a sort, a walk that skips, and a cut on one side, for the migration with its own reading of
an address (`ReadAlike`, `RulesAlike`: both readings give one host and one path when a "/"
follows the host, which is all the two share); on the other the pages that are
not excluded and come before every other page of their address, those of them with
fewer than `Cap` better ones. `OrderedIs` says that the sort lists every page once and in
order, provided that ranks tell pages apart and go one way (`RankOrders`,
`TypeRankOrders`: the ids make them total). `PlacedStep` follows the walk: what has a
place is worthy and in order, and every page passed by that is not excluded has a twin
with a place. The step that skips a twin needs that an excluded page never comes before
one that is not (`BeforeIs`): otherwise an excluded twin could be passed by first. The
walk is a recursive function; that it exists, and what holds of it, is proved by
induction up to a number (`Upwards`), which is stated over a *set* of numbers since no
prover here can take a predicate as an argument. `EarlierAre` counts who is better than the page in
place *a*: *a* - 1 pages.

**WalkIsComplete** speaks of the end of a walk. `WalkInv` says what holds on the way: short
of the page budget, what a sitemap that was read names is seen or in the queue, and each of
its pages is listed (`NothingLost`); no page is listed at two places (`ListedOnce`), so that
places and pages are as many (`AsManyPlaces`). A walk that something broke off is at "failed",
of which nothing is claimed but that it ended. A document is read entry by entry, which is a
recursive function; `SoFar` is what holds after some of its entries, by induction
(`SoFarStep`, `EntriesSound`).

**NoneIsCrowdedOut** is about the order of the merge, three concatenations inside each other
(of tiers, columns and groups). `Flattens` says what a concatenation of pieces keeps: all
elements, each after those of earlier pieces and after those before it in its own
(`FlattenIs`). Applied three times (`ColumnIs`, `RoundRobinIs`, `InterleavedIs`), every page
comes after all that are sooner. The loop then has looked at some of the first merged pages,
each of which is taken since, and every surface but the home page is one of them (`Merged`).

**OneEach** needs that the browser is asked only when nothing is listed (`NothingListed`): a
group has a page, and so has the merge.

**KeepsAnOwner** uses `ChecksHold`: what a request saw when it was checked still holds
when it is written, since between the two only other kinds of steps occur, and these
take no owner away: new accounts and workspaces and the script (`GrowKeeps`), which
adds. With two requests this is what fails (run `owners`).

**NotTakenOver** needs `FoundEmpty`: a workspace the script found, not locked and not open,
has no competitor, no member and no call under way (`Untouched`), and stays so until the
script commits, since to begin a call one must be a member (`UntouchedStep`). All other
steps make nobody an owner of the demo but by an owner's hand, and lock nothing
(`OthersTakeNothing`).

**DemoIsFrozen** counts calls: a step either begins none and changes nothing (`Still`), or
ends one. It needs `ForgetsOwn`: the demo account is removed only from the workspace the
request is on, since an account that is deleted, from all its workspaces at once, is never
this one. So a locked demo loses its only member to no call but one it had under way.

**CountIsPollers**, **NoneForgotten** and **OnlyLateOutlive** rest on `Behind`: nothing
runs for a page ahead of the present one, a page that is shown asks only for what it
polls, and an answer "ended" is true. `Known` then says where a job under way is
known once the list has been asked for: polled, missed, in the answer under way, or
in a call of this page.

**AtTheLimit** relates the list the limiter keeps to everything it ever let through.
`Kept`: the list is the tail of that history, and what was dropped is out of date for
every caller to come. `InTurn`: callers get the lock in another order than they read the
clock, but by no more than `MaxWait`, so that the history is in order up to that. The
stretches of a window less the wait then hold no more than `Limit` (`Few`): when one
more is let through, those of them in the list are fewer than `Limit`, and those
dropped lie before the stretch.

### Only model-checked

Every safety property that a passing run checks is the subject of a theorem above, those of
run `healthy` under the conditions of that run. What is left to TLC alone is the liveness
properties (`SweepsClose`, `RunsEnd`, `JobsEnd`, `DigestArrives`,
`CaughtUp`, `WalkEnds`, `PollersEnd`): they are beyond TLAPS, which does not reason about
fairness and `ENABLED` here.

No module declares a recursive operator.

## Disagreements

**A workspace can lose its last owner** (run `owners`). The members and owners a request
would leave are counted before it deletes or demotes, with nothing locked
(`services/gdpr_service.py:171`, `routers/workspace.py:259-261`). An account deletion
that saw no other member and an invitation, or two removals of different owners, each
pass and commit one after the other; `routers/workspace.py:283` says "A workspace must
have at least one owner".

Other sentences of the code that what it does contradicts, met while modelling. None
of them has a run of its own; the models contain the behaviour, and the properties
that pass are stated so as to admit it.

Checks and jobs:

* "close the sweep when the last one lands" (`check_service.py:231-232`): the total is
  written after all runs were claimed; if `check_all` dies before, the first redelivered
  check compares with total 0 and closes the sweep (`:252`).
* "the per-surface database guard stops a late finisher from colliding with a retry"
  (`worker.py:20-21`): the stale threshold equals `job_timeout` and a cancelled
  coroutine does not stop its thread, so the run is reclaimed and the next request's
  check runs beside it (`check_service.py:269`). `CheckedApart` excuses this case by name
  (`late`), and run `faults` reaches it.
* duplicate checks "are prevented by the in-flight guard ..., which is transactional and
  authoritative" (`routers/surfaces.py:282-283`): it is a SELECT followed by an INSERT
  without a lock or a unique index (`check_service.py:74`), and two requests that both read
  before either inserts make two runs (`crossed` in `NotStacked` and `CheckedApart`). Two
  `check_all` requests open two sweeps in the same way.
* "the route's own in-flight check is what stops a double-click becoming duplicate work"
  (`models/site_summary_job.py:31-33`): the two requests of a double click pass the same kind
  of guard (`crossed` in `WorkedAlone`).
* "No other code path may deliver anything" (`approval_service.py:39`): one reviewer
  approves a digest, the scheduler selects it, a second reviewer who had read it as pending
  rejects it, and it is sent. What remains true is `OnlyApprovedSent`.
* counters are "incremented with atomic SQL UPDATEs ..., never read-modify-write"
  (`models/check_sweep.py:23-26`): the 90-minute phase of the reconciler writes
  `failed_count` from its own earlier read (`job_reconciler.py:194`).
* "a job that is merely slow is never killed by the reconciler"
  (`job_reconciler.py:52-54`): the 30 minutes of a job row count from `created_at`
  (`:97`), so a job that queued long is failed within its own 15 minutes.
* a sweep closed at the 90-minute boundary may be called failed although its child then
  succeeds; after a late finisher or a web crash `finished` can exceed `total`; a failed
  summary or discovery job can turn into a success when a late thread records its verdict.
* "Every runner is idempotent: each re-reads its row and returns early"
  (`job_reconciler.py:19-21`) is true of checks and not of the four job runners, which do
  not look at the status; while Redis keeps its keys this makes no difference, which is
  what `OneDraftPerJob` says.

Budget, limiter and migrations:

* `models/workspace_budget.py:9-13` calls the cap not yet enforced; it is. Its
  `period_start` is never advanced, so a cap is for the life of the workspace
  (`budget_service.py:112-113`).
* `rate_limiter.py:12-14` speaks of a fixed window; the code keeps a sliding log.
  Several routes take a token before the demo guard refuses (`surfaces.py:124,245`,
  `jobs.py:57`, `site_summary.py:78`).
* migration 0003 inserts the last text of a competitor first and those of its changes
  after it, in no stated order, while a check compares with the snapshot of the highest
  id (`check_service.py:333-338`): the first check after the upgrade may log a change
  back from an older text. `Backfilled` begins with such rows, and `LogsTellAll` counts
  from them on.

Pages:

* the cap is applied over "the competitor's *whole* set", so that discoveries "cannot push the
  total past the cap" (`competitor_discovery_service.py:97-102`): two that overlap each choose
  among the pages they saw, and what the first switches on the second may not switch off.
  `CapKept` counts those apart (`loose`).
* "an individual miss is normal control flow rather than an error"
  (`sitemap_discovery_service.py:116-119`): only `OSError` is caught around
  `gzip.decompress` (`:144-149`), and nothing around `urlsplit` in `same_site` (`:99-104`). A
  gzip body that is cut short or corrupt, or one malformed `<loc>`, ends the discovery, and
  the pages already listed are lost. `WalkIsComplete` is about walks that nothing broke off.
* `surface_selection.py:8-11` lets a user set `is_active`; no route does.
* a sitemap of the first tier with 500 pages ends the walk before its peers are read
  (`sitemap_discovery_service.py:253`, against `:208-209`); the merge that shares the
  budget among peers only sees those that were read.
* the browser can yield a second page named "Home" (`surface_discovery_service.py:206`
  against `:278-280`).
* two requests that set the own site can both insert one (`own_site_service.py:44`
  against `:37`).

Demo and browser:

* a workspace is adopted "only when it is demonstrably empty" (`provision_demo.py:104-106`):
  the script counts at `:107-119` and commits at `:206`, with no lock in between. Where the
  demo account is a member already, or a call is on its way, a competitor made meanwhile is
  locked in. `NotTakenOver` says where that can happen.
* the lock (`dependencies.py:182-192`) is read before the work of a call, so that it does not
  stop calls already past it; `DemoIsFrozen` lets each of these make its change.
* "Re-run without --unlock to restore it." (`provision_demo.py:216-217`): an unlocked
  workspace that was filled or joined meanwhile is found neither by its flag nor as an
  empty one of that slug, and the run is refused (`:94-132`).
* a `POST` answered after its page was left starts an interval after `stopAll`
  (`briefing-jobs-context.tsx:103-107`, `job-poller.ts:121-123`); a job deleted meanwhile
  is polled for ever by the contexts of battlecards, discovery and summaries; a stale
  list of active jobs can start a settled job again and announce it twice
  (`briefing-jobs-context.tsx:51-53`).

## Not modelled

* Checks without a queue (`BackgroundTasks`): `CheckPipeline` always has Redis.
  `JobRunners` has both transports.
* How the modules run beside each other where they only share data: a check's life
  (`CheckPipeline`) and its content (`CheckContent`) are two modules, as are a job's life
  (`JobRunners`) and the draft it makes (`Approvals`). In the first of each pair the work
  is one step with a free outcome, in the second the job always gets to its end or
  crashes.
* Pausing a surface in `CheckPipeline`: all its surfaces are active. `SurfaceWatch` has
  `is_active`.
* The statements within a deletion, whose order serves the foreign keys.
* What a model answers, how answers are parsed, and the retries inside one call.
* Screenshots and the visual score, which no other part reads; which pages a summary read.
* The messages per page of the context of checks in the browser, and how the contexts of
  battlecards, discovery and summaries treat a job that is gone.
* Reports, exports, plain CRUD, tokens and passwords, prompts, rendering and the user
  interface: I/O, queries and wording, with no protocol across requests. `PROJECT.json`
  lists each of them with its files.

## Plan

Every module of the plan so far is written. What would come next:

1. Checks without a queue in `CheckPipeline`: a web process that dies before its
   background task leaves a queued row that nobody redelivers (`queue.py:117`).
2. `SweepPromise`, what a sweep promises to its poller (opened, counted, closed once), as
   an abstract specification that `CheckPipeline` implements when nothing fails.
3. `HealthyInv` without deletions only, or with requests that overlap: which of the three
   properties survives which failure.
