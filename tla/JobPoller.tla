----------------------------- MODULE JobPoller -----------------------------
(***************************************************************************)
(* The pages that start briefing jobs and poll them: the call that starts  *)
(* one, through the limiter; the pollers of each page; and the list by     *)
(* which a page that was loaded again finds the jobs under way.            *)
(*                                                                         *)
(* A page that is left and come back to is a new one, with pollers of its  *)
(* own; calls and answers under way belong to the page that made them.     *)
(***************************************************************************)
EXTENDS RateLimiter

CONSTANTS
    Jobs,        \* BriefingJob ids
    MaxPages,    \* bound: pages loaded
    MaxFails     \* bound: polls that fail

Pages == 1..MaxPages

ASSUME PollerAssumption ==
    /\ MaxPages \in Nat \ {0} /\ MaxFails \in Nat /\ IsFiniteSet(Jobs)
    /\ None \notin Jobs /\ None \notin Pages /\ None \notin {"active", "ended"}

VARIABLES
    row,         \* job -> "none", "queued", "running", "ended"
    page,        \* the last page loaded
    mounted,     \* it is on the screen
    call,        \* caller -> [from, job] of a POST under way
    timers,      \* intervals: <<page, job>>
    asking,      \* <<page, job>> -> the answer under way to a poll, or None
    fails,       \* bookkeeping: polls that have failed
    list,        \* /jobs/active: "none", "due", "read"
    listed,      \* the jobs it read
    count,       \* activeJobCount of the page
    missed,      \* bookkeeping: jobs the page has not been told of
    late         \* bookkeeping: pollers begun by a page that had been left

client == <<row, page, mounted, call, timers, asking, fails, list, listed, count, missed, late>>
vars == <<client, limiter>>

NoCall == [from |-> None, job |-> None]

Init ==
    /\ row = [j \in Jobs |-> "none"]
    /\ page = 0 /\ mounted = FALSE
    /\ call = [c \in Callers |-> NoCall]
    /\ timers = {} /\ asking = [p \in Pages \X Jobs |-> None]
    /\ fails = 0 /\ list = "none" /\ listed = {} /\ count = 0 /\ missed = {} /\ late = {}
    /\ LimiterInit

Active == {j \in Jobs : row[j] \in {"queued", "running"}}
Shown(i) == mounted /\ i = page
Polled == {j \in Jobs : <<page, j>> \in timers}

(***************************************************************************)
(* The page.                                                               *)
(***************************************************************************)

Mount ==
    /\ ~mounted /\ page < MaxPages
    /\ page' = page + 1 /\ mounted' = TRUE
    /\ list' = "due"
    /\ UNCHANGED <<row, call, timers, asking, fails, listed, count, missed, late, limiter>>

\* Mutant: the intervals are left.
LeaveTicking ==
    /\ mounted
    /\ mounted' = FALSE /\ list' = "none" /\ listed' = {} /\ count' = 0 /\ missed' = {}
    /\ UNCHANGED <<row, page, call, timers, asking, fails, late, limiter>>

\* The cleanups: stopAll, and the list is cancelled.
Leave ==
    /\ mounted
    /\ mounted' = FALSE /\ list' = "none" /\ listed' = {} /\ count' = 0 /\ missed' = {}
    /\ timers' = {t \in timers : t[1] # page}
    /\ UNCHANGED <<row, page, call, asking, fails, late, limiter>>

\* Mutant: a job that is polled already is counted again.
StartAgain(i, js) ==
    /\ timers' = timers \cup {<<i, j>> : j \in js}
    /\ count' = IF Shown(i) THEN count + Cardinality(js) ELSE count
    /\ late' = IF Shown(i) THEN late ELSE late \cup {<<i, j>> : j \in js}

\* start, for jobs of page i, and the count of those it did start.
Start(i, js) ==
    /\ timers' = timers \cup {<<i, j>> : j \in js}
    /\ count' = IF Shown(i) THEN count + Cardinality({j \in js : <<i, j>> \notin timers}) ELSE count
    /\ late' = IF Shown(i) THEN late ELSE late \cup {<<i, j>> : j \in js}

(***************************************************************************)
(* Starting a job.                                                         *)
(***************************************************************************)

Generate(c) ==
    /\ mounted /\ call[c] = NoCall
    /\ Arrive(c)
    /\ call' = [call EXCEPT ![c].from = page]
    /\ UNCHANGED <<row, page, mounted, timers, asking, fails, list, listed, count, missed, late>>

\* A page that has its list already learns of a job only from its own call.
Accept(c) ==
    /\ Hit(c)
    /\ \E j \in Jobs :
        /\ row[j] = "none"
        /\ row' = [row EXCEPT ![j] = "queued"]
        /\ call' = [call EXCEPT ![c].job = j]
        /\ missed' = IF mounted /\ call[c].from # page /\ list # "due" THEN missed \cup {j} ELSE missed
    /\ UNCHANGED <<page, mounted, timers, asking, fails, list, listed, count, late>>

\* A row that cannot be committed, behind the limiter.
AcceptFails(c) ==
    /\ Hit(c)
    /\ call' = [call EXCEPT ![c] = NoCall]
    /\ UNCHANGED <<row, page, mounted, timers, asking, fails, list, listed, count, missed, late>>

Refuse(c) ==
    /\ Exceeded(c)
    /\ call' = [call EXCEPT ![c] = NoCall]
    /\ UNCHANGED <<row, page, mounted, timers, asking, fails, list, listed, count, missed, late>>

Started(c) ==
    /\ call[c].job # None
    /\ call' = [call EXCEPT ![c] = NoCall]
    /\ Start(call[c].from, {call[c].job})
    /\ UNCHANGED <<row, page, mounted, asking, fails, list, listed, missed, limiter>>

StartLost(c) ==
    /\ call[c].job # None
    /\ call' = [call EXCEPT ![c] = NoCall]
    /\ missed' = IF mounted THEN missed \cup {call[c].job} ELSE missed
    /\ UNCHANGED <<row, page, mounted, timers, asking, fails, list, listed, count, late, limiter>>

(***************************************************************************)
(* Rehydration, once for each page.                                        *)
(***************************************************************************)

\* Mutant: the jobs a worker has begun.
ListedRunning == {j \in Jobs : row[j] = "running"}

\* list_active_jobs.
Listed == Active

ServeList ==
    /\ list = "due"
    /\ list' = "read" /\ listed' = Listed
    /\ UNCHANGED <<row, page, mounted, call, timers, asking, fails, count, missed, late, limiter>>

Rehydrate ==
    /\ list = "read"
    /\ Start(page, listed)
    /\ list' = "none" /\ listed' = {}
    /\ UNCHANGED <<row, page, mounted, call, asking, fails, missed, limiter>>

\* It is asked for again by the next page only.
ListFails ==
    /\ list # "none"
    /\ list' = "none" /\ listed' = {}
    /\ missed' = missed \cup Active
    /\ UNCHANGED <<row, page, mounted, call, timers, asking, fails, count, late, limiter>>

(***************************************************************************)
(* Polling.                                                                *)
(***************************************************************************)

\* A tick of the interval, skipped while an answer is awaited.
Ask(p) ==
    /\ p \in timers /\ asking[p] = None
    /\ asking' = [asking EXCEPT ![p] = IF row[p[2]] = "ended" THEN "ended" ELSE "active"]
    /\ UNCHANGED <<row, page, mounted, call, timers, fails, list, listed, count, missed, late, limiter>>

Update(p) ==
    /\ asking[p] = "active"
    /\ asking' = [asking EXCEPT ![p] = None]
    /\ UNCHANGED <<row, page, mounted, call, timers, fails, list, listed, count, missed, late, limiter>>

\* onSettled; what it sets on a page that was left is lost.
Settle(p) ==
    /\ asking[p] = "ended"
    /\ asking' = [asking EXCEPT ![p] = None]
    /\ timers' = timers \ {p}
    /\ count' = IF Shown(p[1]) /\ count > 0 THEN count - 1 ELSE count
    /\ UNCHANGED <<row, page, mounted, call, fails, list, listed, missed, late, limiter>>

\* Mutant: inFlight is cleared by an answer only.
PollFailsWedged(p) ==
    /\ asking[p] # None /\ fails < MaxFails
    /\ asking' = [asking EXCEPT ![p] = "failed"] /\ fails' = fails + 1
    /\ UNCHANGED <<row, page, mounted, call, timers, list, listed, count, missed, late, limiter>>

PollFails(p) ==
    /\ asking[p] # None /\ fails < MaxFails
    /\ asking' = [asking EXCEPT ![p] = None] /\ fails' = fails + 1
    /\ UNCHANGED <<row, page, mounted, call, timers, list, listed, count, missed, late, limiter>>

(***************************************************************************)
(* The worker, and time.                                                   *)
(***************************************************************************)

Work(j) ==
    /\ j \in Active
    /\ row' = [row EXCEPT ![j] = IF @ = "queued" THEN "running" ELSE "ended"]
    /\ UNCHANGED <<page, mounted, call, timers, asking, fails, list, listed, count, missed, late, limiter>>

Next ==
    \/ Mount \/ Leave
    \/ \E c \in Callers : Generate(c) \/ Accept(c) \/ AcceptFails(c) \/ Refuse(c)
                         \/ Started(c) \/ StartLost(c)
    \/ ServeList \/ Rehydrate \/ ListFails
    \/ \E p \in Pages \X Jobs : Ask(p) \/ Update(p) \/ Settle(p) \/ PollFails(p)
    \/ \E j \in Jobs : Work(j)
    \/ Tick /\ UNCHANGED client

\* Jobs end (JobRunners), intervals tick, polls are answered.
Fairness ==
    /\ \A j \in Jobs : WF_vars(Work(j))
    /\ \A p \in Pages \X Jobs : WF_vars(Ask(p)) /\ WF_vars(Update(p) \/ Settle(p))

Spec == Init /\ [][Next]_vars /\ Fairness

(***************************************************************************)
(* Properties.                                                             *)
(***************************************************************************)

TypeOK ==
    /\ LimiterTypeOK
    /\ row \in [Jobs -> {"none", "queued", "running", "ended"}]
    /\ page \in 0..MaxPages /\ mounted \in BOOLEAN
    /\ call \in [Callers -> [from : Pages \cup {None}, job : Jobs \cup {None}]]
    /\ timers \subseteq Pages \X Jobs /\ late \subseteq Pages \X Jobs
    /\ asking \in [Pages \X Jobs -> {"active", "ended", None}]
    /\ list \in {"none", "due", "read"} /\ listed \subseteq Jobs
    /\ fails \in 0..MaxFails /\ count \in 0..Cardinality(Jobs) /\ missed \subseteq Jobs

\* "a repeat call can't leave a phantom skeleton row" (briefing-jobs-context
\* .tsx:92-93): whether a job comes from the call that started it, from the
\* list, or from both in either order, the rows shown are the jobs polled.
CountIsPollers == mounted => count = Cardinality(Polled)

\* A page that is set up polls every job under way, except one whose call was
\* answered elsewhere or not at all, or a list that failed.
NoneForgotten ==
    mounted /\ list = "none" =>
        Active \subseteq Polled \cup missed \cup {call[c].job : c \in Callers}

\* "intervals cannot outlive the component that made them" (job-poller.ts:122):
\* except one that a call begins whose answer comes after the page was left.
OnlyLateOutlive == \A t \in timers : Shown(t[1]) \/ t \in late

\* A poller ends, by a settled job or a page that is left, whatever polls fail
\* before: "an error can't wedge it permanently" (job-poller.ts:109).
PollersEnd == \A p \in Pages \X Jobs : p \in timers ~> p \notin timers

=============================================================================
