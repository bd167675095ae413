---------------------------- MODULE SurfaceWatch ----------------------------
(***************************************************************************)
(* Three places say that a page is watched: its row, the row's is_active,  *)
(* and a job of the web process's APScheduler.  Requests add and remove    *)
(* pages, discovery jobs add pages and choose which few are watched, and   *)
(* a restart of the web process rebuilds the jobs from the rows.           *)
(*                                                                         *)
(* A discovery job runs in the web process, or with a queue in the worker, *)
(* whose own scheduler is never started.  Two requests can each find none  *)
(* under way and each begin one, so discoveries overlap.                   *)
(*                                                                         *)
(* One competitor, and the hidden competitor that stands for the           *)
(* workspace's own site.                                                   *)
(***************************************************************************)
EXTENDS SurfaceSelection

CONSTANTS
    OwnPages,    \* rows of the own site, one per hidden competitor
    Requests,    \* requests in progress at one time
    Discoveries, \* discovery jobs in progress at one time
    Listings,    \* sets of pages a discovery may find
    NoPage,
    Revisions,   \* schemas the database may start at (25 has legacy rows)
    MaxEdits     \* bound on requests and discoveries begun

\* normalize_url keeps the query, and neither the fragment nor a last "/".
Norm(p) == LET url == Page[p].url
           IN <<netloc(url), path_of(url), From({"?"}, Upto({"#"}, url))>>

ASSUME WatchAssumption ==
    /\ Pages \cap OwnPages = {} /\ NoPage \notin Pages \cup OwnPages
    /\ Revisions \subseteq 25..28 /\ MaxEdits \in Nat
    /\ Listings \subseteq SUBSET Pages
    /\ \A found \in Listings : \A p, q \in found : Norm(p) = Norm(q) => p = q
    /\ Len(Caps) = 3 /\ Caps[3] <= Cap

VARIABLES
    there,          \* is there the competitor
    used,           \* ids given out; none is used twice
    rows, active,   \* surfaces, and those with is_active
    armed,          \* jobs of the web process's scheduler
    queue,          \* is REDIS_URL set
    req,            \* requests: [pc, page]
    disc,           \* discovery jobs: [pc, new, watched, others, on, off, seen]
    schema,         \* revision of the database
    \* bookkeeping: active pages that were added, or switched on by a rival
    \* discovery, since the choice last committed was made; pages a step of the
    \* code left active without a job.  disc.seen is bookkeeping too: the pages
    \* there when the choice was made, less those a rival switched on since.
    loose, missed,
    edits           \* requests and discoveries begun

site == <<there, used, rows, active>>
vars == <<site, armed, queue, req, disc, schema, loose, missed, edits>>

IdleReq == [pc |-> "idle", page |-> NoPage]
IdleDisc == [pc |-> "idle", new |-> {}, watched |-> {}, others |-> {},
             on |-> {}, off |-> {}, seen |-> {}]

Init ==
    /\ schema \in Revisions
    /\ there = TRUE
    /\ rows \in IF schema = 25 THEN SUBSET Pages ELSE {{}}
    /\ used = rows
    /\ active \in SUBSET rows
    /\ armed = {}
    /\ queue \in BOOLEAN
    /\ req = [r \in Requests |-> IdleReq]
    /\ disc = [d \in Discoveries |-> IdleDisc]
    /\ loose = active /\ missed = {} /\ edits = 0

Up == schema = 28
Begin == Up /\ edits < MaxEdits /\ edits' = edits + 1
Own == rows \cap OwnPages

(***************************************************************************)
(* Start-up: the migrations, then start_scheduler.                         *)
(***************************************************************************)

Upgrade ==
    /\ ~Up /\ schema' = schema + 1
    /\ active' = Upgraded(schema', rows, active)
    /\ loose' = IF schema' = 28 THEN {} ELSE loose \cap active'
    /\ armed' = IF schema' = 28 THEN active' ELSE {}
    /\ UNCHANGED <<there, used, rows, queue, req, disc, missed, edits>>

\* A web process that is gone takes its requests, and its discoveries, along.
Restart ==
    /\ Up
    /\ armed' = active
    /\ req' = [r \in Requests |-> IdleReq]
    /\ disc' = IF queue THEN disc ELSE [d \in Discoveries |-> IdleDisc]
    /\ missed' = {}
    /\ UNCHANGED <<site, queue, schema, loose, edits>>

(***************************************************************************)
(* Requests: a step up to the commit, a step after it.                     *)
(***************************************************************************)

At(r, pc) == req[r].pc = pc
Turn(r, pc, page) == req' = [req EXCEPT ![r] = [pc |-> pc, page |-> page]]

\* create_surface: a page added by hand is active, whatever the cap.
AddPage(r, p) ==
    /\ Begin /\ there /\ At(r, "idle") /\ p \in Pages \ used
    /\ used' = used \cup {p}
    /\ rows' = rows \cup {p} /\ active' = active \cup {p} /\ loose' = loose \cup {p}
    /\ Turn(r, "arm", p)
    /\ UNCHANGED <<there, armed, queue, disc, schema, missed>>

\* schedule_surface of the row as it was read; nobody looks at is_active.
ArmPage(r) ==
    /\ At(r, "arm")
    /\ armed' = armed \cup {req[r].page}
    /\ Turn(r, "idle", NoPage)
    /\ UNCHANGED <<site, queue, disc, schema, loose, missed, edits>>

\* delete_surface: the job goes before the row.
DisarmPage(r, p) ==
    /\ Begin /\ At(r, "idle") /\ p \in rows \cap Pages
    /\ armed' = armed \ {p}
    /\ Turn(r, "drop", p)
    /\ UNCHANGED <<site, queue, disc, schema, loose, missed>>

Refused(set) == missed' = missed \cup ((set \cap active) \ armed)
Gone(set) ==
    /\ rows' = rows \ set /\ active' = active \ set
    /\ loose' = loose \ set /\ missed' = missed \ set

\* The delete, which is refused if the page has check runs or snapshots.
DropPage(r) ==
    /\ At(r, "drop")
    /\ \/ Gone({req[r].page})
       \/ Refused({req[r].page}) /\ UNCHANGED <<rows, active, loose>>
    /\ Turn(r, "idle", NoPage)
    /\ UNCHANGED <<there, used, armed, queue, disc, schema, edits>>

\* delete_competitor and delete_own_site: the jobs go, then the transaction
\* commits, or fails on a row that appeared meanwhile.
DropAll(set) ==
    /\ Begin /\ set # {}
    /\ armed' = armed \ set
    /\ \/ Gone(set) /\ there' = (there /\ set \subseteq OwnPages)
       \/ missed' = missed \cup (set \cap active) /\ UNCHANGED <<there, rows, active, loose>>
    /\ UNCHANGED <<used, queue, req, disc, schema>>

\* set_own_site reads: there is none, or its page is taken off to get a new
\* address.
SetOwn(r) ==
    /\ Begin /\ At(r, "idle")
    /\ \/ Own = {} /\ Turn(r, "own", NoPage) /\ UNCHANGED armed
       \/ \E o \in Own : armed' = armed \ {o} /\ Turn(r, "arm", o)
    /\ UNCHANGED <<site, queue, disc, schema, loose, missed>>

InsertOwn(r, o) ==
    /\ At(r, "own") /\ o \in OwnPages \ used
    /\ used' = used \cup {o}
    /\ rows' = rows \cup {o} /\ active' = active \cup {o}
    /\ Turn(r, "arm", o)
    /\ UNCHANGED <<there, armed, queue, disc, schema, loose, missed, edits>>

(***************************************************************************)
(* A discovery job.                                                        *)
(***************************************************************************)

Step(d, pc, next) == disc[d].pc = pc /\ disc' = [disc EXCEPT ![d] = next]

\* Of the pages found, those the competitor does not have.
Fresh(found) == {p \in found \ used : \A q \in rows \cap Pages : Norm(p) # Norm(q)}

Look(d, found) ==
    /\ Begin /\ there
    /\ Step(d, "idle", [IdleDisc EXCEPT !.pc = "insert", !.new = Fresh(found)])
    /\ used' = used \cup Fresh(found)
    /\ UNCHANGED <<there, rows, active, armed, queue, req, schema, loose, missed>>

\* One insert of all of them, active by default.
Insert(d) ==
    /\ there
    /\ rows' = rows \cup disc[d].new /\ active' = active \cup disc[d].new
    /\ loose' = loose \cup disc[d].new
    /\ Step(d, "insert", [disc[d] EXCEPT !.pc = "choose"])
    /\ UNCHANGED <<there, used, armed, queue, req, schema, missed, edits>>

Chosen(d, all) ==
    /\ Step(d, "choose", [disc[d] EXCEPT !.pc = "flag", !.watched = Watched(all),
                             !.others = all \ Watched(all), !.seen = rows \cap Pages])
    /\ UNCHANGED <<site, armed, queue, req, schema, loose, missed, edits>>

\* Mutant: only what was found is chosen from.
ChooseNew(d) == Chosen(d, disc[d].new)

\* The choice is made of all pages of the competitor.
Choose(d) == Chosen(d, rows \cap Pages)

\* The two updates: of the watched rows that are not active, and of the other
\* rows that are.
Flag(d) ==
    /\ Step(d, "flag", [disc[d] EXCEPT !.pc = "commit", !.off = disc[d].others \cap active,
                           !.on = (disc[d].watched \cap rows) \ active])
    /\ UNCHANGED <<site, armed, queue, req, schema, loose, missed, edits>>

\* Their commit; rows deleted meanwhile are not there to change.
Commit(d) ==
    LET now == disc[d]
    IN /\ now.pc = "commit"
       /\ active' = (active \ now.off) \cup (now.on \cap rows)
       /\ loose' = (active' \cap Pages) \ (now.seen \cup now.watched)
       /\ missed' = (missed \cap active') \cup ((now.others \cap active') \ armed)
       /\ disc' = [e \in Discoveries |->
                     IF e = d THEN [now EXCEPT !.pc = "reread", !.new = {},
                                      !.on = {}, !.off = {}, !.seen = {}]
                     ELSE [disc[e] EXCEPT !.seen = @ \ now.on]]
       /\ UNCHANGED <<there, used, rows, armed, queue, req, schema, edits>>

Reread(d) ==
    /\ Step(d, "reread", [disc[d] EXCEPT !.pc = "arm", !.watched = @ \cap rows])
    /\ UNCHANGED <<site, armed, queue, req, schema, loose, missed, edits>>

\* schedule_surface and unschedule_surface, which in the worker reach a
\* scheduler that never runs.  A rival may have switched a page of the others
\* on again.
Armed(d, set) ==
    /\ Step(d, "arm", IdleDisc)
    /\ IF queue THEN Refused(disc[d].watched) /\ UNCHANGED armed
       ELSE /\ armed' = (armed \cup set) \ disc[d].others
            /\ missed' = (missed \cup (disc[d].others \cap active)) \ disc[d].watched
    /\ UNCHANGED <<site, queue, req, schema, loose, edits>>

\* Mutant: the pages that are watched get no job.
ArmNone(d) == Armed(d, {})

Arm(d) == Armed(d, disc[d].watched)

\* No pages, a database error, a worker that dies, a competitor deleted.
FailDiscovery(d) ==
    /\ disc[d].pc # "idle" /\ disc' = [disc EXCEPT ![d] = IdleDisc]
    /\ Refused(disc[d].new \cup disc[d].watched)
    /\ UNCHANGED <<site, armed, queue, req, schema, loose, edits>>

Request(r) ==
    \/ \E p \in Pages : AddPage(r, p) \/ DisarmPage(r, p)
    \/ \E o \in OwnPages : InsertOwn(r, o)
    \/ ArmPage(r) \/ DropPage(r) \/ SetOwn(r)
Discovery(d) ==
    \/ \E found \in Listings : Look(d, found)
    \/ Insert(d) \/ Choose(d) \/ Flag(d) \/ Commit(d) \/ Reread(d) \/ Arm(d)
    \/ FailDiscovery(d)
Delete == DropAll(rows \cap Pages) \/ \E o \in Own : DropAll({o})

Next ==
    \/ Upgrade \/ Restart \/ Delete
    \/ \E r \in Requests : Request(r)
    \/ \E d \in Discoveries : Discovery(d)

Spec == Init /\ [][Next]_vars

(***************************************************************************)
(* Properties.                                                             *)
(***************************************************************************)

TypeOK ==
    /\ there \in BOOLEAN /\ queue \in BOOLEAN
    /\ used \subseteq Pages \cup OwnPages /\ rows \subseteq used /\ active \subseteq rows
    /\ armed \subseteq Pages \cup OwnPages
    /\ req \in [Requests -> [pc : {"idle", "arm", "drop", "own"},
                             page : Pages \cup OwnPages \cup {NoPage}]]
    /\ disc \in [Discoveries -> [
           pc : {"idle", "insert", "choose", "flag", "commit", "reread", "arm"},
           new : SUBSET Pages, watched : SUBSET Pages, others : SUBSET Pages,
           on : SUBSET Pages, off : SUBSET Pages, seen : SUBSET Pages]]
    /\ schema \in 25..28
    /\ loose \subseteq active \cap Pages /\ missed \subseteq active
    /\ edits \in 0..MaxEdits

\* "Discover more pages cannot push the total past the cap one pass at a time"
\* (competitor_discovery_service.py:97-102): of the pages there when the choice
\* last committed was made, no more than the cap are active.  Pages added since
\* are not counted, nor those that a discovery overlapping it switched on.
CapKept == Up => Cardinality((active \cap Pages) \ loose) <= Cap

\* A choice takes the best pages, one per address, none excluded: the sort,
\* the walk and the cut agree with their description (surface_selection.py:261).
ChoiceIsBest == \A d \in Discoveries :
    disc[d].pc = "flag" => disc[d].watched = Best(Cap, disc[d].watched \cup disc[d].others)

\* A database upgraded from before the cap watches the best pages by the rules
\* of surface_selection.py, which 0028 has copied and reads addresses for in
\* another way (0028: "the same three pages a freshly discovered competitor
\* would").
UpgradeIsBest == [][schema = 27 => active' = Best(Caps[3], rows)]_vars

\* An active page has a job, or one is about to be made, or the page is one
\* whose delete was refused, or that a discovery could not give a job, or that
\* two overlapping discoveries decided differently.
Coming == {req[r].page : r \in Requests}
              \cup UNION {disc[d].new \cup disc[d].watched : d \in Discoveries}
ActiveHasJob == Up => active \subseteq armed \cup missed \cup Coming

=============================================================================
