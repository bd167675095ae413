---------------------------- MODULE CheckContent ----------------------------
(***************************************************************************)
(* What a check does with the page it fetched: snapshots, change logs, and *)
(* the calls to the language model for a score, an embedding, a read of a  *)
(* first snapshot and the summary of the site.  The pages of one           *)
(* competitor; CheckPipeline says which checks run, and that two checks of *)
(* one page can run at a time.                                             *)
(*                                                                         *)
(* A page is a sequence of lines.  A line has words, perhaps a time among  *)
(* them, and may be a script or a cookie banner.                           *)
(***************************************************************************)
EXTENDS Budget, Sequences, SequencesExt

\* Checks, and refreshes of the summary, are the callers.
Checks == Callers

CONSTANTS
    Surfaces,
    Raw,         \* what a page can read, as it is served
    Histories,   \* what rows of before the snapshots may hold: [last, changes]
    None,
    MaxEdits, MaxCrashes,  \* bounds
    MaxLogged              \* bound on the spend at which summaries are refreshed by hand

Texts == Seq([words : STRING, time : BOOLEAN, kind : {"text", "script", "cookies"}])

ASSUME ContentAssumption ==
    /\ None \notin Surfaces \cup Texts /\ MaxEdits \in Nat /\ MaxCrashes \in Nat
    /\ MaxLogged \in Nat /\ Raw \subseteq Texts
    /\ \A h \in Histories : h.changes \in Seq([old : {None} \cup Texts, new : {None} \cup Texts])

VARIABLES
    page,        \* surface -> what its site serves
    llm,         \* is a key configured
    snaps,       \* surface -> committed snapshots, [id, text]
    before,      \* ids up to here are older than the snapshots table
    logs,        \* surface -> change logs, [old, new]
    summary,     \* the site summary: None, or [fresh]
    chk,         \* check -> [pc, surface, new, prev, id, scored, found]
    clash,       \* bookkeeping: surfaces two checks have looked at at a time
    edits, crashes

content == <<page, llm, snaps, before, logs, summary, chk, clash, edits, crashes>>
vars == <<content, budget>>

(***************************************************************************)
(* From a page to its text.                                                *)
(***************************************************************************)

\* The lines of a text that are kept, in their order.
Those(text, kept) == FlattenSeq([i \in DOMAIN text |-> IF text[i] \in kept THEN <<text[i]>> ELSE <<>>])

\* Lines that are no script, and not blank.
extract_text(raw) ==
    Those(raw, {line \in Range(raw) : line.kind # "script" /\ (line.words # "" \/ line.time)})

\* Lines that are no banner, without their times, and not blank after that.
strip_noise(text) ==
    LET Timeless == [i \in DOMAIN text |-> [text[i] EXCEPT !.time = FALSE]]
    IN Those(Timeless, {line \in Range(Timeless) : line.kind # "cookies" /\ line.words # ""})

capture_clean_snapshot == [raw \in Raw |-> strip_noise(extract_text(raw))]

has_material_diff(old, new) == old # new

(***************************************************************************)
(* A check.                                                                *)
(***************************************************************************)

IdleCheck == [pc |-> "idle", surface |-> None, new |-> None,
              prev |-> 0, id |-> 0, scored |-> FALSE, found |-> FALSE]

\* Migration 0003: the last text of a competitor becomes a snapshot, and then
\* the texts of each of its changes do; their logs are left out here.
Opt(text) == IF text = None THEN <<>> ELSE <<text>>
Backfilled(h) ==
    Opt(h.last) \o FlattenSeq([i \in DOMAIN h.changes |-> Opt(h.changes[i].old) \o <<h.changes[i].new>>])

Init ==
    /\ page \in [Surfaces -> Raw] /\ llm \in BOOLEAN
    /\ \E h \in Histories \cup {[last |-> None, changes |-> <<>>]} :
           LET texts == Backfilled(h)
           IN /\ snaps = [s \in Surfaces |-> {[id |-> i, text |-> texts[i]] : i \in DOMAIN texts}]
              /\ before = Len(texts)
    /\ logs = [s \in Surfaces |-> {}]
    /\ summary = None
    /\ chk = [c \in Checks |-> IdleCheck]
    /\ clash = {} /\ edits = 0 /\ crashes = 0
    /\ BudgetInit

At(c, pc) == chk[c].pc = pc
Become(c, new) == chk' = [chk EXCEPT ![c] = new]
GoTo(c, pc) == Become(c, [chk[c] EXCEPT !.pc = pc])
Rows == <<page, llm, before, edits, crashes>>
Stored == <<snaps, logs>>

\* A check of a sweep leaves the site summary alone; any check may be of one.
Summary == [IdleCheck EXCEPT !.pc = "summary"]
Wrap(c) == Become(c, IdleCheck) \/ (llm /\ Become(c, Summary))

\* Two checks of a page at a time happen once: a bound.
Start(c, s) ==
    /\ At(c, "idle")
    /\ Become(c, [IdleCheck EXCEPT !.pc = "fetch", !.surface = s])
    /\ IF \E d \in Checks \ {c} : chk[d].surface = s THEN s \notin clash /\ clash' = clash \cup {s}
       ELSE UNCHANGED clash
    /\ UNCHANGED <<Rows, Stored, summary, budget>>

\* fetch_html, which a bound on time or size may end.
Fetch(c) ==
    /\ At(c, "fetch")
    /\ Become(c, [chk[c] EXCEPT !.pc = "compare", !.new = capture_clean_snapshot[page[chk[c].surface]]])
    /\ UNCHANGED <<Rows, Stored, summary, clash, budget>>
FailFetch(c) ==
    /\ At(c, "fetch") /\ Become(c, IdleCheck)
    /\ UNCHANGED <<Rows, Stored, summary, clash, budget>>

\* Mutant: the first snapshot, for want of .desc().
FirstOf(s) == CHOOSE p \in snaps[s] : \A q \in snaps[s] : p.id <= q.id

\* The snapshot with the highest id.
LatestOf(s) == CHOOSE p \in snaps[s] : \A q \in snaps[s] : p.id >= q.id

PreviousText(s) == IF snaps[s] = {} THEN None ELSE LatestOf(s).text

\* Ids of snapshots given out; one a crash took back is given out again.
Ids(s) == {p.id : p \in snaps[s]} \cup {chk[c].id : c \in {d \in Checks : chk[d].surface = s}}
NextId(s) == 1 + Max(Ids(s) \cup {0})

Baseline(c) ==
    LET s == chk[c].surface
    IN /\ At(c, "compare") /\ PreviousText(s) = None
       /\ snaps' = [snaps EXCEPT ![s] = @ \cup {[id |-> NextId(s), text |-> chk[c].new]}]
       /\ IF llm /\ chk[c].new # <<>> THEN Become(c, [IdleCheck EXCEPT !.pc = "baseline"]) ELSE Wrap(c)
       /\ UNCHANGED <<Rows, logs, summary, clash, budget>>

NoChange(c) ==
    LET s == chk[c].surface
    IN /\ At(c, "compare") /\ PreviousText(s) # None
       /\ ~has_material_diff(PreviousText(s), chk[c].new)
       /\ Become(c, IdleCheck)
       /\ UNCHANGED <<Rows, Stored, summary, clash, budget>>

\* The new snapshot has its id with the flush; nobody sees it yet.
Change(c) ==
    LET s == chk[c].surface
    IN /\ At(c, "compare") /\ PreviousText(s) # None
       /\ has_material_diff(PreviousText(s), chk[c].new)
       /\ Become(c, [chk[c] EXCEPT !.pc = IF llm THEN "score" ELSE "commit",
                                   !.prev = LatestOf(s).id, !.id = NextId(s)])
       /\ UNCHANGED <<Rows, snaps, logs, summary, clash, budget>>

(***************************************************************************)
(* Calls to the model.  What follows one that is refused, or fails.        *)
(***************************************************************************)

AskFor == [score |-> "scoring", embed |-> "embedding", baseline |-> "describing", pages |-> "summarizing"]

Without(c) ==
    \/ chk[c].pc \in {"score", "scoring"} /\ GoTo(c, "commit")
    \/ chk[c].pc \in {"pages", "summarizing"} /\ Become(c, IdleCheck)
    \/ chk[c].pc \in {"embed", "embedding", "baseline", "describing"} /\ Wrap(c)

\* Mutant: the embedding asks nobody.
CallUnasked(c) ==
    /\ chk[c].pc \in DOMAIN AskFor
    /\ \/ Ask(c)
       \/ At(c, "embed") /\ call' = [call EXCEPT ![c] = Asked] /\ UNCHANGED <<cap, logged, limit>>
    /\ GoTo(c, AskFor[chk[c].pc])
    /\ UNCHANGED <<Rows, Stored, summary, clash>>

\* check_budget, then the call.
Call(c) ==
    /\ chk[c].pc \in DOMAIN AskFor
    /\ Ask(c)
    /\ GoTo(c, AskFor[chk[c].pc])
    /\ UNCHANGED <<Rows, Stored, summary, clash>>

Refuse(c) ==
    /\ chk[c].pc \in DOMAIN AskFor /\ ~Allowed
    /\ Without(c)
    /\ UNCHANGED <<Rows, Stored, summary, clash, budget>>

\* Mutant: a score that fails fails the check.
FailCheck(c) ==
    /\ call[c].pc = "asked" /\ Lose(c) /\ Become(c, IdleCheck)
    /\ UNCHANGED <<Rows, Stored, summary, clash>>

FailCall(c) ==
    /\ call[c].pc = "asked" /\ Lose(c) /\ Without(c)
    /\ UNCHANGED <<Rows, Stored, summary, clash>>

Scored(c) ==
    /\ At(c, "scoring") /\ Answer(c)
    /\ Become(c, [chk[c] EXCEPT !.pc = "commit", !.scored = TRUE])
    /\ UNCHANGED <<Rows, Stored, summary, clash>>

LogIfAny(c) == IF call[c].pc = "answered" THEN Log(c) ELSE UNCHANGED budget

\* One commit of the snapshot, the change log and the usage.
Commit(c) ==
    LET k == chk[c]
    IN /\ At(c, "commit")
       /\ snaps' = [snaps EXCEPT ![k.surface] = @ \cup {[id |-> k.id, text |-> k.new]}]
       /\ logs' = [logs EXCEPT ![k.surface] = @ \cup {[old |-> k.prev, new |-> k.id]}]
       /\ LogIfAny(c)
       /\ IF k.scored THEN Become(c, [IdleCheck EXCEPT !.pc = "embed"]) ELSE Wrap(c)
       /\ UNCHANGED <<Rows, summary, clash>>

Described(c) ==
    /\ At(c, "describing") /\ Answer(c)
    /\ GoTo(c, "described")
    /\ UNCHANGED <<Rows, Stored, summary, clash>>
KeepDescription(c) ==
    /\ At(c, "described") /\ Log(c) /\ Wrap(c)
    /\ UNCHANGED <<Rows, Stored, summary, clash>>

Embedded(c) ==
    /\ At(c, "embedding") /\ Answer(c)
    /\ GoTo(c, "embedded")
    /\ UNCHANGED <<Rows, Stored, summary, clash>>
KeepEmbedding(c) ==
    /\ At(c, "embedded") /\ Log(c) /\ Wrap(c)
    /\ UNCHANGED <<Rows, Stored, summary, clash>>

(***************************************************************************)
(* The site summary.                                                       *)
(***************************************************************************)

\* The summary is fresh, or its pages are read; they may have nothing to say.
Summarize(c) ==
    /\ At(c, "summary")
    /\ IF summary # None /\ summary.fresh THEN Become(c, IdleCheck)
       ELSE GoTo(c, "pages") \/ Become(c, IdleCheck)
    /\ UNCHANGED <<Rows, Stored, summary, clash, budget>>

\* A manual refresh does not look at the age of the summary.
Refresh(c) ==
    /\ At(c, "idle") /\ llm /\ logged < MaxLogged
    /\ Become(c, [IdleCheck EXCEPT !.pc = "pages"])
    /\ UNCHANGED <<Rows, Stored, summary, clash, budget>>

Summarized(c) ==
    /\ At(c, "summarizing") /\ Answer(c)
    /\ Become(c, [chk[c] EXCEPT !.pc = "write", !.found = summary # None])
    /\ UNCHANGED <<Rows, Stored, summary, clash>>

\* An update of the row that was found, or an insert; an insert that another
\* won is undone to its savepoint and becomes an update.
Write(c) ==
    LET Insert == ~chk[c].found /\ summary = None
        Update == chk[c].found
        InsertLost == ~chk[c].found /\ summary # None
    IN /\ At(c, "write") /\ (Insert \/ Update \/ InsertLost)
       /\ summary' = [fresh |-> TRUE] /\ Log(c)
       /\ Become(c, IdleCheck)
       /\ UNCHANGED <<Rows, Stored, clash>>

(***************************************************************************)
(* The rest of the world.                                                  *)
(***************************************************************************)

\* Fifteen minutes pass.
Age ==
    /\ summary # None /\ summary.fresh /\ summary' = [summary EXCEPT !.fresh = FALSE]
    /\ UNCHANGED <<Rows, Stored, chk, clash, budget>>

Edit(s, raw) ==
    /\ edits < MaxEdits /\ raw # page[s]
    /\ page' = [page EXCEPT ![s] = raw] /\ edits' = edits + 1
    /\ UNCHANGED <<llm, before, snaps, logs, summary, chk, clash, crashes, budget>>

\* A process that dies, or a database error: the transaction is rolled back.
Crash(c) ==
    /\ crashes < MaxCrashes /\ crashes' = crashes + 1
    /\ ~At(c, "idle") /\ Become(c, IdleCheck)
    /\ IF call[c].pc = "idle" THEN UNCHANGED budget ELSE Lose(c)
    /\ UNCHANGED <<page, llm, before, snaps, logs, summary, clash, edits>>

\* An owner of the workspace sets the cap.
Owner(new) ==
    /\ edits < MaxEdits /\ edits' = edits + 1
    /\ new # cap /\ SetCap(new)
    /\ UNCHANGED <<page, llm, before, snaps, logs, summary, chk, clash, crashes>>

Finish(c) ==
    \/ Baseline(c) \/ NoChange(c) \/ Change(c)
    \/ Call(c) \/ Refuse(c) \/ FailCall(c)
    \/ Scored(c) \/ Commit(c) \/ Described(c) \/ KeepDescription(c)
    \/ Embedded(c) \/ KeepEmbedding(c) \/ Summarize(c) \/ Summarized(c) \/ Write(c)

Next ==
    \/ \E c \in Checks : \/ \E s \in Surfaces : Start(c, s)
                         \/ Fetch(c) \/ FailFetch(c) \/ Finish(c) \/ Refresh(c) \/ Crash(c)
    \/ Age
    \/ \E s \in Surfaces, raw \in Raw : Edit(s, raw)
    \/ \E new \in Caps \cup {NoCap} : Owner(new)

Spec == Init /\ [][Next]_vars

\* Checks end, the scheduler starts others, and a site does not fail for ever;
\* the model may.
LiveSpec ==
    /\ Spec
    /\ \A c \in Checks : WF_vars(Finish(c)) /\ SF_vars(Fetch(c))
    /\ \A s \in Surfaces : SF_vars(\E c \in Checks : Start(c, s))

(***************************************************************************)
(* Properties.                                                             *)
(***************************************************************************)

TypeOK ==
    /\ page \in [Surfaces -> Raw] /\ llm \in BOOLEAN
    /\ DOMAIN snaps = Surfaces /\ DOMAIN logs = Surfaces
    /\ summary = None \/ summary \in [fresh : BOOLEAN]
    /\ DOMAIN chk = Checks
    /\ \A c \in Checks : /\ {"pc", "surface", "scored", "found"} \subseteq DOMAIN chk[c]
                          /\ chk[c].surface \in Surfaces \cup {None}
                          /\ chk[c].pc = "idle" => chk[c] = IdleCheck
    /\ edits \in 0..MaxEdits /\ crashes \in 0..MaxCrashes
    /\ BudgetTypeOK

\* A check that waits for the model has asked its budget, and what a call used
\* is held by the check until its commit, or lost with it; it is never left to
\* the check that comes next.
CallsMatch ==
    \A c \in Checks :
        /\ call[c].pc = "asked" <=> chk[c].pc \in Range(AskFor)
        /\ chk[c].pc \in {"described", "embedded", "write"} => call[c].pc = "answered"
        /\ call[c].pc = "answered" => chk[c].pc \in {"commit", "described", "embedded", "write"}

\* The change logs of a page tell its whole story: each snapshot that follows
\* a text has one log, from the snapshot right before it, and the two differ
\* in more than scripts, banners and times, which no new snapshot holds --
\* unless two checks of the page ran at a time.
Clean(text) == \A line \in Range(text) : line.kind = "text" /\ line.words # "" /\ ~line.time
Earlier(p, all) == {q \in all : q.id < p.id}
Preceding(p, all) == CHOOSE q \in Earlier(p, all) : \A r \in Earlier(p, all) : r.id <= q.id
Told(p, all, told) ==
    /\ Clean(p.text)
    /\ IF Earlier(p, all) = {} \/ Preceding(p, all).text = None THEN told = {}
       ELSE /\ told = {[old |-> Preceding(p, all).id, new |-> p.id]}
            /\ Preceding(p, all).text # p.text
LogsTellAll ==
    \A s \in Surfaces \ clash : \A p \in {q \in snaps[s] : q.id > before} :
        Told(p, snaps[s], {log \in logs[s] : log.new = p.id})

\* A page that stays as it is is recorded as it is in the end, though no call
\* to the model may ever succeed and checks crash and overlap.
CaughtUp ==
    \A s \in Surfaces :
        <>[](PreviousText(s) = capture_clean_snapshot[page[s]])

=============================================================================
