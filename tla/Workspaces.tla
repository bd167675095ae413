----------------------------- MODULE Workspaces -----------------------------
(***************************************************************************)
(* Accounts, workspaces and their members; the shared demo account and the *)
(* script that provisions it.                                              *)
(*                                                                         *)
(* A request reads and checks in one step and commits in another, and the  *)
(* script reads in two and commits in a third, so that they can meet.      *)
(***************************************************************************)
EXTENDS FiniteSets

CONSTANTS
    Users,       \* accounts
    DemoUser,    \* the account of DEMO_USER_EMAIL
    Workspaces,
    Roles,       \* WorkspaceRole
    Requests,    \* requests that change members, under way at one time
    Edits,       \* requests that change content, under way at one time
    None

ASSUME WorkspacesAssumption ==
    /\ DemoUser \in Users /\ None \notin Users \cup Workspaces \cup Roles
    /\ {"owner", "editor"} \subseteq Roles /\ Requests \cap Edits = {}

VARIABLES
    account,     \* user -> "none", "live", "deleted": anonymized
    exists,      \* the workspaces
    slug,        \* the one that has DEMO_WORKSPACE_SLUG, if any
    role,        \* workspace -> user -> role, or None: no row
    holds,       \* workspaces that hold competitors
    demo,        \* workspaces flagged is_demo
    req,         \* request -> [op, ws, user, role, rows]
    edit,        \* edit -> [op, ws]
    script       \* what provision_demo, where it runs, goes by: [pc, ws, account,
                 \* open, admin, member, was]

vars == <<account, exists, slug, role, holds, demo, req, edit, script>>

NoRequest == [op |-> "idle", ws |-> None, user |-> None, role |-> None, rows |-> {}]
NoEdit == [op |-> "idle", ws |-> None]
NoRun == [pc |-> "idle", ws |-> None, account |-> "none", open |-> FALSE,
          admin |-> None, member |-> FALSE, was |-> None]

Init ==
    /\ account = [u \in Users |-> "none"]
    /\ exists = {} /\ slug = None
    /\ role = [w \in Workspaces |-> [u \in Users |-> None]]
    /\ holds = {} /\ demo = {}
    /\ req = [r \in Requests |-> NoRequest]
    /\ edit = [e \in Edits |-> NoEdit]
    /\ script = NoRun

Live(u) == account[u] = "live"
Members(w) == {u \in Users : role[w][u] # None}
Owners(w) == {u \in Users : role[w][u] = "owner"}

\* Mutant: an owner has an owner's rights.
ReadOnlyByRole(u, w) == w \in demo /\ u = DemoUser /\ role[w][u] # "owner"

\* workspace_is_read_only_for: by the flag and the account, never the role.
ReadOnly(u, w) == w \in demo /\ u = DemoUser
MayEdit(u, w) == Live(u) /\ role[w][u] \in {"owner", "editor"} /\ ~ReadOnly(u, w)
MayManage(u, w) == Live(u) /\ role[w][u] = "owner" /\ ~ReadOnly(u, w)

(***************************************************************************)
(* Accounts, workspaces, and what they hold.                               *)
(***************************************************************************)

Register(u) ==
    /\ account[u] = "none"
    /\ account' = [account EXCEPT ![u] = "live"]
    /\ UNCHANGED <<exists, slug, role, holds, demo, req, edit, script>>

\* unique_slug: the slug of the demo is as free as any other.
CreateWorkspace(u, w) ==
    /\ Live(u) /\ u # DemoUser /\ w \notin exists
    /\ exists' = exists \cup {w}
    /\ slug' \in {slug, IF slug = None THEN w ELSE slug}
    /\ role' = [role EXCEPT ![w][u] = "owner"]
    /\ UNCHANGED <<account, holds, demo, req, edit, script>>

\* create_competitor, delete_competitor: the guard, then the commit. There may be
\* other competitors left.
Edit(u, w) ==
    /\ MayEdit(u, w)
    /\ \E e \in Edits, op \in {"create", "delete"} :
         /\ op = "delete" => w \in holds
         /\ edit[e] = NoEdit /\ edit' = [edit EXCEPT ![e] = [op |-> op, ws |-> w]]
    /\ UNCHANGED <<account, exists, slug, role, holds, demo, req, script>>

SetHolds(e) ==
    /\ edit[e] # NoEdit
    /\ holds' \in IF edit[e].op = "create" THEN {holds \cup {edit[e].ws}}
                  ELSE {holds, holds \ {edit[e].ws}}
    /\ edit' = [edit EXCEPT ![e] = NoEdit]
    /\ UNCHANGED <<account, exists, slug, role, demo, req, script>>

(***************************************************************************)
(* Requests that change members.                                           *)
(***************************************************************************)

Begin(q) ==
    /\ \E r \in Requests : req[r] = NoRequest /\ req' = [req EXCEPT ![r] = q]
    /\ UNCHANGED <<account, exists, slug, role, holds, demo, edit, script>>

Invite(w, u, new) ==
    /\ Live(u) /\ role[w][u] = None
    /\ Begin([op |-> "invite", ws |-> w, user |-> u, role |-> new, rows |-> {}])

\* Mutant: the member itself is counted.
RemainsAnOwnerSelf(w, u) == Owners(w) # {}

\* _ensure_not_last_owner.
RemainsAnOwner(w, u) == Owners(w) \ {u} # {}

\* The role a member has already is not written.
ChangeRole(w, u, new) ==
    /\ role[w][u] \notin {None, new}
    /\ role[w][u] = "owner" => RemainsAnOwner(w, u)
    /\ Begin([op |-> "change", ws |-> w, user |-> u, role |-> new, rows |-> {<<w, u>>}])

Remove(w, u) ==
    /\ role[w][u] # None
    /\ role[w][u] = "owner" => RemainsAnOwner(w, u)
    /\ Begin([op |-> "remove", ws |-> w, user |-> u, role |-> None, rows |-> {<<w, u>>}])

\* delete_user_account: not by the sole owner of others.
Forget(u) ==
    LET mine == {w \in Workspaces : role[w][u] # None}
    IN /\ Live(u) /\ u # DemoUser
       /\ \A w \in mine : role[w][u] = "owner" =>
            Owners(w) \ {u} # {} \/ Members(w) \ {u} = {}
       /\ Begin([op |-> "forget", ws |-> None, user |-> u, role |-> None,
                 rows |-> {<<w, u>> : w \in mine}])

Manage(w) ==
    /\ \E u \in Users : MayManage(u, w)
    /\ \E u \in Users : \/ \E new \in Roles : Invite(w, u, new) \/ ChangeRole(w, u, new)
                        \/ Remove(w, u)

\* Rows that are deleted are gone for the other requests that hold them.
Done(r, gone) ==
    req' = [q \in Requests |-> IF q = r THEN NoRequest ELSE [req[q] EXCEPT !.rows = @ \ gone]]

\* A pair that is there refuses a second row, a row that is gone its update;
\* what is deleted twice is gone.
Commit(r) ==
    LET q == req[r]
        SetRole(new) == [role EXCEPT ![q.ws][q.user] = new]
    IN /\ q # NoRequest
       /\ \/ /\ q.op = "invite"
             /\ role' = IF role[q.ws][q.user] = None THEN SetRole(q.role) ELSE role
             /\ Done(r, {}) /\ UNCHANGED account
          \/ /\ q.op = "change"
             /\ role' = IF q.rows # {} THEN SetRole(q.role) ELSE role
             /\ Done(r, {}) /\ UNCHANGED account
          \/ /\ q.op \in {"remove", "forget"}
             /\ role' = [w \in Workspaces |-> [u \in Users |->
                            IF <<w, u>> \in q.rows THEN None ELSE role[w][u]]]
             /\ Done(r, q.rows)
             /\ account' = IF q.op = "forget" THEN [account EXCEPT ![q.user] = "deleted"] ELSE account
       /\ UNCHANGED <<exists, slug, holds, demo, edit, script>>

(***************************************************************************)
(* The demo.                                                               *)
(***************************************************************************)

\* Mutants: by its slug, whoever has it; a new one every time.
DemoWorkspaceBySlug == IF slug # None THEN {slug} ELSE Workspaces \ exists
DemoWorkspaceAnew == Workspaces \ exists

\* The one that is flagged, or the empty one that has the slug, or a new one.
DemoWorkspace ==
    IF demo # {} THEN demo
    ELSE IF slug = None THEN Workspaces \ exists
    ELSE IF slug \in holds \/ Members(slug) \ {DemoUser} # {} THEN {} ELSE {slug}

\* Calls on a workspace that are under way.
Calls(w) == {r \in Requests : req[r].ws = w} \cup {e \in Edits : edit[e].ws = w}

\* The script finds its workspace, None for a new one, and whether there is a
\* demo account.  Bookkeeping: whether it is open to the demo account, or to
\* a call on its way.
ProvisionFinds ==
    /\ script = NoRun
    /\ \E w \in DemoWorkspace :
         LET found == IF w \in exists THEN w ELSE None
         IN script' = [NoRun EXCEPT !.pc = "found", !.ws = found, !.account = account[DemoUser],
                                    !.open = role[w][DemoUser] # None \/ Calls(w) # {}]
    /\ UNCHANGED <<account, exists, slug, role, holds, demo, req, edit>>

RoleIn(w, u) == IF w = None \/ u = None THEN None ELSE role[w][u]

\* It reads the two memberships; with no such --admin-email it changes nothing.
ProvisionReads(admin) ==
    /\ script.pc = "found"
    /\ script' = IF admin # None /\ ~Live(admin) THEN NoRun
                 ELSE [script EXCEPT !.pc = "read", !.admin = admin,
                                     !.member = RoleIn(script.ws, DemoUser) # None,
                                     !.was = RoleIn(script.ws, admin)]
    /\ UNCHANGED <<account, exists, slug, role, holds, demo, req, edit>>

\* A second account, slug or row is refused, and so is an update of a row that
\* is gone: the demo account cannot be its own admin before it is a member.
Accepted ==
    /\ script.account = account[DemoUser]
    /\ script.ws = None => slug = None /\ script.admin # DemoUser
    /\ ~script.member => RoleIn(script.ws, DemoUser) = None /\ script.admin # DemoUser
    /\ script.admin # None /\ script.was = None => RoleIn(script.ws, script.admin) = None
    /\ script.was \notin {None, "owner"} => RoleIn(script.ws, script.admin) # None

\* What it read as it should be, it does not write.
MadeOwners ==
    {u \in Users : (u = DemoUser /\ ~script.member) \/ (u = script.admin /\ script.was # "owner")}

\* With or without --unlock.
ProvisionCommits(lock) ==
    /\ script.pc = "read" /\ script' = NoRun
    /\ IF ~Accepted THEN UNCHANGED <<account, exists, slug, role, demo>>
       ELSE \E w \in IF script.ws = None THEN Workspaces \ exists ELSE {script.ws} :
              /\ account' = [account EXCEPT ![DemoUser] = "live"]
              /\ exists' = exists \cup {w}
              /\ slug' = IF script.ws = None THEN w ELSE slug
              /\ demo' = IF lock THEN demo \cup {w} ELSE demo \ {w}
              /\ role' = [role EXCEPT ![w] = [u \in Users |->
                              IF u \in MadeOwners THEN "owner" ELSE role[w][u]]]
    /\ UNCHANGED <<holds, req, edit>>

Next ==
    \/ \E u \in Users : Register(u) \/ Forget(u)
    \/ \E u \in Users, w \in Workspaces : CreateWorkspace(u, w) \/ Edit(u, w)
    \/ \E w \in Workspaces : Manage(w)
    \/ \E r \in Requests : Commit(r)
    \/ \E e \in Edits : SetHolds(e)
    \/ ProvisionFinds
    \/ \E admin \in Users \cup {None} : ProvisionReads(admin)
    \/ \E lock \in BOOLEAN : ProvisionCommits(lock)

Spec == Init /\ [][Next]_vars

(***************************************************************************)
(* Properties.                                                             *)
(***************************************************************************)

RequestType ==
    [op : {"idle", "invite", "change", "remove", "forget"}, ws : Workspaces \cup {None},
     user : Users \cup {None}, role : Roles \cup {None}, rows : SUBSET (Workspaces \X Users)]

EditType == [op : {"idle", "create", "delete"}, ws : Workspaces \cup {None}]

RunType ==
    [pc : {"idle", "found", "read"}, ws : Workspaces \cup {None},
     account : {"none", "live", "deleted"}, open : BOOLEAN,
     admin : Users \cup {None}, member : BOOLEAN, was : Roles \cup {None}]

\* Types; members only in workspaces there are; at most one demo workspace,
\* and it has the demo's slug.
TypeOK ==
    /\ account \in [Users -> {"none", "live", "deleted"}]
    /\ exists \subseteq Workspaces /\ slug \in exists \cup {None}
    /\ role \in [Workspaces -> [Users -> Roles \cup {None}]]
    /\ \A w \in Workspaces \ exists : Members(w) = {}
    /\ holds \subseteq exists /\ demo \subseteq {slug} \ {None}
    /\ req \in [Requests -> RequestType] /\ edit \in [Edits -> EditType]
    /\ script \in RunType

\* "A workspace must have at least one owner" (routers/workspace.py:283): as
\* members are removed and demoted and accounts deleted, while the script and
\* new workspaces come between a request's check and its commit. It needs that
\* no two such requests overlap.
KeepsAnOwner == \A w \in exists : Members(w) # {} => Owners(w) # {}

\* "Anything with content or another member belongs to somebody"
\* (provision_demo.py:104-106), and the script counts both long before it
\* commits (line 206).  A workspace that is locked, or gets the demo account for
\* an owner otherwise than by an owner's hand, is empty even then, whoever made
\* or joined what in between: only where the demo account was a member already,
\* or a call on its way, when the script looked, may it have been filled since.
Given(w) == \E r \in Requests : req[r].ws = w /\ req[r].user = DemoUser
NotTakenOver ==
    [][\A w \in exists :
        \/ w \in demo' \ demo
        \/ w \notin demo /\ role[w][DemoUser] # "owner" /\ role'[w][DemoUser] = "owner" /\ ~Given(w)
        => \/ w \notin holds /\ Members(w) \subseteq {DemoUser}
           \/ script.ws = w /\ script.open]_vars

\* "The restrictions key off the workspace flag, never off role"
\* (provision_demo.py:161-164), but a call reads the flag before it does its
\* work, and the lock may fall in between.  In a locked demo workspace that
\* only the demo account belongs to the calls under way run out: none begins,
\* and each makes at most one change; once they have, its content and its
\* members stay as they are until the script runs.
DemoIsFrozen ==
    [][\A w \in demo \cap demo' : Members(w) \subseteq {DemoUser} /\ UNCHANGED script =>
        /\ Calls(w)' \subseteq Calls(w)
        /\ Calls(w)' = Calls(w) => (w \in holds' <=> w \in holds) /\ role'[w] = role[w]]_vars

=============================================================================
