-------------------------- MODULE WorkspacesProofs --------------------------
(***************************************************************************)
(* Theorems of Workspaces, for every number of accounts and workspaces.    *)
(***************************************************************************)
EXTENDS Workspaces, TLAPS

\* What a request that is under way was told when it began.
RequestsSound == \A r \in Requests :
    LET q == req[r]
    IN /\ q.op = "idle" => q = NoRequest
       /\ q.op \in {"invite", "change"} => q.ws \in exists /\ q.user \in Users /\ q.role \in Roles

\* A call is on a workspace there is, and the script on the one with the slug.
EditsSound == \A e \in Edits : edit[e] = NoEdit \/ edit[e].ws \in exists
ScriptSound ==
    /\ script.pc = "idle" => script = NoRun
    /\ script.ws # None => script.ws \in exists /\ script.ws = slug

IInv == TypeOK /\ RequestsSound /\ EditsSound /\ ScriptSound

-----------------------------------------------------------------------------
(* Types.                                                                  *)

LEMMA NoRequestType == NoRequest \in RequestType
  BY DEF NoRequest, RequestType

LEMMA NoRunType == NoRun \in RunType /\ NoEdit \in EditType /\ NoRun.ws = None
  BY DEF NoRun, RunType, NoEdit, EditType

LEMMA InitIInv == Init => IInv
<1> SUFFICES ASSUME Init PROVE IInv
  OBVIOUS
<1>1. TypeOK
  BY NoRequestType, NoRunType, WorkspacesAssumption DEF Init, TypeOK, Members
<1>2. RequestsSound /\ EditsSound /\ ScriptSound
  BY NoRunType DEF Init, RequestsSound, EditsSound, ScriptSound, NoRequest
<1> QED
  BY <1>1, <1>2 DEF IInv

LEMMA BeginStep ==
  ASSUME IInv, NEW q \in RequestType, Begin(q), q.op # "idle",
         q.op \in {"invite", "change"} => q.ws \in exists /\ q.user \in Users /\ q.role \in Roles
  PROVE  IInv'
<1>1. PICK r \in Requests : req' = [req EXCEPT ![r] = q]
  BY DEF Begin
<1>2. UNCHANGED <<account, exists, slug, role, holds, demo, edit, script>>
  BY DEF Begin
<1>3. TypeOK'
  BY <1>1, <1>2 DEF IInv, TypeOK, Members
<1>4. RequestsSound'
  BY <1>1, <1>2 DEF IInv, TypeOK, RequestsSound
<1>5. EditsSound' /\ ScriptSound'
  BY <1>2 DEF IInv, EditsSound, ScriptSound
<1> QED
  BY <1>3, <1>4, <1>5 DEF IInv

LEMMA ManageStep == \A w \in Workspaces : IInv /\ Manage(w) => IInv'
<1> SUFFICES ASSUME NEW w \in Workspaces, IInv, Manage(w) PROVE IInv'
  OBVIOUS
<1>1. w \in exists
  <2>1. PICK v \in Users : role[w][v] = "owner"
    BY DEF Manage, MayManage
  <2>2. v \in Members(w)
    BY <2>1, WorkspacesAssumption DEF Members
  <2> QED
    BY <2>2 DEF IInv, TypeOK
<1>2. PICK u \in Users : \/ \E new \in Roles : Invite(w, u, new) \/ ChangeRole(w, u, new)
                         \/ Remove(w, u)
  BY DEF Manage
<1>3. ASSUME NEW new \in Roles, Invite(w, u, new) PROVE IInv'
  <2> DEFINE q == [op |-> "invite", ws |-> w, user |-> u, role |-> new, rows |-> {}]
  <2>1. q \in RequestType
    BY DEF RequestType
  <2>2. Begin(q)
    BY <1>3 DEF Invite
  <2> QED
    BY <1>1, <2>1, <2>2, BeginStep
<1>4. ASSUME NEW new \in Roles, ChangeRole(w, u, new) PROVE IInv'
  <2> DEFINE q == [op |-> "change", ws |-> w, user |-> u, role |-> new, rows |-> {<<w, u>>}]
  <2>1. q \in RequestType
    BY DEF RequestType
  <2>2. Begin(q)
    BY <1>4 DEF ChangeRole
  <2> QED
    BY <1>1, <2>1, <2>2, BeginStep
<1>5. ASSUME Remove(w, u) PROVE IInv'
  <2> DEFINE q == [op |-> "remove", ws |-> w, user |-> u, role |-> None, rows |-> {<<w, u>>}]
  <2>1. q \in RequestType
    BY DEF RequestType
  <2>2. Begin(q)
    BY <1>5 DEF Remove
  <2> QED
    BY <2>1, <2>2, BeginStep
<1> QED
  BY <1>2, <1>3, <1>4, <1>5

LEMMA ForgetStep == \A u \in Users : IInv /\ Forget(u) => IInv'
<1> SUFFICES ASSUME NEW u \in Users, IInv, Forget(u) PROVE IInv'
  OBVIOUS
<1> DEFINE mine == {w \in Workspaces : role[w][u] # None}
           q == [op |-> "forget", ws |-> None, user |-> u, role |-> None,
                 rows |-> {<<w, u>> : w \in mine}]
<1>1. q \in RequestType
  BY DEF RequestType
<1>2. Begin(q)
  BY DEF Forget
<1> QED
  BY <1>1, <1>2, BeginStep

LEMMA DoneType ==
  ASSUME IInv, NEW r \in Requests, NEW gone \in SUBSET (Workspaces \X Users), Done(r, gone),
         exists' = exists
  PROVE  req' \in [Requests -> RequestType] /\ RequestsSound'
<1>1. \A s \in Requests : req'[s] = IF s = r THEN NoRequest ELSE [req[s] EXCEPT !.rows = @ \ gone]
  BY DEF Done
<1>2. \A s \in Requests : [req[s] EXCEPT !.rows = @ \ gone] \in RequestType
  BY DEF IInv, TypeOK, RequestType
<1>3. req' \in [Requests -> RequestType]
  BY <1>1, <1>2, NoRequestType DEF Done
<1>4. ASSUME NEW s \in Requests, s # r
      PROVE  /\ req'[s].op = req[s].op /\ req'[s].ws = req[s].ws /\ req'[s].user = req[s].user
             /\ req'[s].role = req[s].role
             /\ req[s] = NoRequest => req'[s] = NoRequest
  <2>1. req[s] \in RequestType /\ req'[s] = [req[s] EXCEPT !.rows = @ \ gone]
    BY <1>1, <1>4 DEF IInv, TypeOK
  <2> QED
    BY <2>1 DEF RequestType, NoRequest
<1>5. req'[r] = NoRequest
  BY <1>1
<1>6. ASSUME NEW s \in Requests
      PROVE  /\ req'[s].op = "idle" => req'[s] = NoRequest
             /\ req'[s].op \in {"invite", "change"} =>
                  req'[s].ws \in exists' /\ req'[s].user \in Users /\ req'[s].role \in Roles
  <2>1. CASE s = r
    BY <2>1, <1>5 DEF NoRequest
  <2>2. CASE s # r
    BY <2>2, <1>4 DEF RequestsSound, IInv
  <2> QED
    BY <2>1, <2>2
<1>7. RequestsSound'
  BY <1>6 DEF RequestsSound
<1> QED
  BY <1>3, <1>7

LEMMA CommitStep == \A r \in Requests : IInv /\ Commit(r) => IInv'
<1> SUFFICES ASSUME NEW r \in Requests, IInv, Commit(r) PROVE IInv'
  OBVIOUS
<1> DEFINE q == req[r]
<1>1. q \in RequestType /\ UNCHANGED <<exists, slug, holds, demo, edit, script>>
  BY DEF Commit, IInv, TypeOK
<1>a. EditsSound' /\ ScriptSound'
  BY <1>1 DEF IInv, EditsSound, ScriptSound
<1>2. CASE q.op \in {"invite", "change"} /\ UNCHANGED account /\ Done(r, {})
           /\ role' \in {role, [role EXCEPT ![q.ws][q.user] = q.role]}
  <2>1. q.ws \in exists /\ q.user \in Users /\ q.role \in Roles
    BY <1>2 DEF IInv, RequestsSound
  <2>2. role' \in [Workspaces -> [Users -> Roles \cup {None}]]
    BY <1>2, <2>1 DEF IInv, TypeOK
  <2>3. \A w \in Workspaces \ exists : role'[w] = role[w]
    BY <1>2, <2>1 DEF IInv, TypeOK
  <2>4. req' \in [Requests -> RequestType] /\ RequestsSound'
    BY <1>1, <1>2, DoneType
  <2> QED
    BY <1>1, <1>2, <1>a, <2>2, <2>3, <2>4 DEF IInv, TypeOK, Members
<1>3. CASE q.op \in {"remove", "forget"} /\ Done(r, q.rows)
           /\ account' = (IF q.op = "forget" THEN [account EXCEPT ![q.user] = "deleted"] ELSE account)
           /\ role' = [w \in Workspaces |-> [u \in Users |->
                          IF <<w, u>> \in q.rows THEN None ELSE role[w][u]]]
  <2>1. role' \in [Workspaces -> [Users -> Roles \cup {None}]]
    BY <1>3 DEF IInv, TypeOK
  <2>2. \A w \in Workspaces \ exists : Members(w)' = {}
    BY <1>1, <1>3 DEF IInv, TypeOK, Members
  <2>3. q.rows \in SUBSET (Workspaces \X Users)
    BY <1>1 DEF RequestType
  <2>4. req' \in [Requests -> RequestType] /\ RequestsSound'
    BY <1>1, <1>3, <2>3, DoneType
  <2>5. account' \in [Users -> {"none", "live", "deleted"}]
    BY <1>3 DEF IInv, TypeOK
  <2> QED
    BY <1>1, <1>a, <2>1, <2>2, <2>4, <2>5 DEF IInv, TypeOK
<1> QED
  BY <1>2, <1>3 DEF Commit

LEMMA EditStep ==
  \A u \in Users, w \in Workspaces : IInv /\ Edit(u, w) => IInv'
<1> SUFFICES ASSUME NEW u \in Users, NEW w \in Workspaces, IInv, Edit(u, w) PROVE IInv'
  OBVIOUS
<1>1. PICK e \in Edits, op \in {"create", "delete"} : edit' = [edit EXCEPT ![e] = [op |-> op, ws |-> w]]
  BY DEF Edit
<1>2. UNCHANGED <<account, exists, slug, role, holds, demo, req, script>>
  BY DEF Edit
<1>3. w \in exists
  BY WorkspacesAssumption DEF Edit, MayEdit, Live, IInv, TypeOK, Members
<1>4. [op |-> op, ws |-> w] \in EditType
  BY DEF EditType
<1>5. edit' \in [Edits -> EditType] /\ EditsSound'
  BY <1>1, <1>2, <1>3, <1>4 DEF IInv, TypeOK, EditsSound
<1>6. TypeOK'
  BY <1>2, <1>5 DEF IInv, TypeOK, Members
<1> QED
  BY <1>2, <1>5, <1>6 DEF IInv, RequestsSound, ScriptSound

LEMMA SetHoldsStep ==
  \A e \in Edits : IInv /\ SetHolds(e) => IInv'
<1> SUFFICES ASSUME NEW e \in Edits, IInv, SetHolds(e) PROVE IInv'
  OBVIOUS
<1>1. /\ edit' = [edit EXCEPT ![e] = NoEdit]
      /\ UNCHANGED <<account, exists, slug, role, demo, req, script>>
  BY DEF SetHolds
<1>2. edit[e].ws \in exists /\ holds \subseteq exists
  BY DEF SetHolds, IInv, TypeOK, EditsSound
<1>3. holds' \subseteq exists
  BY <1>2 DEF SetHolds
<1>4. edit' \in [Edits -> EditType] /\ EditsSound'
  BY <1>1, NoRunType DEF IInv, TypeOK, EditsSound
<1>5. TypeOK'
  BY <1>1, <1>3, <1>4 DEF IInv, TypeOK, Members
<1> QED
  BY <1>1, <1>4, <1>5 DEF IInv, RequestsSound, ScriptSound

LEMMA FindsStep == IInv /\ ProvisionFinds => IInv'
<1> SUFFICES ASSUME IInv, ProvisionFinds PROVE IInv'
  OBVIOUS
<1>1. UNCHANGED <<account, exists, slug, role, holds, demo, req, edit>>
  BY DEF ProvisionFinds
<1>a. PICK known : known = account[DemoUser]
  OBVIOUS
<1>2. PICK w \in DemoWorkspace, found \in exists \cup {None}, open \in BOOLEAN :
        /\ found = IF w \in exists THEN w ELSE None
        /\ script' = [NoRun EXCEPT !.pc = "found", !.ws = found, !.account = known, !.open = open]
  BY <1>a DEF ProvisionFinds
<1>3. found \in Workspaces \cup {None} /\ (found # None => found \in exists /\ found = slug)
  BY <1>2, WorkspacesAssumption DEF DemoWorkspace, IInv, TypeOK
<1>4. known \in {"none", "live", "deleted"}
  BY <1>a, WorkspacesAssumption DEF IInv, TypeOK
<1>5. script' \in RunType /\ script'.pc = "found" /\ script'.ws = found
  BY <1>2, <1>3, <1>4 DEF NoRun, RunType
<1>6. TypeOK'
  BY <1>1, <1>5 DEF IInv, TypeOK, Members
<1> QED
  BY <1>1, <1>3, <1>5, <1>6 DEF IInv, RequestsSound, EditsSound, ScriptSound

LEMMA ReadsStep ==
  ASSUME IInv, NEW admin \in Users \cup {None}, ProvisionReads(admin)
  PROVE  IInv' /\ script' \in {NoRun, [script EXCEPT !.pc = "read", !.admin = script'.admin,
                                                   !.member = script'.member, !.was = script'.was]}
<1>1. UNCHANGED <<account, exists, slug, role, holds, demo, req, edit>>
  BY DEF ProvisionReads
<1>a. PICK was : was = RoleIn(script.ws, admin)
  OBVIOUS
<1>2. PICK member \in BOOLEAN :
        script' \in {NoRun, [script EXCEPT !.pc = "read", !.admin = admin, !.member = member, !.was = was]}
  BY <1>a DEF ProvisionReads
<1>3. script \in RunType
  BY DEF IInv, TypeOK
<1>4. was \in Roles \cup {None}
  BY <1>a, <1>3 DEF RoleIn, RunType, IInv, TypeOK
<1>5. CASE script' = NoRun
  <2>1. TypeOK'
    BY <1>1, <1>5, NoRunType DEF IInv, TypeOK, Members
  <2> QED
    BY <1>1, <1>5, <2>1, NoRunType DEF IInv, RequestsSound, EditsSound, ScriptSound
<1>6. CASE script' = [script EXCEPT !.pc = "read", !.admin = admin, !.member = member, !.was = was]
  <2>1. /\ script' \in RunType /\ script'.pc = "read" /\ script'.ws = script.ws
        /\ script'.admin = admin /\ script'.member = member /\ script'.was = was
    BY <1>3, <1>4, <1>6 DEF RunType
  <2>2. TypeOK'
    BY <1>1, <2>1 DEF IInv, TypeOK, Members
  <2> QED
    BY <1>1, <1>6, <2>1, <2>2 DEF IInv, RequestsSound, EditsSound, ScriptSound
<1> QED
  BY <1>2, <1>5, <1>6

\* What a run of the script commits, if anything.
LEMMA CommitsIs ==
  ASSUME NEW lock \in BOOLEAN, ProvisionCommits(lock), IInv
  PROVE  /\ script' = NoRun /\ script.pc = "read" /\ UNCHANGED <<holds, req, edit>>
         /\ \/ UNCHANGED <<account, exists, slug, role, demo>>
            \/ \E w \in Workspaces :
                 /\ account' = [account EXCEPT ![DemoUser] = "live"]
                 /\ exists' = exists \cup {w}
                 /\ demo' = IF lock THEN demo \cup {w} ELSE demo \ {w}
                 /\ role' = [role EXCEPT ![w] = [u \in Users |->
                                 IF u \in MadeOwners THEN "owner" ELSE role[w][u]]]
                 /\ \/ script.ws = None /\ w \notin exists /\ slug = None /\ slug' = w
                    \/ script.ws = w /\ w \in exists /\ slug = w /\ slug' = slug
<1>1. script.pc = "read" /\ script' = NoRun /\ UNCHANGED <<holds, req, edit>>
  BY DEF ProvisionCommits
<1>2. CASE ~Accepted
  BY <1>1, <1>2 DEF ProvisionCommits
<1>3. CASE Accepted
  <2>1. PICK w \in (IF script.ws = None THEN Workspaces \ exists ELSE {script.ws}) :
          /\ account' = [account EXCEPT ![DemoUser] = "live"]
          /\ exists' = exists \cup {w}
          /\ slug' = IF script.ws = None THEN w ELSE slug
          /\ demo' = IF lock THEN demo \cup {w} ELSE demo \ {w}
          /\ role' = [role EXCEPT ![w] = [u \in Users |->
                          IF u \in MadeOwners THEN "owner" ELSE role[w][u]]]
    BY <1>3 DEF ProvisionCommits
  <2>2. CASE script.ws = None
    <3>1. slug = None
      BY <1>3, <2>2 DEF Accepted
    <3> QED
      BY <1>1, <2>1, <2>2, <3>1
  <2>3. CASE script.ws # None
    <3>1. w = script.ws /\ w \in exists /\ w = slug /\ w \in Workspaces
      BY <2>1, <2>3 DEF IInv, TypeOK, ScriptSound
    <3> QED
      BY <1>1, <2>1, <2>3, <3>1
  <2> QED
    BY <2>2, <2>3
<1> QED
  BY <1>2, <1>3

LEMMA CommitsStep ==
  ASSUME IInv, NEW lock \in BOOLEAN, ProvisionCommits(lock)
  PROVE  IInv'
<1> USE WorkspacesAssumption DEF IInv
<1>1. script' = NoRun /\ UNCHANGED <<holds, req, edit>>
  BY CommitsIs
<1>2. script' \in RunType /\ ScriptSound'
  BY <1>1, NoRunType DEF ScriptSound
<1>3. CASE UNCHANGED <<account, exists, slug, role, demo>>
  <2>1. TypeOK'
    BY <1>1, <1>2, <1>3 DEF TypeOK, Members
  <2> QED
    BY <1>1, <1>2, <1>3, <2>1 DEF RequestsSound, EditsSound
<1>4. ASSUME NEW w \in Workspaces,
             account' = [account EXCEPT ![DemoUser] = "live"],
             exists' = exists \cup {w},
             demo' = IF lock THEN demo \cup {w} ELSE demo \ {w},
             role' = [role EXCEPT ![w] = [u \in Users |->
                             IF u \in MadeOwners THEN "owner" ELSE role[w][u]]],
             \/ script.ws = None /\ w \notin exists /\ slug = None /\ slug' = w
             \/ script.ws = w /\ w \in exists /\ slug = w /\ slug' = slug
      PROVE  IInv'
  <2>1. role' \in [Workspaces -> [Users -> Roles \cup {None}]]
    BY <1>4 DEF TypeOK
  <2>2. \A x \in Workspaces \ exists' : Members(x)' = {}
    BY <1>4 DEF TypeOK, Members
  <2>3. account' \in [Users -> {"none", "live", "deleted"}]
    BY <1>4 DEF TypeOK
  <2>4. exists' \subseteq Workspaces /\ slug' \in exists' \cup {None} /\ holds' \subseteq exists'
    BY <1>1, <1>4 DEF TypeOK
  <2>5. demo' \subseteq {slug'} \ {None}
    BY <1>4 DEF TypeOK
  <2>6. TypeOK'
    BY <1>1, <1>2, <2>1, <2>2, <2>3, <2>4, <2>5 DEF TypeOK
  <2>7. RequestsSound' /\ EditsSound'
    BY <1>1, <1>4 DEF RequestsSound, EditsSound
  <2> QED
    BY <1>2, <2>6, <2>7
<1> QED
  BY <1>3, <1>4, CommitsIs

LEMMA IInvStep == IInv /\ [Next]_vars => IInv'
<1> SUFFICES ASSUME IInv, [Next]_vars PROVE IInv'
  OBVIOUS
<1> USE WorkspacesAssumption
<1>1. ASSUME NEW u \in Users, Register(u) PROVE IInv'
  BY <1>1 DEF Register, IInv, TypeOK, RequestsSound, EditsSound, ScriptSound, Members
<1>2. ASSUME NEW u \in Users, NEW w \in Workspaces, CreateWorkspace(u, w) PROVE IInv'
  <2>1. role' \in [Workspaces -> [Users -> Roles \cup {None}]]
    BY <1>2 DEF CreateWorkspace, IInv, TypeOK
  <2>2. \A x \in Workspaces \ exists' : Members(x)' = {}
    BY <1>2 DEF CreateWorkspace, IInv, TypeOK, Members
  <2>3. demo \subseteq {slug'} \ {None} /\ slug' \in exists' \cup {None} /\ (slug # None => slug' = slug)
    BY <1>2 DEF CreateWorkspace, IInv, TypeOK
  <2>4. TypeOK'
    BY <1>2, <2>1, <2>2, <2>3 DEF CreateWorkspace, IInv, TypeOK
  <2>5. RequestsSound' /\ EditsSound'
    BY <1>2 DEF CreateWorkspace, IInv, RequestsSound, EditsSound
  <2>6. ScriptSound'
    BY <1>2, <2>3 DEF CreateWorkspace, IInv, ScriptSound
  <2> QED
    BY <2>4, <2>5, <2>6 DEF IInv
<1>4. CASE UNCHANGED vars
  BY <1>4 DEF vars, IInv, TypeOK, RequestsSound, EditsSound, ScriptSound, Members
<1> QED
  BY <1>1, <1>2, <1>4, ManageStep, ForgetStep, CommitStep, EditStep, SetHoldsStep,
     FindsStep, ReadsStep, CommitsStep DEF Next

LEMMA IInvHolds == Spec => []IInv
  BY InitIInv, IInvStep, PTL DEF Spec

\* Members only in workspaces there are, and at most one demo workspace, which
\* has the demo's slug (provision_demo.py:94-132).
THEOREM TypeCorrect == Spec => []TypeOK
<1>1. IInv => TypeOK
  BY DEF IInv
<1> QED
  BY IInvHolds, <1>1, PTL

-----------------------------------------------------------------------------
(* The demo.                                                               *)

\* No call begins on the workspace, and none that is left makes a change.
Still(w) ==
    /\ Calls(w)' \subseteq Calls(w)
    /\ Calls(w)' = Calls(w) => (w \in holds' <=> w \in holds) /\ role'[w] = role[w]

LEMMA StillWhere ==
  ASSUME NEW w \in Workspaces, UNCHANGED <<holds, role>>,
         \A r \in Requests : req'[r].ws = w => req[r].ws = w,
         \A e \in Edits : edit'[e].ws = w => edit[e].ws = w
  PROVE  Still(w)
BY DEF Still, Calls

LEMMA BeginStill ==
  ASSUME IInv, NEW w \in Workspaces, NEW q, Begin(q), q.ws # w
  PROVE  Still(w)
<1>1. UNCHANGED <<holds, role, edit>>
  BY DEF Begin
<1>2. \A r \in Requests : req'[r].ws = w => req[r].ws = w
  BY DEF Begin, IInv, TypeOK
<1> QED
  BY <1>1, <1>2, StillWhere

\* A request deletes the demo account from no workspace but the one it is on.
OwnRows(q) == q.op \in {"remove", "forget"} =>
    \A w \in Workspaces, u \in Users : <<w, u>> \in q.rows => w = q.ws \/ u # DemoUser
ForgetsOwn == \A r \in Requests : OwnRows(req[r])

LEMMA BeginForgets ==
  ASSUME IInv, ForgetsOwn, NEW q, Begin(q), OwnRows(q)
  PROVE  ForgetsOwn'
<1>1. PICK r \in Requests : req' = [req EXCEPT ![r] = q]
  BY DEF Begin
<1>2. \A s \in Requests : req'[s] \in {q, req[s]}
  BY <1>1 DEF IInv, TypeOK
<1>3. \A s \in Requests : OwnRows(req'[s])
  BY <1>2 DEF ForgetsOwn
<1> QED
  BY <1>3 DEF ForgetsOwn, OwnRows

LEMMA CommitForgets ==
  ASSUME IInv, ForgetsOwn, NEW r \in Requests, Commit(r)
  PROVE  ForgetsOwn'
<1>1. PICK gone : Done(r, gone)
  BY DEF Commit
<1>2. ASSUME NEW s \in Requests PROVE OwnRows(req'[s])
  <2>1. CASE s = r
    <3>1. req'[s] = NoRequest
      BY <1>1, <2>1 DEF Done
    <3> QED
      BY <3>1 DEF OwnRows, NoRequest
  <2>2. CASE s # r
    <3>1. req'[s] = [req[s] EXCEPT !.rows = @ \ gone] /\ req[s] \in RequestType
      BY <1>1, <2>2 DEF Done, IInv, TypeOK
    <3>2. req'[s].op = req[s].op /\ req'[s].ws = req[s].ws /\ req'[s].rows \subseteq req[s].rows
      BY <3>1 DEF RequestType
    <3>3. OwnRows(req[s])
      BY DEF ForgetsOwn
    <3> QED
      BY <3>2, <3>3 DEF OwnRows
  <2> QED
    BY <2>1, <2>2
<1> QED
  BY <1>2 DEF ForgetsOwn, OwnRows

LEMMA ForgetsStep == IInv /\ ForgetsOwn /\ [Next]_vars => ForgetsOwn'
<1> SUFFICES ASSUME IInv, ForgetsOwn, [Next]_vars PROVE ForgetsOwn'
  OBVIOUS
<1>1. ASSUME NEW u \in Users, Forget(u) PROVE ForgetsOwn'
  <2> DEFINE mine == {w \in Workspaces : role[w][u] # None}
             q == [op |-> "forget", ws |-> None, user |-> u, role |-> None,
                   rows |-> {<<w, u>> : w \in mine}]
  <2>1. Begin(q) /\ u # DemoUser
    BY <1>1 DEF Forget
  <2>2. OwnRows(q)
    BY <2>1 DEF OwnRows
  <2> QED
    BY <2>1, <2>2, BeginForgets
<1>2. ASSUME NEW w \in Workspaces, Manage(w) PROVE ForgetsOwn'
  <2>1. ASSUME NEW u \in Users, NEW new \in Roles, Invite(w, u, new) PROVE ForgetsOwn'
    BY <2>1, BeginForgets DEF Invite, OwnRows
  <2>2. ASSUME NEW u \in Users, NEW new \in Roles, ChangeRole(w, u, new) PROVE ForgetsOwn'
    BY <2>2, BeginForgets DEF ChangeRole, OwnRows
  <2>3. ASSUME NEW u \in Users, Remove(w, u) PROVE ForgetsOwn'
    BY <2>3, BeginForgets DEF Remove, OwnRows
  <2> QED
    BY <1>2, <2>1, <2>2, <2>3 DEF Manage
<1>3. ASSUME NEW r \in Requests, Commit(r) PROVE ForgetsOwn'
  BY <1>3, CommitForgets
<1>4. ASSUME UNCHANGED req PROVE ForgetsOwn'
  BY <1>4 DEF ForgetsOwn, OwnRows
<1>5. ASSUME NEW u \in Users, NEW w \in Workspaces, CreateWorkspace(u, w) \/ Edit(u, w)
      PROVE  ForgetsOwn'
  BY <1>4, <1>5 DEF CreateWorkspace, Edit
<1>6. ASSUME NEW e \in Edits, SetHolds(e) PROVE ForgetsOwn'
  BY <1>4, <1>6 DEF SetHolds
<1>7. ASSUME ProvisionFinds \/ (\E admin \in Users \cup {None} : ProvisionReads(admin))
               \/ (\E lock \in BOOLEAN : ProvisionCommits(lock))
      PROVE  ForgetsOwn'
  BY <1>4, <1>7 DEF ProvisionFinds, ProvisionReads, ProvisionCommits
<1> QED
  BY <1>1, <1>2, <1>3, <1>4, <1>5, <1>6, <1>7 DEF Next, Register, vars

LEMMA CommitStill ==
  ASSUME IInv, ForgetsOwn, NEW w \in Workspaces, NEW r \in Requests, Commit(r),
         Members(w) \subseteq {DemoUser}
  PROVE  Still(w)
<1> DEFINE q == req[r]
<1>1. q \in RequestType /\ q # NoRequest /\ UNCHANGED <<holds, edit>> /\ w # None
  BY WorkspacesAssumption DEF Commit, IInv, TypeOK
<1>2. req'[r] = NoRequest /\ \A s \in Requests : req'[s].ws \in {None, req[s].ws}
  <2>1. PICK gone : Done(r, gone)
    BY DEF Commit
  <2>2. \A s \in Requests : req[s] \in RequestType
    BY DEF IInv, TypeOK
  <2> QED
    BY <2>1, <2>2 DEF Done, NoRequest, RequestType
<1>3. Calls(w)' \subseteq Calls(w)
  BY <1>1, <1>2 DEF Calls
<1>4. CASE q.ws = w
  <2>1. r \in Calls(w)
    BY <1>4 DEF Calls
  <2>2. r \notin Calls(w)'
    BY <1>1, <1>2, WorkspacesAssumption DEF Calls, NoRequest
  <2> QED
    BY <1>3, <2>1, <2>2 DEF Still
<1>5. CASE q.ws # w
  <2>1. role \in [Workspaces -> [Users -> Roles \cup {None}]]
    BY DEF IInv, TypeOK
  <2>2. \/ role' = role
        \/ role' = [role EXCEPT ![q.ws][q.user] = q.role]
        \/ q.op \in {"remove", "forget"} /\
           role' = [x \in Workspaces |-> [u \in Users |->
                      IF <<x, u>> \in q.rows THEN None ELSE role[x][u]]]
    BY DEF Commit
  <2>3. ASSUME q.op \in {"remove", "forget"}, NEW u \in Users, <<w, u>> \in q.rows
        PROVE  role[w][u] = None
    <3>1. u # DemoUser
      BY <1>5, <2>3 DEF ForgetsOwn, OwnRows
    <3> QED
      BY <3>1 DEF Members
  <2>4. role'[w] = role[w]
    <3>1. CASE role' = [role EXCEPT ![q.ws][q.user] = q.role]
      BY <1>5, <2>1, <3>1
    <3>2. CASE /\ q.op \in {"remove", "forget"}
               /\ role' = [x \in Workspaces |-> [u \in Users |->
                              IF <<x, u>> \in q.rows THEN None ELSE role[x][u]]]
      <4>1. role'[w] = [u \in Users |-> IF <<w, u>> \in q.rows THEN None ELSE role[w][u]]
        BY <3>2
      <4>2. \A u \in Users : (IF <<w, u>> \in q.rows THEN None ELSE role[w][u]) = role[w][u]
        BY <2>3, <3>2
      <4>3. role[w] = [u \in Users |-> role[w][u]]
        BY <2>1
      <4> QED
        BY <4>1, <4>2, <4>3
    <3> QED
      BY <2>2, <3>1, <3>2
  <2> QED
    BY <1>1, <1>3, <2>4 DEF Still
<1> QED
  BY <1>4, <1>5

LEMMA FrozenStep == IInv /\ ForgetsOwn /\ [Next]_vars =>
    \A w \in demo \cap demo' : Members(w) \subseteq {DemoUser} /\ UNCHANGED script => Still(w)
<1> SUFFICES ASSUME IInv, ForgetsOwn, [Next]_vars, NEW w \in demo, Members(w) \subseteq {DemoUser},
                    UNCHANGED script
             PROVE  Still(w)
  OBVIOUS
<1>1. w \in Workspaces /\ w # None /\ w \in exists
  BY WorkspacesAssumption DEF IInv, TypeOK
<1>2. \A u \in Users : ~MayEdit(u, w) /\ ~MayManage(u, w)
  BY WorkspacesAssumption DEF MayEdit, MayManage, ReadOnly, Members
<1>3. ASSUME NEW u \in Users, Forget(u) PROVE Still(w)
  BY <1>1, <1>3, BeginStill DEF Forget
<1>4. ASSUME NEW x \in Workspaces, Manage(x) PROVE Still(w)
  <2>1. x # w
    BY <1>2, <1>4 DEF Manage
  <2> QED
    BY <1>1, <1>4, <2>1, BeginStill DEF Manage, Invite, ChangeRole, Remove
<1>5. ASSUME NEW u \in Users, NEW x \in Workspaces, CreateWorkspace(u, x) PROVE Still(w)
  <2>1. x # w /\ UNCHANGED <<holds, req, edit>>
    BY <1>1, <1>5 DEF CreateWorkspace
  <2>2. role'[w] = role[w]
    BY <1>1, <1>5, <2>1 DEF CreateWorkspace, IInv, TypeOK
  <2> QED
    BY <2>1, <2>2 DEF Still, Calls
<1>6. ASSUME NEW u \in Users, NEW x \in Workspaces, Edit(u, x) PROVE Still(w)
  <2>1. x # w
    BY <1>2, <1>6 DEF Edit
  <2>2. PICK e \in Edits, op \in {"create", "delete"} : edit' = [edit EXCEPT ![e] = [op |-> op, ws |-> x]]
    BY <1>6 DEF Edit
  <2>3. \A f \in Edits : edit'[f].ws = w => edit[f].ws = w
    BY <2>1, <2>2 DEF IInv, TypeOK
  <2> QED
    BY <1>1, <1>6, <2>3, StillWhere DEF Edit
<1>7. ASSUME NEW e \in Edits, SetHolds(e) PROVE Still(w)
  <2>1. edit' = [edit EXCEPT ![e] = NoEdit] /\ UNCHANGED <<role, req>>
    BY <1>7 DEF SetHolds
  <2>2. edit'[e].ws = None /\ \A f \in Edits : f # e => edit'[f] = edit[f]
    BY <2>1, NoRunType DEF IInv, TypeOK, NoEdit
  <2>3. Calls(w)' \subseteq Calls(w)
    BY <1>1, <2>1, <2>2 DEF Calls
  <2>4. CASE edit[e].ws = w
    <3>1. e \in Calls(w)
      BY <2>4 DEF Calls
    <3>2. e \notin Calls(w)'
      BY <1>1, <2>2, WorkspacesAssumption DEF Calls
    <3> QED
      BY <2>3, <3>1, <3>2 DEF Still
  <2>5. CASE edit[e].ws # w
    BY <1>7, <2>1, <2>3, <2>5 DEF SetHolds, Still
  <2> QED
    BY <2>4, <2>5
<1>8. ASSUME NEW r \in Requests, Commit(r) PROVE Still(w)
  BY <1>1, <1>8, CommitStill
<1>9. ASSUME UNCHANGED <<holds, role, req, edit>> PROVE Still(w)
  BY <1>1, <1>9, StillWhere
<1>10. ~ProvisionFinds /\ (\A admin \in Users \cup {None} : ~ProvisionReads(admin))
       /\ (\A lock \in BOOLEAN : ~ProvisionCommits(lock))
  <2>1. ~ProvisionFinds
    <3>1. ASSUME ProvisionFinds PROVE FALSE
      <4>1. script'.pc = "found" /\ script.pc = "idle"
        BY <3>1 DEF ProvisionFinds, NoRun
      <4> QED
        BY <4>1
    <3> QED
      BY <3>1
  <2>2. ASSUME NEW admin \in Users \cup {None}, ProvisionReads(admin) PROVE FALSE
    <3>1. script'.pc # "found"
      BY <2>2 DEF ProvisionReads, NoRun, IInv, TypeOK, RunType
    <3> QED
      BY <2>2, <3>1 DEF ProvisionReads
  <2>3. ASSUME NEW lock \in BOOLEAN, ProvisionCommits(lock) PROVE FALSE
    <3>1. script'.pc = "idle" /\ script.pc = "read"
      BY <2>3 DEF ProvisionCommits, NoRun
    <3> QED
      BY <3>1
  <2> QED
    BY <2>1, <2>2, <2>3
<1> QED
  BY <1>3, <1>4, <1>5, <1>6, <1>7, <1>8, <1>9, <1>10 DEF Next, Register, vars

\* In a locked demo workspace only the demo account belongs to no call begins,
\* and those the lock found under way make at most one change each (dependencies.py:168,
\* provision_demo.py:161-164).
THEOREM DemoFrozen == Spec => DemoIsFrozen
<1>1. Init => ForgetsOwn
  BY DEF Init, ForgetsOwn, OwnRows, NoRequest
<1>2. IInv /\ ForgetsOwn /\ [Next]_vars => ForgetsOwn'
  BY ForgetsStep
<1>3. IInv /\ ForgetsOwn /\ [Next]_vars =>
        [\A w \in demo \cap demo' : Members(w) \subseteq {DemoUser} /\ UNCHANGED script =>
           /\ Calls(w)' \subseteq Calls(w)
           /\ Calls(w)' = Calls(w) => (w \in holds' <=> w \in holds) /\ role'[w] = role[w]]_vars
  BY FrozenStep DEF Still
<1> QED
  BY IInvHolds, <1>1, <1>2, <1>3, PTL DEF Spec, DemoIsFrozen

-----------------------------------------------------------------------------
(* The script.                                                             *)

\* Nothing is in the workspace, nobody belongs to it and no call is on it.
Untouched(w) == w \notin holds /\ Members(w) = {} /\ Calls(w) = {}

\* What the script found empty, and open to nobody, is so still.
FoundEmpty ==
    script.ws # None /\ script.ws \notin demo /\ ~script.open => Untouched(script.ws)

LEMMA UntouchedWhere ==
  ASSUME NEW w \in Workspaces, Untouched(w), w \notin holds', role'[w] = role[w],
         \A r \in Requests : req'[r].ws = w => req[r].ws = w,
         \A e \in Edits : edit'[e].ws = w => edit[e].ws = w
  PROVE  Untouched(w)'
<1>1. Members(w)' = {}
  BY DEF Untouched, Members
<1>2. Calls(w)' = {}
  BY DEF Untouched, Calls
<1> QED
  BY <1>1, <1>2 DEF Untouched

LEMMA BeginUntouched ==
  ASSUME IInv, NEW w \in Workspaces, Untouched(w), NEW q, Begin(q), q.ws # w
  PROVE  Untouched(w)'
<1>1. UNCHANGED <<holds, role, edit>>
  BY DEF Begin
<1>2. \A r \in Requests : req'[r].ws = w => req[r].ws = w
  BY DEF Begin, IInv, TypeOK
<1>3. w \notin holds' /\ role'[w] = role[w]
  BY <1>1 DEF Untouched
<1> QED
  BY <1>1, <1>2, <1>3, UntouchedWhere

LEMMA CommitUntouched ==
  ASSUME IInv, NEW w \in Workspaces, Untouched(w), NEW r \in Requests, Commit(r)
  PROVE  Untouched(w)'
<1> DEFINE q == req[r]
<1>1. UNCHANGED <<holds, edit>> /\ w # None /\ q.ws # w
  BY WorkspacesAssumption DEF Commit, Untouched, Calls
<1>2. \A s \in Requests : req'[s].ws \in {None, req[s].ws}
  <2>1. PICK gone : Done(r, gone)
    BY DEF Commit
  <2>2. \A s \in Requests : req[s] \in RequestType
    BY DEF IInv, TypeOK
  <2> QED
    BY <2>1, <2>2 DEF Done, NoRequest, RequestType
<1>3. role \in [Workspaces -> [Users -> Roles \cup {None}]]
  BY DEF IInv, TypeOK
<1>4. \/ role' = role
      \/ role' = [role EXCEPT ![q.ws][q.user] = q.role]
      \/ role' = [x \in Workspaces |-> [u \in Users |->
                    IF <<x, u>> \in q.rows THEN None ELSE role[x][u]]]
  BY DEF Commit
<1>5. \A u \in Users : role[w][u] = None
  BY DEF Untouched, Members
<1>6. role'[w] = role[w]
  <2>1. CASE role' = [role EXCEPT ![q.ws][q.user] = q.role]
    BY <1>1, <1>3, <2>1
  <2>2. CASE role' = [x \in Workspaces |-> [u \in Users |->
                    IF <<x, u>> \in q.rows THEN None ELSE role[x][u]]]
    <3>1. role'[w] = [u \in Users |-> IF <<w, u>> \in q.rows THEN None ELSE role[w][u]]
      BY <2>2
    <3>2. role[w] = [u \in Users |-> role[w][u]]
      BY <1>3
    <3> QED
      BY <1>5, <3>1, <3>2
  <2> QED
    BY <1>4, <2>1, <2>2
<1>7. w \notin holds'
  BY <1>1 DEF Untouched
<1> QED
  BY <1>1, <1>2, <1>6, <1>7, UntouchedWhere

\* Nobody but the script gets into a workspace without members.
LEMMA UntouchedStep ==
  ASSUME IInv, NEW w \in exists, Untouched(w), [Next]_vars,
         \A lock \in BOOLEAN : ~ProvisionCommits(lock)
  PROVE  Untouched(w)'
<1>1. w \in Workspaces /\ w # None
  BY WorkspacesAssumption DEF IInv, TypeOK
<1>2. \A u \in Users : ~MayEdit(u, w) /\ ~MayManage(u, w)
  BY WorkspacesAssumption DEF MayEdit, MayManage, Untouched, Members
<1>3. ASSUME NEW u \in Users, Forget(u) PROVE Untouched(w)'
  BY <1>1, <1>3, BeginUntouched DEF Forget
<1>4. ASSUME NEW x \in Workspaces, Manage(x) PROVE Untouched(w)'
  <2>1. x # w
    BY <1>2, <1>4 DEF Manage
  <2> QED
    BY <1>1, <1>4, <2>1, BeginUntouched DEF Manage, Invite, ChangeRole, Remove
<1>5. ASSUME NEW u \in Users, NEW x \in Workspaces, CreateWorkspace(u, x) PROVE Untouched(w)'
  <2>1. x # w /\ UNCHANGED <<holds, req, edit>>
    BY <1>5 DEF CreateWorkspace
  <2>2. role'[w] = role[w] /\ w \notin holds'
    BY <1>1, <1>5, <2>1 DEF CreateWorkspace, IInv, TypeOK, Untouched
  <2> QED
    BY <1>1, <2>1, <2>2, UntouchedWhere
<1>6. ASSUME NEW u \in Users, NEW x \in Workspaces, Edit(u, x) PROVE Untouched(w)'
  <2>1. x # w
    BY <1>2, <1>6 DEF Edit
  <2>2. PICK e \in Edits, op \in {"create", "delete"} : edit' = [edit EXCEPT ![e] = [op |-> op, ws |-> x]]
    BY <1>6 DEF Edit
  <2>3. \A f \in Edits : edit'[f].ws = w => edit[f].ws = w
    BY <2>1, <2>2 DEF IInv, TypeOK
  <2>4. w \notin holds' /\ UNCHANGED <<role, req>>
    BY <1>6 DEF Edit, Untouched
  <2> QED
    BY <1>1, <2>3, <2>4, UntouchedWhere
<1>7. ASSUME NEW e \in Edits, SetHolds(e) PROVE Untouched(w)'
  <2>1. edit' = [edit EXCEPT ![e] = NoEdit] /\ UNCHANGED <<role, req>>
    BY <1>7 DEF SetHolds
  <2>2. \A f \in Edits : edit'[f].ws = w => edit[f].ws = w
    BY <1>1, <2>1 DEF IInv, TypeOK, NoEdit
  <2>3. edit[e].ws # w
    BY DEF Untouched, Calls
  <2>4. w \notin holds'
    BY <1>7, <2>3 DEF SetHolds, Untouched
  <2> QED
    BY <1>1, <2>1, <2>2, <2>4, UntouchedWhere
<1>8. ASSUME NEW r \in Requests, Commit(r) PROVE Untouched(w)'
  BY <1>1, <1>8, CommitUntouched
<1>9. ASSUME UNCHANGED <<holds, role, req, edit>> PROVE Untouched(w)'
  BY <1>9 DEF Untouched, Members, Calls
<1>10. ASSUME ProvisionFinds \/ (\E admin \in Users \cup {None} : ProvisionReads(admin))
       PROVE  Untouched(w)'
  BY <1>9, <1>10 DEF ProvisionFinds, ProvisionReads
<1> QED
  BY <1>3, <1>4, <1>5, <1>6, <1>7, <1>8, <1>9, <1>10 DEF Next, Register, vars

LEMMA InitFound == Init => FoundEmpty
  BY NoRunType DEF Init, FoundEmpty

LEMMA FoundStep == IInv /\ FoundEmpty /\ [Next]_vars => FoundEmpty'
<1> SUFFICES ASSUME IInv, FoundEmpty, [Next]_vars,
                    script'.ws # None, script'.ws \notin demo', ~script'.open
             PROVE  Untouched(script.ws)'
  BY DEF FoundEmpty
<1>1. \A lock \in BOOLEAN : ~ProvisionCommits(lock)
  BY NoRunType DEF ProvisionCommits
<1>2. CASE ProvisionFinds
  <2>1. UNCHANGED <<role, holds, demo, req, edit>>
    BY <1>2 DEF ProvisionFinds
  <2>a. PICK known : known = account[DemoUser]
    OBVIOUS
  <2>2. PICK w \in DemoWorkspace, found \in exists \cup {None}, open \in BOOLEAN :
          /\ found = IF w \in exists THEN w ELSE None
          /\ open = (role[w][DemoUser] # None \/ Calls(w) # {})
          /\ script' = [NoRun EXCEPT !.pc = "found", !.ws = found, !.account = known, !.open = open]
    BY <1>2, <2>a DEF ProvisionFinds
  <2>3. script'.ws = found /\ script'.open = open
    BY <2>2 DEF NoRun
  <2>4. w = script'.ws /\ w \in exists /\ w \notin demo /\ w = slug
    BY <2>1, <2>2, <2>3 DEF DemoWorkspace
  <2>5. role[w][DemoUser] = None /\ Calls(w) = {}
    BY <2>2, <2>3
  <2>6. w \notin holds /\ Members(w) \ {DemoUser} = {}
    BY <2>2, <2>4, WorkspacesAssumption DEF DemoWorkspace, IInv, TypeOK
  <2>7. Members(w) = {}
    BY <2>5, <2>6 DEF Members
  <2> QED
    BY <2>1, <2>4, <2>5, <2>6, <2>7 DEF Untouched, Members, Calls
<1>3. CASE ~ProvisionFinds
  <2>1. script'.ws = script.ws /\ script'.open = script.open /\ UNCHANGED demo
    <3>1. ASSUME NEW admin \in Users \cup {None}, ProvisionReads(admin)
          PROVE  script'.ws = script.ws /\ script'.open = script.open /\ UNCHANGED demo
      <4>1. script' # NoRun
        BY NoRunType
      <4>a. PICK was, member : was = RoleIn(script.ws, admin) /\ member = (RoleIn(script.ws, DemoUser) # None)
        OBVIOUS
      <4>2. script' = [script EXCEPT !.pc = "read", !.admin = admin, !.member = member, !.was = was]
        BY <3>1, <4>1, <4>a DEF ProvisionReads
      <4> QED
        BY <3>1, <4>2 DEF ProvisionReads, IInv, TypeOK, RunType
    <3> QED
      BY <1>1, <1>3, <3>1 DEF Next, Register, Forget, CreateWorkspace, Edit, Manage, Invite, ChangeRole,
         Remove, Begin, Commit, SetHolds, vars
  <2>2. script.ws \in exists /\ Untouched(script.ws)
    BY <2>1 DEF FoundEmpty, IInv, ScriptSound
  <2>3. PICK w \in exists : w = script.ws /\ w = script'.ws /\ Untouched(w)
    BY <2>1, <2>2
  <2>4. Untouched(w)'
    BY <1>1, <2>3, UntouchedStep
  <2> QED
    BY <2>3, <2>4
<1> QED
  BY <1>2, <1>3

\* A workspace is locked by the script only, and the demo account made an owner
\* of it by the script or by a request that names both.
LEMMA OthersTakeNothing ==
  ASSUME IInv, [Next]_vars, NEW w \in exists, \A lock \in BOOLEAN : ~ProvisionCommits(lock)
  PROVE  /\ demo' = demo
         /\ role[w][DemoUser] # "owner" /\ role'[w][DemoUser] = "owner" => Given(w)
<1>1. demo' = demo
  BY DEF Next, Register, Forget, CreateWorkspace, Edit, Manage, Invite, ChangeRole,
     Remove, Begin, Commit, SetHolds, ProvisionFinds, ProvisionReads, vars
<1>2. SUFFICES ASSUME role[w][DemoUser] # "owner", role'[w][DemoUser] = "owner" PROVE Given(w)
  BY <1>1
<1>3. role \in [Workspaces -> [Users -> Roles \cup {None}]] /\ w \in Workspaces /\ DemoUser \in Users
  BY WorkspacesAssumption DEF IInv, TypeOK
<1>4. ASSUME NEW u \in Users, NEW x \in Workspaces, CreateWorkspace(u, x) PROVE FALSE
  BY <1>2, <1>3, <1>4 DEF CreateWorkspace
<1>5. ASSUME NEW r \in Requests, Commit(r) PROVE Given(w)
  <2> DEFINE q == req[r]
  <2>1. \/ role' = role
        \/ role' = [role EXCEPT ![q.ws][q.user] = q.role]
        \/ role' = [x \in Workspaces |-> [u \in Users |->
                      IF <<x, u>> \in q.rows THEN None ELSE role[x][u]]]
    BY <1>5 DEF Commit
  <2>2. role' # role
    BY <1>2
  <2>3. CASE role' = [role EXCEPT ![q.ws][q.user] = q.role]
    <3>1. q.ws = w /\ q.user = DemoUser
      BY <1>2, <1>3, <2>3
    <3> QED
      BY <3>1 DEF Given
  <2>4. CASE role' = [x \in Workspaces |-> [u \in Users |->
                      IF <<x, u>> \in q.rows THEN None ELSE role[x][u]]]
    <3>1. role'[w][DemoUser] \in {None, role[w][DemoUser]}
      BY <1>3, <2>4
    <3>2. "owner" # None
      BY WorkspacesAssumption
    <3> QED
      BY <1>2, <3>1, <3>2
  <2> QED
    BY <2>1, <2>2, <2>3, <2>4
<1>6. ASSUME UNCHANGED role PROVE Given(w)
  BY <1>2, <1>6
<1> QED
  BY <1>2, <1>4, <1>5, <1>6 DEF Next, Register, Forget, Edit, Manage, Invite, ChangeRole,
     Remove, Begin, SetHolds, ProvisionFinds, ProvisionReads, vars

LEMMA TakenStep == IInv /\ FoundEmpty /\ [Next]_vars =>
    \A w \in exists :
        \/ w \in demo' \ demo
        \/ w \notin demo /\ role[w][DemoUser] # "owner" /\ role'[w][DemoUser] = "owner" /\ ~Given(w)
        => \/ w \notin holds /\ Members(w) \subseteq {DemoUser}
           \/ script.ws = w /\ script.open
<1> SUFFICES ASSUME IInv, FoundEmpty, [Next]_vars, NEW w \in exists,
                    \/ w \in demo' \ demo
                    \/ /\ w \notin demo /\ role[w][DemoUser] # "owner"
                       /\ role'[w][DemoUser] = "owner" /\ ~Given(w),
                    ~(script.ws = w /\ script.open)
             PROVE  w \notin holds /\ Members(w) \subseteq {DemoUser}
  OBVIOUS
<1>1. PICK lock \in BOOLEAN : ProvisionCommits(lock)
  BY OthersTakeNothing
<1>2. role \in [Workspaces -> [Users -> Roles \cup {None}]] /\ w \in Workspaces
  BY DEF IInv, TypeOK
<1>3. script.ws = w
  BY <1>1, <1>2, CommitsIs
<1>4. Untouched(w)
  BY <1>3, WorkspacesAssumption DEF FoundEmpty, IInv, TypeOK
<1> QED
  BY <1>4 DEF Untouched

\* Whatever the script ran before, a workspace it locks, or makes the demo
\* account an owner of, is empty at that moment, unless the demo account was a
\* member, or a call on its way, as it looked (provision_demo.py:94-132, 206).
THEOREM OnlyEmptyTaken == Spec => NotTakenOver
<1>1. Spec => []FoundEmpty
  BY IInvHolds, InitFound, FoundStep, PTL DEF Spec
<1> QED
  BY IInvHolds, <1>1, TakenStep, PTL DEF Spec, NotTakenOver

-----------------------------------------------------------------------------
(* Owners, when no two requests that change members overlap.               *)

\* What the checks of a request that is under way have seen still holds.
ChecksHold == \A r \in Requests :
    LET q == req[r]
    IN /\ q.op \in {"invite", "change", "remove"} => q.ws \in Workspaces
       /\ q.op = "invite" => Owners(q.ws) # {}
       /\ q.op \in {"change", "remove"} => Owners(q.ws) \ {q.user} # {}
       /\ q.op = "remove" => q.rows \subseteq {<<q.ws, q.user>>}
       /\ q.op = "forget" => /\ q.user # DemoUser
                             /\ \A w \in Workspaces, u \in Users : <<w, u>> \in q.rows =>
                                  /\ u = q.user
                                  /\ Owners(w) \ {u} # {} \/ Members(w) \ {u} = {}

OwnersInv == IInv /\ KeepsAnOwner /\ ChecksHold

OneRequest == \A r, s \in Requests : r = s

LEMMA InitOwners == Init => OwnersInv
  BY InitIInv DEF Init, OwnersInv, KeepsAnOwner, ChecksHold, NoRequest

LEMMA BeginKeeps ==
  ASSUME OneRequest, OwnersInv, NEW q, Begin(q),
         /\ q.op \in {"invite", "change", "remove"} => q.ws \in Workspaces
         /\ q.op = "invite" => Owners(q.ws) # {}
         /\ q.op \in {"change", "remove"} => Owners(q.ws) \ {q.user} # {}
         /\ q.op = "remove" => q.rows \subseteq {<<q.ws, q.user>>}
         /\ q.op = "forget" => /\ q.user # DemoUser
                               /\ \A w \in Workspaces, u \in Users : <<w, u>> \in q.rows =>
                                    /\ u = q.user
                                    /\ Owners(w) \ {u} # {} \/ Members(w) \ {u} = {}
  PROVE  KeepsAnOwner' /\ ChecksHold'
<1>1. UNCHANGED <<exists, role>>
  BY DEF Begin
<1>2. \A r \in Requests : req'[r] = q
  BY DEF Begin, OneRequest, OwnersInv, IInv, TypeOK
<1>3. \A w : Owners(w)' = Owners(w) /\ Members(w)' = Members(w)
  BY <1>1 DEF Owners, Members
<1>4. KeepsAnOwner'
  BY <1>1, <1>3 DEF OwnersInv, KeepsAnOwner
<1>5. ChecksHold'
  BY <1>2, <1>3 DEF ChecksHold
<1> QED
  BY <1>4, <1>5

LEMMA GrowKeeps ==
  ASSUME OwnersInv, req' = req, exists \subseteq exists',
         \A w \in Workspaces : Owners(w) \subseteq Owners(w)',
         \A w \in Workspaces : Members(w)' \subseteq Members(w) \cup Owners(w)',
         IInv'
  PROVE  KeepsAnOwner' /\ ChecksHold'
<1>1. \A r \in Requests : req[r] \in RequestType
  BY DEF OwnersInv, IInv, TypeOK
<1>2. KeepsAnOwner'
  <2> SUFFICES ASSUME NEW w \in Workspaces, w \in exists', Members(w)' # {} PROVE Owners(w)' # {}
    BY DEF KeepsAnOwner, IInv, TypeOK
  <2>1. Members(w) # {} => w \in exists
    BY DEF OwnersInv, IInv, TypeOK
  <2> QED
    BY <2>1 DEF OwnersInv, KeepsAnOwner
<1>3. ASSUME NEW r \in Requests, NEW q \in RequestType, q = req[r]
      PROVE  /\ q.op \in {"invite", "change", "remove"} => q.ws \in Workspaces
             /\ q.op = "invite" => Owners(q.ws)' # {}
             /\ q.op \in {"change", "remove"} => Owners(q.ws)' \ {q.user} # {}
             /\ q.op = "remove" => q.rows \subseteq {<<q.ws, q.user>>}
             /\ q.op = "forget" =>
                  /\ q.user # DemoUser
                  /\ \A w \in Workspaces, u \in Users : <<w, u>> \in q.rows =>
                       /\ u = q.user
                       /\ Owners(w)' \ {u} # {} \/ Members(w)' \ {u} = {}
  BY <1>3 DEF OwnersInv, ChecksHold
<1>4. ChecksHold'
  BY <1>1, <1>3 DEF ChecksHold
<1> QED
  BY <1>2, <1>4

LEMMA CommitKeeps ==
  ASSUME OneRequest, OwnersInv, NEW r \in Requests, Commit(r), IInv'
  PROVE  KeepsAnOwner' /\ ChecksHold'
<1> DEFINE q == req[r]
<1>1. q \in RequestType /\ exists' = exists /\ role \in [Workspaces -> [Users -> Roles \cup {None}]]
  BY DEF Commit, OwnersInv, IInv, TypeOK
<1>2. ChecksHold'
  <2>1. \A s \in Requests : req'[s] = NoRequest
    BY DEF Commit, Done, OneRequest
  <2> QED
    BY <2>1 DEF ChecksHold, NoRequest
<1>3. SUFFICES ASSUME NEW w \in Workspaces, w \in exists, Members(w)' # {} PROVE Owners(w)' # {}
  BY <1>1, <1>2 DEF KeepsAnOwner, OwnersInv, IInv, TypeOK
<1>4. Members(w) # {} => Owners(w) # {}
  BY <1>3 DEF OwnersInv, KeepsAnOwner
<1>5. CASE q.op \in {"invite", "change"} /\ q.ws = w
           /\ role' \in {role, [role EXCEPT ![q.ws][q.user] = q.role]}
  <2>1. q.op = "invite" /\ role' # role => role[w][q.user] = None
    BY <1>5 DEF Commit
  <2>2. Owners(w) # {} /\ (q.op = "change" => Owners(w) \ {q.user} # {})
    BY <1>5 DEF OwnersInv, ChecksHold
  <2>3. PICK o \in Owners(w) : role' # role => o # q.user
    BY <2>1, <2>2, <1>5, WorkspacesAssumption DEF Owners
  <2>4. o \in Users /\ role'[w][o] = "owner"
    BY <1>1, <1>5, <2>3 DEF Owners
  <2> QED
    BY <2>4 DEF Owners
<1>6. CASE q.op \in {"invite", "change"} /\ q.ws # w
           /\ role' \in {role, [role EXCEPT ![q.ws][q.user] = q.role]}
  <2>1. role'[w] = role[w]
    BY <1>1, <1>6
  <2> QED
    BY <1>3, <1>4, <2>1 DEF Owners, Members
<1>7. CASE /\ q.op \in {"remove", "forget"}
           /\ role' = [x \in Workspaces |-> [u \in Users |->
                          IF <<x, u>> \in q.rows THEN None ELSE role[x][u]]]
  <2>1. \A u \in Users : role'[w][u] = IF <<w, u>> \in q.rows THEN None ELSE role[w][u]
    BY <1>7
  <2>2. Members(w)' = Members(w) \ {u \in Users : <<w, u>> \in q.rows}
    BY <2>1 DEF Members
  <2>3. Owners(w)' = Owners(w) \ {u \in Users : <<w, u>> \in q.rows}
    BY <2>1, WorkspacesAssumption DEF Owners
  <2>4. CASE \A u \in Users : <<w, u>> \notin q.rows
    BY <1>3, <1>4, <2>2, <2>3, <2>4 DEF Owners
  <2>5. ASSUME NEW u \in Users, <<w, u>> \in q.rows, q.op = "remove" PROVE Owners(w)' # {}
    <3>1. q.rows \subseteq {<<q.ws, q.user>>} /\ Owners(q.ws) \ {q.user} # {}
      BY <2>5 DEF OwnersInv, ChecksHold
    <3>2. q.ws = w /\ q.user = u
      BY <2>5, <3>1
    <3> QED
      BY <2>3, <3>1, <3>2
  <2>6. ASSUME NEW u \in Users, <<w, u>> \in q.rows, q.op = "forget" PROVE Owners(w)' # {}
    <3>1. \A v \in Users : <<w, v>> \in q.rows => v = u
      BY <2>6 DEF OwnersInv, ChecksHold
    <3>2. Owners(w) \ {u} # {} \/ Members(w) \ {u} = {}
      BY <2>6 DEF OwnersInv, ChecksHold
    <3> QED
      BY <1>3, <2>2, <2>3, <2>6, <3>1, <3>2
  <2> QED
    BY <1>7, <2>4, <2>5, <2>6
<1> QED
  BY <1>5, <1>6, <1>7 DEF Commit

LEMMA OwnersStep == OneRequest /\ OwnersInv /\ [Next]_vars => OwnersInv'
<1> SUFFICES ASSUME OneRequest, OwnersInv, [Next]_vars PROVE OwnersInv'
  OBVIOUS
<1> USE WorkspacesAssumption
<1>1. IInv /\ IInv'
  BY IInvStep DEF OwnersInv
<1>2. ASSUME req' = req, exists' = exists, role' = role PROVE KeepsAnOwner' /\ ChecksHold'
  BY <1>1, <1>2, GrowKeeps DEF Owners, Members
<1>3. ASSUME NEW u \in Users, NEW w \in Workspaces, CreateWorkspace(u, w)
      PROVE  KeepsAnOwner' /\ ChecksHold'
  <2>1. role \in [Workspaces -> [Users -> Roles \cup {None}]] /\ Members(w) = {}
    BY <1>1, <1>3 DEF CreateWorkspace, IInv, TypeOK
  <2>2. \A x \in Workspaces, v \in Users :
          role'[x][v] = IF x = w /\ v = u THEN "owner" ELSE role[x][v]
    BY <1>3, <2>1 DEF CreateWorkspace
  <2>3. \A x \in Workspaces : Owners(x) \subseteq Owners(x)'
    BY <2>2 DEF Owners
  <2>4. \A x \in Workspaces : Members(x)' \subseteq Members(x) \cup Owners(x)'
    BY <2>2 DEF Owners, Members
  <2> QED
    BY <1>1, <1>3, <2>3, <2>4, GrowKeeps DEF CreateWorkspace
<1>4. ASSUME NEW lock \in BOOLEAN, ProvisionCommits(lock)
      PROVE  KeepsAnOwner' /\ ChecksHold'
  <2>1. req' = req /\ exists \subseteq exists'
    BY <1>1, <1>4, CommitsIs
  <2>2. role \in [Workspaces -> [Users -> Roles \cup {None}]]
    BY <1>1 DEF IInv, TypeOK
  <2>3. \A x \in Workspaces, v \in Users : role'[x][v] \in {"owner", role[x][v]}
    BY <1>1, <1>4, <2>2, CommitsIs
  <2>4. \A x \in Workspaces : Owners(x) \subseteq Owners(x)'
    BY <2>3 DEF Owners
  <2>5. \A x \in Workspaces : Members(x)' \subseteq Members(x) \cup Owners(x)'
    BY <2>3 DEF Owners, Members
  <2> QED
    BY <1>1, <2>1, <2>4, <2>5, GrowKeeps
<1>5. ASSUME NEW r \in Requests, Commit(r) PROVE KeepsAnOwner' /\ ChecksHold'
  BY <1>1, <1>5, CommitKeeps
<1>6. ASSUME NEW u \in Users, Forget(u) PROVE KeepsAnOwner' /\ ChecksHold'
  <2> DEFINE mine == {w \in Workspaces : role[w][u] # None}
             q == [op |-> "forget", ws |-> None, user |-> u, role |-> None,
                   rows |-> {<<w, u>> : w \in mine}]
  <2>1. \A w \in mine : Owners(w) \ {u} # {} \/ Members(w) \ {u} = {}
    <3> SUFFICES ASSUME NEW w \in mine PROVE Owners(w) \ {u} # {} \/ Members(w) \ {u} = {}
      OBVIOUS
    <3>1. CASE role[w][u] = "owner"
      BY <1>6, <3>1 DEF Forget
    <3>2. CASE role[w][u] # "owner"
      <4>1. u \in Members(w) /\ u \notin Owners(w)
        BY <3>2 DEF Members, Owners
      <4>2. w \in exists
        BY <1>1, <4>1 DEF IInv, TypeOK
      <4> QED
        BY <4>1, <4>2 DEF OwnersInv, KeepsAnOwner
    <3> QED
      BY <3>1, <3>2
  <2>2. u # DemoUser /\ Begin(q)
    BY <1>6 DEF Forget
  <2> QED
    BY <2>1, <2>2, BeginKeeps
<1>7. ASSUME NEW w \in Workspaces, Manage(w) PROVE KeepsAnOwner' /\ ChecksHold'
  <2>1. Owners(w) # {}
    BY <1>7 DEF Manage, MayManage, Owners
  <2>2. ASSUME NEW u \in Users, role[w][u] # "owner" PROVE Owners(w) \ {u} # {}
    BY <2>1, <2>2 DEF Owners
  <2>3. ASSUME NEW u \in Users, NEW new \in Roles, Invite(w, u, new)
        PROVE  KeepsAnOwner' /\ ChecksHold'
    BY <2>1, <2>3, BeginKeeps DEF Invite
  <2>4. ASSUME NEW u \in Users, NEW new \in Roles, ChangeRole(w, u, new)
        PROVE  KeepsAnOwner' /\ ChecksHold'
    <3>1. Owners(w) \ {u} # {}
      BY <2>2, <2>4 DEF ChangeRole, RemainsAnOwner
    <3> QED
      BY <2>4, <3>1, BeginKeeps DEF ChangeRole
  <2>5. ASSUME NEW u \in Users, Remove(w, u) PROVE KeepsAnOwner' /\ ChecksHold'
    <3>1. Owners(w) \ {u} # {}
      BY <2>2, <2>5 DEF Remove, RemainsAnOwner
    <3> QED
      BY <2>5, <3>1, BeginKeeps DEF Remove
  <2> QED
    BY <1>7, <2>3, <2>4, <2>5 DEF Manage
<1> QED
  BY <1>1, <1>2, <1>3, <1>4, <1>5, <1>6, <1>7 DEF Next, Register, Edit, SetHolds,
     ProvisionFinds, ProvisionReads, vars, OwnersInv

\* A workspace with members keeps an owner (routers/workspace.py:262-283), as
\* long as requests that change members come one at a time.
THEOREM AnOwnerIsKept ==
  ASSUME OneRequest
  PROVE  Spec => []KeepsAnOwner
<1>1. Init => OwnersInv
  BY InitOwners
<1>2. OwnersInv /\ [Next]_vars => OwnersInv'
  BY OwnersStep
<1>3. OwnersInv => KeepsAnOwner
  BY DEF OwnersInv
<1> QED
  BY <1>1, <1>2, <1>3, PTL DEF Spec

=============================================================================
