------------------------------ MODULE Approvals ------------------------------
(***************************************************************************)
(* The approval queue.  Jobs draft briefings and battlecard updates;       *)
(* reviewers approve or reject them; an urgent briefing is sent at once,   *)
(* the others wait for the digest of the scheduler, and an update replaces *)
(* the text of the battlecard.                                             *)
(*                                                                         *)
(* decide() reads the item and what it stands for, and writes both in one  *)
(* commit, with no lock between; it sends after the commit.  The ORM       *)
(* writes the columns that differ from what it read.                       *)
(*                                                                         *)
(* One workspace with one battlecard.  The text of the battlecard is the   *)
(* set of updates it reflects.                                             *)
(***************************************************************************)
EXTENDS Integers, FiniteSets

CONSTANTS
    Items,         \* drafts that jobs may make
    NoItem,
    Deciders,      \* requests of reviewers in progress at one time
    Providers,     \* integrations that can deliver (slack, email; crm is a
                   \* stub that never takes a message)
    Kinds,         \* subset of {"urgent", "digest", "card"}
    MaxCrashes     \* bound on crashes of the web process

ASSUME ApprovalsAssumption ==
    /\ NoItem \notin Items
    /\ Kinds \subseteq {"urgent", "digest", "card"}
    /\ MaxCrashes \in Nat

VARIABLES
    \* Postgres: approval_items.status, the draft's kind and own status
    item, kind, content,
    \* the text an update proposes; drafts that insert the battlecard's row
    proposal, inserting,
    \* battlecards: is there a row, its version and its text
    card,
    \* workspace_integrations that are enabled; workspaces.is_demo
    enabled, demo,
    \* requests of reviewers; the digest job
    dec, digest,
    \* bookkeeping: rounds in which something was sent out, items some
    \* reviewer's commit approved, items two reviewers decided at a time,
    \* whether two updates were, crashes
    sends, approvals, contested, crowded, crashes

drafts  == <<kind, proposal, inserting>>
config  == <<enabled, demo>>
history == <<approvals, contested, crowded, crashes>>
vars    == <<item, content, drafts, card, config, dec, digest, sends, history>>

Decisions == {"approved", "rejected"}
NoCard == [there |-> FALSE, version |-> 0, text |-> {}]
IdleDec == [pc |-> "idle", item |-> NoItem, decision |-> "approved",
            status |-> "none", version |-> 0, text |-> {}]
IdleDigest == [pc |-> "idle", items |-> {}]

Init ==
    /\ item = [i \in Items |-> "absent"]
    /\ kind = [i \in Items |-> "urgent"]
    /\ content = [i \in Items |-> "none"]
    /\ proposal = [i \in Items |-> {}]
    /\ inserting = {}
    /\ card = NoCard
    /\ enabled = {}
    /\ demo = FALSE
    /\ dec = [d \in Deciders |-> IdleDec]
    /\ digest = IdleDigest
    /\ sends = [i \in Items |-> 0]
    /\ approvals = {}
    /\ contested = {}
    /\ crowded = FALSE
    /\ crashes = 0

(***************************************************************************)
(* Drafting: generate_briefing and draft_update_from_change_logs.  The     *)
(* model is called between the read of the battlecard and the commit.      *)
(***************************************************************************)

\* A deleted competitor has no changes left to draft from.
CompetitorGone == \E i \in Items : item[i] = "deleted"

BeginDraft(i, k) ==
    /\ item[i] = "absent" /\ (k = "card" => ~CompetitorGone)
    /\ item' = [item EXCEPT ![i] = "drafting"]
    /\ kind' = [kind EXCEPT ![i] = k]
    /\ proposal' = [proposal EXCEPT ![i] = IF k = "card" THEN card.text \cup {i} ELSE {}]
    /\ inserting' = IF k = "card" /\ ~card.there THEN inserting \cup {i} ELSE inserting
    /\ UNCHANGED <<content, card, config, dec, digest, sends, history>>

\* The draft and its approval item are one commit.
CommitDraft(i) ==
    /\ item[i] = "drafting" /\ (i \in inserting => ~card.there)
    /\ item' = [item EXCEPT ![i] = "pending"]
    /\ content' = [content EXCEPT ![i] = "pending"]
    /\ card' = IF i \in inserting THEN [NoCard EXCEPT !.there = TRUE] ELSE card
    /\ inserting' = inserting \ {i}
    /\ UNCHANGED <<kind, proposal, config, dec, digest, sends, history>>

\* The work raises: a provider or the budget refuses, or the battlecard's row
\* that was to be inserted is there by now (one per competitor).
FailDraft(i) ==
    /\ item[i] = "drafting"
    /\ item' = [item EXCEPT ![i] = "failed"]
    /\ inserting' = inserting \ {i}
    /\ UNCHANGED <<content, kind, proposal, card, config, dec, digest, sends, history>>

(***************************************************************************)
(* Decisions: approval_service.decide.                                     *)
(***************************************************************************)

Deciding(d) == dec[d].pc \in {"item", "ready"}
Rivals(i) == {d \in Deciders : Deciding(d) /\ dec[d].item = i}
CardRivals == {d \in Deciders : Deciding(d) /\ kind[dec[d].item] = "card"}

\* Mutant: the item's status is not looked at.
ReadItemAgain(d, i, v) ==
    /\ dec[d].pc = "idle" /\ item[i] \in {"pending"} \cup Decisions
    /\ dec' = [dec EXCEPT ![d] = [IdleDec EXCEPT !.pc = "item", !.item = i, !.decision = v]]
    /\ contested' = IF Rivals(i) = {} THEN contested ELSE contested \cup {i}
    /\ crowded' = (crowded \/ (kind[i] = "card" /\ CardRivals # {}))
    /\ UNCHANGED <<item, content, drafts, card, config, digest, sends, approvals, crashes>>

\* The approval item is read and found pending.
ReadItem(d, i, v) ==
    /\ dec[d].pc = "idle" /\ item[i] = "pending"
    /\ dec' = [dec EXCEPT ![d] = [IdleDec EXCEPT !.pc = "item", !.item = i, !.decision = v]]
    /\ contested' = IF Rivals(i) = {} THEN contested ELSE contested \cup {i}
    /\ crowded' = (crowded \/ (kind[i] = "card" /\ CardRivals # {}))
    /\ UNCHANGED <<item, content, drafts, card, config, digest, sends, approvals, crashes>>

\* The briefing, or the update and its battlecard, are read.
ReadContent(d) ==
    LET x == dec[d]
    IN /\ x.pc = "item"
       /\ dec' = [dec EXCEPT ![d] = [x EXCEPT !.pc = "ready", !.status = content[x.item],
                                              !.version = card.version, !.text = card.text]]
       /\ UNCHANGED <<item, content, drafts, card, config, digest, sends, history>>

\* Mutant: the decision is not applied to what was decided.
ApplyItemOnly(x) == content' = content /\ card' = card
\* Mutant: an update is applied whatever the decision.
ApplyAnyDecision(x) ==
    /\ content' = [content EXCEPT ![x.item] = x.decision]
    /\ card' = IF kind[x.item] = "card"
               THEN [card EXCEPT !.version = x.version + 1, !.text = proposal[x.item]] ELSE card

\* _apply_decision_to_item: a status is written unless it was read so.
Apply(x) ==
    LET i == x.item
    IN /\ content' = [content EXCEPT ![i] = IF x.status = x.decision THEN @ ELSE x.decision]
       /\ card' = IF kind[i] = "card" /\ x.decision = "approved"
                  THEN [card EXCEPT !.version = x.version + 1,
                          !.text = IF x.text = proposal[i] THEN @ ELSE proposal[i]]
                  ELSE card

\* Only an approved urgent briefing has something left to do.
AfterCommit(x) ==
    IF x.decision = "approved" /\ kind[x.item] = "urgent"
    THEN [x EXCEPT !.pc = "deliver"] ELSE IdleDec

\* The commit.  An update of rows that were deleted raises and writes nothing.
Decide(d) ==
    LET x == dec[d]
    IN /\ x.pc = "ready"
       /\ IF item[x.item] = "deleted"
          THEN /\ dec' = [dec EXCEPT ![d] = IdleDec]
               /\ UNCHANGED <<item, content, card, approvals>>
          ELSE /\ item' = [item EXCEPT ![x.item] = x.decision]
               /\ Apply(x)
               /\ dec' = [dec EXCEPT ![d] = AfterCommit(x)]
               /\ approvals' = IF x.decision = "approved"
                               THEN approvals \cup {x.item} ELSE approvals
       /\ UNCHANGED <<drafts, config, digest, sends, contested, crowded, crashes>>

(***************************************************************************)
(* Delivery: at once after the commit, or by the digest.                   *)
(***************************************************************************)

\* _deliver_briefings: the integrations that took the message.  Nothing is
\* sent for the demo.
Outcomes == IF demo THEN {{}} ELSE SUBSET enabled
SentOut(set) == sends' = [i \in Items |-> IF i \in set THEN sends[i] + 1 ELSE sends[i]]

Send(d) ==
    LET x == dec[d]
    IN /\ x.pc = "deliver"
       /\ \E ok \in Outcomes :
            IF ok = {}
            THEN /\ dec' = [dec EXCEPT ![d] = IdleDec]
                 /\ UNCHANGED sends
            ELSE /\ dec' = [dec EXCEPT ![d] = [x EXCEPT !.pc = "sent",
                                                        !.status = content[x.item]]]
                 /\ SentOut({x.item})
       /\ UNCHANGED <<item, content, drafts, card, config, digest, history>>

Mark(d) ==
    LET x == dec[d]
    IN /\ x.pc = "sent"
       /\ content' = [content EXCEPT ![x.item] = IF x.status = "delivered" THEN @ ELSE "delivered"]
       /\ dec' = [dec EXCEPT ![d] = IdleDec]
       /\ UNCHANGED <<item, drafts, card, config, digest, sends, history>>

\* Mutants of the digest's query.
WaitingUndecided == {i \in Items : kind[i] = "digest" /\ content[i] \in {"pending", "approved"}}
WaitingDelivered == {i \in Items : kind[i] = "digest" /\ content[i] \in {"approved", "delivered"}}
WaitingUrgent == {i \in Items : kind[i] = "urgent" /\ content[i] = "approved"}

\* The briefings deliver_digest selects.
Waiting == {i \in Items : kind[i] = "digest" /\ content[i] = "approved"}

DigestSelect ==
    /\ digest.pc = "idle" /\ Waiting # {}
    /\ digest' = [pc |-> "send", items |-> Waiting]
    /\ UNCHANGED <<item, content, drafts, card, config, dec, sends, history>>

DigestSend(ok) ==
    /\ digest.pc = "send" /\ ok \in Outcomes
    /\ IF ok = {} THEN digest' = IdleDigest /\ UNCHANGED sends
                  ELSE digest' = [digest EXCEPT !.pc = "sent"] /\ SentOut(digest.items)
    /\ UNCHANGED <<item, content, drafts, card, config, dec, history>>

DigestMark ==
    /\ digest.pc = "sent"
    /\ content' = [i \in Items |-> IF i \in digest.items THEN "delivered" ELSE content[i]]
    /\ digest' = IdleDigest
    /\ UNCHANGED <<item, drafts, card, config, dec, sends, history>>

(***************************************************************************)
(* Owners, the provisioning script, deletions and crashes.                 *)
(***************************************************************************)

\* upsert_integration and delete_integration.
SetIntegration(p) ==
    /\ enabled' = IF p \in enabled THEN enabled \ {p} ELSE enabled \cup {p}
    /\ UNCHANGED <<item, content, drafts, card, demo, dec, digest, sends, history>>

\* provision_demo, with and without --unlock.
Provision ==
    /\ demo' = ~demo
    /\ UNCHANGED <<item, content, drafts, card, enabled, dec, digest, sends, history>>

\* delete_competitor takes the battlecard, its updates and their approval
\* items; a draft under way fails on the foreign key, and one that inserts the
\* battlecard holds the deletion up.
DeleteCard ==
    LET gone == {i \in Items : kind[i] = "card" /\ item[i] # "absent"}
    IN /\ gone # {} /\ inserting = {}
       /\ item' = [i \in Items |-> IF i \in gone THEN "deleted" ELSE item[i]]
       /\ content' = [i \in Items |-> IF i \in gone THEN "none" ELSE content[i]]
       /\ card' = NoCard
       /\ UNCHANGED <<drafts, config, dec, digest, sends, history>>

Crash ==
    /\ crashes < MaxCrashes /\ crashes' = crashes + 1
    /\ (digest # IdleDigest \/ \E d \in Deciders : dec[d] # IdleDec)
    /\ dec' = [d \in Deciders |-> IdleDec]
    /\ digest' = IdleDigest
    /\ UNCHANGED <<item, content, drafts, card, config, sends, approvals, contested, crowded>>

Review(d) ==
    \/ \E i \in Items, v \in Decisions : ReadItem(d, i, v)
    \/ ReadContent(d) \/ Decide(d) \/ Send(d) \/ Mark(d)

Next ==
    \/ \E i \in Items : (\E k \in Kinds : BeginDraft(i, k)) \/ CommitDraft(i) \/ FailDraft(i)
    \/ \E d \in Deciders : Review(d)
    \/ DigestSelect \/ (\E ok \in SUBSET Providers : DigestSend(ok)) \/ DigestMark
    \/ \E p \in Providers : SetIntegration(p)
    \/ Provision \/ DeleteCard \/ Crash

Spec == Init /\ [][Next]_vars

\* APScheduler runs the digest every day; an owner who wants deliveries keeps
\* an integration that works, so that sometimes a message is taken.
LiveSpec ==
    /\ Spec
    /\ SF_vars(DigestSelect) /\ WF_vars(DigestMark)
    /\ WF_vars(\E ok \in SUBSET Providers : DigestSend(ok))
    /\ SF_vars(\E ok \in SUBSET Providers : ok # {} /\ DigestSend(ok))

(***************************************************************************)
(* Properties.                                                             *)
(***************************************************************************)

\* Every column and local variable has a value of its type.
TypeOK ==
    /\ item \in [Items -> {"absent", "drafting", "failed", "pending", "deleted"} \cup Decisions]
    /\ kind \in [Items -> {"urgent", "digest", "card"}]
    /\ content \in [Items -> {"none", "pending", "delivered"} \cup Decisions]
    /\ proposal \in [Items -> SUBSET Items]
    /\ inserting \subseteq Items
    /\ card \in [there : BOOLEAN, version : Nat, text : SUBSET Items]
    /\ enabled \subseteq Providers /\ demo \in BOOLEAN
    /\ dec \in [Deciders -> [pc : {"idle", "item", "ready", "deliver", "sent"},
                             item : Items \cup {NoItem}, decision : Decisions,
                             status : {"none", "pending", "delivered"} \cup Decisions,
                             version : Nat, text : SUBSET Items]]
    /\ digest \in [pc : {"idle", "send", "sent"}, items : SUBSET Items]
    /\ sends \in [Items -> Nat]
    /\ approvals \subseteq Items /\ contested \subseteq Items /\ crowded \in BOOLEAN
    /\ crashes \in 0..MaxCrashes

\* Unless two reviewers decide it at the same time, a draft lives as DraftLife
\* says: decided once, and sent only if approved (approval_service.py:35-39).
LifeOf(i) ==
    IF item[i] = "deleted" THEN "deleted"
    ELSE IF i \in contested THEN "contested"
    ELSE IF item[i] \in {"absent", "drafting", "failed"} THEN "absent"
    ELSE IF item[i] = "approved" /\ content[i] = "delivered" THEN "delivered"
    ELSE item[i]
Draft == INSTANCE DraftLife WITH life <- [i \in Items |-> LifeOf(i)]
DraftsLive == Draft!Spec

\* The queue and the draft agree on the decision, through decisions, digests
\* and deletions that overlap: the two tables are written in one commit.
QueueAgrees == \A i \in Items \ contested :
    /\ item[i] = "pending" => content[i] = "pending"
    /\ item[i] = "rejected" => content[i] = "rejected"
    /\ item[i] = "approved" => content[i] \in {"approved", "delivered"}

\* "No other code path may deliver anything" (approval_service.py:39): whatever
\* goes out, decided by one reviewer or by two at a time, some reviewer's commit
\* had approved.  It still is approved as it goes out, unless two reviewers had
\* both found it pending: then a digest sends what the second rejected.
OnlyApprovedSent ==
    [][\A i \in Items : sends'[i] # sends[i] =>
         i \in approvals /\ (item[i] = "approved" \/ i \in contested)]_vars

\* A reader gets a briefing once.  Only a digest that died between sending
\* and marking sends again; an urgent briefing never does.
SentOnce == \A i \in Items \ contested :
    sends[i] <= IF kind[i] = "digest" THEN 1 + crashes ELSE 1

\* "This row only ever changes via apply_approved_update" (models/battlecard.py:8-11):
\* the text is one a reviewer approved, and the version, which is read,
\* incremented and written back, counts the approved updates, unless two
\* reviewers decided one update, or two updates, at the same time.
CardApproved ==
    LET approved == {i \in Items : kind[i] = "card" /\ item[i] = "approved"}
    IN /\ (\A i \in contested : kind[i] # "card") =>
            card.text = {} \/ \E i \in approved : card.text = proposal[i]
       /\ ~crowded => card.version = Cardinality(approved)

\* An approved briefing of a digest goes out, through crashes, if in the end
\* there is an integration that takes it.
DigestArrives ==
    <>[](Outcomes # {{}}) => \A i \in Items :
        (kind[i] = "digest" /\ content[i] = "approved") ~> (content[i] # "approved")

=============================================================================
