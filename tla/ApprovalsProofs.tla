-------------------------- MODULE ApprovalsProofs --------------------------
(***************************************************************************)
(* Theorems of Approvals, for every number of drafts, reviewers,           *)
(* integrations and crashes.                                               *)
(***************************************************************************)
EXTENDS Approvals, FiniteSetTheorems, TLAPS

Undrafted == {"absent", "drafting", "failed"}

\* Nobody knows of a draft that is not in the queue.
UndraftedUnknown == \A i \in Items : item[i] \in Undrafted =>
    content[i] = "none" /\ i \notin contested

\* Only updates of a battlecard are deleted.
DeletedAreCards == \A i \in Items : item[i] = "deleted" => kind[i] = "card"

\* A reviewer that is busy is busy with a draft of the queue.
ReviewersHold == \A d \in Deciders : dec[d].pc # "idle" =>
    dec[d].item \in Items /\ item[dec[d].item] \notin Undrafted

\* Who decides a draft that is not contested is alone in it, and has found it
\* and what it stands for undecided.
DecidesAlone == \A d \in Deciders : Deciding(d) /\ dec[d].item \notin contested =>
    /\ item[dec[d].item] \in {"pending", "deleted"}
    /\ dec[d].pc = "ready" /\ item[dec[d].item] = "pending" => dec[d].status = "pending"
    /\ \A e \in Deciders : Deciding(e) /\ dec[e].item = dec[d].item => e = d

\* What a reviewer or the digest is sending was approved.
SendsApproved ==
    /\ \A d \in Deciders : dec[d].pc \in {"deliver", "sent"} =>
        /\ kind[dec[d].item] = "urgent"
        /\ dec[d].item \notin contested => item[dec[d].item] = "approved"
    /\ \A i \in digest.items :
        /\ kind[i] = "digest" /\ item[i] \notin Undrafted
        /\ i \notin contested => item[i] = "approved"

Sound == UndraftedUnknown /\ DeletedAreCards /\ ReviewersHold /\ DecidesAlone
    /\ SendsApproved /\ QueueAgrees

IInv == TypeOK /\ Sound

DecRec == [pc : {"idle", "item", "ready", "deliver", "sent"},
           item : Items \cup {NoItem}, decision : Decisions,
           status : {"none", "pending", "delivered"} \cup Decisions,
           version : Nat, text : SUBSET Items]

LEMMA IdleDecType == IdleDec \in DecRec
  BY DEF IdleDec, DecRec, Decisions

LEMMA CardType == NoCard \in [there : BOOLEAN, version : Nat, text : SUBSET Items]
  BY DEF NoCard

-----------------------------------------------------------------------------
(* Types.                                                                  *)

LEMMA TypeStep == TypeOK /\ ReviewersHold /\ [Next]_vars => TypeOK'
<1> SUFFICES ASSUME TypeOK, ReviewersHold, [Next]_vars PROVE TypeOK'
  OBVIOUS
<1> USE ApprovalsAssumption DEF TypeOK, drafts, config, history
<1>i. IdleDec \in DecRec
  BY IdleDecType
<1>d. dec \in [Deciders -> DecRec]
  BY DEF DecRec
<1>1. ASSUME NEW i \in Items, NEW k \in Kinds, BeginDraft(i, k) PROVE TypeOK'
  BY <1>1 DEF BeginDraft
<1>2. ASSUME NEW i \in Items, CommitDraft(i) PROVE TypeOK'
  BY <1>2, CardType DEF CommitDraft
<1>3. ASSUME NEW i \in Items, FailDraft(i) PROVE TypeOK'
  BY <1>3 DEF FailDraft
<1>4. ASSUME NEW d \in Deciders, NEW i \in Items, NEW v \in Decisions, ReadItem(d, i, v)
      PROVE  TypeOK'
  <2>1. [IdleDec EXCEPT !.pc = "item", !.item = i, !.decision = v] \in DecRec
    BY <1>i DEF DecRec
  <2>2. dec' \in [Deciders -> DecRec]
    BY <1>4, <1>d, <2>1 DEF ReadItem
  <2> QED
    BY <1>4, <2>2 DEF ReadItem, DecRec
<1>5. ASSUME NEW d \in Deciders, ReadContent(d) PROVE TypeOK'
  <2> DEFINE x == dec[d]
             y == [x EXCEPT !.pc = "ready", !.status = content[x.item],
                            !.version = card.version, !.text = card.text]
  <2>1. x \in DecRec
    BY <1>d
  <2>2. content[x.item] \in {"none", "pending", "delivered"} \cup Decisions
    BY <1>5 DEF ReadContent, ReviewersHold
  <2>3. y \in DecRec
    BY <2>1, <2>2 DEF DecRec
  <2>4. dec' \in [Deciders -> DecRec]
    BY <1>5, <1>d, <2>3 DEF ReadContent
  <2> QED
    BY <1>5, <2>4 DEF ReadContent, DecRec
<1>6. ASSUME NEW d \in Deciders, Decide(d) PROVE TypeOK'
  <2> DEFINE x == dec[d]
  <2>1. x \in DecRec /\ x.decision \in Decisions
    BY <1>d DEF DecRec
  <2>2. AfterCommit(x) \in DecRec
    BY <1>i, <2>1 DEF AfterCommit, DecRec
  <2>3. dec' \in [Deciders -> DecRec]
    BY <1>6, <1>d, <1>i, <2>2 DEF Decide
  <2>4. item' \in [Items -> {"absent", "drafting", "failed", "pending", "deleted"} \cup Decisions]
    BY <1>6, <2>1 DEF Decide
  <2>5. content' \in [Items -> {"none", "pending", "delivered"} \cup Decisions]
    BY <1>6, <2>1 DEF Decide, Apply
  <2>6. card' \in [there : BOOLEAN, version : Nat, text : SUBSET Items]
    <3> DEFINE t == IF x.text = proposal[x.item] THEN card.text ELSE proposal[x.item]
               y == [card EXCEPT !.version = x.version + 1, !.text = t]
    <3>1. x.version + 1 \in Nat
      BY <2>1 DEF DecRec
    <3>2. x.item \in Items
      BY <1>6 DEF Decide, ReviewersHold
    <3>3. t \in SUBSET Items
      BY <3>2
    <3>4. y \in [there : BOOLEAN, version : Nat, text : SUBSET Items]
      BY <3>1, <3>3
    <3>5. card' \in {card, y}
      BY <1>6 DEF Decide, Apply
    <3> QED
      BY <3>4, <3>5
  <2>7. approvals' \subseteq Items
    BY <1>6 DEF Decide, ReviewersHold
  <2> QED
    BY <1>6, <2>3, <2>4, <2>5, <2>6, <2>7 DEF Decide, DecRec
<1>7. ASSUME NEW d \in Deciders, Send(d) PROVE TypeOK'
  <2> DEFINE x == dec[d]
             y == [x EXCEPT !.pc = "sent", !.status = content[x.item]]
  <2>1. x \in DecRec
    BY <1>d
  <2>2. content[x.item] \in {"none", "pending", "delivered"} \cup Decisions
    BY <1>7 DEF Send, ReviewersHold
  <2>3. y \in DecRec
    BY <2>1, <2>2 DEF DecRec
  <2>4. dec' \in [Deciders -> DecRec]
    BY <1>7, <1>d, <1>i, <2>3 DEF Send
  <2>5. sends' \in [Items -> Nat]
    BY <1>7 DEF Send, SentOut
  <2> QED
    BY <1>7, <2>4, <2>5 DEF Send, DecRec
<1>8. ASSUME NEW d \in Deciders, Mark(d) PROVE TypeOK'
  <2>1. dec' \in [Deciders -> DecRec]
    BY <1>8, <1>d, <1>i DEF Mark
  <2> QED
    BY <1>8, <2>1 DEF Mark, DecRec
<1>9. CASE DigestSelect
  BY <1>9 DEF DigestSelect, Waiting
<1>10. ASSUME NEW ok \in SUBSET Providers, DigestSend(ok) PROVE TypeOK'
  BY <1>10 DEF DigestSend, SentOut, IdleDigest
<1>11. CASE DigestMark
  BY <1>11 DEF DigestMark, IdleDigest
<1>12. ASSUME NEW p \in Providers, SetIntegration(p) PROVE TypeOK'
  BY <1>12 DEF SetIntegration
<1>13. CASE Provision
  BY <1>13 DEF Provision
<1>14. CASE DeleteCard
  BY <1>14, CardType DEF DeleteCard
<1>15. CASE Crash
  BY <1>15, <1>i DEF Crash, IdleDigest, DecRec
<1>16. CASE UNCHANGED vars
  BY <1>16 DEF vars
<1> QED
  BY <1>1, <1>2, <1>3, <1>4, <1>5, <1>6, <1>7, <1>8, <1>9, <1>10, <1>11, <1>12, <1>13,
     <1>14, <1>15, <1>16 DEF Next, Review

LEMMA InitIInv == Init => IInv
<1> SUFFICES ASSUME Init PROVE IInv
  OBVIOUS
<1>1. TypeOK
  <2>1. dec \in [Deciders -> DecRec]
    BY IdleDecType DEF Init
  <2>2. card \in [there : BOOLEAN, version : Nat, text : SUBSET Items]
    BY CardType DEF Init
  <2>3. /\ item \in [Items -> {"absent", "drafting", "failed", "pending", "deleted"} \cup Decisions]
        /\ kind \in [Items -> {"urgent", "digest", "card"}]
        /\ content \in [Items -> {"none", "pending", "delivered"} \cup Decisions]
    BY DEF Init
  <2>4. proposal \in [Items -> SUBSET Items] /\ inserting \subseteq Items /\ sends \in [Items -> Nat]
    BY DEF Init
  <2>5. digest \in [pc : {"idle", "send", "sent"}, items : SUBSET Items]
    BY DEF Init, IdleDigest
  <2>6. enabled \subseteq Providers /\ approvals \subseteq Items /\ contested \subseteq Items /\ crashes \in 0..MaxCrashes
    BY ApprovalsAssumption DEF Init
  <2>7. demo \in BOOLEAN /\ crowded \in BOOLEAN
    BY DEF Init
  <2> QED
    BY <2>1, <2>2, <2>3, <2>4, <2>5, <2>6, <2>7 DEF TypeOK, DecRec
<1>2. Sound
  BY DEF Init, Sound, UndraftedUnknown, DeletedAreCards, ReviewersHold, DecidesAlone,
     SendsApproved, QueueAgrees, Undrafted, Deciding, IdleDec, IdleDigest
<1> QED
  BY <1>1, <1>2 DEF IInv

-----------------------------------------------------------------------------
(* The queue.                                                              *)

\* A reviewer that has sent is done, or marks what it sent.
LEMMA SendMoves ==
  ASSUME TypeOK, NEW d \in Deciders, Send(d)
  PROVE  /\ \A e \in Deciders : e # d => dec'[e] = dec[e]
         /\ dec'[d].pc = "idle" \/ (dec'[d].item = dec[d].item /\ dec'[d].pc = "sent")
<1>1. dec \in [Deciders -> DecRec]
  BY DEF TypeOK, DecRec
<1>2. \/ dec' = [dec EXCEPT ![d] = IdleDec]
      \/ dec' = [dec EXCEPT ![d] = [dec[d] EXCEPT !.pc = "sent", !.status = content[dec[d].item]]]
  BY DEF Send
<1>3. \/ dec'[d] = IdleDec
      \/ dec'[d] = [dec[d] EXCEPT !.pc = "sent", !.status = content[dec[d].item]]
  BY <1>1, <1>2
<1>4. dec[d] \in DecRec
  BY <1>1
<1>5. CASE dec'[d] = IdleDec
  BY <1>1, <1>2, <1>5 DEF IdleDec
<1>6. CASE dec'[d] = [dec[d] EXCEPT !.pc = "sent", !.status = content[dec[d].item]]
  <2>1. dec'[d].item = dec[d].item /\ dec'[d].pc = "sent"
    BY <1>4, <1>6 DEF DecRec
  <2> QED
    BY <1>1, <1>2, <2>1
<1> QED
  BY <1>3, <1>5, <1>6

LEMMA SoundStep == IInv /\ [Next]_vars => Sound'
<1> SUFFICES ASSUME TypeOK, Sound, [Next]_vars PROVE Sound'
  BY DEF IInv
<1> USE ApprovalsAssumption DEF TypeOK, Undrafted, Deciding, drafts, config, history
<1>1. ASSUME NEW i \in Items, NEW k \in Kinds, BeginDraft(i, k) PROVE Sound'
  <2> USE <1>1 DEF BeginDraft, Sound
  <2>1. UndraftedUnknown'
    BY DEF UndraftedUnknown, DeletedAreCards, DecidesAlone, SendsApproved
  <2>2. DeletedAreCards'
    BY DEF DeletedAreCards, UndraftedUnknown, DecidesAlone
  <2>3. ReviewersHold'
    BY DEF ReviewersHold
  <2>4. DecidesAlone'
    BY DEF DecidesAlone, ReviewersHold, UndraftedUnknown, QueueAgrees, DeletedAreCards
  <2>5. SendsApproved'
    BY DEF SendsApproved, ReviewersHold, DecidesAlone, DeletedAreCards
  <2>6. QueueAgrees'
    BY DEF QueueAgrees, UndraftedUnknown, DeletedAreCards, SendsApproved, DecidesAlone
  <2> QED
    BY <2>1, <2>2, <2>3, <2>4, <2>5, <2>6
<1>2. ASSUME NEW i \in Items, CommitDraft(i) PROVE Sound'
  <2> USE <1>2 DEF CommitDraft, Sound
  <2>1. UndraftedUnknown'
    BY DEF UndraftedUnknown, DeletedAreCards, DecidesAlone, SendsApproved
  <2>2. DeletedAreCards'
    BY DEF DeletedAreCards, UndraftedUnknown, DecidesAlone
  <2>3. ReviewersHold'
    BY DEF ReviewersHold
  <2>4. DecidesAlone'
    BY DEF DecidesAlone, ReviewersHold, UndraftedUnknown, QueueAgrees, DeletedAreCards
  <2>5. SendsApproved'
    BY DEF SendsApproved, ReviewersHold, DecidesAlone, DeletedAreCards
  <2>6. QueueAgrees'
    BY DEF QueueAgrees, UndraftedUnknown, DeletedAreCards, SendsApproved, DecidesAlone
  <2> QED
    BY <2>1, <2>2, <2>3, <2>4, <2>5, <2>6
<1>3. ASSUME NEW i \in Items, FailDraft(i) PROVE Sound'
  <2> USE <1>3 DEF FailDraft, Sound
  <2>1. UndraftedUnknown'
    BY DEF UndraftedUnknown, DeletedAreCards, DecidesAlone, SendsApproved
  <2>2. DeletedAreCards'
    BY DEF DeletedAreCards, UndraftedUnknown, DecidesAlone
  <2>3. ReviewersHold'
    BY DEF ReviewersHold
  <2>4. DecidesAlone'
    BY DEF DecidesAlone, ReviewersHold, UndraftedUnknown, QueueAgrees, DeletedAreCards
  <2>5. SendsApproved'
    BY DEF SendsApproved, ReviewersHold, DecidesAlone, DeletedAreCards
  <2>6. QueueAgrees'
    BY DEF QueueAgrees, UndraftedUnknown, DeletedAreCards, SendsApproved, DecidesAlone
  <2> QED
    BY <2>1, <2>2, <2>3, <2>4, <2>5, <2>6
<1>4. ASSUME NEW d \in Deciders, NEW i \in Items, NEW v \in Decisions, ReadItem(d, i, v) PROVE Sound'
  <2> USE <1>4 DEF ReadItem, IdleDec, Rivals, Sound
  <2>1. UndraftedUnknown'
    BY DEF UndraftedUnknown, DeletedAreCards, DecidesAlone, SendsApproved
  <2>2. DeletedAreCards'
    BY DEF DeletedAreCards, UndraftedUnknown, DecidesAlone
  <2>3. ReviewersHold'
    BY DEF ReviewersHold
  <2>4. DecidesAlone'
    BY DEF DecidesAlone, ReviewersHold, UndraftedUnknown, QueueAgrees, DeletedAreCards
  <2>5. SendsApproved'
    BY DEF SendsApproved, ReviewersHold, DecidesAlone, DeletedAreCards
  <2>6. QueueAgrees'
    BY DEF QueueAgrees, UndraftedUnknown, DeletedAreCards, SendsApproved, DecidesAlone
  <2> QED
    BY <2>1, <2>2, <2>3, <2>4, <2>5, <2>6
<1>5. ASSUME NEW d \in Deciders, ReadContent(d) PROVE Sound'
  <2> USE <1>5 DEF ReadContent, Sound
  <2>1. UndraftedUnknown'
    BY DEF UndraftedUnknown, DeletedAreCards, DecidesAlone, SendsApproved
  <2>2. DeletedAreCards'
    BY DEF DeletedAreCards, UndraftedUnknown, DecidesAlone
  <2>3. ReviewersHold'
    BY DEF ReviewersHold
  <2>4. DecidesAlone'
    BY DEF DecidesAlone, ReviewersHold, UndraftedUnknown, QueueAgrees, DeletedAreCards
  <2>5. SendsApproved'
    BY DEF SendsApproved, ReviewersHold, DecidesAlone, DeletedAreCards
  <2>6. QueueAgrees'
    BY DEF QueueAgrees, UndraftedUnknown, DeletedAreCards, SendsApproved, DecidesAlone
  <2> QED
    BY <2>1, <2>2, <2>3, <2>4, <2>5, <2>6
<1>6. ASSUME NEW d \in Deciders, Decide(d) PROVE Sound'
  <2> DEFINE x == dec[d]
  <2>a. /\ x.pc = "ready" /\ x.item \in Items /\ x.decision \in Decisions
        /\ contested' = contested /\ kind' = kind /\ digest' = digest
    BY <1>6 DEF Decide, Sound, ReviewersHold
  <2>b. /\ \A e \in Deciders : e # d => dec'[e] = dec[e]
        /\ dec'[d].pc \notin {"item", "ready"}
        /\ dec'[d].pc # "idle" => dec'[d].item = x.item /\ dec'[d].pc = "deliver"
                                 /\ kind[x.item] = "urgent" /\ x.decision = "approved"
                                 /\ item[x.item] # "deleted"
    BY <1>6 DEF Decide, AfterCommit, IdleDec
  <2>c. /\ \A i \in Items : i # x.item => item'[i] = item[i]
        /\ item'[x.item] = IF item[x.item] = "deleted" THEN "deleted" ELSE x.decision
    BY <1>6, <2>a DEF Decide
  <2>1. UndraftedUnknown'
    BY <1>6 DEF Sound, UndraftedUnknown, DeletedAreCards, ReviewersHold, DecidesAlone, SendsApproved, QueueAgrees, Decide, Apply, AfterCommit, IdleDec, Decisions
  <2>2. DeletedAreCards'
    BY <1>6 DEF Sound, UndraftedUnknown, DeletedAreCards, ReviewersHold, DecidesAlone, SendsApproved, QueueAgrees, Decide, Apply, AfterCommit, IdleDec, Decisions
  <2>3. ReviewersHold'
    BY <1>6 DEF Sound, UndraftedUnknown, DeletedAreCards, ReviewersHold, DecidesAlone, SendsApproved, QueueAgrees, Decide, Apply, AfterCommit, IdleDec, Decisions
  <2>4. DecidesAlone'
    <3> SUFFICES ASSUME NEW e \in Deciders, dec'[e].pc \in {"item", "ready"},
                        dec'[e].item \notin contested
                 PROVE  /\ item'[dec'[e].item] \in {"pending", "deleted"}
                        /\ dec'[e].pc = "ready" /\ item'[dec'[e].item] = "pending" =>
                             dec'[e].status = "pending"
                        /\ \A f \in Deciders : dec'[f].pc \in {"item", "ready"}
                             /\ dec'[f].item = dec'[e].item => f = e
      BY <2>a DEF DecidesAlone
    <3>1. \A f \in Deciders : dec'[f].pc \in {"item", "ready"} =>
            f # d /\ dec'[f] = dec[f]
      BY <2>b
    <3>2. e # d /\ dec'[e] = dec[e] /\ dec[e].item \in Items
      BY <3>1 DEF Sound, ReviewersHold
    <3>3. dec[e].item # x.item
      BY <2>a, <3>2 DEF Sound, DecidesAlone
    <3>4. item'[dec[e].item] = item[dec[e].item]
      BY <2>c, <3>2, <3>3
    <3> QED
      BY <3>1, <3>2, <3>4 DEF Sound, DecidesAlone
  <2>5. SendsApproved'
    BY <2>a, <2>b, <2>c DEF Sound, DecidesAlone, ReviewersHold, SendsApproved, Decisions
  <2>6. QueueAgrees'
    BY <1>6 DEF Sound, UndraftedUnknown, DeletedAreCards, ReviewersHold, DecidesAlone, SendsApproved, QueueAgrees, Decide, Apply, AfterCommit, IdleDec, Decisions
  <2> QED
    BY <2>1, <2>2, <2>3, <2>4, <2>5, <2>6 DEF Sound
<1>7. ASSUME NEW d \in Deciders, Send(d) PROVE Sound'
  <2>a. UNCHANGED <<item, content, drafts, card, config, digest, history>>
    BY <1>7 DEF Send
  <2>b. /\ \A e \in Deciders : e # d => dec'[e] = dec[e]
        /\ dec[d].pc = "deliver"
        /\ dec'[d].pc # "idle" => dec'[d].item = dec[d].item /\ dec'[d].pc = "sent"
        /\ dec'[d].pc \notin {"item", "ready"}
    BY <1>7, SendMoves DEF Send
  <2>1. UndraftedUnknown'
    BY <1>7 DEF Sound, UndraftedUnknown, DeletedAreCards, ReviewersHold, DecidesAlone, SendsApproved, QueueAgrees, Send, IdleDec
  <2>2. DeletedAreCards'
    BY <1>7 DEF Sound, UndraftedUnknown, DeletedAreCards, ReviewersHold, DecidesAlone, SendsApproved, QueueAgrees, Send, IdleDec
  <2>3. ReviewersHold'
    BY <2>a, <2>b DEF Sound, ReviewersHold
  <2>4. DecidesAlone'
    BY <2>a, <2>b DEF Sound, ReviewersHold, DecidesAlone
  <2>5. SendsApproved'
    BY <2>a, <2>b DEF Sound, ReviewersHold, SendsApproved
  <2>6. QueueAgrees'
    BY <1>7 DEF Sound, UndraftedUnknown, DeletedAreCards, ReviewersHold, DecidesAlone, SendsApproved, QueueAgrees, Send, IdleDec
  <2> QED
    BY <2>1, <2>2, <2>3, <2>4, <2>5, <2>6 DEF Sound
<1>8. ASSUME NEW d \in Deciders, Mark(d) PROVE Sound'
  <2> USE <1>8 DEF Mark, IdleDec, Sound
  <2>1. UndraftedUnknown'
    BY DEF UndraftedUnknown, DeletedAreCards, DecidesAlone, SendsApproved
  <2>2. DeletedAreCards'
    BY DEF DeletedAreCards, UndraftedUnknown, DecidesAlone
  <2>3. ReviewersHold'
    BY DEF ReviewersHold
  <2>4. DecidesAlone'
    BY DEF DecidesAlone, ReviewersHold, UndraftedUnknown, QueueAgrees, DeletedAreCards
  <2>5. SendsApproved'
    BY DEF SendsApproved, ReviewersHold, DecidesAlone, DeletedAreCards
  <2>6. QueueAgrees'
    BY DEF QueueAgrees, UndraftedUnknown, DeletedAreCards, SendsApproved, DecidesAlone
  <2> QED
    BY <2>1, <2>2, <2>3, <2>4, <2>5, <2>6
<1>9. CASE DigestSelect
  <2>1. UndraftedUnknown'
    BY <1>9 DEF Sound, UndraftedUnknown, DeletedAreCards, ReviewersHold, DecidesAlone, SendsApproved, QueueAgrees, DigestSelect, Waiting
  <2>2. DeletedAreCards'
    BY <1>9 DEF Sound, UndraftedUnknown, DeletedAreCards, ReviewersHold, DecidesAlone, SendsApproved, QueueAgrees, DigestSelect, Waiting
  <2>3. ReviewersHold'
    BY <1>9 DEF Sound, UndraftedUnknown, DeletedAreCards, ReviewersHold, DecidesAlone, SendsApproved, QueueAgrees, DigestSelect, Waiting
  <2>4. DecidesAlone'
    BY <1>9 DEF Sound, UndraftedUnknown, DeletedAreCards, ReviewersHold, DecidesAlone, SendsApproved, QueueAgrees, DigestSelect, Waiting
  <2>5. SendsApproved'
    <3>1. \A i \in Waiting : item[i] \notin Undrafted
      BY <1>9 DEF Sound, UndraftedUnknown, Waiting
    <3>2. \A i \in Waiting : item[i] # "deleted"
      BY <1>9 DEF Sound, DeletedAreCards, Waiting
    <3>3. \A i \in Waiting : i \notin contested => item[i] = "approved"
      BY <3>1, <3>2 DEF Sound, QueueAgrees, Waiting, Decisions
    <3>4. digest'.items = Waiting /\ UNCHANGED <<item, kind, contested, dec>>
      BY <1>9 DEF DigestSelect
    <3>5. \A i \in Waiting : i \in Items /\ kind[i] = "digest"
      BY DEF Waiting
    <3> QED
      BY <3>1, <3>3, <3>4, <3>5 DEF Sound, SendsApproved
  <2>6. QueueAgrees'
    BY <1>9 DEF Sound, UndraftedUnknown, DeletedAreCards, ReviewersHold, DecidesAlone, SendsApproved, QueueAgrees, DigestSelect, Waiting
  <2> QED
    BY <2>1, <2>2, <2>3, <2>4, <2>5, <2>6 DEF Sound
<1>10. ASSUME NEW ok \in SUBSET Providers, DigestSend(ok) PROVE Sound'
  <2> USE <1>10 DEF DigestSend, IdleDigest, Sound
  <2>1. UndraftedUnknown'
    BY DEF UndraftedUnknown, DeletedAreCards, DecidesAlone, SendsApproved
  <2>2. DeletedAreCards'
    BY DEF DeletedAreCards, UndraftedUnknown, DecidesAlone
  <2>3. ReviewersHold'
    BY DEF ReviewersHold
  <2>4. DecidesAlone'
    BY DEF DecidesAlone, ReviewersHold, UndraftedUnknown, QueueAgrees, DeletedAreCards
  <2>5. SendsApproved'
    BY DEF SendsApproved, ReviewersHold, DecidesAlone, DeletedAreCards
  <2>6. QueueAgrees'
    BY DEF QueueAgrees, UndraftedUnknown, DeletedAreCards, SendsApproved, DecidesAlone
  <2> QED
    BY <2>1, <2>2, <2>3, <2>4, <2>5, <2>6
<1>11. CASE DigestMark
  <2> USE <1>11 DEF DigestMark, IdleDigest, Sound
  <2>1. UndraftedUnknown'
    BY DEF UndraftedUnknown, DeletedAreCards, DecidesAlone, SendsApproved
  <2>2. DeletedAreCards'
    BY DEF DeletedAreCards, UndraftedUnknown, DecidesAlone
  <2>3. ReviewersHold'
    BY DEF ReviewersHold
  <2>4. DecidesAlone'
    BY DEF DecidesAlone, ReviewersHold, UndraftedUnknown, QueueAgrees, DeletedAreCards
  <2>5. SendsApproved'
    BY DEF SendsApproved, ReviewersHold, DecidesAlone, DeletedAreCards
  <2>6. QueueAgrees'
    BY DEF QueueAgrees, UndraftedUnknown, DeletedAreCards, SendsApproved, DecidesAlone
  <2> QED
    BY <2>1, <2>2, <2>3, <2>4, <2>5, <2>6
<1>12. ASSUME NEW p \in Providers, SetIntegration(p) PROVE Sound'
  <2> USE <1>12 DEF SetIntegration, Sound
  <2>1. UndraftedUnknown'
    BY DEF UndraftedUnknown, DeletedAreCards, DecidesAlone, SendsApproved
  <2>2. DeletedAreCards'
    BY DEF DeletedAreCards, UndraftedUnknown, DecidesAlone
  <2>3. ReviewersHold'
    BY DEF ReviewersHold
  <2>4. DecidesAlone'
    BY DEF DecidesAlone, ReviewersHold, UndraftedUnknown, QueueAgrees, DeletedAreCards
  <2>5. SendsApproved'
    BY DEF SendsApproved, ReviewersHold, DecidesAlone, DeletedAreCards
  <2>6. QueueAgrees'
    BY DEF QueueAgrees, UndraftedUnknown, DeletedAreCards, SendsApproved, DecidesAlone
  <2> QED
    BY <2>1, <2>2, <2>3, <2>4, <2>5, <2>6
<1>13. CASE Provision
  <2> USE <1>13 DEF Provision, Sound
  <2>1. UndraftedUnknown'
    BY DEF UndraftedUnknown, DeletedAreCards, DecidesAlone, SendsApproved
  <2>2. DeletedAreCards'
    BY DEF DeletedAreCards, UndraftedUnknown, DecidesAlone
  <2>3. ReviewersHold'
    BY DEF ReviewersHold
  <2>4. DecidesAlone'
    BY DEF DecidesAlone, ReviewersHold, UndraftedUnknown, QueueAgrees, DeletedAreCards
  <2>5. SendsApproved'
    BY DEF SendsApproved, ReviewersHold, DecidesAlone, DeletedAreCards
  <2>6. QueueAgrees'
    BY DEF QueueAgrees, UndraftedUnknown, DeletedAreCards, SendsApproved, DecidesAlone
  <2> QED
    BY <2>1, <2>2, <2>3, <2>4, <2>5, <2>6
<1>14. CASE DeleteCard
  <2> USE <1>14 DEF DeleteCard, Sound
  <2>1. UndraftedUnknown'
    BY DEF UndraftedUnknown, DeletedAreCards, DecidesAlone, SendsApproved
  <2>2. DeletedAreCards'
    BY DEF DeletedAreCards, UndraftedUnknown, DecidesAlone
  <2>3. ReviewersHold'
    BY DEF ReviewersHold
  <2>4. DecidesAlone'
    BY DEF DecidesAlone, ReviewersHold, UndraftedUnknown, QueueAgrees, DeletedAreCards
  <2>5. SendsApproved'
    BY DEF SendsApproved, ReviewersHold, DecidesAlone, DeletedAreCards
  <2>6. QueueAgrees'
    BY DEF QueueAgrees, UndraftedUnknown, DeletedAreCards, SendsApproved, DecidesAlone
  <2> QED
    BY <2>1, <2>2, <2>3, <2>4, <2>5, <2>6
<1>15. CASE Crash
  <2> USE <1>15 DEF Crash, IdleDec, IdleDigest, Sound
  <2>1. UndraftedUnknown'
    BY DEF UndraftedUnknown, DeletedAreCards, DecidesAlone, SendsApproved
  <2>2. DeletedAreCards'
    BY DEF DeletedAreCards, UndraftedUnknown, DecidesAlone
  <2>3. ReviewersHold'
    BY DEF ReviewersHold
  <2>4. DecidesAlone'
    BY DEF DecidesAlone, ReviewersHold, UndraftedUnknown, QueueAgrees, DeletedAreCards
  <2>5. SendsApproved'
    BY DEF SendsApproved, ReviewersHold, DecidesAlone, DeletedAreCards
  <2>6. QueueAgrees'
    BY DEF QueueAgrees, UndraftedUnknown, DeletedAreCards, SendsApproved, DecidesAlone
  <2> QED
    BY <2>1, <2>2, <2>3, <2>4, <2>5, <2>6
<1>16. CASE UNCHANGED vars
  BY <1>16 DEF vars, Sound, UndraftedUnknown, DeletedAreCards, ReviewersHold, DecidesAlone,
     SendsApproved, QueueAgrees
<1> QED
  BY <1>1, <1>2, <1>3, <1>4, <1>5, <1>6, <1>7, <1>8, <1>9, <1>10, <1>11, <1>12, <1>13,
     <1>14, <1>15, <1>16 DEF Next, Review

-----------------------------------------------------------------------------
(* The theorems.                                                           *)

LEMMA IInvHolds == Spec => []IInv
<1>1. IInv /\ [Next]_vars => IInv'
  BY TypeStep, SoundStep DEF IInv, Sound
<1> QED
  BY InitIInv, <1>1, PTL DEF Spec

\* Every column and local variable keeps its type, whatever overlaps.
THEOREM TypeCorrect == Spec => []TypeOK
<1>1. IInv => TypeOK
  BY DEF IInv
<1> QED
  BY IInvHolds, <1>1, PTL

\* The approval item and the draft it stands for agree on the decision, unless
\* two reviewers decided it at the same time (approval_service.py:52-81).
THEOREM QueueAgreed == Spec => []QueueAgrees
<1>1. IInv => QueueAgrees
  BY DEF IInv, Sound
<1> QED
  BY IInvHolds, <1>1, PTL

\* What is approved, delivered or being sent, some commit approved.
FromApproval ==
    /\ \A i \in Items : content[i] \in {"approved", "delivered"} => i \in approvals
    /\ \A d \in Deciders : dec[d].pc \in {"deliver", "sent"} => dec[d].item \in approvals
    /\ digest.items \subseteq approvals

LEMMA FromApprovalStep == TypeOK /\ FromApproval /\ [Next]_vars => FromApproval'
<1> SUFFICES ASSUME TypeOK, FromApproval, [Next]_vars PROVE FromApproval'
  OBVIOUS
<1> USE DEF TypeOK, FromApproval, drafts, config, history, Decisions
<1>1. ASSUME NEW i \in Items, (\E k \in Kinds : BeginDraft(i, k)) \/ FailDraft(i)
      PROVE  FromApproval'
  BY <1>1 DEF BeginDraft, FailDraft
<1>2. ASSUME NEW i \in Items, CommitDraft(i) PROVE FromApproval'
  BY <1>2 DEF CommitDraft
<1>3. ASSUME NEW d \in Deciders, NEW i \in Items, NEW v \in Decisions, ReadItem(d, i, v)
      PROVE  FromApproval'
  BY <1>3 DEF ReadItem, IdleDec
<1>4. ASSUME NEW d \in Deciders, ReadContent(d) PROVE FromApproval'
  BY <1>4 DEF ReadContent
<1>5. ASSUME NEW d \in Deciders, Decide(d) PROVE FromApproval'
  <2>1. CASE item[dec[d].item] = "deleted"
    BY <1>5, <2>1 DEF Decide, IdleDec
  <2>2. CASE item[dec[d].item] # "deleted"
    <3> PICK x : x = dec[d]
      OBVIOUS
    <3>1. /\ content' = [content EXCEPT ![x.item] = IF x.status = x.decision THEN @ ELSE x.decision]
          /\ dec' = [dec EXCEPT ![d] = AfterCommit(x)]
          /\ approvals' = IF x.decision = "approved" THEN approvals \cup {x.item} ELSE approvals
          /\ digest' = digest
      BY <1>5, <2>2 DEF Decide, Apply
    <3>2. AfterCommit(x).pc \in {"deliver", "sent"}
            => x.decision = "approved" /\ AfterCommit(x).item = x.item
      BY DEF AfterCommit, IdleDec
    <3>3. \A i \in Items : content'[i] \in {"approved", "delivered"} => i \in approvals'
      BY <3>1
    <3>4. \A e \in Deciders : dec'[e].pc \in {"deliver", "sent"} => dec'[e].item \in approvals'
      <4>1. ASSUME NEW e \in Deciders, e # d, dec'[e].pc \in {"deliver", "sent"}
            PROVE  dec'[e].item \in approvals'
        BY <3>1, <4>1
      <4>2. dec'[d] = AfterCommit(x)
        BY <3>1
      <4>3. QED
        BY <3>1, <3>2, <4>1, <4>2
    <3>5. QED
      BY <3>1, <3>3, <3>4
  <2>3. QED
    BY <2>1, <2>2
<1>6. ASSUME NEW d \in Deciders, Send(d) PROVE FromApproval'
  <2>1. dec[d].pc = "deliver" /\ UNCHANGED <<content, digest, approvals>>
    BY <1>6 DEF Send
  <2>2. QED
    BY <1>6, <2>1, SendMoves
<1>7. ASSUME NEW d \in Deciders, Mark(d) PROVE FromApproval'
  BY <1>7 DEF Mark, IdleDec
<1>8. CASE DigestSelect
  BY <1>8 DEF DigestSelect, Waiting
<1>9. ASSUME NEW ok \in SUBSET Providers, DigestSend(ok) PROVE FromApproval'
  BY <1>9 DEF DigestSend, IdleDigest
<1>10. CASE DigestMark
  BY <1>10 DEF DigestMark, IdleDigest
<1>11. CASE Provision \/ \E p \in Providers : SetIntegration(p)
  BY <1>11 DEF SetIntegration, Provision
<1>12. CASE DeleteCard
  BY <1>12 DEF DeleteCard
<1>13. CASE Crash
  BY <1>13 DEF Crash, IdleDec, IdleDigest
<1>14. CASE UNCHANGED vars
  BY <1>14 DEF vars
<1> QED
  BY <1>1, <1>2, <1>3, <1>4, <1>5, <1>6, <1>7, <1>8, <1>9, <1>10, <1>11, <1>12, <1>13,
     <1>14 DEF Next, Review

\* Only what some commit approved leaves the system, also of the drafts that two
\* reviewers decide at a time, and of the others only what still is approved, at
\* once or by a digest that selected it some time before (approval_service.py:35-39).
THEOREM ApprovedOnlySent == Spec => OnlyApprovedSent
<1> DEFINE Approved == \A i \in Items : sends'[i] # sends[i] =>
                         i \in approvals /\ (item[i] = "approved" \/ i \in contested)
<1>1. IInv /\ FromApproval /\ [Next]_vars => [Approved]_vars
  <2> SUFFICES ASSUME IInv, FromApproval, Next PROVE Approved
    OBVIOUS
  <2> USE DEF IInv, Sound, TypeOK, SendsApproved, FromApproval
  <2>1. ASSUME NEW d \in Deciders, Send(d) PROVE Approved
    <3>1. dec[d].pc = "deliver"
      BY <2>1 DEF Send
    <3>2. \A i \in Items : sends'[i] # sends[i] => i = dec[d].item
      BY <2>1 DEF Send, SentOut
    <3> QED
      BY <3>1, <3>2
  <2>2. ASSUME NEW ok \in SUBSET Providers, DigestSend(ok) PROVE Approved
    <3>1. \A i \in Items : sends'[i] # sends[i] => i \in digest.items
      BY <2>2 DEF DigestSend, SentOut
    <3> QED
      BY <3>1
  <2>3. (\E d \in Deciders : Send(d)) \/ (\E ok \in SUBSET Providers : DigestSend(ok))
          \/ sends' = sends
    BY DEF Next, Review, BeginDraft, CommitDraft, FailDraft, ReadItem, ReadContent, Decide,
       Mark, DigestSelect, DigestMark, SetIntegration, Provision, DeleteCard, Crash
  <2> QED
    BY <2>1, <2>2, <2>3
<1>2. Init => FromApproval
  BY DEF Init, FromApproval, IdleDec, IdleDigest
<1>3. IInv => TypeOK
  BY DEF IInv
<1> QED
  BY IInvHolds, FromApprovalStep, <1>1, <1>2, <1>3, PTL DEF Spec, OnlyApprovedSent

-----------------------------------------------------------------------------
(* The refinement.                                                         *)

Life == [i \in Items |-> LifeOf(i)]

\* What is neither deleted nor contested is looked up in the two tables.
LEMMA SameLife ==
  ASSUME TypeOK, NEW i \in Items, item'[i] = item[i], content'[i] = content[i],
         i \in contested' <=> i \in contested
  PROVE  LifeOf(i)' = LifeOf(i)
  BY DEF LifeOf

LEMMA LifeIsState == TypeOK => \A i \in Items : LifeOf(i) \in Draft!States
  BY DEF TypeOK, LifeOf, Draft!States, Decisions

LEMMA InitLife == Init => Draft!Init
  BY DEF Init, Draft!Init, LifeOf

LEMMA StepLife == IInv /\ [Next]_vars => [Draft!Next]_Life
<1> SUFFICES ASSUME IInv, [Next]_vars PROVE Life' = Life \/ Draft!Next
  BY DEF Life
<1> USE DEF IInv
<1>1. ASSUME UNCHANGED <<item, content, contested>> PROVE Life' = Life
  BY <1>1 DEF Life, LifeOf
<1>2. ASSUME NEW i \in Items, NEW k \in Kinds, BeginDraft(i, k) PROVE Life' = Life
  BY <1>2 DEF BeginDraft, history, Life, LifeOf, TypeOK
<1>3. ASSUME NEW i \in Items, FailDraft(i) PROVE Life' = Life
  BY <1>3 DEF FailDraft, history, Life, LifeOf, TypeOK
<1>4. ASSUME NEW i \in Items, CommitDraft(i) PROVE Draft!Submit(i)
  <2>1. LifeOf(i) = "absent" /\ LifeOf(i)' = "pending"
    BY <1>4 DEF CommitDraft, history, LifeOf, TypeOK, Sound, UndraftedUnknown, Undrafted
  <2>2. \A j \in Items : j # i => LifeOf(j)' = LifeOf(j)
    BY <1>4 DEF CommitDraft, history, LifeOf, TypeOK
  <2> QED
    BY <2>1, <2>2 DEF Draft!Submit, Draft!Move
<1>5. ASSUME NEW d \in Deciders, NEW i \in Items, NEW v \in Decisions, ReadItem(d, i, v)
      PROVE  Life' = Life \/ Draft!Contest(i)
  <2>1. CASE contested' = contested
    BY <1>1, <1>5, <2>1 DEF ReadItem
  <2>2. CASE contested' # contested
    <3>1. contested' = contested \cup {i} /\ i \notin contested /\ item[i] = "pending"
          /\ item' = item /\ content' = content
      BY <1>5, <2>2 DEF ReadItem
    <3>2. LifeOf(i) = "pending" /\ LifeOf(i)' = "contested"
      BY <3>1 DEF LifeOf
    <3>3. \A j \in Items : j # i => LifeOf(j)' = LifeOf(j)
      BY <3>1 DEF LifeOf
    <3> QED
      BY <3>2, <3>3 DEF Draft!Contest, Draft!Move
  <2> QED
    BY <2>1, <2>2
<1>6. ASSUME NEW d \in Deciders, Decide(d)
      PROVE  Life' = Life \/ \E i \in Items, v \in Decisions : Draft!Decide(i, v)
  <2>0. PICK i \in Items, v \in Decisions : i = dec[d].item /\ v = dec[d].decision
    BY <1>6 DEF Decide, Sound, ReviewersHold, TypeOK
  <2>1. dec[d].pc = "ready" /\ contested' = contested
    BY <1>6 DEF Decide, history
  <2>2. CASE item[i] = "deleted"
    BY <1>1, <1>6, <2>0, <2>1, <2>2 DEF Decide
  <2>3. CASE item[i] # "deleted"
    <3>1. /\ item'[i] = v
          /\ content'[i] = IF dec[d].status = v THEN content[i] ELSE v
          /\ \A j \in Items : j # i => item'[j] = item[j] /\ content'[j] = content[j]
      BY <1>6, <2>0, <2>3 DEF Decide, Apply, TypeOK
    <3>2. \A j \in Items : j # i => LifeOf(j)' = LifeOf(j)
      BY <2>1, <3>1 DEF LifeOf
    <3>3. CASE i \in contested
      <4>1. LifeOf(i)' = LifeOf(i)
        BY <2>1, <2>3, <3>1, <3>3 DEF LifeOf, Decisions
      <4> QED
        BY <3>2, <4>1 DEF Life
    <3>4. CASE i \notin contested
      <4>1. item[i] = "pending" /\ dec[d].status = "pending"
        BY <2>0, <2>1, <2>3, <3>4 DEF Sound, DecidesAlone, Deciding
      <4>2. LifeOf(i) = "pending" /\ LifeOf(i)' = v
        BY <2>1, <3>1, <3>4, <4>1 DEF LifeOf, Decisions
      <4>3. Draft!Decide(i, v)
        BY <2>1, <3>2, <4>2 DEF Draft!Decide, Draft!Move
      <4> QED
        BY <2>1, <4>3
    <3> QED
      BY <3>3, <3>4
  <2> QED
    BY <2>2, <2>3
<1>7. ASSUME NEW d \in Deciders, Mark(d)
      PROVE  Life' = Life \/ \E set \in SUBSET Items : Draft!Deliver(set)
  <2>0. PICK i \in Items : i = dec[d].item
    BY <1>7 DEF Mark, Sound, ReviewersHold
  <2>1. /\ item' = item /\ contested' = contested
        /\ content'[i] = content[i] \/ content'[i] = "delivered"
        /\ \A j \in Items : j # i => content'[j] = content[j]
    BY <1>7, <2>0 DEF Mark, history, TypeOK
  <2>2. \A j \in Items : j # i => LifeOf(j)' = LifeOf(j)
    BY <2>1 DEF LifeOf
  <2>3. CASE i \in contested \/ content'[i] = content[i]
    <3>1. LifeOf(i)' = LifeOf(i)
      BY <2>1, <2>3 DEF LifeOf
    <3> QED
      BY <2>2, <3>1 DEF Life
  <2>4. CASE i \notin contested /\ content'[i] = "delivered"
    <3>1. item[i] = "approved"
      BY <1>7, <2>0, <2>4 DEF Mark, Sound, SendsApproved
    <3>2. LifeOf(i) \in {"approved", "delivered"} /\ LifeOf(i)' = "delivered"
      BY <2>1, <2>4, <3>1 DEF LifeOf
    <3>3. Draft!Deliver({i})
      BY <2>1, <2>2, <3>2 DEF Draft!Deliver, Draft!Move
    <3> QED
      BY <2>1, <3>3
  <2> QED
    BY <2>1, <2>3, <2>4
<1>8. ASSUME DigestMark PROVE \E set \in SUBSET Items : Draft!Deliver(set)
  <2> DEFINE set == digest.items \ contested
  <2>1. /\ item' = item /\ contested' = contested
        /\ \A i \in Items : content'[i] = IF i \in digest.items THEN "delivered" ELSE content[i]
    BY <1>8 DEF DigestMark, history
  <2>2. set \in SUBSET Items /\ \A i \in set : i \in Items /\ item[i] = "approved"
    BY DEF Sound, SendsApproved, TypeOK
  <2>3. \A i \in set : LifeOf(i) \in {"approved", "delivered"} /\ LifeOf(i)' = "delivered"
    BY <2>1, <2>2 DEF LifeOf
  <2>4. \A i \in Items \ set : LifeOf(i)' = LifeOf(i)
    BY <2>1 DEF LifeOf
  <2>5. Draft!Deliver(set)
    BY <2>2, <2>3, <2>4 DEF Draft!Deliver, Draft!Move
  <2> QED
    BY <2>2, <2>5
<1>9. ASSUME DeleteCard PROVE \E set \in SUBSET Items : Draft!Delete(set)
  <2> DEFINE set == {i \in Items : kind[i] = "card" /\ item[i] # "absent"}
  <2>1. /\ contested' = contested
        /\ \A i \in set : item'[i] = "deleted"
        /\ \A i \in Items \ set : item'[i] = item[i] /\ content'[i] = content[i]
    BY <1>9 DEF DeleteCard, history
  <2>2. \A i \in set : LifeOf(i) \in Draft!States /\ LifeOf(i)' = "deleted"
    BY <2>1, LifeIsState DEF LifeOf
  <2>3. \A i \in Items \ set : LifeOf(i)' = LifeOf(i)
    BY <2>1 DEF LifeOf
  <2>4. Draft!Delete(set)
    BY <2>2, <2>3 DEF Draft!Delete, Draft!Move
  <2> QED
    BY <2>4
<1>10. \/ \E i \in Items : (\E k \in Kinds : BeginDraft(i, k)) \/ CommitDraft(i) \/ FailDraft(i)
       \/ \E d \in Deciders : (\E i \in Items, v \in Decisions : ReadItem(d, i, v))
                              \/ Decide(d) \/ Mark(d)
       \/ DigestMark \/ DeleteCard
       \/ UNCHANGED <<item, content, contested>>
  BY DEF Next, Review, ReadContent, Send, DigestSelect, DigestSend, SetIntegration, Provision,
     Crash, vars, history
<1>11. \A i \in Items, v \in Decisions : Draft!Decide(i, v) => Draft!Next
  BY DEF Draft!Next, Decisions
<1> QED
  BY <1>1, <1>2, <1>3, <1>4, <1>5, <1>6, <1>7, <1>8, <1>9, <1>10, <1>11 DEF Draft!Next

\* A draft that only one reviewer decides lives as DraftLife says, whatever
\* else overlaps or crashes: decided once, sent only if approved, and what was
\* decided stays decided (approval_service.py:35-39).
THEOREM DraftsLived == Spec => DraftsLive
<1>1. Life = [i \in Items |-> LifeOf(i)]
  BY DEF Life
<1> QED
  BY InitLife, StepLife, IInvHolds, <1>1, PTL DEF Spec, DraftsLive, Draft!Spec, Life

-----------------------------------------------------------------------------
(* How often a draft is sent.                                              *)

Delivering(d, i) == dec[d].pc \in {"deliver", "sent"} /\ dec[d].item = i

\* Who is about to deliver an urgent briefing is the first to, and alone.
UrgentOnce(i) ==
    /\ sends[i] <= 1
    /\ \A d \in Deciders : dec[d].pc = "deliver" /\ dec[d].item = i => sends[i] = 0
    /\ \A d, e \in Deciders : Delivering(d, i) /\ Delivering(e, i) => d = e

\* Each sending of a digest but the last one was lost to a crash.
Marking(i) == digest.pc = "sent" /\ i \in digest.items
DigestOnce(i) ==
    /\ sends[i] <= 1 + crashes
    /\ digest.pc = "send" /\ i \in digest.items => content[i] = "approved"
    /\ content[i] = "approved" /\ ~Marking(i) => sends[i] <= crashes

FewSent == \A i \in Items :
    /\ item[i] \in Undrafted \/ (item[i] = "pending" /\ i \notin contested) => sends[i] = 0
    /\ kind[i] = "card" => sends[i] = 0
    /\ i \notin contested /\ kind[i] = "urgent" => UrgentOnce(i)
    /\ i \notin contested /\ kind[i] = "digest" => DigestOnce(i)

LEMMA FewSentStep == IInv /\ FewSent /\ [Next]_vars => FewSent'
<1> SUFFICES ASSUME TypeOK, Sound, FewSent, [Next]_vars PROVE FewSent'
  BY DEF IInv
<1>typed. /\ item \in [Items -> {"absent", "drafting", "failed", "pending", "deleted"} \cup Decisions]
          /\ kind \in [Items -> {"urgent", "digest", "card"}]
          /\ content \in [Items -> {"none", "pending", "delivered"} \cup Decisions]
          /\ dec \in [Deciders -> DecRec] /\ sends \in [Items -> Nat] /\ crashes \in Nat
          /\ digest.pc \in {"idle", "send", "sent"} /\ digest.items \in SUBSET Items
  BY ApprovalsAssumption DEF TypeOK, DecRec
<1>sound. /\ ReviewersHold /\ DecidesAlone /\ SendsApproved /\ DeletedAreCards /\ UndraftedUnknown
          /\ QueueAgrees
  BY DEF Sound
<1> USE DEF drafts, config, history
\* A step that sends nothing and neither decides nor marks.
<1>quiet. ASSUME UNCHANGED <<content, kind, sends, crashes, digest>>,
                 \A i \in Items : /\ item'[i] \in Undrafted => item[i] \in Undrafted
                                  /\ item'[i] = "pending" => item[i] \in Undrafted \cup {"pending"},
                 contested \subseteq contested', contested' \subseteq Items,
                 \A i \in Items : item[i] \in Undrafted => i \notin contested',
                 \A d \in Deciders : dec'[d].pc \in {"deliver", "sent"} =>
                   dec[d].item = dec'[d].item /\ dec[d].pc = dec'[d].pc
          PROVE  FewSent'
  <2> SUFFICES ASSUME NEW i \in Items
               PROVE  /\ item'[i] \in Undrafted \/ (item'[i] = "pending" /\ i \notin contested') => sends'[i] = 0
                      /\ kind'[i] = "card" => sends'[i] = 0
                      /\ i \notin contested' /\ kind'[i] = "urgent" => UrgentOnce(i)'
                      /\ i \notin contested' /\ kind'[i] = "digest" => DigestOnce(i)'
    BY DEF FewSent
  <2>1. UrgentOnce(i) => UrgentOnce(i)'
    BY <1>quiet DEF UrgentOnce, Delivering
  <2>2. DigestOnce(i) => DigestOnce(i)'
    BY <1>quiet DEF DigestOnce, Marking
  <2> QED
    BY <1>quiet, <2>1, <2>2 DEF FewSent
<1>1. ASSUME NEW i \in Items, NEW k \in Kinds, BeginDraft(i, k) PROVE FewSent'
  <2>1. sends[i] = 0 /\ i \notin contested /\ content[i] = "none"
    BY <1>1, <1>sound DEF BeginDraft, FewSent, Undrafted, UndraftedUnknown
  <2>2. i \notin digest.items /\ \A d \in Deciders : dec[d].pc # "idle" => dec[d].item # i
    BY <1>1, <1>sound DEF BeginDraft, SendsApproved, ReviewersHold, Undrafted
  <2>3. /\ item' = [item EXCEPT ![i] = "drafting"] /\ kind' = [kind EXCEPT ![i] = k]
        /\ UNCHANGED <<content, dec, digest, sends, contested, crashes>>
    BY <1>1 DEF BeginDraft
  <2>4. ASSUME NEW j \in Items
        PROVE  /\ item'[j] \in Undrafted \/ (item'[j] = "pending" /\ j \notin contested') => sends'[j] = 0
               /\ kind'[j] = "card" => sends'[j] = 0
               /\ j \notin contested' /\ kind'[j] = "urgent" => UrgentOnce(j)'
               /\ j \notin contested' /\ kind'[j] = "digest" => DigestOnce(j)'
    <3>1. UrgentOnce(j) => UrgentOnce(j)'
      BY <2>3 DEF UrgentOnce, Delivering
    <3>2. DigestOnce(j) => DigestOnce(j)'
      BY <2>3 DEF DigestOnce, Marking
    <3>3. CASE j = i
      <4>1. UrgentOnce(i)' /\ DigestOnce(i)'
        BY <2>1, <2>2, <2>3, <1>typed DEF UrgentOnce, DigestOnce, Delivering, Marking
      <4> QED
        BY <2>1, <2>3, <3>3, <4>1, <1>typed
    <3>4. CASE j # i
      BY <2>3, <3>1, <3>2, <3>4, <1>typed DEF FewSent
    <3> QED
      BY <3>3, <3>4
  <2> QED
    BY <2>4 DEF FewSent
<1>2. ASSUME NEW i \in Items, CommitDraft(i) PROVE FewSent'
  <2>1. /\ item[i] = "drafting" /\ item' = [item EXCEPT ![i] = "pending"]
        /\ content[i] = "none" /\ content' = [content EXCEPT ![i] = "pending"]
        /\ UNCHANGED <<kind, dec, digest, sends, contested, crashes>>
    BY <1>2, <1>sound DEF CommitDraft, UndraftedUnknown, Undrafted
  <2>2. i \notin digest.items
    BY <2>1, <1>sound DEF SendsApproved, Undrafted
  <2>3. ASSUME NEW j \in Items
        PROVE  /\ item'[j] \in Undrafted \/ (item'[j] = "pending" /\ j \notin contested') => sends'[j] = 0
               /\ kind'[j] = "card" => sends'[j] = 0
               /\ j \notin contested' /\ kind'[j] = "urgent" => UrgentOnce(j)'
               /\ j \notin contested' /\ kind'[j] = "digest" => DigestOnce(j)'
    <3>1. UrgentOnce(j) => UrgentOnce(j)'
      BY <2>1 DEF UrgentOnce, Delivering
    <3>2. DigestOnce(j) => DigestOnce(j)'
      BY <2>1, <2>2, <1>typed DEF DigestOnce, Marking
    <3> QED
      BY <2>1, <3>1, <3>2, <1>typed DEF FewSent, Undrafted
  <2> QED
    BY <2>3 DEF FewSent
<1>3. ASSUME NEW i \in Items, FailDraft(i) PROVE FewSent'
  BY <1>3, <1>quiet, <1>typed, <1>sound DEF FailDraft, Undrafted, UndraftedUnknown, TypeOK
<1>4. ASSUME NEW d \in Deciders, NEW i \in Items, NEW v \in Decisions, ReadItem(d, i, v) PROVE FewSent'
  <2>1. /\ dec' = [dec EXCEPT ![d] = [IdleDec EXCEPT !.pc = "item", !.item = i, !.decision = v]]
        /\ contested' \in {contested, contested \cup {i}} /\ item[i] = "pending"
        /\ UNCHANGED <<item, content, kind, sends, crashes, digest>>
    BY <1>4 DEF ReadItem
  <2>2. dec'[d].pc = "item"
    BY <2>1, <1>typed DEF IdleDec
  <2>3. \A e \in Deciders : e # d => dec'[e] = dec[e]
    BY <2>1, <1>typed
  <2>4. \A j \in Items : item[j] \in Undrafted => j \notin contested'
    BY <2>1, <1>sound DEF UndraftedUnknown, Undrafted
  <2>5. contested \subseteq contested' /\ contested' \subseteq Items
    BY <2>1 DEF TypeOK
  <2> QED
    BY <2>1, <2>2, <2>3, <2>4, <2>5, <1>quiet
<1>5. ASSUME NEW d \in Deciders, ReadContent(d) PROVE FewSent'
  <2>1. UNCHANGED <<item, content, kind, sends, crashes, digest, contested>>
    BY <1>5 DEF ReadContent
  <2>2. dec'[d].pc = "ready" /\ \A e \in Deciders : e # d => dec'[e] = dec[e]
    BY <1>5, <1>typed DEF ReadContent, DecRec
  <2> QED
    BY <2>1, <2>2, <1>quiet, <1>sound DEF UndraftedUnknown, TypeOK
<1>goal. ASSUME \A i \in Items :
                  /\ item'[i] \in Undrafted \/ (item'[i] = "pending" /\ i \notin contested') => sends'[i] = 0
                  /\ kind'[i] = "card" => sends'[i] = 0
                  /\ i \notin contested' /\ kind'[i] = "urgent" => UrgentOnce(i)'
                  /\ i \notin contested' /\ kind'[i] = "digest" => DigestOnce(i)'
         PROVE  FewSent'
  BY <1>goal DEF FewSent
<1>6. ASSUME NEW d \in Deciders, Decide(d) PROVE FewSent'
  <2>0. PICK i \in Items : i = dec[d].item
    BY <1>6, <1>sound DEF Decide, ReviewersHold
  <2>1. /\ dec[d].pc = "ready" /\ dec[d].decision \in Decisions
        /\ UNCHANGED <<kind, digest, sends, contested, crashes>>
    BY <1>6, <1>typed DEF Decide, DecRec
  <2>2. /\ \A j \in Items : j # i => item'[j] = item[j] /\ content'[j] = content[j]
        /\ item[i] = "deleted" => item'[i] = "deleted" /\ content'[i] = content[i]
        /\ item[i] # "deleted" => item'[i] = dec[d].decision
    BY <1>6, <2>0, <1>typed DEF Decide, Apply
  <2>3. /\ \A e \in Deciders : e # d => dec'[e] = dec[e]
        /\ dec'[d].pc \in {"idle", "deliver"}
        /\ dec'[d].pc = "deliver" => dec'[d].item = i
    BY <1>6, <2>0, <1>typed DEF Decide, AfterCommit, IdleDec, DecRec
  <2>4. ASSUME NEW j \in Items, j # i PROVE UrgentOnce(j) => UrgentOnce(j)'
    BY <2>1, <2>3, <2>4 DEF UrgentOnce, Delivering
  <2>5. ASSUME NEW j \in Items, j # i PROVE DigestOnce(j) => DigestOnce(j)'
    BY <2>1, <2>2, <2>5 DEF DigestOnce, Marking
  <2>6. item'[i] \notin Undrafted \cup {"pending"}
    BY <2>1, <2>2 DEF Undrafted, Decisions
  <2>7. ASSUME i \notin contested, kind[i] # "card" PROVE UrgentOnce(i)' /\ DigestOnce(i)'
    <3>1. item[i] = "pending" /\ sends[i] = 0
      BY <2>0, <2>1, <2>7, <1>sound DEF DecidesAlone, DeletedAreCards, Deciding, FewSent
    <3>2. \A e \in Deciders : ~Delivering(e, i)
      BY <2>7, <3>1, <1>sound DEF SendsApproved, Delivering
    <3>3. i \notin digest.items
      BY <2>7, <3>1, <1>sound DEF SendsApproved
    <3>4. UrgentOnce(i)'
      BY <2>1, <2>3, <3>1, <3>2 DEF UrgentOnce, Delivering
    <3>5. DigestOnce(i)'
      BY <2>1, <3>1, <3>3, <1>typed DEF DigestOnce
    <3> QED
      BY <3>4, <3>5
  <2>8. ASSUME NEW j \in Items
        PROVE  /\ item'[j] \in Undrafted \/ (item'[j] = "pending" /\ j \notin contested') => sends'[j] = 0
               /\ kind'[j] = "card" => sends'[j] = 0
               /\ j \notin contested' /\ kind'[j] = "urgent" => UrgentOnce(j)'
               /\ j \notin contested' /\ kind'[j] = "digest" => DigestOnce(j)'
    <3>1. CASE j = i
      BY <2>1, <2>6, <2>7, <3>1 DEF FewSent
    <3>2. CASE j # i
      BY <2>1, <2>2, <2>4, <2>5, <3>2 DEF FewSent
    <3> QED
      BY <3>1, <3>2
  <2> QED
    BY <2>8, <1>goal
<1>7. ASSUME NEW d \in Deciders, Send(d) PROVE FewSent'
  <2>0. PICK i \in Items : i = dec[d].item
    BY <1>7, <1>sound DEF Send, ReviewersHold
  <2>1. /\ dec[d].pc = "deliver" /\ item[i] \notin Undrafted
        /\ kind[i] = "urgent" /\ (i \notin contested => item[i] = "approved")
        /\ UNCHANGED <<item, content, kind, digest, contested, crashes>>
    BY <1>7, <2>0, <1>sound DEF Send, ReviewersHold, SendsApproved
  <2>2. CASE dec' = [dec EXCEPT ![d] = IdleDec] /\ sends' = sends
    <3>1. dec'[d].pc = "idle" /\ \A e \in Deciders : e # d => dec'[e] = dec[e]
      BY <2>2, <1>typed DEF IdleDec
    <3> QED
      BY <2>1, <2>2, <3>1, <1>quiet, <1>sound DEF UndraftedUnknown, TypeOK
  <2>3. CASE /\ dec' = [dec EXCEPT ![d] = [dec[d] EXCEPT !.pc = "sent", !.status = content[i]]]
             /\ SentOut({i})
    <3>1. /\ \A e \in Deciders : e # d => dec'[e] = dec[e]
          /\ dec'[d].pc = "sent" /\ dec'[d].item = i
      BY <2>0, <2>3, <1>typed DEF DecRec
    <3>2. sends'[i] = sends[i] + 1 /\ \A j \in Items : j # i => sends'[j] = sends[j]
      BY <2>1, <2>3 DEF SentOut
    <3>3. ASSUME i \notin contested PROVE UrgentOnce(i)'
      <4>1. UrgentOnce(i)
        BY <2>1, <3>3 DEF FewSent
      <4>2. sends[i] = 0 /\ \A e \in Deciders : Delivering(e, i) => e = d
        BY <2>0, <2>1, <4>1 DEF UrgentOnce, Delivering
      <4> QED
        BY <3>1, <3>2, <4>2 DEF UrgentOnce, Delivering
    <3>4. ASSUME NEW j \in Items, j # i PROVE UrgentOnce(j) => UrgentOnce(j)'
      BY <3>1, <3>2, <3>4 DEF UrgentOnce, Delivering
    <3>5. ASSUME NEW j \in Items, j # i PROVE DigestOnce(j) => DigestOnce(j)'
      BY <2>1, <3>2, <3>5 DEF DigestOnce, Marking
    <3>6. ASSUME NEW j \in Items
          PROVE  /\ item'[j] \in Undrafted \/ (item'[j] = "pending" /\ j \notin contested') => sends'[j] = 0
                 /\ kind'[j] = "card" => sends'[j] = 0
                 /\ j \notin contested' /\ kind'[j] = "urgent" => UrgentOnce(j)'
                 /\ j \notin contested' /\ kind'[j] = "digest" => DigestOnce(j)'
      <4>1. CASE j = i
        BY <2>1, <3>3, <4>1
      <4>2. CASE j # i
        BY <2>1, <3>2, <3>4, <3>5, <4>2 DEF FewSent
      <4> QED
        BY <4>1, <4>2
    <3> QED
      BY <3>6, <1>goal
  <2> QED
    BY <1>7, <2>0, <2>2, <2>3 DEF Send
<1>8. ASSUME NEW d \in Deciders, Mark(d) PROVE FewSent'
  <2>0. PICK i \in Items : i = dec[d].item
    BY <1>8, <1>sound DEF Mark, ReviewersHold
  <2>1. /\ dec[d].pc = "sent" /\ kind[i] = "urgent"
        /\ UNCHANGED <<item, kind, digest, sends, contested, crashes>>
        /\ \A j \in Items : j # i => content'[j] = content[j]
    BY <1>8, <2>0, <1>sound, <1>typed DEF Mark, SendsApproved
  <2>2. dec'[d].pc = "idle" /\ \A e \in Deciders : e # d => dec'[e] = dec[e]
    BY <1>8, <1>typed DEF Mark, IdleDec
  <2>3. ASSUME NEW j \in Items PROVE UrgentOnce(j) => UrgentOnce(j)'
    BY <2>1, <2>2 DEF UrgentOnce, Delivering
  <2>4. ASSUME NEW j \in Items, kind[j] = "digest" PROVE DigestOnce(j) => DigestOnce(j)'
    BY <2>1, <2>4 DEF DigestOnce, Marking
  <2> QED
    BY <2>1, <2>3, <2>4, <1>goal DEF FewSent
<1>9. CASE DigestSelect
  <2>1. /\ UNCHANGED <<item, content, kind, dec, sends, contested, crashes>>
        /\ digest.pc = "idle" /\ digest'.pc = "send" /\ digest'.items = Waiting
    BY <1>9 DEF DigestSelect
  <2>2. ASSUME NEW j \in Items PROVE UrgentOnce(j) => UrgentOnce(j)'
    BY <2>1 DEF UrgentOnce, Delivering
  <2>3. ASSUME NEW j \in Items PROVE DigestOnce(j) => DigestOnce(j)'
    BY <2>1 DEF DigestOnce, Marking, Waiting
  <2> QED
    BY <2>1, <2>2, <2>3, <1>goal DEF FewSent
<1>10. ASSUME NEW ok \in SUBSET Providers, DigestSend(ok) PROVE FewSent'
  <2>1. /\ UNCHANGED <<item, content, kind, dec, contested, crashes>>
        /\ digest.pc = "send"
        /\ \A j \in digest.items : /\ j \in Items /\ kind[j] = "digest" /\ item[j] \notin Undrafted
                                   /\ j \notin contested => item[j] = "approved"
    BY <1>10, <1>sound, <1>typed DEF DigestSend, SendsApproved
  <2>2. CASE digest' = IdleDigest /\ sends' = sends
    <3>1. ASSUME NEW j \in Items PROVE UrgentOnce(j) => UrgentOnce(j)'
      BY <2>1, <2>2 DEF UrgentOnce, Delivering
    <3>2. ASSUME NEW j \in Items PROVE DigestOnce(j) => DigestOnce(j)'
      BY <2>1, <2>2 DEF DigestOnce, Marking, IdleDigest
    <3> QED
      BY <2>1, <2>2, <3>1, <3>2, <1>goal DEF FewSent
  <2>3. CASE digest' = [digest EXCEPT !.pc = "sent"] /\ SentOut(digest.items)
    <3>1. digest'.pc = "sent" /\ digest'.items = digest.items
      BY <2>3 DEF TypeOK
    <3>2. /\ \A j \in Items : j \notin digest.items => sends'[j] = sends[j]
          /\ \A j \in digest.items : sends'[j] = sends[j] + 1
      BY <2>1, <2>3 DEF SentOut
    <3>3. ASSUME NEW j \in Items, kind[j] = "urgent" PROVE UrgentOnce(j) => UrgentOnce(j)'
      BY <2>1, <3>2, <3>3 DEF UrgentOnce, Delivering
    <3>4. ASSUME NEW j \in Items PROVE DigestOnce(j) => DigestOnce(j)'
      <4>1. CASE j \in digest.items
        BY <2>1, <3>1, <3>2, <4>1, <1>typed DEF DigestOnce, Marking
      <4>2. CASE j \notin digest.items
        BY <2>1, <3>1, <3>2, <4>2 DEF DigestOnce, Marking
      <4> QED
        BY <4>1, <4>2
    <3> QED
      BY <2>1, <3>2, <3>3, <3>4, <1>goal DEF FewSent
  <2> QED
    BY <1>10, <2>2, <2>3 DEF DigestSend
<1>11. CASE DigestMark
  <2>1. /\ UNCHANGED <<item, kind, dec, sends, contested, crashes>>
        /\ digest.pc = "sent" /\ digest'.pc = "idle"
        /\ \A j \in Items : content'[j] = IF j \in digest.items THEN "delivered" ELSE content[j]
    BY <1>11 DEF DigestMark, IdleDigest
  <2>2. ASSUME NEW j \in Items PROVE UrgentOnce(j) => UrgentOnce(j)'
    BY <2>1 DEF UrgentOnce, Delivering
  <2>3. ASSUME NEW j \in Items PROVE DigestOnce(j) => DigestOnce(j)'
    BY <2>1 DEF DigestOnce, Marking
  <2> QED
    BY <2>1, <2>2, <2>3, <1>goal DEF FewSent
<1>12. ASSUME NEW p \in Providers, SetIntegration(p) PROVE FewSent'
  BY <1>12, <1>quiet, <1>sound DEF SetIntegration, UndraftedUnknown, TypeOK
<1>13. CASE Provision
  BY <1>13, <1>quiet, <1>sound DEF Provision, UndraftedUnknown, TypeOK
<1>14. CASE DeleteCard
  <2>1. /\ UNCHANGED <<kind, dec, digest, sends, contested, crashes>>
        /\ \A j \in Items : item'[j] # item[j] => kind[j] = "card" /\ item'[j] = "deleted"
        /\ \A j \in Items : kind[j] # "card" => content'[j] = content[j]
    BY <1>14 DEF DeleteCard
  <2>2. ASSUME NEW j \in Items PROVE UrgentOnce(j) => UrgentOnce(j)'
    BY <2>1 DEF UrgentOnce, Delivering
  <2>3. ASSUME NEW j \in Items, kind[j] # "card" PROVE DigestOnce(j) => DigestOnce(j)'
    BY <2>1, <2>3 DEF DigestOnce, Marking
  <2> QED
    BY <2>1, <2>2, <2>3, <1>goal DEF FewSent
<1>15. CASE Crash
  <2>1. /\ UNCHANGED <<item, content, kind, sends, contested>>
        /\ crashes' = crashes + 1 /\ digest'.pc = "idle"
        /\ \A d \in Deciders : dec'[d].pc = "idle"
    BY <1>15 DEF Crash, IdleDec, IdleDigest
  <2>2. ASSUME NEW j \in Items PROVE UrgentOnce(j) => UrgentOnce(j)'
    BY <2>1 DEF UrgentOnce, Delivering
  <2>3. ASSUME NEW j \in Items PROVE DigestOnce(j) => DigestOnce(j)'
    BY <2>1, <1>typed DEF DigestOnce, Marking
  <2> QED
    BY <2>1, <2>2, <2>3, <1>goal DEF FewSent
<1>16. CASE UNCHANGED vars
  BY <1>16, <1>quiet, <1>sound DEF vars, UndraftedUnknown, TypeOK
<1> QED
  BY <1>1, <1>2, <1>3, <1>4, <1>5, <1>6, <1>7, <1>8, <1>9, <1>10, <1>11, <1>12, <1>13,
     <1>14, <1>15, <1>16 DEF Next, Review

LEMMA FewSentInit == Init => FewSent
  BY DEF Init, FewSent, UrgentOnce, DigestOnce, Delivering, Marking, IdleDec, IdleDigest

\* A reader gets an urgent briefing at most once, and a digest's at most once
\* more than the web process died, unless two reviewers decided it at the same
\* time (approval_service.py:83-133, deliver_digest).
THEOREM SentAtMostOnce == Spec => []SentOnce
<1>1. IInv /\ FewSent /\ [Next]_vars => FewSent'
  BY FewSentStep
<1>2. IInv /\ FewSent => SentOnce
  <2> SUFFICES ASSUME IInv, FewSent, NEW i \in Items \ contested
               PROVE  sends[i] <= IF kind[i] = "digest" THEN 1 + crashes ELSE 1
    BY DEF SentOnce
  <2>1. kind[i] \in {"urgent", "digest", "card"}
    BY DEF IInv, TypeOK
  <2> QED
    BY <2>1 DEF FewSent, UrgentOnce, DigestOnce
<1> QED
  BY IInvHolds, FewSentInit, <1>1, <1>2, PTL DEF Spec

-----------------------------------------------------------------------------
(* The battlecard.                                                         *)

ApprovedCards == {i \in Items : kind[i] = "card" /\ item[i] = "approved"}
Queued(i) == item[i] \in {"pending"} \cup Decisions
UncontestedCards == \A i \in contested : kind[i] # "card"

\* Updates in the queue, and those drafted from a battlecard, have one.
CardThere ==
    /\ ~card.there => card = NoCard
    /\ \A i \in Items : kind[i] = "card" =>
         /\ Queued(i) => card.there
         /\ item[i] = "drafting" /\ i \notin inserting => card.there

CardText == UncontestedCards =>
    card.text = {} \/ \E i \in ApprovedCards : card.text = proposal[i]

\* One reviewer at a time decides an update, on the version that is there.
CardVersion == ~crowded =>
    /\ UncontestedCards
    /\ \A d, e \in CardRivals : d = e
    /\ \A d \in CardRivals :
         dec[d].pc = "ready" /\ item[dec[d].item] # "deleted" => dec[d].version = card.version
    /\ card.version = Cardinality(ApprovedCards)

CardSound == CardThere /\ CardText /\ CardVersion /\ IsFiniteSet(ApprovedCards)

LEMMA CardInit == Init => CardSound
<1> SUFFICES ASSUME Init PROVE CardSound
  OBVIOUS
<1>1. ApprovedCards = {} /\ CardRivals = {}
  BY DEF Init, ApprovedCards, CardRivals, Deciding, IdleDec
<1>2. IsFiniteSet({}) /\ Cardinality({}) = 0
  BY FS_EmptySet
<1> QED
  BY <1>1, <1>2 DEF Init, CardSound, CardThere, CardText, CardVersion, UncontestedCards, Queued,
     NoCard, Decisions

LEMMA CardStep == IInv /\ CardSound /\ [Next]_vars => CardSound'
<1> SUFFICES ASSUME TypeOK, Sound, CardSound, [Next]_vars PROVE CardSound'
  BY DEF IInv
<1>typed. /\ item \in [Items -> {"absent", "drafting", "failed", "pending", "deleted"} \cup Decisions]
          /\ kind \in [Items -> {"urgent", "digest", "card"}]
          /\ proposal \in [Items -> SUBSET Items]
          /\ dec \in [Deciders -> DecRec] /\ contested \in SUBSET Items /\ crowded \in BOOLEAN
          /\ card \in [there : BOOLEAN, version : Nat, text : SUBSET Items]
  BY ApprovalsAssumption DEF TypeOK, DecRec
<1>sound. /\ ReviewersHold /\ DecidesAlone /\ UndraftedUnknown
          /\ CardThere /\ CardText /\ CardVersion /\ IsFiniteSet(ApprovedCards)
  BY DEF Sound, CardSound
<1> USE DEF drafts, config, history
\* Steps that touch neither drafts, their decisions nor the battlecard.
<1>quiet. ASSUME UNCHANGED <<item, kind, proposal, inserting, card, contested, crowded>>,
                 \A d \in Deciders : dec'[d].pc \in {"item", "ready"} =>
                   /\ dec[d].pc \in {"item", "ready"} /\ dec'[d].item = dec[d].item
                   /\ dec'[d].pc = "ready" =>
                        dec'[d].version = card.version \/ dec'[d] = dec[d]
          PROVE  CardSound'
  <2>1. ApprovedCards' = ApprovedCards /\ (UncontestedCards' <=> UncontestedCards)
    BY <1>quiet DEF ApprovedCards, UncontestedCards
  <2>2. CardRivals' \subseteq CardRivals
    BY <1>quiet DEF CardRivals, Deciding
  <2>3. CardThere' /\ CardText'
    BY <1>quiet, <1>sound, <2>1 DEF CardThere, CardText, Queued
  <2>4. \A d \in CardRivals : d \in Deciders
    BY DEF CardRivals
  <2>5. CardVersion'
    BY <1>quiet, <1>sound, <2>1, <2>2, <2>4 DEF CardVersion, CardRivals, Deciding
  <2> QED
    BY <1>sound, <2>1, <2>3, <2>5 DEF CardSound
<1>1. ASSUME NEW i \in Items, NEW k \in Kinds, BeginDraft(i, k) PROVE CardSound'
  <2>1. /\ item[i] = "absent" /\ item' = [item EXCEPT ![i] = "drafting"]
        /\ kind' = [kind EXCEPT ![i] = k]
        /\ \A j \in Items : j # i => proposal'[j] = proposal[j]
        /\ inserting' = IF k = "card" /\ ~card.there THEN inserting \cup {i} ELSE inserting
        /\ UNCHANGED <<card, dec, contested, crowded>>
    BY <1>1, <1>typed DEF BeginDraft
  <2>2. i \notin contested /\ \A d \in Deciders : dec[d].pc # "idle" => dec[d].item \in Items \ {i}
    BY <2>1, <1>sound DEF ReviewersHold, UndraftedUnknown, Undrafted
  <2>3. \A j \in Items : j # i => item'[j] = item[j] /\ kind'[j] = kind[j]
    BY <2>1, <1>typed
  <2>4. item'[i] = "drafting" /\ kind'[i] = k
    BY <2>1, <1>typed
  <2>5. ApprovedCards' = ApprovedCards /\ i \notin ApprovedCards /\ (UncontestedCards' <=> UncontestedCards)
    BY <2>1, <2>2, <2>3, <2>4, <1>typed DEF ApprovedCards, UncontestedCards
  <2>6. CardRivals' = CardRivals /\ \A d \in CardRivals : dec[d].item \in Items \ {i}
    BY <2>1, <2>2, <2>3 DEF CardRivals, Deciding
  <2>7. CardThere'
    BY <2>1, <2>3, <2>4, <1>sound DEF CardThere, Queued, Decisions
  <2>8. CardText'
    BY <2>1, <2>5, <1>sound DEF CardText, ApprovedCards
  <2>9. CardVersion'
    BY <2>1, <2>3, <2>5, <2>6, <1>sound DEF CardVersion
  <2> QED
    BY <2>5, <2>7, <2>8, <2>9, <1>sound DEF CardSound
<1>2. ASSUME NEW i \in Items, CommitDraft(i) PROVE CardSound'
  <2>1. /\ item[i] = "drafting" /\ (i \in inserting => ~card.there)
        /\ item' = [item EXCEPT ![i] = "pending"]
        /\ card' = IF i \in inserting THEN [NoCard EXCEPT !.there = TRUE] ELSE card
        /\ inserting' = inserting \ {i}
        /\ UNCHANGED <<kind, proposal, dec, contested, crowded>>
    BY <1>2 DEF CommitDraft
  <2>2. item'[i] = "pending" /\ \A j \in Items : j # i => item'[j] = item[j]
    BY <2>1, <1>typed
  <2>3. ApprovedCards' = ApprovedCards /\ (UncontestedCards' <=> UncontestedCards)
    BY <2>1, <2>2 DEF ApprovedCards, UncontestedCards
  <2>4. CardRivals' = CardRivals
    BY <2>1 DEF CardRivals, Deciding
  <2>5. card'.there = (card.there \/ i \in inserting)
    BY <2>1, <1>typed DEF NoCard
  <2>6. CardThere'
    BY <2>1, <2>2, <2>5, <1>typed, <1>sound DEF CardThere, Queued, Decisions
  <2>7. CASE i \notin inserting
    <3>1. card' = card
      BY <2>1, <2>7
    <3>2. \A d \in CardRivals : item'[dec[d].item] # "deleted" => item[dec[d].item] # "deleted"
      BY <2>1, <2>2, <1>sound DEF CardRivals, Deciding, ReviewersHold
    <3>3. CardText'
      BY <2>1, <2>3, <3>1, <1>sound DEF CardText
    <3>4. CardVersion'
      BY <2>1, <2>3, <2>4, <3>1, <3>2, <1>sound DEF CardVersion
    <3> QED
      BY <2>3, <2>6, <3>3, <3>4, <1>sound DEF CardSound
  <2>8. CASE i \in inserting
    <3>1. ~card.there /\ card'.text = {} /\ card'.version = 0
      BY <2>1, <2>8 DEF NoCard
    <3>2. \A j \in Items : kind[j] = "card" => ~Queued(j)
      BY <3>1, <1>sound DEF CardThere
    <3>3. ApprovedCards = {}
      BY <3>2 DEF ApprovedCards, Queued, Decisions
    <3>4. \A d \in CardRivals : item'[dec[d].item] = "deleted"
      <4> SUFFICES ASSUME NEW d \in CardRivals PROVE item'[dec[d].item] = "deleted"
        OBVIOUS
      <4>1. /\ d \in Deciders /\ dec[d].pc # "idle" /\ kind[dec[d].item] = "card"
        BY DEF CardRivals, Deciding
      <4>2. dec[d].item \in Items /\ item[dec[d].item] \notin Undrafted /\ ~Queued(dec[d].item)
        BY <4>1, <3>2, <1>sound DEF ReviewersHold
      <4>3. item[dec[d].item] = "deleted" /\ dec[d].item # i
        BY <4>2, <2>1, <1>typed DEF Undrafted, Queued
      <4> QED
        BY <4>2, <4>3, <2>2
    <3>5. CardText'
      BY <3>1 DEF CardText
    <3>6. CardVersion'
      BY <2>1, <2>3, <2>4, <3>1, <3>3, <3>4, <1>sound, FS_EmptySet DEF CardVersion
    <3> QED
      BY <2>3, <2>6, <3>5, <3>6, <1>sound DEF CardSound
  <2> QED
    BY <2>7, <2>8
<1>3. ASSUME NEW i \in Items, FailDraft(i) PROVE CardSound'
  <2>1. /\ item[i] = "drafting" /\ item' = [item EXCEPT ![i] = "failed"]
        /\ inserting' = inserting \ {i}
        /\ UNCHANGED <<kind, proposal, card, dec, contested, crowded>>
    BY <1>3 DEF FailDraft
  <2>2. item'[i] = "failed" /\ \A j \in Items : j # i => item'[j] = item[j]
    BY <2>1, <1>typed
  <2>3. ApprovedCards' = ApprovedCards /\ (UncontestedCards' <=> UncontestedCards)
    BY <2>1, <2>2 DEF ApprovedCards, UncontestedCards
  <2>4. CardRivals' = CardRivals
    BY <2>1 DEF CardRivals, Deciding
  <2>5. CardThere'
    BY <2>1, <2>2, <1>sound DEF CardThere, Queued, Decisions
  <2>6. CardText'
    BY <2>1, <2>3, <1>sound DEF CardText
  <2>7. \A d \in CardRivals : item'[dec[d].item] # "deleted" => item[dec[d].item] # "deleted"
    BY <2>1, <2>2, <1>sound DEF CardRivals, Deciding, ReviewersHold
  <2>8. CardVersion'
    BY <2>1, <2>3, <2>4, <2>7, <1>sound DEF CardVersion
  <2> QED
    BY <2>3, <2>5, <2>6, <2>8, <1>sound DEF CardSound
<1>4. ASSUME NEW d \in Deciders, NEW i \in Items, NEW v \in Decisions, ReadItem(d, i, v)
      PROVE  CardSound'
  <2>1. /\ contested' = IF Rivals(i) = {} THEN contested ELSE contested \cup {i}
        /\ crowded' = (crowded \/ (kind[i] = "card" /\ CardRivals # {}))
        /\ UNCHANGED <<item, kind, proposal, inserting, card>>
    BY <1>4 DEF ReadItem
  <2>2. /\ dec'[d].pc = "item" /\ dec'[d].item = i
        /\ \A e \in Deciders : e # d => dec'[e] = dec[e]
    BY <1>4, <1>typed DEF ReadItem, IdleDec
  <2>3. ApprovedCards' = ApprovedCards /\ (UncontestedCards' => UncontestedCards)
    BY <2>1 DEF ApprovedCards, UncontestedCards
  <2>4. CardThere' /\ CardText'
    BY <2>1, <2>3, <1>sound DEF CardThere, CardText, Queued
  <2>5. CardVersion'
    <3> SUFFICES ASSUME ~crowded' PROVE CardVersion'
      BY DEF CardVersion
    <3>1. ~crowded /\ (kind[i] = "card" => CardRivals = {})
      BY <2>1, <1>typed
    <3>2. kind[i] = "card" => Rivals(i) = {}
      BY <3>1 DEF CardRivals, Rivals
    <3>3. UncontestedCards'
      BY <2>1, <3>1, <3>2, <1>sound DEF UncontestedCards, CardVersion
    <3>4. CardRivals' = IF kind[i] = "card" THEN {d} ELSE CardRivals \ {d}
      BY <2>1, <2>2, <3>1 DEF CardRivals, Deciding
    <3>5. \A e \in CardRivals' : e = d \/ (e \in CardRivals /\ dec'[e] = dec[e])
      BY <2>2, <3>4 DEF CardRivals
    <3>6. \A e, f \in CardRivals' : e = f
      BY <3>1, <3>4, <1>sound DEF CardVersion
    <3>7. \A e \in CardRivals' :
            dec'[e].pc = "ready" /\ item'[dec'[e].item] # "deleted" => dec'[e].version = card'.version
      BY <2>1, <2>2, <3>1, <3>5, <1>sound DEF CardVersion
    <3>8. card'.version = Cardinality(ApprovedCards)'
      BY <2>1, <2>3, <3>1, <1>sound DEF CardVersion
    <3> QED
      BY <3>3, <3>6, <3>7, <3>8 DEF CardVersion
  <2> QED
    BY <2>3, <2>4, <2>5, <1>sound DEF CardSound
<1>5. ASSUME NEW d \in Deciders, ReadContent(d) PROVE CardSound'
  <2>1. /\ dec[d].pc = "item" /\ dec'[d].pc = "ready" /\ dec'[d].item = dec[d].item
        /\ dec'[d].version = card.version
        /\ \A e \in Deciders : e # d => dec'[e] = dec[e]
    BY <1>5, <1>typed DEF ReadContent, DecRec
  <2>2. UNCHANGED <<item, kind, proposal, inserting, card, contested, crowded>>
    BY <1>5 DEF ReadContent
  <2> QED
    BY <2>1, <2>2, <1>quiet
<1>6. ASSUME NEW d \in Deciders, Decide(d) PROVE CardSound'
  <2>0. PICK i \in Items : i = dec[d].item
    BY <1>6, <1>sound DEF Decide, ReviewersHold
  <2>1. /\ dec[d].pc = "ready" /\ dec[d].decision \in Decisions /\ item[i] \notin Undrafted
        /\ UNCHANGED <<kind, proposal, inserting, contested, crowded>>
    BY <1>6, <2>0, <1>typed, <1>sound DEF Decide, DecRec, ReviewersHold
  <2>2. dec'[d].pc \notin {"item", "ready"} /\ \A e \in Deciders : e # d => dec'[e] = dec[e]
    BY <1>6, <1>typed DEF Decide, AfterCommit, IdleDec, DecRec
  <2>3. CASE item[i] = "deleted"
    <3>1. UNCHANGED <<item, card>>
      BY <1>6, <2>0, <2>3 DEF Decide
    <3> QED
      BY <2>1, <2>2, <3>1, <1>quiet
  <2>4. CASE item[i] # "deleted" /\ (kind[i] = "card" => dec[d].decision = "rejected" /\ item[i] # "approved")
    <3>1. /\ item' = [item EXCEPT ![i] = dec[d].decision] /\ card' = card
      BY <1>6, <2>0, <2>4 DEF Decide, Apply
    <3>2. item'[i] \in Decisions /\ \A j \in Items : j # i => item'[j] = item[j]
      BY <2>1, <3>1, <1>typed
    <3>3. ApprovedCards' = ApprovedCards /\ (UncontestedCards' <=> UncontestedCards)
      BY <2>1, <2>4, <3>1, <3>2, <1>typed DEF ApprovedCards, UncontestedCards
    <3>4. Queued(i)
      BY <2>1, <2>4, <1>typed DEF Queued, Undrafted
    <3>5. CardThere' /\ CardText'
      BY <2>1, <3>1, <3>2, <3>3, <3>4, <1>sound DEF CardThere, CardText, Queued, Decisions
    <3>6. /\ CardRivals' \subseteq CardRivals
          /\ \A e \in CardRivals' : e \in Deciders /\ dec'[e] = dec[e] /\ dec[e].item \in Items
      BY <2>1, <2>2, <1>sound DEF CardRivals, Deciding, ReviewersHold
    <3>7. \A j \in Items : item'[j] # "deleted" => item[j] # "deleted"
      BY <2>4, <3>2
    <3>8. CardVersion'
      BY <2>1, <3>1, <3>3, <3>6, <3>7, <1>sound DEF CardVersion
    <3> QED
      BY <3>3, <3>5, <3>8, <1>sound DEF CardSound
  <2>5. CASE item[i] # "deleted" /\ kind[i] = "card" /\ ~(dec[d].decision = "rejected" /\ item[i] # "approved")
    <3>1. item' = [item EXCEPT ![i] = dec[d].decision]
      BY <1>6, <2>0, <2>5 DEF Decide
    <3>2. item'[i] = dec[d].decision /\ \A j \in Items : j # i => item'[j] = item[j]
      BY <2>1, <3>1, <1>typed
    <3>3. Queued(i) /\ card.there
      BY <2>1, <2>5, <1>typed, <1>sound DEF Queued, Undrafted, CardThere
    <3>4. \/ dec[d].decision = "rejected" /\ card' = card
          \/ /\ dec[d].decision = "approved" /\ card'.there = card.there
             /\ card'.version = dec[d].version + 1
             /\ card'.text \in {card.text, proposal[i]}
      BY <1>6, <2>0, <2>1, <2>5, <1>typed DEF Decide, Apply, Decisions
    <3>5. CardThere'
      BY <2>1, <3>2, <3>3, <3>4, <1>typed, <1>sound DEF CardThere, Queued, Decisions
    <3>6. ApprovedCards' \subseteq ApprovedCards \cup {i}
      BY <2>1, <3>2 DEF ApprovedCards
    <3>7. IsFiniteSet(ApprovedCards \cup {i})
      BY <1>sound, FS_AddElement
    <3>8. IsFiniteSet(ApprovedCards')
      BY <3>6, <3>7, FS_Subset
    \* A reviewer who is alone found the update undecided.
    <3>9. ASSUME i \notin contested
          PROVE  /\ dec[d].decision = "approved" /\ item[i] = "pending"
                 /\ ApprovedCards' = ApprovedCards \cup {i} /\ i \notin ApprovedCards
      <4>1. item[i] = "pending"
        BY <2>0, <2>1, <2>5, <3>9, <1>sound DEF DecidesAlone, Deciding
      <4>2. dec[d].decision = "approved"
        BY <2>1, <2>5, <4>1 DEF Decisions
      <4> QED
        BY <2>1, <2>5, <3>2, <4>1, <4>2 DEF ApprovedCards
    <3>10. CardText'
      <4> SUFFICES ASSUME UncontestedCards' PROVE CardText'
        BY DEF CardText
      <4>1. UncontestedCards /\ i \notin contested
        BY <2>1, <2>5 DEF UncontestedCards
      <4>2. card'.text \in {card.text, proposal[i]} /\ i \in ApprovedCards'
        BY <3>4, <3>9, <4>1
      <4>3. card.text = {} \/ \E j \in ApprovedCards' : card.text = proposal[j]
        BY <3>9, <4>1, <1>sound DEF CardText
      <4> QED
        BY <2>1, <4>2, <4>3 DEF CardText
    <3>11. CardVersion'
      <4> SUFFICES ASSUME ~crowded' PROVE CardVersion'
        BY DEF CardVersion
      <4>1. ~crowded /\ UncontestedCards /\ i \notin contested
        BY <2>1, <2>5, <1>sound DEF CardVersion, UncontestedCards
      <4>2. UncontestedCards'
        BY <2>1, <4>1 DEF UncontestedCards
      <4>3. d \in CardRivals
        BY <2>0, <2>1, <2>5 DEF CardRivals, Deciding
      <4>4. CardRivals' = {}
        BY <2>1, <2>2, <4>1, <4>3, <1>sound DEF CardRivals, Deciding, CardVersion
      <4>5. dec[d].version = card.version /\ card.version = Cardinality(ApprovedCards)
        BY <2>0, <2>1, <2>5, <4>1, <4>3, <1>sound DEF CardVersion
      <4>6. Cardinality(ApprovedCards \cup {i}) = Cardinality(ApprovedCards) + 1
        BY <3>9, <4>1, <1>sound, FS_AddElement
      <4>7. card'.version = Cardinality(ApprovedCards)'
        BY <3>4, <3>9, <4>1, <4>5, <4>6
      <4> QED
        BY <4>2, <4>4, <4>7 DEF CardVersion
    <3> QED
      BY <3>5, <3>8, <3>10, <3>11 DEF CardSound
  <2> QED
    BY <2>3, <2>4, <2>5
<1>7. CASE DeleteCard
  <2>1. /\ \A j \in Items : kind[j] = "card" /\ item[j] # "absent" => item'[j] = "deleted"
        /\ \A j \in Items : ~(kind[j] = "card" /\ item[j] # "absent") => item'[j] = item[j]
        /\ card' = NoCard
        /\ UNCHANGED <<kind, proposal, inserting, dec, contested, crowded>>
    BY <1>7 DEF DeleteCard
  <2>2. ApprovedCards' = {}
    BY <2>1 DEF ApprovedCards
  <2>3. CardThere'
    BY <2>1 DEF CardThere, Queued, Decisions
  <2>4. card'.text = {} /\ card'.version = 0
    BY <2>1 DEF NoCard
  <2>5. CardRivals' = CardRivals /\ \A d \in CardRivals : item'[dec[d].item] = "deleted"
    BY <2>1, <1>sound DEF CardRivals, Deciding, ReviewersHold, Undrafted
  <2>6. UncontestedCards' <=> UncontestedCards
    BY <2>1 DEF UncontestedCards
  <2>7. CardVersion'
    BY <2>1, <2>2, <2>4, <2>5, <2>6, <1>sound, FS_EmptySet DEF CardVersion
  <2> QED
    BY <2>2, <2>3, <2>4, <2>7, FS_EmptySet DEF CardSound, CardText
<1>8. ASSUME NEW d \in Deciders, Send(d) PROVE CardSound'
  <2>1. dec'[d].pc \in {"idle", "sent"} /\ \A e \in Deciders : e # d => dec'[e] = dec[e]
    BY <1>8, SendMoves
  <2>2. UNCHANGED <<item, kind, proposal, inserting, card, contested, crowded>>
    BY <1>8 DEF Send
  <2> QED
    BY <2>1, <2>2, <1>quiet
<1>9. ASSUME NEW d \in Deciders, Mark(d) PROVE CardSound'
  <2>1. dec'[d].pc = "idle" /\ \A e \in Deciders : e # d => dec'[e] = dec[e]
    BY <1>9, <1>typed DEF Mark, IdleDec
  <2>2. UNCHANGED <<item, kind, proposal, inserting, card, contested, crowded>>
    BY <1>9 DEF Mark
  <2> QED
    BY <2>1, <2>2, <1>quiet
<1>10. CASE Crash
  <2>1. \A d \in Deciders : dec'[d].pc = "idle"
    BY <1>10 DEF Crash, IdleDec
  <2>2. UNCHANGED <<item, kind, proposal, inserting, card, contested, crowded>>
    BY <1>10 DEF Crash
  <2> QED
    BY <2>1, <2>2, <1>quiet
<1>11. CASE DigestSelect \/ (\E ok \in SUBSET Providers : DigestSend(ok)) \/ DigestMark
            \/ (\E p \in Providers : SetIntegration(p)) \/ Provision \/ UNCHANGED vars
  <2>1. UNCHANGED <<item, kind, proposal, inserting, card, dec, contested, crowded>>
    BY <1>11 DEF DigestSelect, DigestSend, DigestMark, SetIntegration, Provision, vars
  <2> QED
    BY <2>1, <1>quiet
<1> QED
  BY <1>1, <1>2, <1>3, <1>4, <1>5, <1>6, <1>7, <1>8, <1>9, <1>10, <1>11 DEF Next, Review

\* The battlecard's text is that of an update a reviewer approved, and its
\* version counts the approved ones, unless two reviewers decided one update,
\* or two updates, at the same time (models/battlecard.py:8-11).
THEOREM CardIsApproved == Spec => []CardApproved
<1>1. IInv /\ CardSound /\ [Next]_vars => CardSound'
  BY CardStep
<1>2. CardSound => CardApproved
  BY DEF CardSound, CardText, CardVersion, CardApproved, ApprovedCards, UncontestedCards
<1> QED
  BY IInvHolds, CardInit, <1>1, <1>2, PTL DEF Spec

=============================================================================
