------------------------- MODULE CheckContentProofs -------------------------
(***************************************************************************)
(* What the cap of Budget promises, that checks keep its contract, and     *)
(* that the change logs of a page tell its whole story, for every page,    *)
(* every history and every number of checks.                               *)
(***************************************************************************)
EXTENDS CheckContent, FiniteSetTheorems, WellFoundedInduction, TLAPS

-----------------------------------------------------------------------------
(* Budget, for every number of callers, every cap and every usage: each    *)
(* caller under way holds a call's worth of what is left.                  *)

Busy == {c \in Callers : call[c].pc # "idle"}
Spare == Cardinality(Callers) - Cardinality(Busy)

\* The cap in force is never above what it is taken to be.
CapBelowLimit ==
    /\ cap = NoCap <=> limit = NoCap
    /\ cap # NoCap => cap <= limit

\* A caller that is under way has used its share of the overshoot.
RoomLeft == limit # NoCap => logged < limit + MaxTokens * Spare

IInv == BudgetTypeOK /\ CapBelowLimit /\ RoomLeft

LEMMA Times ==
    \A a, b \in Nat : a * b \in Nat /\ a * (b + 1) = a * b + a
  BY SMT

\* What Limit takes a cap to be.
LEMMA LimitFits ==
    ASSUME BudgetTypeOK, NEW new \in Caps \cup {NoCap}
    PROVE  /\ Limit(new) \in Nat \cup {NoCap}
           /\ new = NoCap <=> Limit(new) = NoCap
           /\ new # NoCap => new <= Limit(new) /\ logged < Limit(new)
  BY BudgetAssumption DEF BudgetTypeOK, Limit

\* Callers are counted.
LEMMA Counts ==
    ASSUME BudgetTypeOK
    PROVE  /\ IsFiniteSet(Busy) /\ Cardinality(Busy) \in Nat
           /\ Cardinality(Callers) \in Nat /\ Spare \in Nat
<1>1. Busy \subseteq Callers
  BY DEF Busy
<1>2. IsFiniteSet(Busy) /\ Cardinality(Busy) <= Cardinality(Callers)
  BY <1>1, BudgetAssumption, FS_Subset
<1>3. Cardinality(Busy) \in Nat /\ Cardinality(Callers) \in Nat
  BY <1>2, BudgetAssumption, FS_CardinalityType
<1> QED
  BY <1>2, <1>3 DEF Spare

LEMMA CountsNext ==
    ASSUME BudgetTypeOK'
    PROVE  Spare' \in Nat
<1>1. Busy' \subseteq Callers
  BY DEF Busy
<1>2. IsFiniteSet(Busy') /\ Cardinality(Busy') <= Cardinality(Callers)
  BY <1>1, BudgetAssumption, FS_Subset
<1>3. Cardinality(Busy') \in Nat /\ Cardinality(Callers) \in Nat
  BY <1>2, BudgetAssumption, FS_CardinalityType
<1> QED
  BY <1>2, <1>3 DEF Spare

\* A caller that begins takes one share, one that ends gives it back.
LEMMA SpareMoves ==
    ASSUME BudgetTypeOK, BudgetTypeOK', NEW c \in Callers, NEW x,
           call' = [call EXCEPT ![c] = x]
    PROVE  /\ call[c].pc = "idle" /\ x.pc # "idle" => Spare = Spare' + 1
           /\ call[c].pc # "idle" /\ x.pc = "idle" => Spare' = Spare + 1
           /\ call[c].pc # "idle" /\ x.pc # "idle" => Spare' = Spare
<1>1. \A d \in Callers : call'[d] = IF d = c THEN x ELSE call[d]
  BY DEF BudgetTypeOK
<1>2. IsFiniteSet(Busy) /\ Cardinality(Busy) \in Nat /\ Cardinality(Callers) \in Nat
  BY Counts
<1>3. ASSUME call[c].pc = "idle", x.pc # "idle"
      PROVE  Spare = Spare' + 1
  <2>1. Busy' = Busy \cup {c} /\ c \notin Busy
    BY <1>1, <1>3 DEF Busy
  <2>2. Cardinality(Busy') = Cardinality(Busy) + 1
    BY <2>1, <1>2, FS_AddElement
  <2> QED
    BY <2>2, <1>2 DEF Spare
<1>4. ASSUME call[c].pc # "idle", x.pc = "idle"
      PROVE  Spare' = Spare + 1
  <2>1. Busy' = Busy \ {c} /\ c \in Busy
    BY <1>1, <1>4 DEF Busy
  <2>2. Cardinality(Busy') = Cardinality(Busy) - 1
    BY <2>1, <1>2, FS_RemoveElement
  <2> QED
    BY <2>2, <1>2 DEF Spare
<1>5. ASSUME call[c].pc # "idle", x.pc # "idle"
      PROVE  Spare' = Spare
  <2>1. Busy' = Busy
    BY <1>1, <1>5 DEF Busy
  <2> QED
    BY <2>1 DEF Spare
<1> QED
  BY <1>3, <1>4, <1>5

LEMMA InitIInv == BudgetInit => IInv
<1> SUFFICES ASSUME BudgetInit PROVE IInv
  OBVIOUS
<1>1. BudgetTypeOK
  <2>1. limit \in Nat \cup {NoCap}
    BY BudgetAssumption DEF BudgetInit, Limit
  <2> QED
    BY <2>1, BudgetAssumption DEF BudgetInit, BudgetTypeOK, Idle
<1>2. CapBelowLimit /\ (limit # NoCap => logged < limit)
  BY <1>1, LimitFits DEF BudgetInit, CapBelowLimit
<1>3. Spare \in Nat
  BY <1>1, Counts
<1>4. RoomLeft
  BY <1>1, <1>2, <1>3, Times, BudgetAssumption DEF RoomLeft, BudgetTypeOK
<1> QED
  BY <1>1, <1>2, <1>4 DEF IInv

\* A step keeps the types.
LEMMA TypeStep == BudgetTypeOK /\ [BudgetNext]_budget => BudgetTypeOK'
<1> SUFFICES ASSUME BudgetTypeOK, [BudgetNext]_budget PROVE BudgetTypeOK'
  OBVIOUS
<1> USE BudgetAssumption DEF BudgetTypeOK
<1>1. CASE \E c \in Callers : Ask(c)
  BY <1>1 DEF Ask, Asked
<1>2. CASE \E c \in Callers : Answer(c)
  BY <1>2 DEF Answer
<1>3. CASE \E c \in Callers : Log(c)
  BY <1>3 DEF Log, Idle
<1>4. CASE \E c \in Callers : Lose(c)
  BY <1>4 DEF Lose, Idle
<1>5. CASE \E new \in Caps \cup {NoCap} : SetCap(new)
  BY <1>5, LimitFits DEF SetCap
<1>6. CASE UNCHANGED budget
  BY <1>6 DEF budget
<1> QED
  BY <1>1, <1>2, <1>3, <1>4, <1>5, <1>6 DEF BudgetNext

\* A step keeps the room: who is let through was below the cap, and who logs
\* adds no more than the share that comes free.
LEMMA RoomStep == IInv /\ [BudgetNext]_budget => IInv'
<1> SUFFICES ASSUME IInv, [BudgetNext]_budget PROVE IInv'
  OBVIOUS
<1>0. BudgetTypeOK /\ BudgetTypeOK'
  BY TypeStep DEF IInv
<1>s. Spare \in Nat /\ Spare' \in Nat /\ MaxTokens \in Nat
  <2>1. Spare \in Nat
    BY <1>0, Counts
  <2>2. Spare' \in Nat
    BY <1>0, CountsNext
  <2> QED
    BY <2>1, <2>2, BudgetAssumption
<1>t. /\ MaxTokens * Spare \in Nat /\ MaxTokens * Spare' \in Nat
      /\ MaxTokens * (Spare + 1) = MaxTokens * Spare + MaxTokens
      /\ MaxTokens * (Spare' + 1) = MaxTokens * Spare' + MaxTokens
  BY <1>s, Times
<1>1. ASSUME NEW c \in Callers, Ask(c)
      PROVE  CapBelowLimit' /\ RoomLeft'
  <2>1. limit # NoCap => logged < limit
    BY <1>0, <1>1, BudgetAssumption DEF IInv, CapBelowLimit, Ask, Allowed, BudgetTypeOK
  <2> QED
    BY <1>0, <1>1, <1>t, <2>1, BudgetAssumption
    DEF IInv, CapBelowLimit, RoomLeft, Ask, BudgetTypeOK
<1>2. ASSUME NEW c \in Callers, Answer(c)
      PROVE  CapBelowLimit' /\ RoomLeft'
  <2>1. PICK tokens \in Usage : call' = [call EXCEPT ![c] = [pc |-> "answered", tokens |-> tokens]]
    BY <1>2 DEF Answer
  <2>2. Spare' = Spare
    BY <1>0, <1>2, <2>1, SpareMoves DEF Answer
  <2> QED
    BY <1>2, <2>2 DEF IInv, CapBelowLimit, RoomLeft, Answer
<1>3. ASSUME NEW c \in Callers, Log(c)
      PROVE  CapBelowLimit' /\ RoomLeft'
  <2>1. Spare' = Spare + 1
    <3>1. call' = [call EXCEPT ![c] = Idle] /\ call[c].pc # "idle" /\ Idle.pc = "idle"
      BY <1>3 DEF Log, Idle
    <3> QED
      BY <1>0, <3>1, SpareMoves
  <2>2. MaxTokens * Spare' = MaxTokens * Spare + MaxTokens
    BY <1>t, <2>1
  <2>3. call[c].tokens \in 0..MaxTokens
    BY <1>0 DEF BudgetTypeOK
  <2>4. CapBelowLimit'
    BY <1>3 DEF IInv, CapBelowLimit, Log
  <2>5. ASSUME limit # NoCap PROVE logged' < limit' + MaxTokens * Spare'
    <3>1. limit \in Nat /\ logged < limit + MaxTokens * Spare /\ logged \in Nat
      BY <1>0, <2>5 DEF IInv, RoomLeft, BudgetTypeOK
    <3>2. logged' = logged + call[c].tokens /\ limit' = limit
      BY <1>3 DEF Log
    <3> QED
      BY <1>s, <1>t, <2>2, <2>3, <3>1, <3>2
  <2> QED
    BY <1>3, <2>4, <2>5 DEF RoomLeft, Log
<1>4. ASSUME NEW c \in Callers, Lose(c)
      PROVE  CapBelowLimit' /\ RoomLeft'
  <2>1. Spare' = Spare + 1
    <3>1. call' = [call EXCEPT ![c] = Idle] /\ call[c].pc # "idle" /\ Idle.pc = "idle"
      BY <1>4 DEF Lose, Idle
    <3> QED
      BY <1>0, <3>1, SpareMoves
  <2>2. MaxTokens * Spare' = MaxTokens * Spare + MaxTokens
    BY <1>t, <2>1
  <2>3. cap' = cap /\ limit' = limit /\ logged' = logged
    BY <1>4 DEF Lose
  <2>4. limit # NoCap => limit \in Nat
    BY <1>0 DEF BudgetTypeOK
  <2>5. logged \in Nat
    BY <1>0 DEF BudgetTypeOK
  <2>6. CapBelowLimit'
    BY <2>3 DEF IInv, CapBelowLimit
  <2>7. ASSUME limit # NoCap PROVE logged < limit + MaxTokens * Spare'
    <3>1. limit \in Nat /\ logged < limit + MaxTokens * Spare
      BY <2>4, <2>7 DEF IInv, RoomLeft
    <3>2. PICK room \in Nat : room = MaxTokens * Spare
      BY <1>t
    <3>3. PICK roomAfter \in Nat : roomAfter = MaxTokens * Spare'
      BY <1>t
    <3>4. roomAfter = room + MaxTokens
      BY <2>2, <3>2, <3>3
    <3>5. logged < limit + roomAfter
      BY <1>s, <2>5, <3>1, <3>2, <3>4
    <3> QED
      BY <3>3, <3>5
  <2> QED
    BY <2>3, <2>6, <2>7 DEF RoomLeft
<1>5. ASSUME NEW new \in Caps \cup {NoCap}, SetCap(new)
      PROVE  CapBelowLimit' /\ RoomLeft'
  <2>1. Spare' = Spare
    BY <1>5 DEF SetCap, Spare, Busy
  <2>2. /\ Limit(new) \in Nat \cup {NoCap}
        /\ new = NoCap <=> Limit(new) = NoCap
        /\ new # NoCap => new <= Limit(new) /\ logged < Limit(new)
    BY <1>0, LimitFits
  <2> QED
    BY <1>0, <1>5, <1>t, <2>1, <2>2, BudgetAssumption
    DEF CapBelowLimit, RoomLeft, SetCap, BudgetTypeOK
<1>6. CASE UNCHANGED budget
  BY <1>0, <1>6 DEF IInv, CapBelowLimit, RoomLeft, Spare, Busy, budget
<1> QED
  BY <1>0, <1>1, <1>2, <1>3, <1>4, <1>5, <1>6 DEF BudgetNext, IInv

LEMMA IInvHolds == BudgetSpec => []IInv
  BY InitIInv, RoomStep, PTL DEF BudgetSpec

\* What a workspace spends never reaches a call of every caller past the cap
\* it has, or past what it had spent when the cap was set: check_budget, then
\* the call, then the log, by any number of checks, jobs and requests at once.
THEOREM OvershootBounded == BudgetSpec => []Overshoot
<1>1. IInv => Overshoot
  <2> SUFFICES ASSUME IInv, limit # NoCap
               PROVE  logged < limit + MaxTokens * Cardinality(Callers)
    BY DEF Overshoot
  <2>1. Spare \in Nat /\ Cardinality(Callers) \in Nat /\ Spare <= Cardinality(Callers)
    BY Counts DEF IInv, Spare
  <2>2. MaxTokens * Spare <= MaxTokens * Cardinality(Callers)
    BY <2>1, BudgetAssumption, SMT
  <2>3. /\ MaxTokens * Spare \in Nat /\ MaxTokens * Cardinality(Callers) \in Nat
        /\ limit \in Nat /\ logged \in Nat
    BY <2>1, Times, BudgetAssumption DEF IInv, BudgetTypeOK
  <2> QED
    BY <2>2, <2>3 DEF IInv, RoomLeft
<1> QED
  BY <1>1, IInvHolds, PTL

\* The log, the cap and the callers stay of their types.
THEOREM BudgetTypeCorrect == BudgetSpec => []BudgetTypeOK
<1>1. IInv => BudgetTypeOK
  BY DEF IInv
<1> QED
  BY <1>1, IInvHolds, PTL

-----------------------------------------------------------------------------
(* Checks are such callers.                                                *)

LEMMA StepBudget == Next => BudgetNext \/ UNCHANGED budget
<1> USE DEF BudgetNext, Checks
<1>1. ASSUME NEW c \in Checks, NEW s \in Surfaces, Start(c, s) PROVE UNCHANGED budget
  BY <1>1 DEF Start
<1>2. ASSUME NEW c \in Checks, Fetch(c) \/ FailFetch(c) \/ Refresh(c) PROVE UNCHANGED budget
  BY <1>2 DEF Fetch, FailFetch, Refresh
<1>3. ASSUME NEW c \in Checks, Baseline(c) \/ NoChange(c) \/ Change(c) \/ Refuse(c) \/ Summarize(c)
      PROVE  UNCHANGED budget
  BY <1>3 DEF Baseline, NoChange, Change, Refuse, Summarize
<1>4. ASSUME NEW c \in Checks, Call(c) PROVE Ask(c)
  BY <1>4 DEF Call
<1>5. ASSUME NEW c \in Checks, FailCall(c) PROVE Lose(c)
  BY <1>5 DEF FailCall
<1>6. ASSUME NEW c \in Checks, Scored(c) \/ Described(c) \/ Embedded(c) \/ Summarized(c)
      PROVE  Answer(c)
  BY <1>6 DEF Scored, Described, Embedded, Summarized
<1>7. ASSUME NEW c \in Checks, KeepDescription(c) \/ KeepEmbedding(c) \/ Write(c) PROVE Log(c)
  BY <1>7 DEF KeepDescription, KeepEmbedding, Write
<1>8. ASSUME NEW c \in Checks, Commit(c) PROVE Log(c) \/ UNCHANGED budget
  BY <1>8 DEF Commit, LogIfAny
<1>9. ASSUME NEW c \in Checks, Crash(c) PROVE Lose(c) \/ UNCHANGED budget
  BY <1>9 DEF Crash
<1>10. ASSUME NEW new \in Caps \cup {NoCap}, Owner(new) PROVE SetCap(new)
  BY <1>10 DEF Owner
<1>11. ASSUME Age \/ \E s \in Surfaces, raw \in Raw : Edit(s, raw) PROVE UNCHANGED budget
  BY <1>11 DEF Age, Edit
<1> QED
  BY <1>1, <1>2, <1>3, <1>4, <1>5, <1>6, <1>7, <1>8, <1>9, <1>10, <1>11 DEF Next, Finish

\* A check asks the budget before each of its calls, logs with its commit what
\* the call used, and loses it when it fails (budget_service.py:95-114).
THEOREM ContentKeepsContract == Spec => BudgetSpec
<1>1. Init => BudgetInit
  BY DEF Init
<1>2. [Next]_vars => [BudgetNext]_budget
  BY StepBudget DEF vars
<1> QED
  BY <1>1, <1>2, PTL DEF Spec, BudgetSpec

\* However many checks run, the log does not reach a call of each of them past
\* the cap (budget_service.py:95-114).
THEOREM ContentOvershoots == Spec => []Overshoot
  BY ContentKeepsContract, OvershootBounded, PTL

-----------------------------------------------------------------------------
(* What a call used and the check it belongs to.                           *)

\* A check, and its call.
Fits(k, u) ==
    /\ {"pc", "surface", "new", "prev", "id", "scored", "found"} \subseteq DOMAIN k
    /\ k.surface \in Surfaces \cup {None}
    /\ k.pc = "idle" => k = IdleCheck
    /\ u.pc = "asked" <=> k.pc \in {"scoring", "embedding", "describing", "summarizing"}
    /\ k.pc \in {"described", "embedded", "write"} => u.pc = "answered"
    /\ u.pc = "answered" => k.pc \in {"commit", "described", "embedded", "write"}

ContentInv ==
    /\ page \in [Surfaces -> Raw] /\ llm \in BOOLEAN
    /\ DOMAIN snaps = Surfaces /\ DOMAIN logs = Surfaces
    /\ summary = None \/ summary \in [fresh : BOOLEAN]
    /\ DOMAIN chk = Checks /\ \A c \in Checks : Fits(chk[c], call[c])
    /\ edits \in 0..MaxEdits /\ crashes \in 0..MaxCrashes
    /\ BudgetTypeOK

LEMMA Waits ==
  /\ Range(AskFor) = {"scoring", "embedding", "describing", "summarizing"}
  /\ DOMAIN AskFor = {"score", "embed", "baseline", "pages"}
  /\ \A pc \in DOMAIN AskFor : AskFor[pc] \in Range(AskFor)
<1>1. DOMAIN AskFor = {"score", "embed", "baseline", "pages"}
  BY DEF AskFor
<1>2. /\ AskFor["score"] = "scoring" /\ AskFor["embed"] = "embedding"
      /\ AskFor["baseline"] = "describing" /\ AskFor["pages"] = "summarizing"
  BY DEF AskFor
<1> QED
  BY <1>1, <1>2 DEF Range

LEMMA ContentInvImplies == ContentInv => TypeOK /\ CallsMatch
  BY Waits DEF ContentInv, Fits, TypeOK, CallsMatch

LEMMA IdleFits == \A u : u.pc = "idle" => Fits(IdleCheck, u)
  BY DEF Fits, IdleCheck

LEMMA InitContent == Init => ContentInv
<1> SUFFICES ASSUME Init PROVE ContentInv
  OBVIOUS
<1>1. BudgetTypeOK
  BY InitIInv DEF Init, IInv
<1>2. \A c \in Checks : Fits(chk[c], call[c])
  <2>1. \A c \in Checks : chk[c] = IdleCheck /\ call[c].pc = "idle"
    BY DEF Init, BudgetInit, Idle, Checks
  <2> QED
    BY <2>1, IdleFits
<1>3. DOMAIN snaps = Surfaces
  BY DEF Init
<1>4. /\ page \in [Surfaces -> Raw] /\ llm \in BOOLEAN /\ DOMAIN logs = Surfaces
      /\ summary = None /\ DOMAIN chk = Checks /\ edits = 0 /\ crashes = 0
  BY DEF Init
<1>5. MaxEdits \in Nat /\ MaxCrashes \in Nat
  BY ContentAssumption
<1> QED
  BY <1>1, <1>2, <1>3, <1>4, <1>5 DEF ContentInv

\* A step of a check disturbs its own record and call only.
LEMMA CheckStep ==
  ASSUME ContentInv, BudgetTypeOK', NEW c \in Checks, NEW k, Become(c, k), Fits(k, call'[c]),
         \A d \in Checks \ {c} : call'[d] = call[d],
         page' = page, llm' = llm, DOMAIN snaps' = Surfaces, DOMAIN logs' = Surfaces,
         summary' = None \/ summary' \in [fresh : BOOLEAN],
         edits' = edits, crashes' \in 0..MaxCrashes
  PROVE  ContentInv'
<1>1. DOMAIN chk' = Checks /\ chk'[c] = k /\ \A d \in Checks \ {c} : chk'[d] = chk[d]
  BY DEF Become, ContentInv
<1>2. \A d \in Checks : Fits(chk'[d], call'[d])
  BY <1>1 DEF ContentInv
<1> QED
  BY <1>1, <1>2 DEF ContentInv

LEMMA QuietStep ==
  ASSUME ContentInv, NEW c \in Checks, NEW k, Become(c, k), Fits(k, call[c]),
         UNCHANGED <<Rows, summary, budget>>, DOMAIN snaps' = Surfaces, DOMAIN logs' = Surfaces
  PROVE  ContentInv'
<1>1. BudgetTypeOK' /\ call' = call
  BY DEF ContentInv, BudgetTypeOK, budget
<1>2. summary' = None \/ summary' \in [fresh : BOOLEAN]
  BY DEF ContentInv
<1>3. page' = page /\ llm' = llm /\ edits' = edits /\ crashes' \in 0..MaxCrashes
  BY DEF ContentInv, Rows
<1> QED
  BY <1>1, <1>2, <1>3, CheckStep

LEMMA WrapIs == \A c : Wrap(c) => \E k \in {IdleCheck, Summary} : Become(c, k)
  BY DEF Wrap

LEMMA QuietActions ==
  ASSUME ContentInv, NEW c \in Checks,
         \/ \E s \in Surfaces : Start(c, s)
         \/ Fetch(c) \/ FailFetch(c) \/ Refresh(c) \/ Baseline(c) \/ NoChange(c) \/ Change(c)
         \/ Summarize(c) \/ Refuse(c)
  PROVE  ContentInv'
<1>1. DOMAIN snaps = Surfaces /\ DOMAIN logs = Surfaces /\ Fits(chk[c], call[c])
  BY DEF ContentInv
<1>3. ASSUME NEW s \in Surfaces, Start(c, s) PROVE ContentInv'
  <2> DEFINE k == [IdleCheck EXCEPT !.pc = "fetch", !.surface = s]
  <2>1. Become(c, k) /\ UNCHANGED <<Rows, Stored, summary, budget>> /\ chk[c].pc = "idle"
    BY <1>3 DEF Start, At
  <2>2. Fits(k, call[c])
    BY <1>1, <2>1 DEF Fits, IdleCheck
  <2> QED
    BY <1>1, <2>1, <2>2, QuietStep DEF Stored
<1>4. CASE Fetch(c)
  <2> DEFINE k == [chk[c] EXCEPT !.pc = "compare", !.new = capture_clean_snapshot[page[chk[c].surface]]]
  <2>1. Become(c, k) /\ UNCHANGED <<Rows, Stored, summary, budget>> /\ chk[c].pc = "fetch"
    BY <1>4 DEF Fetch, At
  <2>2. Fits(k, call[c])
    BY <1>1, <2>1 DEF Fits
  <2> QED
    BY <1>1, <2>1, <2>2, QuietStep DEF Stored
<1>5. CASE FailFetch(c) \/ NoChange(c)
  <2>1. Become(c, IdleCheck) /\ UNCHANGED <<Rows, Stored, summary, budget>> /\ chk[c].pc \in {"fetch", "compare"}
    BY <1>5 DEF FailFetch, NoChange, At
  <2>2. Fits(IdleCheck, call[c])
    BY <1>1, <2>1 DEF Fits, IdleCheck
  <2> QED
    BY <1>1, <2>1, <2>2, QuietStep DEF Stored
<1>6. CASE Refresh(c)
  <2> DEFINE k == [IdleCheck EXCEPT !.pc = "pages"]
  <2>1. Become(c, k) /\ UNCHANGED <<Rows, Stored, summary, budget>> /\ chk[c].pc = "idle"
    BY <1>6 DEF Refresh, At
  <2>2. Fits(k, call[c])
    BY <1>1, <2>1 DEF Fits, IdleCheck
  <2> QED
    BY <1>1, <2>1, <2>2, QuietStep DEF Stored
<1>7. CASE Baseline(c)
  <2> DEFINE k == [IdleCheck EXCEPT !.pc = "baseline"]
  <2>1. /\ UNCHANGED <<Rows, logs, summary, budget>> /\ chk[c].pc = "compare" /\ DOMAIN snaps' = Surfaces
        /\ Become(c, k) \/ Wrap(c)
    BY <1>1, <1>7 DEF Baseline, At
  <2>2. Fits(k, call[c]) /\ Fits(IdleCheck, call[c]) /\ Fits(Summary, call[c])
    BY <1>1, <2>1 DEF Fits, IdleCheck, Summary
  <2> QED
    BY <1>1, <2>1, <2>2, WrapIs, QuietStep
<1>8. CASE Change(c)
  <2> DEFINE s == chk[c].surface
             k == [chk[c] EXCEPT !.pc = IF llm THEN "score" ELSE "commit",
                                 !.prev = LatestOf(s).id, !.id = NextId(s)]
  <2>1. Become(c, k) /\ UNCHANGED <<Rows, snaps, logs, summary, budget>> /\ chk[c].pc = "compare"
    BY <1>8 DEF Change, At
  <2>2. k.pc \in {"score", "commit"} /\ k.surface = chk[c].surface /\ DOMAIN k = DOMAIN chk[c]
    BY <1>1 DEF Fits
  <2>3. Fits(k, call[c])
    BY <1>1, <2>1, <2>2 DEF Fits
  <2> QED
    BY <1>1, <2>1, <2>3, QuietStep
<1>9. CASE Summarize(c)
  <2> DEFINE k == [chk[c] EXCEPT !.pc = "pages"]
  <2>1. /\ UNCHANGED <<Rows, Stored, summary, budget>> /\ chk[c].pc = "summary"
        /\ Become(c, k) \/ Become(c, IdleCheck)
    BY <1>9 DEF Summarize, At, GoTo
  <2>2. Fits(k, call[c]) /\ Fits(IdleCheck, call[c])
    BY <1>1, <2>1 DEF Fits, IdleCheck
  <2> QED
    BY <1>1, <2>1, <2>2, QuietStep DEF Stored
<1>10. CASE Refuse(c)
  <2> DEFINE k == [chk[c] EXCEPT !.pc = "commit"]
  <2>1. /\ UNCHANGED <<Rows, Stored, summary, budget>> /\ chk[c].pc \in {"score", "embed", "baseline", "pages"}
        /\ Become(c, k) \/ Become(c, IdleCheck) \/ Wrap(c)
    BY <1>10, Waits DEF Refuse, Without, GoTo
  <2>2. Fits(k, call[c]) /\ Fits(IdleCheck, call[c]) /\ Fits(Summary, call[c])
    BY <1>1, <2>1 DEF Fits, IdleCheck, Summary
  <2> QED
    BY <1>1, <2>1, <2>2, WrapIs, QuietStep DEF Stored
<1> QED
  BY <1>3, <1>4, <1>5, <1>6, <1>7, <1>8, <1>9, <1>10

LEMMA CallActions ==
  ASSUME ContentInv, BudgetTypeOK', NEW c \in Checks,
         \/ Call(c) \/ FailCall(c) \/ Scored(c) \/ Commit(c) \/ Described(c) \/ KeepDescription(c)
         \/ Embedded(c) \/ KeepEmbedding(c) \/ Summarized(c) \/ Write(c) \/ Crash(c)
  PROVE  ContentInv'
<1> DEFINE k(pc) == [chk[c] EXCEPT !.pc = pc]
<1>1. /\ DOMAIN snaps = Surfaces /\ DOMAIN logs = Surfaces /\ Fits(chk[c], call[c])
      /\ summary = None \/ summary \in [fresh : BOOLEAN]
      /\ crashes \in 0..MaxCrashes /\ DOMAIN call = Checks
  BY DEF ContentInv, BudgetTypeOK, Checks
<1>2. ASSUME NEW new, Become(c, new), Fits(new, call'[c]), \A d \in Checks \ {c} : call'[d] = call[d],
             UNCHANGED Rows, DOMAIN snaps' = Surfaces, DOMAIN logs' = Surfaces,
             summary' = None \/ summary' \in [fresh : BOOLEAN]
      PROVE  ContentInv'
  BY <1>1, <1>2, CheckStep DEF Rows
<1>3. ASSUME NEW pc, Become(c, k(pc)), Answer(c), pc \in {"commit", "described", "embedded"},
             UNCHANGED <<Rows, Stored, summary>>
      PROVE  ContentInv'
  <2>1. call'[c].pc = "answered" /\ \A d \in Checks \ {c} : call'[d] = call[d]
    BY <1>1, <1>3 DEF Answer
  <2>2. Fits(k(pc), call'[c])
    BY <1>1, <1>3, <2>1 DEF Fits
  <2> QED
    BY <1>1, <1>2, <1>3, <2>1, <2>2 DEF Stored
<1>4. ASSUME \/ Wrap(c) \/ Become(c, IdleCheck) \/ Become(c, [IdleCheck EXCEPT !.pc = "embed"])
             \/ Become(c, k("commit")) /\ chk[c].pc \in {"score", "scoring"},
             call' = [call EXCEPT ![c] = Idle] \/ (call' = call /\ call[c].pc = "idle"),
             UNCHANGED Rows, DOMAIN snaps' = Surfaces, DOMAIN logs' = Surfaces,
             summary' = None \/ summary' \in [fresh : BOOLEAN]
      PROVE  ContentInv'
  <2>1. call'[c].pc = "idle" /\ \A d \in Checks \ {c} : call'[d] = call[d]
    BY <1>1, <1>4 DEF Idle
  <2>2. /\ Fits(IdleCheck, call'[c]) /\ Fits(Summary, call'[c])
        /\ Fits([IdleCheck EXCEPT !.pc = "embed"], call'[c])
        /\ chk[c].pc \in {"score", "scoring"} => Fits(k("commit"), call'[c])
    BY <1>1, <2>1 DEF Fits, IdleCheck, Summary
  <2> QED
    BY <1>2, <1>4, <2>1, <2>2, WrapIs
<1>5. CASE Call(c)
  <2> DEFINE pc == AskFor[chk[c].pc]
  <2>1. /\ Become(c, k(pc)) /\ pc \in {"scoring", "embedding", "describing", "summarizing"}
        /\ UNCHANGED <<Rows, Stored, summary>>
    BY <1>5, Waits DEF Call, GoTo
  <2>2. call'[c].pc = "asked" /\ \A d \in Checks \ {c} : call'[d] = call[d]
    BY <1>1, <1>5 DEF Call, Ask, Asked
  <2>3. Fits(k(pc), call'[c])
    BY <1>1, <2>1, <2>2 DEF Fits
  <2> QED
    BY <1>1, <1>2, <2>1, <2>2, <2>3 DEF Stored
<1>6. CASE FailCall(c)
  <2>1. \/ chk[c].pc \in {"score", "scoring"} /\ Become(c, k("commit"))
        \/ Become(c, IdleCheck) \/ Wrap(c)
    BY <1>6 DEF FailCall, Without, GoTo
  <2> QED
    BY <1>1, <1>4, <1>6, <2>1 DEF FailCall, Lose, Stored
<1>7. CASE Scored(c)
  <2> DEFINE new == [chk[c] EXCEPT !.pc = "commit", !.scored = TRUE]
  <2>1. Become(c, new) /\ UNCHANGED <<Rows, Stored, summary>>
    BY <1>7 DEF Scored
  <2>2. call'[c].pc = "answered" /\ \A d \in Checks \ {c} : call'[d] = call[d]
    BY <1>1, <1>7 DEF Scored, Answer
  <2>3. Fits(new, call'[c])
    BY <1>1, <2>2 DEF Fits
  <2> QED
    BY <1>1, <1>2, <2>1, <2>2, <2>3 DEF Stored
<1>8. CASE Commit(c)
  <2>1. DOMAIN snaps' = Surfaces /\ DOMAIN logs' = Surfaces /\ UNCHANGED <<Rows, summary>>
    BY <1>1, <1>8 DEF Commit
  <2>2. Become(c, [IdleCheck EXCEPT !.pc = "embed"]) \/ Wrap(c)
    BY <1>8 DEF Commit
  <2>3. call[c].pc # "asked"
    BY <1>1, <1>8 DEF Commit, At, Fits
  <2>4. call[c].pc = "answered" \/ call[c].pc = "idle"
    BY <2>3 DEF ContentInv, BudgetTypeOK, Checks
  <2>5. call' = [call EXCEPT ![c] = Idle] \/ (call' = call /\ call[c].pc = "idle")
    BY <1>8, <2>4 DEF Commit, LogIfAny, Log, budget
  <2> QED
    BY <1>1, <1>4, <2>1, <2>2, <2>5
<1>9. CASE Described(c) \/ Embedded(c)
  BY <1>3, <1>9 DEF Described, Embedded, GoTo
<1>10. CASE KeepDescription(c) \/ KeepEmbedding(c)
  BY <1>1, <1>4, <1>10 DEF KeepDescription, KeepEmbedding, Log, Stored
<1>11. CASE Summarized(c)
  <2> DEFINE new == [chk[c] EXCEPT !.pc = "write", !.found = summary # None]
  <2>1. Become(c, new) /\ UNCHANGED <<Rows, Stored, summary>>
    BY <1>11 DEF Summarized
  <2>2. call'[c].pc = "answered" /\ \A d \in Checks \ {c} : call'[d] = call[d]
    BY <1>1, <1>11 DEF Summarized, Answer
  <2>3. Fits(new, call'[c])
    BY <1>1, <2>2 DEF Fits
  <2> QED
    BY <1>1, <1>2, <2>1, <2>2, <2>3 DEF Stored
<1>12. CASE Write(c)
  BY <1>1, <1>4, <1>12 DEF Write, Log, Stored
<1>13. CASE Crash(c)
  <2>1. call' = [call EXCEPT ![c] = Idle] \/ (call' = call /\ call[c].pc = "idle")
    BY <1>13 DEF Crash, Lose, budget
  <2>2. call'[c].pc = "idle" /\ \A d \in Checks \ {c} : call'[d] = call[d]
    BY <1>1, <2>1 DEF Idle
  <2>3. crashes' \in 0..MaxCrashes
    BY <1>1, <1>13, ContentAssumption DEF Crash
  <2> QED
    BY <1>1, <1>13, <2>2, <2>3, IdleFits, CheckStep DEF Crash
<1> QED
  BY <1>5, <1>6, <1>7, <1>8, <1>9, <1>10, <1>11, <1>12, <1>13

LEMMA ContentStep == ContentInv /\ [Next]_vars => ContentInv'
<1> SUFFICES ASSUME ContentInv, [Next]_vars PROVE ContentInv'
  OBVIOUS
<1>1. BudgetTypeOK'
  <2>1. [BudgetNext]_budget
    BY StepBudget DEF vars
  <2> QED
    BY <2>1, TypeStep DEF ContentInv
<1>2. CASE Age
  BY <1>1, <1>2 DEF Age, ContentInv, Rows, Stored, budget
<1>3. ASSUME NEW s \in Surfaces, NEW raw \in Raw, Edit(s, raw) PROVE ContentInv'
  BY <1>1, <1>3, ContentAssumption DEF Edit, ContentInv, budget
<1>4. ASSUME NEW new \in Caps \cup {NoCap}, Owner(new) PROVE ContentInv'
  BY <1>1, <1>4, ContentAssumption DEF Owner, SetCap, ContentInv
<1>5. CASE UNCHANGED vars
  BY <1>1, <1>5 DEF vars, content, ContentInv, budget
<1> QED
  BY <1>1, <1>2, <1>3, <1>4, <1>5, QuietActions, CallActions DEF Next, Finish

LEMMA ContentHolds == Spec => []ContentInv
  BY InitContent, ContentStep, PTL DEF Spec

\* Rows, checks and calls keep their types, and a check that is idle has left
\* nothing behind.
THEOREM TypeCorrect == Spec => []TypeOK
  BY ContentHolds, ContentInvImplies, PTL

\* A check that waits for the model has asked its budget, and what the call used
\* stays with that check until its commit (check_service.py, scoring.py).
THEOREM CallsMatched == Spec => []CallsMatch
  BY ContentHolds, ContentInvImplies, PTL

-----------------------------------------------------------------------------
(* From a page to its text: what is joined from pieces, and what is clean. *)

LEMMA Smallest ==
  ASSUME NEW T \in SUBSET Nat, T # {}
  PROVE  \E i \in T : \A j \in T : i <= j
<1>1. PICK i \in T : \A j \in T : <<j, i>> \notin OpToRel(<, Nat)
  BY NatLessThanWellFounded, WFMin
<1>2. \A j \in T : ~(j < i)
  BY <1>1 DEF OpToRel
<1> QED
  BY <1>2

\* Induction up to n, over a set.
LEMMA Upwards ==
  ASSUME NEW n \in Nat, NEW T, 0 \in T, \A k \in 0..(n - 1) : k \in T => k + 1 \in T
  PROVE  \A k \in 0..n : k \in T
<1> DEFINE D == {k \in 0..n : k \notin T}
<1> SUFFICES ASSUME D # {} PROVE FALSE
  OBVIOUS
<1>1. PICK m \in D : \A j \in D : m <= j
  <2> D \in SUBSET Nat
    OBVIOUS
  <2> HIDE DEF D
  <2> QED
    BY Smallest
<1>2. m # 0 /\ m - 1 \in 0..(n - 1) /\ m - 1 \in T
  BY <1>1
<1> QED
  BY <1>1, <1>2

LEMMA FlattenIs ==
  ASSUME NEW S, NEW pieces \in Seq(Seq(S))
  PROVE  FlattenSeq(pieces) \in Seq(S)
<1> DEFINE n == Len(pieces)
           Then(sofar, i) == sofar \o pieces[i]
           Steps(k, h) == h = [i \in 1..k |-> IF i = 1 THEN pieces[i] ELSE Then(h[i - 1], i)]
           T == {k \in 0..n : \E h : Steps(k, h)}
           F == CHOOSE f : Steps(n, f)
<1>1. n \in Nat /\ (n = 0 => pieces = <<>>)
  OBVIOUS
<1>2. n # 0 => FlattenSeq(pieces) = F[n]
  BY DEF FlattenSeq
<1>3. \A i \in 1..n : pieces[i] \in Seq(S)
  OBVIOUS
<1>4. \A sofar \in Seq(S), i \in 1..n : Then(sofar, i) \in Seq(S)
  BY <1>3
<1>5. CASE n = 0
  BY <1>1, <1>5 DEF FlattenSeq
<1> HIDE DEF n, Then
<1>6. 0 \in T
  <2>1. Steps(0, [i \in 1..0 |-> pieces[i]])
    OBVIOUS
  <2>2. 0 \in 0..n
    BY <1>1
  <2> HIDE DEF Steps
  <2> QED
    BY <2>1, <2>2
<1>7. ASSUME NEW k \in 0..(n - 1), k \in T PROVE k + 1 \in T
  <2>1. PICK h : Steps(k, h)
    BY <1>7
  <2> DEFINE last == IF k = 0 THEN pieces[1] ELSE Then(h[k], k + 1)
             g == [i \in 1..(k + 1) |-> IF i = k + 1 THEN last ELSE h[i]]
  <2>2. \A i \in 1..k : g[i] = h[i]
    BY <1>1
  <2>3. g[k + 1] = last
    BY <1>1
  <2>4. \A i \in 1..k : h[i] = IF i = 1 THEN pieces[i] ELSE Then(h[i - 1], i)
    BY <2>1
  <2>5. g = [i \in 1..(k + 1) |-> g[i]]
    OBVIOUS
  <2> HIDE DEF g
  <2>6. \A i \in 1..(k + 1) : g[i] = IF i = 1 THEN pieces[i] ELSE Then(g[i - 1], i)
    <3> SUFFICES ASSUME NEW i \in 1..(k + 1)
                 PROVE  g[i] = IF i = 1 THEN pieces[i] ELSE Then(g[i - 1], i)
      OBVIOUS
    <3>1. CASE i = 1
      BY <1>1, <2>2, <2>3, <2>4, <3>1
    <3>2. CASE i # 1 /\ i = k + 1
      BY <1>1, <2>2, <2>3, <3>2
    <3>3. CASE i \in 2..k
      <4>1. g[i] = h[i] /\ g[i - 1] = h[i - 1]
        BY <1>1, <2>2, <3>3
      <4> QED
        BY <2>4, <3>3, <4>1
    <3> QED
      BY <1>1, <3>1, <3>2, <3>3
  <2>7. Steps(k + 1, g)
    BY <2>5, <2>6
  <2>8. k + 1 \in 0..n
    BY <1>1
  <2> HIDE DEF Steps
  <2> QED
    BY <2>7, <2>8
<1>8. Steps(n, F)
  <2>1. \A k \in 0..n : k \in T
    <3> HIDE DEF T
    <3> QED
      BY <1>1, <1>6, <1>7, Upwards
  <2>2. n \in 0..n
    BY <1>1
  <2> HIDE DEF Steps
  <2> QED
    BY <2>1, <2>2
<1> HIDE DEF F
<1> DEFINE Good == {0} \cup {k \in 1..n : F[k] \in Seq(S)}
<1>9. ASSUME NEW k \in 0..(n - 1), k \in Good PROVE k + 1 \in Good
  <2>1. k + 1 \in 1..n
    BY <1>1
  <2>2. CASE k = 0
    <3>1. F[1] = pieces[1] /\ 1 \in 1..n
      BY <1>8, <2>1, <2>2
    <3> QED
      BY <1>3, <2>2, <3>1
  <2>3. CASE k # 0
    <3>1. F[k + 1] = Then(F[k], k + 1) /\ F[k] \in Seq(S)
      BY <1>1, <1>8, <1>9, <2>1, <2>3
    <3> QED
      BY <1>4, <2>1, <3>1
  <2> QED
    BY <2>2, <2>3
<1>10. \A k \in 0..n : k \in Good
  <2>1. 0 \in Good
    OBVIOUS
  <2> HIDE DEF Good
  <2> QED
    BY <1>1, <1>9, <2>1, Upwards
<1>11. CASE n # 0
  <2>1. n \in Good /\ n # 0
    BY <1>1, <1>10, <1>11
  <2> QED
    BY <1>2, <1>11, <2>1
<1> QED
  BY <1>5, <1>11

LEMMA ThoseAre ==
  ASSUME NEW S, NEW text \in Seq(S), NEW kept
  PROVE  Those(text, kept) \in Seq(kept)
<1> DEFINE pieces == [i \in DOMAIN text |-> IF text[i] \in kept THEN <<text[i]>> ELSE <<>>]
<1>1. \A i \in DOMAIN text : pieces[i] \in Seq(kept)
  OBVIOUS
<1>2. pieces \in Seq(Seq(kept))
  <2>1. Len(text) \in Nat /\ DOMAIN text = 1..Len(text)
    OBVIOUS
  <2>2. pieces \in [1..Len(text) -> Seq(kept)]
    BY <1>1, <2>1
  <2> HIDE DEF pieces
  <2> QED
    BY <2>1, <2>2
<1> QED
  BY <1>2, FlattenIs DEF Those

\* What a check makes of a page holds neither a script nor a banner nor a time.
LEMMA Cleaned == \A raw \in Raw : Clean(capture_clean_snapshot[raw])
<1> SUFFICES ASSUME NEW raw \in Raw PROVE Clean(capture_clean_snapshot[raw])
  OBVIOUS
<1> DEFINE Line == [words : STRING, time : BOOLEAN, kind : {"text", "script", "cookies"}]
           extracted == {line \in Range(raw) : line.kind # "script" /\ (line.words # "" \/ line.time)}
           text == extract_text(raw)
           timeless == [i \in DOMAIN text |-> [text[i] EXCEPT !.time = FALSE]]
           quiet == {line \in Range(timeless) : line.kind # "cookies" /\ line.words # ""}
<1>1. raw \in Seq(Line)
  BY ContentAssumption DEF Texts
<1>2. text \in Seq(extracted)
  BY <1>1, ThoseAre DEF extract_text
<1>3. \A i \in DOMAIN text : text[i] \in Line /\ text[i].kind # "script"
  <2>1. \A i \in DOMAIN text : text[i] \in extracted
    <3> HIDE DEF text, extracted
    <3> QED
      BY <1>2
  <2>2. \A line \in Range(raw) : line \in Line
    <3> HIDE DEF Line
    <3> QED
      BY <1>1 DEF Range
  <2> HIDE DEF text, Line
  <2> QED
    BY <2>1, <2>2
<1> HIDE DEF text
<1>4. \A line \in Range(timeless) : line \in Line /\ line.kind # "script" /\ line.time = FALSE
  BY <1>3 DEF Range
<1>5. timeless \in Seq(Range(timeless))
  <2>1. Len(text) \in Nat /\ DOMAIN text = 1..Len(text)
    <3> HIDE DEF extracted
    <3> QED
      BY <1>2
  <2>2. timeless \in [1..Len(text) -> Range(timeless)]
    BY <2>1 DEF Range
  <2> HIDE DEF timeless
  <2> QED
    BY <2>1, <2>2
<1>6. capture_clean_snapshot[raw] = Those(timeless, quiet)
  BY DEF capture_clean_snapshot, strip_noise, text
<1> HIDE DEF timeless, extracted
<1>7. Those(timeless, quiet) \in Seq(quiet)
  BY <1>5, ThoseAre
<1>8. \A line \in Range(Those(timeless, quiet)) : line \in quiet
  <2> HIDE DEF quiet
  <2> QED
    BY <1>7 DEF Range
<1>9. ASSUME NEW line \in quiet PROVE line.kind = "text" /\ line.words # "" /\ ~line.time
  <2>1. line \in Line /\ line.kind \notin {"script", "cookies"} /\ line.words # "" /\ line.time = FALSE
    BY <1>4
  <2>2. line.kind \in {"text", "script", "cookies"}
    BY <2>1
  <2> QED
    BY <2>1, <2>2
<1> HIDE DEF quiet
<1> QED
  BY <1>6, <1>8, <1>9 DEF Clean

LEMMA BackfilledIs ==
  ASSUME NEW h \in Histories \cup {[last |-> None, changes |-> <<>>]}
  PROVE  Len(Backfilled(h)) \in Nat /\ DOMAIN Backfilled(h) = 1..Len(Backfilled(h))
<1> DEFINE pieces == [i \in DOMAIN h.changes |-> Opt(h.changes[i].old) \o <<h.changes[i].new>>]
           Held == {h.last, None} \cup Texts
           Row == [old : {None} \cup Texts, new : {None} \cup Texts]
<1>1. h.changes \in Seq(Row)
  <2>1. CASE h \in Histories
    BY <2>1, ContentAssumption
  <2>2. CASE h = [last |-> None, changes |-> <<>>]
    <3>1. h.changes = <<>>
      BY <2>2
    <3> HIDE DEF Row
    <3> QED
      BY <3>1
  <2> QED
    BY <2>1, <2>2
<1>2. pieces \in Seq(Seq(Held))
  <2>1. Len(h.changes) \in Nat /\ DOMAIN h.changes = 1..Len(h.changes)
    BY <1>1
  <2>2. \A i \in 1..Len(h.changes) : pieces[i] \in Seq(Held)
    <3> SUFFICES ASSUME NEW i \in 1..Len(h.changes) PROVE pieces[i] \in Seq(Held)
      OBVIOUS
    <3>1. h.changes[i] \in Row
      <4> HIDE DEF Row
      <4> QED
        BY <1>1
    <3>2. h.changes[i].old \in Held /\ h.changes[i].new \in Held
      BY <3>1
    <3>3. pieces[i] = Opt(h.changes[i].old) \o <<h.changes[i].new>>
      BY <2>1
    <3>4. Opt(h.changes[i].old) \in Seq(Held) /\ <<h.changes[i].new>> \in Seq(Held)
      <4> HIDE DEF Held
      <4> QED
        BY <3>2 DEF Opt
    <3> HIDE DEF Held, pieces
    <3> QED
      BY <3>3, <3>4
  <2>3. pieces \in [1..Len(h.changes) -> Seq(Held)]
    BY <2>1, <2>2
  <2> HIDE DEF pieces, Held
  <2> QED
    BY <2>1, <2>3
<1>3. Opt(h.last) \in Seq(Held)
  <2>1. h.last \in Held
    OBVIOUS
  <2> HIDE DEF Held
  <2> QED
    BY <2>1 DEF Opt
<1>4. FlattenSeq(pieces) \in Seq(Held)
  <2> HIDE DEF pieces, Held
  <2> QED
    BY <1>2, FlattenIs
<1>5. Backfilled(h) = Opt(h.last) \o FlattenSeq(pieces)
  BY DEF Backfilled
<1> HIDE DEF Held, pieces
<1>6. Backfilled(h) \in Seq(Held)
  BY <1>3, <1>4, <1>5
<1> QED
  BY <1>6

-----------------------------------------------------------------------------
(* The story that the snapshots and the logs of a page tell.               *)

Highest(p, all) == p \in all /\ \A q \in all : q.id <= p.id
Numbered(all) ==
    /\ \A p \in all : p.id \in Nat
    /\ \A p, q \in all : p.id = q.id => p = q
    /\ all # {} => \E p \in all : Highest(p, all)

\* A check that looks at a page with these snapshots: once it has compared,
\* what it is about to record goes on top of them.
Looks(k, all) ==
    /\ {"pc", "surface", "new", "prev", "id"} \subseteq DOMAIN k
    /\ k.pc \in {"fetch", "compare", "score", "scoring", "commit"}
    /\ k.id \in Nat
    /\ k.pc # "fetch" => Clean(k.new)
    /\ k.pc \notin {"fetch", "compare"} =>
         \E p \in all : /\ Highest(p, all) /\ p.id < k.id
                        /\ k.prev = p.id /\ p.text # None /\ p.text # k.new

Story(s) ==
    /\ Numbered(snaps[s])
    /\ \A log \in logs[s] : \E p \in snaps[s] : log.new = p.id
    /\ \A c, d \in Checks : chk[c].surface = s /\ chk[d].surface = s => c = d
    /\ \A c \in Checks : chk[c].surface = s => Looks(chk[c], snaps[s])
    /\ \A p \in snaps[s] : p.id > before => Told(p, snaps[s], {log \in logs[s] : log.new = p.id})

StoryInv == ContentInv /\ \A s \in Surfaces \ clash : Story(s)

LEMMA InitStory == Init => StoryInv
<1> SUFFICES ASSUME Init PROVE StoryInv
  OBVIOUS
<1>1. ContentInv
  BY InitContent
<1>2. ASSUME NEW s \in Surfaces PROVE Story(s)
  <2>1. PICK h \in Histories \cup {[last |-> None, changes |-> <<>>]} :
             /\ snaps = [x \in Surfaces |-> {[id |-> i, text |-> Backfilled(h)[i]] : i \in DOMAIN Backfilled(h)}]
             /\ before = Len(Backfilled(h))
    BY DEF Init
  <2>2. PICK texts : texts = Backfilled(h)
    OBVIOUS
  <2>3. PICK n \in Nat : n = Len(texts) /\ DOMAIN texts = 1..n
    BY <2>2, BackfilledIs
  <2>4. snaps[s] = {[id |-> i, text |-> texts[i]] : i \in 1..n} /\ before = n
    BY <2>1, <2>2, <2>3
  <2>5. Numbered(snaps[s])
    <3>1. /\ \A p \in snaps[s] : p.id \in Nat
          /\ \A p, q \in snaps[s] : p.id = q.id => p = q
      BY <2>4
    <3>2. ASSUME snaps[s] # {} PROVE \E p \in snaps[s] : Highest(p, snaps[s])
      <4>1. n \in 1..n
        BY <2>4, <3>2
      <4>2. [id |-> n, text |-> texts[n]] \in snaps[s]
        BY <2>4, <4>1
      <4>3. \A q \in snaps[s] : q.id <= n
        BY <2>4
      <4> QED
        BY <4>2, <4>3 DEF Highest
    <3> QED
      BY <3>1, <3>2 DEF Numbered
  <2>6. \A p \in snaps[s] : ~(p.id > before)
    BY <2>4
  <2>7. logs[s] = {} /\ \A c \in Checks : chk[c].surface # s
    BY ContentAssumption DEF Init, IdleCheck
  <2> QED
    BY <2>5, <2>6, <2>7 DEF Story
<1> QED
  BY <1>1, <1>2 DEF StoryInv

LEMMA HighestIsOne ==
  ASSUME NEW all, Numbered(all), NEW p \in all, Highest(p, all), NEW q \in all, Highest(q, all)
  PROVE  p = q
  BY DEF Numbered, Highest

\* The snapshot that is read is the highest.
LEMMA LatestIs ==
  ASSUME NEW s, Numbered(snaps[s]), snaps[s] # {}
  PROVE  /\ LatestOf(s) \in snaps[s] /\ Highest(LatestOf(s), snaps[s])
         /\ PreviousText(s) = LatestOf(s).text
<1>1. PICK p \in snaps[s] : Highest(p, snaps[s])
  BY DEF Numbered
<1>2. \A q \in snaps[s] : p.id >= q.id
  BY <1>1 DEF Highest, Numbered
<1>3. LatestOf(s) \in snaps[s] /\ \A q \in snaps[s] : LatestOf(s).id >= q.id
  BY <1>2 DEF LatestOf
<1> QED
  BY <1>3 DEF Highest, Numbered, PreviousText

\* The id that is given out is above those there are.
LEMMA NextIs ==
  ASSUME NEW s \in Surfaces, Story(s), NEW c \in Checks, chk[c].surface = s
  PROVE  NextId(s) \in Nat /\ \A p \in snaps[s] : p.id < NextId(s)
<1> DEFINE given == Ids(s) \cup {0}
<1>1. given = {p.id : p \in snaps[s]} \cup {chk[c].id, 0} /\ chk[c].id \in Nat
  <2>1. {d \in Checks : chk[d].surface = s} = {c}
    BY DEF Story
  <2> QED
    BY <2>1 DEF Ids, Story, Looks
<1>2. \A i \in given : i \in Nat
  BY <1>1 DEF Story, Numbered
<1>3. \E i \in given : \A j \in given : i >= j
  <2>1. CASE snaps[s] = {}
    BY <1>1, <2>1
  <2>2. CASE snaps[s] # {}
    <3>1. PICK p \in snaps[s] : Highest(p, snaps[s])
      BY <2>2 DEF Story, Numbered
    <3>2. \A i \in given : i <= p.id \/ i = chk[c].id
      BY <1>1, <3>1 DEF Highest, Story, Numbered
    <3>3. p.id \in given /\ p.id \in Nat /\ chk[c].id \in given
      BY <1>1, <1>2
    <3> HIDE DEF given
    <3>4. CASE p.id <= chk[c].id
      <4>1. \A i \in given : chk[c].id >= i
        BY <1>1, <1>2, <3>2, <3>3, <3>4
      <4> QED
        BY <3>3, <4>1
    <3>5. CASE chk[c].id <= p.id
      <4>1. \A i \in given : p.id >= i
        BY <1>1, <1>2, <3>2, <3>3, <3>5
      <4> QED
        BY <3>3, <4>1
    <3> QED
      BY <1>1, <3>3, <3>4, <3>5
  <2> QED
    BY <2>1, <2>2
<1>4. Max(given) \in given /\ \A j \in given : Max(given) >= j
  BY <1>3 DEF Max
<1>5. \A p \in snaps[s] : p.id \in given
  BY <1>1
<1>6. NextId(s) = 1 + Max(given)
  BY DEF NextId
<1> HIDE DEF given
<1> QED
  BY <1>2, <1>4, <1>5, <1>6

\* A snapshot on top changes nothing of what is told of those below.
LEMMA ToldStays ==
  ASSUME NEW all, Numbered(all), NEW p \in all, NEW new, new.id \in Nat, \A q \in all : q.id < new.id,
         NEW told, Told(p, all, told)
  PROVE  Told(p, all \cup {new}, told)
<1>1. Earlier(p, all \cup {new}) = Earlier(p, all)
  BY DEF Earlier, Numbered
<1>2. Preceding(p, all \cup {new}) = Preceding(p, all)
  BY <1>1 DEF Preceding
<1> QED
  BY <1>1, <1>2 DEF Told

LEMMA OnTop ==
  ASSUME NEW all, Numbered(all), NEW new, new.id \in Nat, \A q \in all : q.id < new.id
  PROVE  /\ Numbered(all \cup {new}) /\ Earlier(new, all \cup {new}) = all
         /\ all # {} => Preceding(new, all \cup {new}) \in all /\ Highest(Preceding(new, all \cup {new}), all)
<1>1. Numbered(all \cup {new})
  <2>1. Highest(new, all \cup {new})
    BY DEF Highest, Numbered
  <2> QED
    BY <2>1 DEF Numbered
<1>2. Earlier(new, all \cup {new}) = all
  BY DEF Earlier
<1>3. ASSUME all # {}
      PROVE  Preceding(new, all \cup {new}) \in all /\ Highest(Preceding(new, all \cup {new}), all)
  <2>1. \E p \in all : \A q \in all : q.id <= p.id
    BY <1>3 DEF Numbered, Highest
  <2> QED
    BY <1>2, <2>1 DEF Preceding, Highest
<1> QED
  BY <1>1, <1>2, <1>3

\* A step of a check that records nothing of the page.
LEMMA StoryKeeps ==
  ASSUME ContentInv, NEW s \in Surfaces, Story(s), NEW c \in Checks, NEW k, Become(c, k),
         snaps'[s] = snaps[s], logs'[s] = logs[s], before' = before,
         k.surface = s => /\ Looks(k, snaps[s])
                          /\ \A d \in Checks \ {c} : chk[d].surface # s
  PROVE  Story(s)'
<1>1. chk'[c] = k /\ \A d \in Checks \ {c} : chk'[d] = chk[d]
  BY DEF Become, ContentInv
<1>2. \A d \in Checks : chk'[d].surface = s => Looks(chk'[d], snaps[s])
  BY <1>1 DEF Story
<1>3. \A d, e \in Checks : chk'[d].surface = s /\ chk'[e].surface = s => d = e
  BY <1>1 DEF Story
<1> QED
  BY <1>2, <1>3 DEF Story

\* A check that records a snapshot, and is done with the page.
LEMMA StoryGrows ==
  ASSUME ContentInv, NEW s \in Surfaces, Story(s), NEW c \in Checks, chk[c].surface = s,
         NEW k, Become(c, k), k.surface # s, before' = before,
         NEW new, new.id \in Nat, \A p \in snaps[s] : p.id < new.id, snaps'[s] = snaps[s] \cup {new},
         NEW told, logs'[s] = logs[s] \cup told, \A log \in told : log.new = new.id,
         Told(new, snaps[s] \cup {new}, told)
  PROVE  Story(s)'
<1>1. chk'[c] = k /\ \A d \in Checks \ {c} : chk'[d] = chk[d]
  BY DEF Become, ContentInv
<1>2. \A d \in Checks : chk'[d].surface # s
  BY <1>1 DEF Story
<1> DEFINE About(p) == {log \in logs'[s] : log.new = p.id}
<1>3. PICK all : all = snaps[s] /\ Numbered(all)
  BY DEF Story
<1>4. snaps'[s] = all \cup {new} /\ \A p \in all : p.id < new.id
  BY <1>3
<1>5. Numbered(snaps'[s])
  <2>1. Numbered(all \cup {new})
    BY <1>3, <1>4, OnTop
  <2> QED
    BY <1>4, <2>1
<1>6. \A log \in logs'[s] : \E p \in snaps'[s] : log.new = p.id
  BY DEF Story
<1>7. ASSUME NEW p \in all, p.id > before
      PROVE  Told(p, snaps'[s], About(p))
  <2>1. About(p) = {log \in logs[s] : log.new = p.id}
    BY <1>3, <1>4 DEF Numbered
  <2>2. Told(p, all, About(p))
    BY <1>3, <1>7, <2>1 DEF Story
  <2> HIDE DEF About
  <2> QED
    BY <1>3, <1>4, <2>2, ToldStays
<1>8. Told(new, snaps'[s], About(new))
  <2>1. About(new) = told
    BY <1>3, <1>4 DEF Story, Numbered
  <2> QED
    BY <1>3, <1>4, <2>1
<1>9. \A p \in snaps'[s] : p.id > before' => Told(p, snaps'[s], {log \in logs'[s] : log.new = p.id})
  <2> SUFFICES ASSUME NEW p \in snaps'[s], p.id > before PROVE Told(p, snaps'[s], About(p))
    OBVIOUS
  <2>1. p \in all \/ p = new
    BY <1>4
  <2> HIDE DEF About
  <2> QED
    BY <1>7, <1>8, <2>1
<1> QED
  BY <1>2, <1>5, <1>6, <1>9 DEF Story

\* What a check looks at.
LEMMA LooksAt ==
  ASSUME ContentInv, NEW s \in Surfaces, Story(s), NEW c \in Checks
  PROVE  /\ {"pc", "surface", "new", "prev", "id", "scored", "found"} \subseteq DOMAIN chk[c]
         /\ s # None
         /\ chk[c].surface = s => /\ Looks(chk[c], snaps[s])
                                  /\ \A d \in Checks \ {c} : chk[d].surface # s
  BY ContentAssumption DEF ContentInv, Fits, Story

\* A check that ends, or goes on to another call, and records nothing.
LEMMA StoryQuiet ==
  ASSUME ContentInv, NEW s \in Surfaces, Story(s), NEW c \in Checks,
         snaps'[s] = snaps[s], logs'[s] = logs[s], before' = before,
         \/ \E k : Become(c, k) /\ k.surface = None
         \/ Wrap(c)
         \/ \E pc : /\ GoTo(c, pc)
                    /\ \/ chk[c].pc \notin {"fetch", "compare", "score", "scoring", "commit"}
                       \/ chk[c].pc \in {"score", "scoring"} /\ pc \in {"scoring", "commit"}
  PROVE  Story(s)'
<1>1. ASSUME NEW k, Become(c, k), k.surface = None PROVE Story(s)'
  BY <1>1, LooksAt, StoryKeeps
<1>2. CASE Wrap(c)
  <2>1. IdleCheck.surface = None /\ Summary.surface = None
    BY DEF IdleCheck, Summary
  <2> QED
    BY <1>1, <1>2, <2>1, WrapIs
<1>3. ASSUME NEW pc, GoTo(c, pc),
             \/ chk[c].pc \notin {"fetch", "compare", "score", "scoring", "commit"}
             \/ chk[c].pc \in {"score", "scoring"} /\ pc \in {"scoring", "commit"}
      PROVE  Story(s)'
  <2>1. PICK k : k = [chk[c] EXCEPT !.pc = pc]
    OBVIOUS
  <2>2. k.surface = chk[c].surface /\ k.new = chk[c].new /\ k.prev = chk[c].prev /\ k.id = chk[c].id
        /\ k.pc = pc /\ DOMAIN k = DOMAIN chk[c]
    BY <2>1, LooksAt
  <2>3. ASSUME k.surface = s PROVE Looks(k, snaps[s])
    <3>1. Looks(chk[c], snaps[s])
      BY <2>2, <2>3, LooksAt
    <3>2. chk[c].pc \in {"score", "scoring"} /\ pc \in {"scoring", "commit"}
      BY <1>3, <3>1 DEF Looks
    <3> QED
      BY <2>2, <3>1, <3>2 DEF Looks
  <2>4. Become(c, k)
    BY <1>3, <2>1 DEF GoTo
  <2> QED
    BY <2>2, <2>3, <2>4, LooksAt, StoryKeeps
<1> QED
  BY <1>1, <1>2, <1>3

\* A page is fetched and compared.
LEMMA StoryReads ==
  ASSUME ContentInv, NEW s \in Surfaces, Story(s), NEW c \in Checks, s \notin clash',
         (\E x \in Surfaces : Start(c, x)) \/ Fetch(c) \/ Change(c)
  PROVE  Story(s)'
<1>1. snaps'[s] = snaps[s] /\ logs'[s] = logs[s] /\ before' = before
  BY DEF Start, Fetch, Change, Rows, Stored
<1>2. ASSUME NEW x \in Surfaces, Start(c, x) PROVE Story(s)'
  <2>1. PICK k : k = [IdleCheck EXCEPT !.pc = "fetch", !.surface = x]
    OBVIOUS
  <2>2. Become(c, k) /\ k.surface = x /\ Looks(k, snaps[s])
    BY <1>2, <2>1 DEF Start, IdleCheck, Looks
  <2>3. x = s => \A d \in Checks \ {c} : chk[d].surface # s
    BY <1>2 DEF Start
  <2> QED
    BY <1>1, <2>2, <2>3, StoryKeeps
<1>3. CASE Fetch(c)
  <2>1. PICK k : k = [chk[c] EXCEPT !.pc = "compare", !.new = capture_clean_snapshot[page[chk[c].surface]]]
    OBVIOUS
  <2>2. Become(c, k) /\ chk[c].pc = "fetch"
    BY <1>3, <2>1 DEF Fetch, At
  <2>3. /\ k.surface = chk[c].surface /\ k.id = chk[c].id /\ k.pc = "compare"
        /\ k.new = capture_clean_snapshot[page[chk[c].surface]] /\ DOMAIN k = DOMAIN chk[c]
    BY <2>1, LooksAt
  <2>4. ASSUME k.surface = s PROVE Looks(k, snaps[s])
    <3>1. page[s] \in Raw
      BY DEF ContentInv
    <3>2. Clean(k.new)
      BY <2>3, <2>4, <3>1, Cleaned
    <3>3. Looks(chk[c], snaps[s])
      BY <2>3, <2>4, LooksAt
    <3> QED
      BY <2>3, <3>2, <3>3 DEF Looks
  <2> QED
    BY <1>1, <2>2, <2>3, <2>4, LooksAt, StoryKeeps
<1>4. CASE Change(c)
  <2>1. PICK k : k = [chk[c] EXCEPT !.pc = IF llm THEN "score" ELSE "commit",
                                    !.prev = LatestOf(chk[c].surface).id, !.id = NextId(chk[c].surface)]
    OBVIOUS
  <2>2. /\ Become(c, k) /\ chk[c].pc = "compare"
        /\ PreviousText(chk[c].surface) # None /\ PreviousText(chk[c].surface) # chk[c].new
    BY <1>4, <2>1 DEF Change, At, has_material_diff
  <2>3. /\ k.surface = chk[c].surface /\ k.new = chk[c].new /\ k.pc \in {"score", "commit"}
        /\ k.prev = LatestOf(chk[c].surface).id /\ k.id = NextId(chk[c].surface)
        /\ DOMAIN k = DOMAIN chk[c]
    BY <2>1, LooksAt
  <2>4. ASSUME k.surface = s PROVE Looks(k, snaps[s])
    <3>1. snaps[s] # {}
      BY <2>2, <2>3, <2>4 DEF PreviousText
    <3>2. /\ LatestOf(s) \in snaps[s] /\ Highest(LatestOf(s), snaps[s])
          /\ PreviousText(s) = LatestOf(s).text
      BY <3>1, LatestIs DEF Story
    <3>3. NextId(s) \in Nat /\ LatestOf(s).id < NextId(s)
      BY <2>3, <2>4, <3>2, NextIs
    <3>4. Looks(chk[c], snaps[s])
      BY <2>3, <2>4, LooksAt
    <3>5. k.prev = LatestOf(s).id /\ k.id = NextId(s) /\ LatestOf(s).text # None /\ LatestOf(s).text # k.new
      BY <2>2, <2>3, <2>4, <3>2
    <3>6. {"pc", "surface", "new", "prev", "id"} \subseteq DOMAIN k /\ k.pc \in {"score", "commit"} /\ Clean(k.new)
      BY <2>2, <2>3, <3>4 DEF Looks
    <3> QED
      BY <3>2, <3>3, <3>5, <3>6 DEF Looks
  <2> QED
    BY <1>1, <2>2, <2>3, <2>4, LooksAt, StoryKeeps
<1> QED
  BY <1>2, <1>3, <1>4

\* A snapshot is recorded, with its log or as the first text.
LEMMA StoryRecords ==
  ASSUME ContentInv, NEW s \in Surfaces, Story(s), NEW c \in Checks, Baseline(c) \/ Commit(c)
  PROVE  Story(s)'
<1>1. DOMAIN snaps = Surfaces /\ DOMAIN logs = Surfaces /\ before' = before
  BY DEF ContentInv, Baseline, Commit, Rows
<1>2. PICK k : Become(c, k) /\ k.surface = None
  <2>1. /\ IdleCheck.surface = None /\ Summary.surface = None
        /\ [IdleCheck EXCEPT !.pc = "baseline"].surface = None
        /\ [IdleCheck EXCEPT !.pc = "embed"].surface = None
    BY DEF IdleCheck, Summary
  <2> QED
    BY <2>1, WrapIs DEF Baseline, Commit
<1>3. CASE chk[c].surface # s
  <2>1. snaps'[s] = snaps[s] /\ logs'[s] = logs[s]
    BY <1>1, <1>3 DEF Baseline, Commit
  <2> QED
    BY <1>1, <1>2, <2>1, StoryQuiet
<1>4. CASE chk[c].surface = s /\ Baseline(c)
  <2>1. PICK new : new = [id |-> NextId(s), text |-> chk[c].new]
    OBVIOUS
  <2>2. new.id \in Nat /\ \A p \in snaps[s] : p.id < new.id
    BY <1>4, <2>1, NextIs
  <2>3. snaps'[s] = snaps[s] \cup {new} /\ logs'[s] = logs[s] \cup {}
    BY <1>1, <1>4, <2>1 DEF Baseline
  <2>4. Clean(new.text)
    BY <1>4, <2>1, LooksAt DEF Looks, Baseline, At
  <2>5. ASSUME snaps[s] # {} PROVE Preceding(new, snaps[s] \cup {new}).text = None
    <3>1. /\ LatestOf(s) \in snaps[s] /\ Highest(LatestOf(s), snaps[s])
          /\ PreviousText(s) = LatestOf(s).text
      BY <2>5, LatestIs DEF Story
    <3>2. /\ Preceding(new, snaps[s] \cup {new}) \in snaps[s]
          /\ Highest(Preceding(new, snaps[s] \cup {new}), snaps[s])
      BY <2>2, <2>5, OnTop DEF Story
    <3>3. Preceding(new, snaps[s] \cup {new}) = LatestOf(s)
      BY <3>1, <3>2, HighestIsOne DEF Story
    <3> QED
      BY <1>4, <3>1, <3>3 DEF Baseline
  <2>6. Told(new, snaps[s] \cup {new}, {})
    <3>1. Earlier(new, snaps[s] \cup {new}) = snaps[s]
      BY <2>2, OnTop DEF Story
    <3> QED
      BY <2>4, <2>5, <3>1 DEF Told
  <2>7. k.surface # s
    BY <1>2, LooksAt
  <2> QED
    BY <1>1, <1>2, <1>4, <2>2, <2>3, <2>6, <2>7, StoryGrows
<1>5. CASE chk[c].surface = s /\ Commit(c)
  <2>1. PICK new : new = [id |-> chk[c].id, text |-> chk[c].new]
    OBVIOUS
  <2>2. PICK log : log = [old |-> chk[c].prev, new |-> chk[c].id]
    OBVIOUS
  <2>3. PICK p \in snaps[s] : /\ Highest(p, snaps[s]) /\ p.id < chk[c].id
                              /\ chk[c].prev = p.id /\ p.text # None /\ p.text # chk[c].new
    BY <1>5, LooksAt DEF Looks, Commit, At, Highest
  <2>4. new.id \in Nat /\ \A q \in snaps[s] : q.id < new.id
    <3>1. chk[c].id \in Nat
      BY <1>5, LooksAt DEF Looks
    <3> QED
      BY <2>1, <2>3, <3>1 DEF Highest, Story, Numbered
  <2>5. snaps'[s] = snaps[s] \cup {new} /\ logs'[s] = logs[s] \cup {log}
    BY <1>1, <1>5, <2>1, <2>2 DEF Commit
  <2>6. Clean(new.text)
    BY <1>5, <2>1, LooksAt DEF Looks, Commit, At
  <2>7. Preceding(new, snaps[s] \cup {new}) = p
    <3>1. /\ Preceding(new, snaps[s] \cup {new}) \in snaps[s]
          /\ Highest(Preceding(new, snaps[s] \cup {new}), snaps[s])
      BY <2>4, OnTop DEF Story
    <3> QED
      BY <2>3, <3>1, HighestIsOne DEF Story
  <2>8. Told(new, snaps[s] \cup {new}, {log})
    <3>1. Earlier(new, snaps[s] \cup {new}) = snaps[s]
      BY <2>4, OnTop DEF Story
    <3>2. log = [old |-> p.id, new |-> new.id] /\ new.text = chk[c].new
      BY <2>1, <2>2, <2>3
    <3> QED
      BY <2>3, <2>6, <2>7, <3>1, <3>2 DEF Told
  <2>9. \A l \in {log} : l.new = new.id
    BY <2>1, <2>2
  <2>10. k.surface # s
    BY <1>2, LooksAt
  <2> QED
    BY <1>1, <1>2, <1>5, <2>4, <2>5, <2>8, <2>9, <2>10, StoryGrows
<1> QED
  BY <1>3, <1>4, <1>5

LEMMA StoryStep == StoryInv /\ [Next]_vars => StoryInv'
<1> SUFFICES ASSUME StoryInv, [Next]_vars PROVE StoryInv'
  OBVIOUS
<1>1. ContentInv /\ ContentInv'
  BY ContentStep DEF StoryInv
<1>2. clash \subseteq clash'
  <2>1. ASSUME NEW c \in Checks, NEW s \in Surfaces, Start(c, s) PROVE clash \subseteq clash'
    BY <2>1 DEF Start
  <2>2. ASSUME NEW c \in Checks, Fetch(c) \/ FailFetch(c) \/ Refresh(c) \/ Crash(c) PROVE clash' = clash
    BY <2>2 DEF Fetch, FailFetch, Refresh, Crash
  <2>3. ASSUME NEW c \in Checks, \/ Baseline(c) \/ NoChange(c) \/ Change(c) \/ Call(c) \/ Refuse(c)
                                 \/ FailCall(c) \/ Scored(c) \/ Commit(c)
        PROVE  clash' = clash
    BY <2>3 DEF Baseline, NoChange, Change, Call, Refuse, FailCall, Scored, Commit
  <2>4. ASSUME NEW c \in Checks, \/ Described(c) \/ KeepDescription(c) \/ Embedded(c) \/ KeepEmbedding(c)
                                 \/ Summarize(c) \/ Summarized(c) \/ Write(c)
        PROVE  clash' = clash
    BY <2>4 DEF Described, KeepDescription, Embedded, KeepEmbedding, Summarize, Summarized, Write
  <2>5. CASE Age \/ (\E s \in Surfaces, raw \in Raw : Edit(s, raw))
             \/ (\E new \in Caps \cup {NoCap} : Owner(new)) \/ UNCHANGED vars
    BY <2>5 DEF Age, Edit, Owner, vars, content
  <2> QED
    BY <2>1, <2>2, <2>3, <2>4, <2>5 DEF Next, Finish
<1>3. ASSUME NEW s \in Surfaces \ clash' PROVE Story(s)'
  <2>0. s \in Surfaces /\ s \notin clash' /\ Story(s)
    BY <1>2 DEF StoryInv
  <2>1. ASSUME NEW c \in Checks,
               (\E x \in Surfaces : Start(c, x)) \/ Fetch(c) \/ Change(c) \/ Baseline(c) \/ Commit(c)
        PROVE  Story(s)'
    BY <1>1, <2>0, <2>1, StoryReads, StoryRecords
  <2>2. ASSUME NEW c \in Checks, FailFetch(c) \/ NoChange(c) \/ Refresh(c) \/ Crash(c) \/ Write(c)
        PROVE  Story(s)'
    <3>1. /\ IdleCheck.surface = None
          /\ [IdleCheck EXCEPT !.pc = "pages"].surface = None
      BY DEF IdleCheck
    <3>2. \E k : Become(c, k) /\ k.surface = None
      BY <2>2, <3>1 DEF FailFetch, NoChange, Refresh, Crash, Write
    <3>3. snaps' = snaps /\ logs' = logs /\ before' = before
      BY <2>2 DEF FailFetch, NoChange, Refresh, Crash, Write, Rows, Stored
    <3> QED
      BY <1>1, <2>0, <3>2, <3>3, StoryQuiet
  <2>3. ASSUME NEW c \in Checks, Refuse(c) \/ FailCall(c) PROVE Story(s)'
    <3>1. snaps' = snaps /\ logs' = logs /\ before' = before /\ Without(c)
      BY <2>3 DEF Refuse, FailCall, Rows, Stored
    <3>2. \/ GoTo(c, "commit") /\ chk[c].pc \in {"score", "scoring"}
          \/ Become(c, IdleCheck) \/ Wrap(c)
      BY <3>1 DEF Without
    <3>3. IdleCheck.surface = None
      BY DEF IdleCheck
    <3> QED
      BY <1>1, <2>0, <3>1, <3>2, <3>3, StoryQuiet
  <2>4. ASSUME NEW c \in Checks, Call(c) PROVE Story(s)'
    <3>1. snaps' = snaps /\ logs' = logs /\ before' = before /\ GoTo(c, AskFor[chk[c].pc])
      BY <2>4 DEF Call, Rows, Stored
    <3>2. chk[c].pc \in {"score", "embed", "baseline", "pages"}
      BY <2>4, Waits DEF Call
    <3>3. AskFor["score"] = "scoring"
      BY DEF AskFor
    <3> QED
      BY <1>1, <2>0, <3>1, <3>2, <3>3, StoryQuiet
  <2>5. ASSUME NEW c \in Checks, Described(c) \/ Embedded(c) \/ KeepDescription(c) \/ KeepEmbedding(c) \/ Summarize(c)
        PROVE  Story(s)'
    <3>1. snaps' = snaps /\ logs' = logs /\ before' = before
      BY <2>5 DEF Described, Embedded, KeepDescription, KeepEmbedding, Summarize, Rows, Stored
    <3>2. \/ Wrap(c) \/ Become(c, IdleCheck)
          \/ \E pc : GoTo(c, pc) /\ chk[c].pc \in {"describing", "embedding", "summary"}
      BY <2>5 DEF Described, Embedded, KeepDescription, KeepEmbedding, Summarize, At
    <3>3. IdleCheck.surface = None
      BY DEF IdleCheck
    <3> QED
      BY <1>1, <2>0, <3>1, <3>2, <3>3, StoryQuiet
  <2>6. ASSUME NEW c \in Checks, Scored(c) \/ Summarized(c) PROVE Story(s)'
    <3>1. snaps' = snaps /\ logs' = logs /\ before' = before
      BY <2>6 DEF Scored, Summarized, Rows, Stored
    <3>2. PICK k : /\ Become(c, k) /\ DOMAIN k = DOMAIN chk[c]
                   /\ k.surface = chk[c].surface /\ k.new = chk[c].new
                   /\ k.prev = chk[c].prev /\ k.id = chk[c].id
                   /\ \/ chk[c].pc = "scoring" /\ k.pc = "commit"
                      \/ chk[c].pc = "summarizing"
      <4>1. CASE Scored(c)
        <5>1. PICK k : k = [chk[c] EXCEPT !.pc = "commit", !.scored = TRUE]
          OBVIOUS
        <5>2. {"pc", "surface", "new", "prev", "id", "scored", "found"} \subseteq DOMAIN chk[c]
          BY <1>1, <2>0, LooksAt
        <5>3. Become(c, k) /\ chk[c].pc = "scoring"
          BY <4>1, <5>1 DEF Scored, At
        <5>4. /\ DOMAIN k = DOMAIN chk[c] /\ k.pc = "commit"
              /\ k.surface = chk[c].surface /\ k.new = chk[c].new
              /\ k.prev = chk[c].prev /\ k.id = chk[c].id
          BY <5>1, <5>2
        <5> QED
          BY <5>3, <5>4
      <4>2. CASE Summarized(c)
        <5>1. PICK k : k = [chk[c] EXCEPT !.pc = "write", !.found = summary # None]
          OBVIOUS
        <5> QED
          BY <1>1, <2>0, <4>2, <5>1, LooksAt DEF Summarized, At
      <4> QED
        BY <2>6, <4>1, <4>2
    <3>3. ASSUME k.surface = s PROVE Looks(k, snaps[s])
      <4>1. Looks(chk[c], snaps[s])
        BY <1>1, <2>0, <3>2, <3>3, LooksAt
      <4>2. chk[c].pc = "scoring" /\ k.pc = "commit"
        BY <3>2, <4>1 DEF Looks
      <4> QED
        BY <3>2, <4>1, <4>2 DEF Looks
    <3> QED
      BY <1>1, <2>0, <3>1, <3>2, <3>3, LooksAt, StoryKeeps
  <2>7. CASE Age \/ (\E x \in Surfaces, raw \in Raw : Edit(x, raw))
             \/ (\E new \in Caps \cup {NoCap} : Owner(new)) \/ UNCHANGED vars
    <3>1. snaps' = snaps /\ logs' = logs /\ before' = before /\ chk' = chk
      BY <2>7 DEF Age, Edit, Owner, Rows, Stored, vars, content
    <3> QED
      BY <2>0, <3>1 DEF Story
  <2> QED
    BY <2>1, <2>2, <2>3, <2>4, <2>5, <2>6, <2>7 DEF Next, Finish
<1> QED
  BY <1>1, <1>3 DEF StoryInv

\* Each snapshot that follows a text has one change log, from the snapshot right
\* before it, and differs from that one in more than noise, for every page, every
\* history and every number of checks, crashes and failed calls, unless two
\* checks of the page ran at a time (check_service.py:332-384).
THEOREM LogsTellTheStory == Spec => []LogsTellAll
<1>1. StoryInv => LogsTellAll
  BY DEF StoryInv, Story, LogsTellAll
<1>2. Spec => []StoryInv
  BY InitStory, StoryStep, PTL DEF Spec
<1> QED
  BY <1>1, <1>2, PTL

=============================================================================
