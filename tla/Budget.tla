------------------------------- MODULE Budget -------------------------------
(***************************************************************************)
(* A workspace's cap on what it spends on calls to the language model.  A  *)
(* caller reads the spend before its call and logs what the call used with *)
(* the commit of its own work, so callers that asked together spend        *)
(* together.                                                               *)
(***************************************************************************)
EXTENDS Integers, FiniteSets

CONSTANTS
    Callers,     \* checks, jobs and requests that may call at one time
    Usage,       \* what a call may use
    MaxTokens,   \* and at most uses
    Caps,        \* caps an owner sets
    NoCap        \* the column is NULL, or there is no row

ASSUME BudgetAssumption ==
    /\ IsFiniteSet(Callers) /\ MaxTokens \in Nat /\ Usage \subseteq 0..MaxTokens
    /\ Caps \subseteq Nat /\ NoCap \notin Nat

VARIABLES
    cap,         \* monthly_cap_usd
    logged,      \* spend of the committed token_usage_logs
    call,        \* caller -> [pc, tokens]
    limit        \* bookkeeping: the cap, or what had been spent when it was set

budget == <<cap, logged, call, limit>>

Idle == [pc |-> "idle", tokens |-> 0]
Asked == [pc |-> "asked", tokens |-> 0]

Limit(new) == IF new = NoCap \/ logged < new THEN new ELSE logged + 1

BudgetInit ==
    /\ cap \in Caps \cup {NoCap}
    /\ logged = 0
    /\ call = [c \in Callers |-> Idle]
    /\ limit = Limit(cap)

\* Mutant: a workspace at its cap is let through.
AllowedAtCap == cap # NoCap => logged <= cap

\* check_budget lets a workspace through that has no cap, or is below it.
Allowed == cap # NoCap => logged < cap

Ask(c) ==
    /\ call[c].pc = "idle" /\ Allowed
    /\ call' = [call EXCEPT ![c] = Asked]
    /\ UNCHANGED <<cap, logged, limit>>

\* The provider answers; the usage is in the caller's session.
Answer(c) ==
    /\ call[c].pc = "asked"
    /\ \E tokens \in Usage : call' = [call EXCEPT ![c] = [pc |-> "answered", tokens |-> tokens]]
    /\ UNCHANGED <<cap, logged, limit>>

\* The caller's commit.
Log(c) ==
    /\ call[c].pc = "answered"
    /\ logged' = logged + call[c].tokens
    /\ call' = [call EXCEPT ![c] = Idle]
    /\ UNCHANGED <<cap, limit>>

\* The call raises, or the caller rolls back or dies: what was used is in no log.
Lose(c) ==
    /\ call[c].pc # "idle"
    /\ call' = [call EXCEPT ![c] = Idle]
    /\ UNCHANGED <<cap, logged, limit>>

\* update_budget.
SetCap(new) ==
    /\ cap' = new
    /\ limit' = Limit(new)
    /\ UNCHANGED <<logged, call>>

BudgetNext ==
    \/ \E c \in Callers : Ask(c) \/ Answer(c) \/ Log(c) \/ Lose(c)
    \/ \E new \in Caps \cup {NoCap} : SetCap(new)

BudgetSpec == BudgetInit /\ [][BudgetNext]_budget

BudgetTypeOK ==
    /\ cap \in Caps \cup {NoCap} /\ limit \in Nat \cup {NoCap}
    /\ logged \in Nat
    /\ call \in [Callers -> [pc : {"idle", "asked", "answered"}, tokens : 0..MaxTokens]]

\* "skip the call entirely once a workspace is over its cap, not bill it and
\* then complain" (budget_service.py:95-98), and what concurrency leaves of it:
\* the log does not reach a call of every caller past the cap, or past what had
\* been spent when the cap was set.
Overshoot ==
    limit # NoCap => logged < limit + MaxTokens * Cardinality(Callers)

=============================================================================
