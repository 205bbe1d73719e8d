-------------------------- MODULE ReviewEscalation --------------------------
(* Code reviews of one task of the orchestrator: verdicts (review/verdict.rs,    *)
(* review/repository.rs) beside the escalation reaper, which every replica runs  *)
(* while it leads (review_escalation_reaper.rs composed with Leader).            *)
EXTENDS Leader, FiniteSets

CONSTANTS
    Reviews,
    Calls,      \* verdict requests in flight
    Batch,      \* ESCALATION_BATCH
    MaxTold     \* bound: events counted per review

ReviewAssumption == LeaderAssumption /\ Batch \in Nat \ {0} /\ MaxTold \in Nat

Verdicts == {"approved", "changes_requested"}

VARIABLES
    review,     \* code_reviews.state
    overdue,    \* due_at passed by the grace
    escalated,  \* escalated_at is set
    told,       \* review.escalated events sent per review
    telling,    \* rows a sweep returned that are not sent yet, None before it ran
    call,       \* a verdict that passed its checks, or None
    task        \* tasks.state

rows == <<review, overdue, escalated, task>>
rVars == <<rows, told, telling, call>>
vars == <<electVars, rVars>>

TypeOK ==
    /\ ElectTypeOK
    /\ review \in [Reviews -> {"none", "pending"} \cup Verdicts]
    /\ overdue \subseteq Reviews /\ escalated \subseteq overdue
    /\ told \in [Reviews -> 0..MaxTold]
    /\ telling \in [Replicas -> (SUBSET escalated) \cup {None}]
    /\ call \in [Calls -> (Reviews \X Verdicts) \cup {None}]
    /\ task \in {"review", "completed", "changes_requested"}
    /\ \A r \in Replicas : at[r] # "sweeping" => telling[r] = None

Init ==
    /\ ElectInit
    /\ review = [v \in Reviews |-> "none"]
    /\ overdue = {} /\ escalated = {}
    /\ told = [v \in Reviews |-> 0]
    /\ telling = [r \in Replicas |-> None]
    /\ call = [c \in Calls |-> None]
    /\ task = "review"

-----------------------------------------------------------------------------
(* Reviews and verdicts *)

Create(v) ==
    /\ review[v] = "none"
    /\ review' = [review EXCEPT ![v] = "pending"]
    /\ UNCHANGED <<electVars, overdue, escalated, told, telling, call, task>>

PassDue(v) ==
    /\ review[v] # "none" /\ v \notin overdue
    /\ overdue' = overdue \cup {v}
    /\ UNCHANGED <<electVars, review, escalated, told, telling, call, task>>

\* apply_review_verdict up to its guards.
CheckVerdict(c) ==
    /\ call[c] = None
    /\ \E v \in Reviews, verdict \in Verdicts :
          /\ review[v] = "pending"
          /\ call' = [call EXCEPT ![c] = <<v, verdict>>]
    /\ UNCHANGED <<electVars, rows, told, telling>>

TaskAfter(verdict) == IF verdict = "approved" THEN "completed" ELSE "changes_requested"

\* apply_verdict: one transaction, neither UPDATE looks at the old state.
ApplyVerdict(c) ==
    /\ call[c] # None
    /\ LET v == call[c][1] verdict == call[c][2] IN
          /\ review' = [review EXCEPT ![v] = verdict]
          /\ task' = TaskAfter(verdict)
    /\ call' = [call EXCEPT ![c] = None]
    /\ UNCHANGED <<electVars, overdue, escalated, told, telling>>

-----------------------------------------------------------------------------
(* The escalation reaper *)

\* Mutant: a review that was escalated is taken again.
OverdueAgain == {v \in overdue : review[v] = "pending"}

\* The rows of REAP_OVERDUE_REVIEWS_SQL.
Overdue == {v \in overdue \ escalated : review[v] = "pending"}

\* One batch of them.
Reap(r) ==
    /\ at[r] = "sweeping" /\ telling[r] = None
    /\ \E some \in SUBSET Overdue :
          /\ Cardinality(some) = Batch \/ (some = Overdue /\ Cardinality(some) < Batch)
          /\ escalated' = escalated \cup some
          /\ telling' = [telling EXCEPT ![r] = some]
    /\ UNCHANGED <<electVars, review, overdue, told, call, task>>

\* The statement fails and the tick with it.
ReapFails(r) ==
    /\ at[r] = "sweeping" /\ telling[r] = None
    /\ telling' = [telling EXCEPT ![r] = {}]
    /\ UNCHANGED <<electVars, rows, told, call>>

\* Broadcast and audit of one row.
Tell(r) ==
    /\ telling[r] # None
    /\ \E v \in telling[r] :
          /\ told[v] < MaxTold
          /\ told' = [told EXCEPT ![v] = @ + 1]
          /\ telling' = [telling EXCEPT ![r] = @ \ {v}]
    /\ UNCHANGED <<electVars, rows, call>>

Forget(r) == telling' = [telling EXCEPT ![r] = None]

EndTick(r) ==
    /\ telling[r] = {}
    /\ SweepEnds(r) /\ Forget(r)
    /\ UNCHANGED <<rows, told, call>>

ReplicaCrash(r) ==
    /\ Crash(r) /\ Forget(r)
    /\ UNCHANGED <<rows, told, call>>

Lead(r) ==
    /\ Tick(r) \/ Verify(r) \/ VerifyFails(r) \/ Elect(r)
    /\ UNCHANGED rVars

Next ==
    \/ \E v \in Reviews : Create(v) \/ PassDue(v)
    \/ \E c \in Calls : CheckVerdict(c) \/ ApplyVerdict(c)
    \/ \E r \in Replicas :
          \/ Lead(r) \/ Reap(r) \/ ReapFails(r) \/ Tell(r) \/ EndTick(r) \/ ReplicaCrash(r)
          \/ ElectFails(r) /\ UNCHANGED rVars
    \/ Network /\ UNCHANGED rVars

Spec == Init /\ [][Next]_vars

-----------------------------------------------------------------------------
\* "A review escalates exactly once, ever": no two sweeps, of whatever replicas
\* believe that they lead, tell of the same review.
ToldOnce == \A v \in Reviews : told[v] + Cardinality({r \in Replicas : telling[r] # None /\ v \in telling[r]}) <= 1

\* The verdict and its task side-effect are consistent: a completed task has an
\* approved review, however verdicts of several reviews overlap.
CompletedIsApproved == task = "completed" => \E v \in Reviews : review[v] = "approved"

\* All of them, with the lock of the loop: it is with a replica that keeps its session, or
\* with a session the server is about to end.
EscalationSound ==
    TypeOK /\ ToldOnce /\ CompletedIsApproved /\ NoLeakedLock /\ LeadersHoldTheLock

\* An overdue review is escalated or decided, whichever replica leads.
OverdueIsHandled ==
    \/ \A v \in Reviews : v \in Overdue ~> v \notin Overdue
    \/ <>(taken = MaxSessions)

\* "only legal transitions are allowed": a decided review keeps its verdict.
VerdictStands == [][\A v \in Reviews : review[v] \in Verdicts => review'[v] = review[v]]_review
=============================================================================
