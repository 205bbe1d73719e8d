--------------------------- MODULE MCOrchestrator ---------------------------
(* The workflow orchestrator, for TLC: the dispatches of one task, and the reviews of  *)
(* another with the elected escalation loop. The two share no row, so a behaviour      *)
(* follows one of them and the other keeps still.                                      *)
EXTENDS AgentAssign, TLC

\* ReviewEscalation's.
CONSTANTS Replicas, MaxSessions, MaxCrashes, Reviews, Calls, Batch, MaxTold

VARIABLES
    part,      \* the one this behaviour follows
    at, slot, holder, broken, taken, crashes,
    review, overdue, escalated, told, telling, call, task

electVars == <<at, slot, holder, broken, taken, crashes>>
restVars == <<review, overdue, escalated, told, telling, call, task>>
reviewVars == <<electVars, restVars>>
orchestratorVars == <<part, vars, reviewVars>>

Review == INSTANCE ReviewEscalation

ASSUME InstanceAssumption == Review!ReviewAssumption

OrchestratorInit ==
    /\ part \in {"dispatch", "review"}
    /\ Init /\ Review!Init

OrchestratorNext ==
    /\ UNCHANGED part
    /\ \/ part = "dispatch" /\ Next /\ UNCHANGED reviewVars
       \/ part = "review" /\ Review!Next /\ UNCHANGED vars

\* Each part's own fairness, in the behaviours that follow it.
DispatchesGo ==
    LET on == part = "dispatch" IN
    /\ WF_vars(on /\ Reap)
    /\ \A d \in Dispatches : WF_vars(on /\ Age(d))

ReviewsGo ==
    LET on == part = "review" IN
    /\ \A r \in Replicas :
          /\ WF_reviewVars(on /\ Review!Lead(r))
          /\ SF_reviewVars(on /\ Review!Elect(r) /\ UNCHANGED restVars)
          /\ SF_reviewVars(on /\ Review!Reap(r))
          /\ WF_reviewVars(on /\ Review!Tell(r)) /\ WF_reviewVars(on /\ Review!EndTick(r))
    /\ \A s \in Review!Sessions : WF_reviewVars(on /\ Review!ServerEnds(s) /\ UNCHANGED restVars)

OrchestratorSpec ==
    OrchestratorInit /\ [][OrchestratorNext]_orchestratorVars /\ DispatchesGo /\ ReviewsGo

-----------------------------------------------------------------------------
\* ReviewEscalation's: no review is told of twice, whoever believes that it leads; a
\* completed task has an approved review; the lock is with a replica or with a session
\* the server is about to end.
EscalationSound == Review!EscalationSound

\* An overdue review is escalated or decided, whichever replica leads.
OverdueIsHandled == part = "review" => Review!OverdueIsHandled
=============================================================================
