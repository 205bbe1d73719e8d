------------------------- MODULE TaskDispatchProofs -------------------------
(***************************************************************************)
(* Theorems about TaskDispatch, for every number of tasks, Agents and      *)
(* attempts, with legacy rows and batch retirement included.               *)
(***************************************************************************)
EXTENDS TaskDispatchRefinement, TLAPS

(* Type correctness. *)

LEMMA InitialReasonType ==
  \A t \in Tasks : \A done \in BOOLEAN : InitialReason(t, done) \in Reasons
  BY DEF InitialReason, Reasons

LEMMA PrereqsSeenType == \A t \in Tasks : PrereqsSeen(t) \subseteq BOOLEAN
  BY DEF PrereqsSeen, PrereqsDone

\* Gating a row keeps its type and starts no work.
LEMMA GateType ==
  ASSUME TypeOK, NEW t \in Tasks, NEW r \in Reasons, NEW lane \in {"backlog", "queued"},
         Gate(t, r, lane)
  PROVE  /\ status' \in [Tasks -> Statuses] /\ reason' \in [Tasks -> Reasons]
         /\ \A u \in Tasks : status'[u] = "working" => status[u] = "working" /\ u # t
  BY DEF Gate, TypeOK, Statuses, Reasons

\* What Create, Approve and Retry do to the state of a row.
LEMMA GatingStep ==
  ASSUME TypeOK, NEW t \in Tasks, Create(t) \/ Approve(t) \/ Retry(t)
  PROVE  /\ status' \in [Tasks -> Statuses] /\ reason' \in [Tasks -> Reasons]
         /\ \A u \in Tasks : status'[u] = "working" => status[u] = "working" /\ u # t
  <1>1. CASE Create(t) \/ Retry(t)
    <2>1. PICK done \in PrereqsSeen(t) : Gate(t, InitialReason(t, done), "backlog")
      BY <1>1 DEF Create, Retry
    <2> QED
      BY <2>1, GateType, InitialReasonType, PrereqsSeenType
  <1>2. CASE Approve(t)
    <2>1. PICK done \in PrereqsSeen(t) :
              Gate(t, IF done THEN "none" ELSE "waiting_dependency", "queued")
      BY <1>2 DEF Approve
    <2>2. (IF done THEN "none" ELSE "waiting_dependency") \in Reasons
      BY DEF Reasons
    <2> QED
      BY <2>1, <2>2, GateType
  <1> QED
    BY <1>1, <1>2

LEMMA InitType == Init => TypeOK
  <1> SUFFICES ASSUME Init PROVE TypeOK
    OBVIOUS
  <1>1. PICK owner \in [LegacyTasks -> Agents] :
          /\ assigned = [t \in Tasks |-> IF t \in LegacyTasks THEN owner[t] ELSE None]
          /\ participant = [a \in Agents |->
                 IF \E t \in LegacyTasks : owner[t] = a THEN "busy" ELSE "none"]
    BY DEF Init
  <1>2. assigned \in [Tasks -> Agents \cup {None}]
    BY <1>1
  <1>3. participant \in [Agents -> {"none", "available", "busy", "offline"}]
    BY <1>1
  <1>4. attempt \in [Tasks -> 0..MaxAttempt]
    BY DispatchAssumption DEF Init
  <1> QED
    BY <1>2, <1>3, <1>4 DEF Init, TypeOK, Statuses, Reasons

\* Every claim path ends in Assign.
LEMMA AssignType ==
  ASSUME TypeOK, NEW t \in Tasks, NEW a \in Agents, Assign(t, a)
  PROVE  TypeOK'
  <1> DEFINE d == [task |-> t, attempt |-> attempt[t] + 1, agent |-> a]
  <1>1. d \in Deliveries
    <2>1. attempt[t] + 1 \in 1..MaxAttempt
      BY DispatchAssumption DEF TypeOK, Assign
    <2> QED
      BY <2>1 DEF Deliveries
  <1>2. d.attempt = attempt[t] + 1 /\ d.attempt \in 0..MaxAttempt
    BY DispatchAssumption DEF TypeOK, Assign
  <1>3. /\ status' \in [Tasks -> Statuses]
        /\ reason' \in [Tasks -> Reasons]
        /\ assigned' \in [Tasks -> Agents \cup {None}]
        /\ lease' \in [Tasks -> {"none", "live", "expired"}]
        /\ participant' \in [Agents -> {"none", "available", "busy", "offline"}]
    BY DEF TypeOK, Assign, Statuses, Reasons
  <1>4. attempt' \in [Tasks -> 0..MaxAttempt]
    BY <1>2 DEF TypeOK, Assign
  <1>5. lastAssignment' \in [Tasks -> Deliveries \cup {None}]
    BY <1>1 DEF TypeOK, Assign
  <1>6. openRuns' \in SUBSET Deliveries /\ outbox' \in SUBSET Deliveries
    BY <1>1 DEF TypeOK, Assign
  <1> QED
    BY <1>3, <1>4, <1>5, <1>6 DEF TypeOK, Assign

LEMMA CompleteType ==
  ASSUME TypeOK, NEW t \in Tasks, CompleteAndRelease(t)
  PROVE  status' \in [Tasks -> Statuses] /\ reason' \in [Tasks -> Reasons]
  BY DEF TypeOK, CompleteAndRelease, Statuses, Reasons

LEMMA TaskStepType ==
  ASSUME TypeOK, NEW t \in Tasks, TaskStep(t)
  PROVE  TypeOK'
  <1>1. CASE Create(t)
    BY <1>1, GatingStep DEF Create, TypeOK, agentVars, deliveryVars
  <1>2. CASE \E lane \in {"backlog", "queued"} : Patch(t, lane)
    BY <1>2 DEF Patch, TypeOK, Statuses, agentVars, deliveryVars
  <1>3. CASE Unassign(t)
    BY <1>3 DEF Unassign, TypeOK, agentVars, deliveryVars
  <1>4. CASE Approve(t)
    BY <1>4, GatingStep DEF Approve, TypeOK, agentVars, deliveryVars
  <1>5. CASE Cancel(t)
    BY <1>5 DEF Cancel, TypeOK, Statuses, agentVars
  <1>6. CASE Retry(t)
    BY <1>6, GatingStep DEF Retry, TypeOK, agentVars, deliveryVars
  <1>7. CASE BlockWaitingAgent(t)
    BY <1>7 DEF BlockWaitingAgent, TypeOK, Statuses, Reasons, agentVars, deliveryVars
  <1>8. CASE ReapBlocked(t)
    BY <1>8 DEF ReapBlocked, TypeOK, Statuses, agentVars, deliveryVars
  <1>9. CASE Complete(t)
    <2>1. status' \in [Tasks -> Statuses] /\ reason' \in [Tasks -> Reasons]
      BY <1>9, CompleteType DEF Complete
    <2> QED
      BY <1>9, <2>1 DEF Complete, TypeOK, agentVars
  <1>10. CASE \E quota \in BOOLEAN : Fail(t, quota)
    BY <1>10 DEF Fail, TypeOK, Statuses, Reasons, agentVars
  <1>11. CASE LeaseElapses(t)
    BY <1>11 DEF LeaseElapses, TypeOK, agentVars, deliveryVars
  <1>12. CASE \E a \in Agents : ClaimNext(t, a) \/ ApiAssign(t, a) \/ CreateAssigned(t, a)
    BY <1>12, AssignType DEF ClaimNext, ApiAssign, CreateAssigned
  <1> QED
    BY <1>1, <1>2, <1>3, <1>4, <1>5, <1>6, <1>7, <1>8, <1>9, <1>10, <1>11, <1>12 DEF TaskStep

LEMMA AgentStepType ==
  ASSUME TypeOK, NEW a \in Agents, AgentStep(a)
  PROVE  TypeOK'
  <1>1. CASE TouchBegin(a)
    BY <1>1 DEF TouchBegin, TypeOK, taskVars, agentVars, deliveryVars
  <1>2. CASE TouchEnd(a)
    BY <1>2 DEF TouchEnd, Returning, TypeOK, taskVars, deliveryVars
  <1>3. CASE FirstHeartbeat(a)
    BY <1>3 DEF FirstHeartbeat, Returning, TypeOK, taskVars, deliveryVars
  <1>4. CASE ApiHeartbeat(a)
    BY <1>4 DEF ApiHeartbeat, TypeOK, taskVars, deliveryVars
  <1>5. CASE Register(a)
    BY <1>5 DEF Register, Returning, TypeOK, taskVars, deliveryVars
  <1>6. CASE Unregister(a)
    BY <1>6 DEF Unregister, TypeOK, taskVars, deliveryVars
  <1>7. CASE MarkOffline(a)
    BY <1>7 DEF MarkOffline, TypeOK, taskVars, deliveryVars
  <1>8. CASE ReleaseIdle(a)
    BY <1>8 DEF ReleaseIdle, TypeOK, taskVars, deliveryVars
  <1>9. CASE BeginInteractive(a)
    BY <1>9 DEF BeginInteractive, TypeOK, taskVars, deliveryVars
  <1>10. CASE EndInteractive(a)
    BY <1>10 DEF EndInteractive, TypeOK, taskVars, deliveryVars
  <1>11. CASE Quarantine(a)
    <2>1. /\ status' \in [Tasks -> Statuses]
          /\ lastAssignment' \in [Tasks -> Deliveries \cup {None}]
          /\ lease' \in [Tasks -> {"none", "live", "expired"}]
      BY <1>11 DEF Quarantine, TypeOK, Statuses
    <2>2. openRuns' \subseteq Deliveries /\ outbox' \subseteq Deliveries
      BY <1>11 DEF Quarantine, TypeOK
    <2> QED
      BY <1>11, <2>1, <2>2 DEF Quarantine, TypeOK, agentVars
  <1> QED
    BY <1>1, <1>2, <1>3, <1>4, <1>5, <1>6, <1>7, <1>8, <1>9, <1>10, <1>11 DEF AgentStep

LEMMA DeliveryStepType ==
  ASSUME TypeOK, NEW d \in Deliveries, DeliveryStep(d)
  PROVE  TypeOK'
  <1>1. CASE PublishAssignment(d)
    BY <1>1 DEF PublishAssignment, TypeOK, taskVars, agentVars
  <1>2. CASE RetireAssignment(d)
    BY <1>2 DEF RetireAssignment, TypeOK, taskVars, agentVars
  <1>3. ASSUME NEW outcome \in {"completed", "failed", "held"}, ApplyResult(d, outcome)
        PROVE  TypeOK'
    <2>1. d.task \in Tasks /\ d.agent \in Agents
      BY DEF Deliveries
    <2>2. /\ status' \in [Tasks -> Statuses]
          /\ reason' \in [Tasks -> Reasons]
          /\ assigned' \in [Tasks -> Agents \cup {None}]
          /\ lease' \in [Tasks -> {"none", "live", "expired"}]
          /\ openRuns' \in SUBSET Deliveries
          /\ participant' \in [Agents -> {"none", "available", "busy", "offline"}]
      <3>1. CASE Current(d)
        <4>1. ResultEffect(d, outcome)
          BY <1>3, <3>1 DEF ApplyResult
        <4>2. status' \in [Tasks -> Statuses] /\ reason' \in [Tasks -> Reasons]
          BY <4>1, <2>1, CompleteType DEF ResultEffect, TypeOK, Statuses, Reasons
        <4>3. participant' \in [Agents -> {"none", "available", "busy", "offline"}]
          BY <4>1, <2>1 DEF ResultEffect, Released, TypeOK
        <4> QED
          BY <4>1, <4>2, <4>3, <2>1 DEF ResultEffect, TypeOK
      <3>2. CASE ~Current(d)
        BY <1>3, <3>2 DEF ApplyResult, TypeOK
      <3> QED
        BY <3>1, <3>2
    <2> QED
      BY <1>3, <2>2 DEF ApplyResult, TypeOK
  <1> QED
    BY <1>1, <1>2, <1>3 DEF DeliveryStep

LEMMA SweepType ==
  ASSUME TypeOK, ExpireLeases \/ RetireScan \/ RetireApply \/ ReconcileDependencies
  PROVE  TypeOK'
  <1>1. CASE ExpireLeases
    <2>1. /\ status' \in [Tasks -> Statuses]
          /\ lease' \in [Tasks -> {"none", "live", "expired"}]
          /\ openRuns' \in SUBSET Deliveries
      BY <1>1 DEF ExpireLeases, TypeOK, Statuses
    <2>2. participant' \in [Agents -> {"none", "available", "busy", "offline"}]
      BY <1>1 DEF ExpireLeases, Settled, TypeOK
    <2> QED
      BY <1>1, <2>1, <2>2 DEF ExpireLeases, TypeOK
  <1>2. CASE RetireScan
    <2>1. retiring' \in SUBSET Tasks
      BY <1>2, DispatchAssumption DEF RetireScan
    <2> QED
      BY <1>2, <2>1 DEF RetireScan, TypeOK, taskVars, agentVars, deliveryVars
  <1>3. CASE RetireApply
    BY <1>3 DEF RetireApply, TypeOK, Statuses, agentVars, deliveryVars
  <1>4. CASE ReconcileDependencies
    BY <1>4 DEF ReconcileDependencies, TypeOK, Statuses, Reasons, agentVars, deliveryVars
  <1> QED
    BY <1>1, <1>2, <1>3, <1>4

LEMMA StepType == TypeOK /\ [Next]_vars => TypeOK'
  <1>1. ASSUME TypeOK, UNCHANGED vars PROVE TypeOK'
    BY <1>1 DEF TypeOK, vars, taskVars, agentVars, deliveryVars
  <1> QED
    BY <1>1, TaskStepType, AgentStepType, DeliveryStepType, SweepType DEF Next

\* The columns of every row stay within their domains: what the CHECK
\* constraints of the schema ask of each writer.
THEOREM TypeCorrect == Spec => []TypeOK
  <1> QED
    BY InitType, StepType, PTL DEF Spec

-----------------------------------------------------------------------------
(* Exclusive work.  Only a claim makes a task working or gives a working    *)
(* task an owner, and every claim passes the admission test; so it is       *)
(* enough to know that all other steps start no work.                       *)

\* No task starts or changes hands in the step.
NoNewWork ==
    \A t \in Tasks : status'[t] = "working" =>
        status[t] = "working" /\ assigned'[t] = assigned[t]

\* A terminal or MCP session begins only on an Agent without work.
AdmittedSessions ==
    \A a \in Agents : interactive'[a] => interactive[a] \/ ~Owns(a)

Exclusive == OneWorkingTaskPerAgent /\ ExclusiveUse

LEMMA QuietStepKeepsExclusive ==
  ASSUME Exclusive, NoNewWork, AdmittedSessions
  PROVE  Exclusive'
  <1>1. OneWorkingTaskPerAgent'
    BY DEF Exclusive, NoNewWork, OneWorkingTaskPerAgent, Working
  <1>2. ASSUME NEW a \in Agents, Owns(a)' PROVE Owns(a)
    BY <1>2 DEF NoNewWork, Owns, Working
  <1>3. ExclusiveUse'
    <2> SUFFICES ASSUME NEW a \in Agents, interactive'[a], Owns(a)'
                 PROVE  FALSE
      BY DEF ExclusiveUse
    <2>1. Owns(a)
      BY <1>2
    <2>2. interactive[a]
      BY <2>1 DEF AdmittedSessions
    <2> QED
      BY <2>1, <2>2 DEF Exclusive, ExclusiveUse
  <1> QED
    BY <1>1, <1>3 DEF Exclusive

LEMMA ClaimKeepsExclusive ==
  ASSUME TypeOK, Exclusive, NEW t \in Tasks, NEW a \in Agents,
         AdmissionIdle(a), Assign(t, a)
  PROVE  Exclusive'
  <1>1. /\ status' = [status EXCEPT ![t] = "working"]
        /\ assigned' = [assigned EXCEPT ![t] = a]
        /\ interactive' = interactive
    BY DEF Assign
  <1>2. ~interactive[a] /\ \A u \in Tasks : ~(status[u] = "working" /\ assigned[u] = a)
    BY DEF AdmissionIdle, Owns, Working
  <1>3. OneWorkingTaskPerAgent'
    <2> SUFFICES ASSUME NEW u \in Tasks, NEW w \in Tasks,
                        status'[u] = "working", status'[w] = "working",
                        assigned'[u] = assigned'[w]
                 PROVE  u = w
      BY DEF OneWorkingTaskPerAgent, Working
    <2>1. CASE u # t /\ w # t
      BY <1>1, <2>1 DEF Exclusive, OneWorkingTaskPerAgent, Working, TypeOK
    <2>2. CASE u = t \/ w = t
      BY <1>1, <1>2, <2>2 DEF TypeOK
    <2> QED
      BY <2>1, <2>2
  <1>4. ExclusiveUse'
    <2> SUFFICES ASSUME NEW b \in Agents, interactive'[b],
                        NEW u \in Tasks, status'[u] = "working", assigned'[u] = b
                 PROVE  FALSE
      BY DEF ExclusiveUse, Owns, Working
    <2>1. CASE u = t
      BY <1>1, <1>2, <2>1 DEF TypeOK
    <2>2. CASE u # t
      BY <1>1, <2>2 DEF Exclusive, ExclusiveUse, Owns, Working, TypeOK
    <2> QED
      BY <2>1, <2>2
  <1> QED
    BY <1>3, <1>4 DEF Exclusive

LEMMA TaskStepExclusive ==
  ASSUME TypeOK, Exclusive, NEW t \in Tasks, TaskStep(t)
  PROVE  Exclusive'
  <1>1. CASE \E a \in Agents : ClaimNext(t, a) \/ ApiAssign(t, a) \/ CreateAssigned(t, a)
    BY <1>1, ClaimKeepsExclusive DEF ClaimNext, ApiAssign, CreateAssigned
  <1>2. CASE ~\E a \in Agents : ClaimNext(t, a) \/ ApiAssign(t, a) \/ CreateAssigned(t, a)
    <2>1. NoNewWork /\ interactive' = interactive
      <3>1. CASE Create(t)
        BY <3>1, GatingStep DEF Create, NoNewWork, TypeOK, agentVars
      <3>2. CASE \E lane \in {"backlog", "queued"} : Patch(t, lane)
        BY <3>2 DEF Patch, NoNewWork, TypeOK, agentVars
      <3>3. CASE Unassign(t)
        BY <3>3 DEF Unassign, NoNewWork, TypeOK, agentVars
      <3>4. CASE Approve(t)
        BY <3>4, GatingStep DEF Approve, NoNewWork, TypeOK, agentVars
      <3>5. CASE Cancel(t)
        BY <3>5 DEF Cancel, NoNewWork, TypeOK, agentVars
      <3>6. CASE Retry(t)
        BY <3>6, GatingStep DEF Retry, NoNewWork, TypeOK, agentVars
      <3>7. CASE BlockWaitingAgent(t)
        BY <3>7 DEF BlockWaitingAgent, NoNewWork, TypeOK, agentVars
      <3>8. CASE ReapBlocked(t)
        BY <3>8 DEF ReapBlocked, NoNewWork, TypeOK, agentVars
      <3>9. CASE Complete(t)
        BY <3>9 DEF Complete, CompleteAndRelease, NoNewWork, TypeOK, agentVars
      <3>10. CASE \E quota \in BOOLEAN : Fail(t, quota)
        BY <3>10 DEF Fail, NoNewWork, TypeOK, agentVars
      <3>11. CASE LeaseElapses(t)
        BY <3>11 DEF LeaseElapses, NoNewWork, agentVars
      <3> QED
        BY <1>2, <3>1, <3>2, <3>3, <3>4, <3>5, <3>6, <3>7, <3>8, <3>9, <3>10, <3>11 DEF TaskStep
    <2>2. AdmittedSessions
      BY <2>1 DEF AdmittedSessions
    <2> QED
      BY <2>1, <2>2, QuietStepKeepsExclusive
  <1> QED
    BY <1>1, <1>2

LEMMA AgentStepExclusive ==
  ASSUME TypeOK, Exclusive, NEW a \in Agents, AgentStep(a)
  PROVE  Exclusive'
  <1>1. NoNewWork
    <2>1. CASE Quarantine(a)
      BY <2>1 DEF Quarantine, NoNewWork, TypeOK
    <2>2. CASE ~Quarantine(a)
      <3>1. UNCHANGED taskVars
        BY <2>2 DEF AgentStep, TouchBegin, TouchEnd, FirstHeartbeat, ApiHeartbeat, Register,
                    Unregister, MarkOffline, ReleaseIdle, BeginInteractive, EndInteractive
      <3> QED
        BY <3>1 DEF NoNewWork, taskVars
    <2> QED
      BY <2>1, <2>2
  <1>2. AdmittedSessions
    <2>1. CASE BeginInteractive(a)
      BY <2>1 DEF BeginInteractive, AdmissionIdle, AdmittedSessions, TypeOK
    <2>2. CASE EndInteractive(a)
      BY <2>2 DEF EndInteractive, AdmittedSessions, TypeOK
    <2>3. CASE ~BeginInteractive(a) /\ ~EndInteractive(a)
      <3>1. interactive' = interactive
        BY <2>3 DEF AgentStep, TouchBegin, TouchEnd, FirstHeartbeat, ApiHeartbeat, Register,
                    Unregister, MarkOffline, ReleaseIdle, Quarantine, agentVars
      <3> QED
        BY <3>1 DEF AdmittedSessions
    <2> QED
      BY <2>1, <2>2, <2>3
  <1> QED
    BY <1>1, <1>2, QuietStepKeepsExclusive

LEMMA DeliveryStepExclusive ==
  ASSUME TypeOK, Exclusive, NEW d \in Deliveries, DeliveryStep(d)
  PROVE  Exclusive'
  <1>1. interactive' = interactive
    BY DEF DeliveryStep, PublishAssignment, RetireAssignment, ApplyResult, agentVars
  <1>2. NoNewWork
    <2>1. CASE PublishAssignment(d) \/ RetireAssignment(d)
      BY <2>1 DEF PublishAssignment, RetireAssignment, NoNewWork, taskVars
    <2>2. ASSUME NEW outcome \in {"completed", "failed", "held"}, ApplyResult(d, outcome)
          PROVE  NoNewWork
      <3>1. CASE Current(d)
        <4>1. ResultEffect(d, outcome)
          BY <2>2, <3>1 DEF ApplyResult
        <4> QED
          BY <4>1 DEF ResultEffect, CompleteAndRelease, NoNewWork, TypeOK
      <3>2. CASE ~Current(d)
        BY <2>2, <3>2 DEF ApplyResult, NoNewWork
      <3> QED
        BY <3>1, <3>2
    <2> QED
      BY <2>1, <2>2 DEF DeliveryStep
  <1>3. AdmittedSessions
    BY <1>1 DEF AdmittedSessions
  <1> QED
    BY <1>2, <1>3, QuietStepKeepsExclusive

LEMMA SweepExclusive ==
  ASSUME TypeOK, Exclusive, ExpireLeases \/ RetireScan \/ RetireApply \/ ReconcileDependencies
  PROVE  Exclusive'
  <1>1. NoNewWork
    <2>1. CASE ExpireLeases
      BY <2>1 DEF ExpireLeases, NoNewWork
    <2>2. CASE RetireScan
      BY <2>2 DEF RetireScan, NoNewWork, taskVars
    <2>3. CASE RetireApply
      BY <2>3 DEF RetireApply, NoNewWork
    <2>4. CASE ReconcileDependencies
      BY <2>4 DEF ReconcileDependencies, NoNewWork
    <2> QED
      BY <2>1, <2>2, <2>3, <2>4
  <1>2. AdmittedSessions
    BY DEF ExpireLeases, RetireScan, RetireApply, ReconcileDependencies, AdmittedSessions, agentVars
  <1> QED
    BY <1>1, <1>2, QuietStepKeepsExclusive

LEMMA InitExclusive == Init => Exclusive
  <1> SUFFICES ASSUME Init PROVE Exclusive
    OBVIOUS
  <1>1. PICK owner \in [LegacyTasks -> Agents] :
          /\ \A t, u \in LegacyTasks : owner[t] = owner[u] => t = u
          /\ assigned = [t \in Tasks |-> IF t \in LegacyTasks THEN owner[t] ELSE None]
    BY DEF Init
  <1>2. \A t \in Tasks : Working(t) => t \in LegacyTasks /\ assigned[t] = owner[t]
    BY <1>1 DEF Init, Working
  <1>3. OneWorkingTaskPerAgent
    BY <1>1, <1>2 DEF OneWorkingTaskPerAgent
  <1>4. ExclusiveUse
    BY DEF Init, ExclusiveUse
  <1> QED
    BY <1>3, <1>4 DEF Exclusive

LEMMA StepExclusive == TypeOK /\ Exclusive /\ [Next]_vars => Exclusive'
  <1>1. ASSUME Exclusive, UNCHANGED vars PROVE Exclusive'
    BY <1>1, QuietStepKeepsExclusive
       DEF NoNewWork, AdmittedSessions, vars, taskVars, agentVars
  <1> QED
    BY <1>1, TaskStepExclusive, AgentStepExclusive, DeliveryStepExclusive, SweepExclusive DEF Next

LEMMA ExclusiveInvariant == Spec => []Exclusive
  <1> QED
    BY InitExclusive, StepExclusive, TypeCorrect, PTL DEF Spec

\* An Agent never works on two tasks, although presence rows may be stale and
\* three claim paths and every sweep run concurrently.
THEOREM OneTaskPerAgent == Spec => []OneWorkingTaskPerAgent
  <1>1. Exclusive => OneWorkingTaskPerAgent
    BY DEF Exclusive
  <1> QED
    BY <1>1, ExclusiveInvariant, PTL

\* A person's session and orchestrated work never hold the same Agent.
THEOREM WorkExcludesSessions == Spec => []ExclusiveUse
  <1>1. Exclusive => ExclusiveUse
    BY DEF Exclusive
  <1> QED
    BY <1>1, ExclusiveInvariant, PTL

-----------------------------------------------------------------------------
(* Recoverable work.  A task that stays working keeps its delivery, its     *)
(* lease and its open run; a claim creates all three together.              *)

\* Every task that is working after the step was working before it, on the
\* same delivery, and what its recovery needs is still there.
KeepsRecovery ==
    \A t \in Tasks : status'[t] = "working" =>
        /\ status[t] = "working"
        /\ assigned'[t] = assigned[t]
        /\ attempt'[t] = attempt[t]
        /\ lastAssignment'[t] = lastAssignment[t]
        /\ lease[t] # "none" => lease'[t] # "none"
        /\ lastAssignment[t] \in openRuns /\ lastAssignment[t].task = t =>
               lastAssignment[t] \in openRuns'

LEMMA KeepsRecoveryInv ==
  ASSUME WorkIsRecoverable, KeepsRecovery
  PROVE  WorkIsRecoverable'
  BY DEF WorkIsRecoverable, KeepsRecovery, Working

LEMMA ClaimRecoverable ==
  ASSUME TypeOK, WorkIsRecoverable, NEW t \in Tasks, NEW a \in Agents, Assign(t, a)
  PROVE  WorkIsRecoverable'
  <1> DEFINE d == [task |-> t, attempt |-> attempt[t] + 1, agent |-> a]
  <1> SUFFICES ASSUME NEW u \in Tasks, status'[u] = "working", lastAssignment'[u] # None
               PROVE  /\ lastAssignment'[u] = [task |-> u, attempt |-> attempt'[u], agent |-> assigned'[u]]
                      /\ lease'[u] # "none"
                      /\ lastAssignment'[u] \in openRuns'
    BY DEF WorkIsRecoverable, Working
  <1>1. CASE u = t
    <2>1. /\ lastAssignment'[t] = d /\ attempt'[t] = d.attempt /\ assigned'[t] = a
          /\ lease'[t] = "live" /\ openRuns' = openRuns \cup {d}
      BY DEF Assign, TypeOK
    <2> QED
      BY <1>1, <2>1
  <1>2. CASE u # t
    <2>1. /\ status[u] = "working" /\ assigned'[u] = assigned[u] /\ attempt'[u] = attempt[u]
          /\ lastAssignment'[u] = lastAssignment[u] /\ lease'[u] = lease[u]
          /\ openRuns \subseteq openRuns'
      BY <1>2 DEF Assign, TypeOK
    <2> QED
      BY <2>1 DEF WorkIsRecoverable, Working
  <1> QED
    BY <1>1, <1>2

LEMMA TaskStepRecoverable ==
  ASSUME TypeOK, WorkIsRecoverable, NEW t \in Tasks, TaskStep(t)
  PROVE  WorkIsRecoverable'
  <1>1. CASE Create(t)
    BY <1>1, GatingStep, KeepsRecoveryInv DEF Create, KeepsRecovery, TypeOK, deliveryVars
  <1>2. CASE \E lane \in {"backlog", "queued"} : Patch(t, lane)
    BY <1>2, KeepsRecoveryInv DEF Patch, KeepsRecovery, TypeOK, deliveryVars
  <1>3. CASE Unassign(t)
    BY <1>3, KeepsRecoveryInv DEF Unassign, KeepsRecovery, TypeOK, deliveryVars
  <1>4. CASE Approve(t)
    BY <1>4, GatingStep, KeepsRecoveryInv DEF Approve, KeepsRecovery, TypeOK, deliveryVars
  <1>5. CASE Cancel(t)
    BY <1>5, KeepsRecoveryInv DEF Cancel, CurrentRun, KeepsRecovery, TypeOK
  <1>6. CASE Retry(t)
    BY <1>6, GatingStep, KeepsRecoveryInv DEF Retry, KeepsRecovery, TypeOK, deliveryVars
  <1>7. CASE BlockWaitingAgent(t)
    BY <1>7, KeepsRecoveryInv DEF BlockWaitingAgent, KeepsRecovery, TypeOK, deliveryVars
  <1>8. CASE ReapBlocked(t)
    BY <1>8, KeepsRecoveryInv DEF ReapBlocked, KeepsRecovery, TypeOK, deliveryVars
  <1>9. CASE Complete(t)
    BY <1>9, KeepsRecoveryInv DEF Complete, CompleteAndRelease, CurrentRun, KeepsRecovery, TypeOK
  <1>10. CASE \E quota \in BOOLEAN : Fail(t, quota)
    BY <1>10, KeepsRecoveryInv DEF Fail, CurrentRun, KeepsRecovery, TypeOK
  <1>11. CASE LeaseElapses(t)
    BY <1>11, KeepsRecoveryInv DEF LeaseElapses, KeepsRecovery, TypeOK, deliveryVars
  <1>12. CASE \E a \in Agents : ClaimNext(t, a) \/ ApiAssign(t, a) \/ CreateAssigned(t, a)
    BY <1>12, ClaimRecoverable DEF ClaimNext, ApiAssign, CreateAssigned
  <1> QED
    BY <1>1, <1>2, <1>3, <1>4, <1>5, <1>6, <1>7, <1>8, <1>9, <1>10, <1>11, <1>12 DEF TaskStep

LEMMA AgentStepRecoverable ==
  ASSUME TypeOK, WorkIsRecoverable, NEW a \in Agents, AgentStep(a)
  PROVE  WorkIsRecoverable'
  <1>1. CASE Quarantine(a)
    BY <1>1, KeepsRecoveryInv DEF Quarantine, KeepsRecovery, Working, TypeOK
  <1>2. CASE ~Quarantine(a)
    <2>1. UNCHANGED <<taskVars, openRuns>>
      BY <1>2 DEF AgentStep, TouchBegin, TouchEnd, FirstHeartbeat, ApiHeartbeat, Register, Unregister,
                  MarkOffline, ReleaseIdle, BeginInteractive, EndInteractive, deliveryVars
    <2> QED
      BY <2>1, KeepsRecoveryInv DEF KeepsRecovery, taskVars
  <1> QED
    BY <1>1, <1>2

LEMMA DeliveryStepRecoverable ==
  ASSUME TypeOK, WorkIsRecoverable, NEW d \in Deliveries, DeliveryStep(d)
  PROVE  WorkIsRecoverable'
  <1>1. CASE PublishAssignment(d) \/ RetireAssignment(d)
    BY <1>1, KeepsRecoveryInv DEF PublishAssignment, RetireAssignment, KeepsRecovery, taskVars
  <1>2. ASSUME NEW outcome \in {"completed", "failed", "held"}, ApplyResult(d, outcome)
        PROVE  WorkIsRecoverable'
    <2>1. CASE Current(d)
      <3>1. ResultEffect(d, outcome) /\ UNCHANGED <<attempt, lastAssignment>>
        BY <1>2, <2>1 DEF ApplyResult
      <3>2. status'[d.task] # "working"
        BY <3>1 DEF ResultEffect, CompleteAndRelease, TypeOK, Deliveries
      <3>3. KeepsRecovery
        BY <3>1, <3>2 DEF ResultEffect, CompleteAndRelease, KeepsRecovery, TypeOK, Deliveries
      <3> QED
        BY <3>3, KeepsRecoveryInv
    <2>2. CASE ~Current(d)
      BY <1>2, <2>2, KeepsRecoveryInv DEF ApplyResult, KeepsRecovery
    <2> QED
      BY <2>1, <2>2
  <1> QED
    BY <1>1, <1>2 DEF DeliveryStep

LEMMA SweepRecoverable ==
  ASSUME TypeOK, WorkIsRecoverable, ExpireLeases \/ RetireScan \/ RetireApply \/ ReconcileDependencies
  PROVE  WorkIsRecoverable'
  <1>1. CASE ExpireLeases
    BY <1>1, KeepsRecoveryInv DEF ExpireLeases, ClosedByExpiry, KeepsRecovery
  <1>2. CASE RetireScan
    BY <1>2, KeepsRecoveryInv DEF RetireScan, KeepsRecovery, taskVars, deliveryVars
  <1>3. CASE RetireApply
    BY <1>3, KeepsRecoveryInv DEF RetireApply, KeepsRecovery, deliveryVars
  <1>4. CASE ReconcileDependencies
    BY <1>4, KeepsRecoveryInv DEF ReconcileDependencies, KeepsRecovery, deliveryVars
  <1> QED
    BY <1>1, <1>2, <1>3, <1>4

LEMMA StepRecoverable == TypeOK /\ WorkIsRecoverable /\ [Next]_vars => WorkIsRecoverable'
  <1>1. ASSUME WorkIsRecoverable, UNCHANGED vars PROVE WorkIsRecoverable'
    BY <1>1, KeepsRecoveryInv DEF KeepsRecovery, vars, taskVars, deliveryVars
  <1> QED
    BY <1>1, TaskStepRecoverable, AgentStepRecoverable, DeliveryStepRecoverable, SweepRecoverable DEF Next

\* Work with a delivery always has the lease, the open run and the matching
\* Agent from which the lease sweep or the result can end it.
THEOREM AlwaysRecoverable == Spec => []WorkIsRecoverable
  <1>1. Init => WorkIsRecoverable
    BY DEF Init, WorkIsRecoverable
  <1> QED
    BY <1>1, StepRecoverable, TypeCorrect, PTL DEF Spec

-----------------------------------------------------------------------------
(* Deliveries, runs and gates.  What a claim wrote into the task, its run   *)
(* and its outbox row is only taken apart together, except by the batch     *)
(* retirement, which looks at the task alone.                               *)

OwnedWork == \A t \in Tasks : Working(t) => assigned[t] \in Agents

\* The approval gate of the API's claim: it reads blocked_reason, not approval.
ApprovalIsBlocked ==
    \A t \in Tasks : approval[t] =>
        /\ t \in NeedsApproval
        /\ \/ status[t] \in {"absent", "canceled"}
           \/ status[t] = "blocked" /\ reason[t] \in {"waiting_approval", "waiting_input"}

\* A result held for verification is the result of a delivery.
VerifiedWasClaimed == \A t \in Tasks : reason[t] = "waiting_verification" => attempt[t] > 0

RetiresStale == retiring \subseteq Stale

\* NoOrphanRun, as far as no batch retirement can reach.
RunsMatch ==
    \A d \in openRuns : d.task \notin Stale => Working(d.task) /\ lastAssignment[d.task] = d

\* GatesHold, as far as no batch retirement can take a completion back.
GatesKept ==
    \A t \in Tasks : Working(t) /\ lastAssignment[t] # None =>
        /\ ~approval[t] /\ t \notin MissingInput
        /\ \A p \in Prereq[t] \ Stale : status[p] = "completed"

DispatchInv ==
    /\ OwnedWork /\ ApprovalIsBlocked /\ VerifiedWasClaimed /\ RetiresStale
    /\ RunsMatch /\ GatesKept /\ DeliveryNotLost

LEMMA InitDispatch == Init => DispatchInv
  <1> SUFFICES ASSUME Init PROVE DispatchInv
    OBVIOUS
  <1>1. OwnedWork
    BY DEF Init, OwnedWork, Working
  <1>2. ApprovalIsBlocked
    BY DispatchAssumption DEF Init, ApprovalIsBlocked
  <1>3. VerifiedWasClaimed /\ RetiresStale /\ RunsMatch /\ GatesKept
    BY DEF Init, VerifiedWasClaimed, RetiresStale, RunsMatch, GatesKept
  <1>4. DeliveryNotLost
    BY DEF Init, DeliveryNotLost
  <1> QED
    BY <1>1, <1>2, <1>3, <1>4 DEF DispatchInv

\* All three claim paths meet all gates; the API's two read the approval off
\* the blocked reason and off the request.
LEMMA ClaimPathsMeetGates ==
  ASSUME DispatchInv, NEW t \in Tasks, NEW a \in Agents,
         ClaimNext(t, a) \/ ApiAssign(t, a) \/ CreateAssigned(t, a)
  PROVE  /\ Assign(t, a) /\ AdmissionIdle(a)
         /\ CanStart(t) /\ ~approval[t]
         /\ status[t] \in {"absent", "queued", "blocked"}
  BY DEF ClaimNext, ApiAssign, CreateAssigned, CanEnterDispatch, Held, DispatchInv,
         ApprovalIsBlocked

\* A claim: its task was not working, so it had no run of its own yet.
LEMMA ClaimKeepsDispatch ==
  ASSUME TypeOK, DispatchInv, NEW t \in Tasks, NEW a \in Agents,
         Assign(t, a), CanStart(t), ~approval[t], status[t] \in {"absent", "queued", "blocked"}
  PROVE  DispatchInv'
  <1> DEFINE d == [task |-> t, attempt |-> attempt[t] + 1, agent |-> a]
  <1>1. /\ status' = [status EXCEPT ![t] = "working"]
        /\ reason' = [reason EXCEPT ![t] = "none"]
        /\ assigned' = [assigned EXCEPT ![t] = a]
        /\ attempt' = [attempt EXCEPT ![t] = attempt[t] + 1]
        /\ lastAssignment' = [lastAssignment EXCEPT ![t] = d]
        /\ lease' = [lease EXCEPT ![t] = "live"]
        /\ openRuns' = openRuns \cup {d} /\ outbox' = outbox \cup {d}
        /\ UNCHANGED <<approval, retiring, sent>>
    BY DEF Assign
  <1>2. OwnedWork' /\ ApprovalIsBlocked' /\ RetiresStale'
    BY <1>1 DEF DispatchInv, OwnedWork, ApprovalIsBlocked, RetiresStale, Working, TypeOK
  <1>3. VerifiedWasClaimed'
    BY <1>1, DispatchAssumption DEF DispatchInv, VerifiedWasClaimed, TypeOK
  <1>4. RunsMatch'
    BY <1>1 DEF DispatchInv, RunsMatch, Working, TypeOK, Deliveries
  <1>5. GatesKept'
    BY <1>1, DispatchAssumption
       DEF DispatchInv, GatesKept, CanStart, PrereqsDone, Working, TypeOK
  <1>6. DeliveryNotLost'
    BY <1>1 DEF DispatchInv, DeliveryNotLost, Working, TypeOK
  <1> QED
    BY <1>2, <1>3, <1>4, <1>5, <1>6 DEF DispatchInv

\* A completion ends its own task only, closes its run, and opens no gate but
\* those that it was the last to hold.
LEMMA CompletionKeepsDispatch ==
  ASSUME TypeOK, DispatchInv, NEW t \in Tasks, CompleteAndRelease(t),
         Working(t) \/ Held(t, "waiting_verification"),
         lease' = [lease EXCEPT ![t] = "none"],
         openRuns' \subseteq openRuns, \A d \in openRuns' : d.task = t => t \in Stale,
         UNCHANGED <<assigned, attempt, lastAssignment, approval, retiring, outbox, sent>>
  PROVE  DispatchInv'
  <1>1. OwnedWork' /\ ApprovalIsBlocked' /\ RetiresStale'
    BY DEF CompleteAndRelease, Dependents, Held, DispatchInv, OwnedWork, ApprovalIsBlocked,
           RetiresStale, Working, TypeOK
  <1>2. VerifiedWasClaimed'
    BY DEF CompleteAndRelease, DispatchInv, VerifiedWasClaimed, TypeOK
  <1>3. RunsMatch'
    BY DEF CompleteAndRelease, Dependents, Held, DispatchInv, RunsMatch, Working, TypeOK, Deliveries
  <1>4. GatesKept'
    BY DispatchAssumption
       DEF CompleteAndRelease, Dependents, Held, DispatchInv, GatesKept, Working, TypeOK
  <1>5. DeliveryNotLost'
    BY DEF CompleteAndRelease, Dependents, Held, DispatchInv, DeliveryNotLost, Working, TypeOK
  <1> QED
    BY <1>1, <1>2, <1>3, <1>4, <1>5 DEF DispatchInv

LEMMA TaskStepDispatch ==
  ASSUME TypeOK, WorkIsRecoverable, DispatchInv, NEW t \in Tasks, TaskStep(t)
  PROVE  DispatchInv'
  <1> USE DEF DispatchInv, OwnedWork, ApprovalIsBlocked, VerifiedWasClaimed, RetiresStale,
              RunsMatch, GatesKept, DeliveryNotLost, Working, TypeOK, agentVars, deliveryVars
  <1>1. CASE Create(t)
    BY <1>1, DispatchAssumption DEF Create, Gate, InitialReason, PrereqsSeen, PrereqsDone
  <1>2. CASE \E lane \in {"backlog", "queued"} : Patch(t, lane)
    BY <1>2, DispatchAssumption DEF Patch
  <1>3. CASE Unassign(t)
    BY <1>3 DEF Unassign
  <1>4. CASE Approve(t)
    BY <1>4, DispatchAssumption DEF Approve, Gate, PrereqsSeen, Held
  <1>5. CASE Cancel(t)
    BY <1>5, DispatchAssumption DEF Cancel, Cancelable, CurrentRun
  <1>6. CASE Retry(t)
    BY <1>6, DispatchAssumption DEF Retry, Gate, InitialReason, PrereqsSeen, PrereqsDone, Held
  <1>7. CASE BlockWaitingAgent(t)
    BY <1>7, DispatchAssumption DEF BlockWaitingAgent, CanEnterDispatch
  <1>8. CASE ReapBlocked(t)
    BY <1>8, DispatchAssumption DEF ReapBlocked, Held
  <1>9. CASE Complete(t)
    <2>1. \A d \in openRuns : d.task = t => t \in Stale
      BY <1>9, DeliveryAssumption DEF Complete, NoActiveDelivery, Held
    <2> QED
      BY <1>9, <2>1, CompletionKeepsDispatch DEF Complete, CurrentRun
  <1>10. CASE \E quota \in BOOLEAN : Fail(t, quota)
    BY <1>10, DispatchAssumption, DeliveryAssumption DEF Fail, NoActiveDelivery, CurrentRun
  <1>11. CASE LeaseElapses(t)
    BY <1>11 DEF LeaseElapses
  <1>12. CASE \E a \in Agents : ClaimNext(t, a) \/ ApiAssign(t, a) \/ CreateAssigned(t, a)
    BY <1>12, ClaimPathsMeetGates, ClaimKeepsDispatch
  <1> QED
    BY <1>1, <1>2, <1>3, <1>4, <1>5, <1>6, <1>7, <1>8, <1>9, <1>10, <1>11, <1>12 DEF TaskStep

\* A quarantine closes the runs of one Agent and revokes whole tasks; they meet
\* because the delivery of a working task names its Agent.
LEMMA AgentStepDispatch ==
  ASSUME TypeOK, WorkIsRecoverable, DispatchInv, NEW a \in Agents, AgentStep(a)
  PROVE  DispatchInv'
  <1> USE DEF DispatchInv, OwnedWork, ApprovalIsBlocked, VerifiedWasClaimed, RetiresStale,
              RunsMatch, GatesKept, DeliveryNotLost, Working, TypeOK
  <1>1. CASE Quarantine(a)
    <2> DEFINE lost == {t \in Tasks : Working(t) /\ assigned[t] = a}
    <2>1. /\ status' = [t \in Tasks |-> IF t \in lost THEN "failed" ELSE status[t]]
          /\ lastAssignment' = [t \in Tasks |-> IF t \in lost THEN None ELSE lastAssignment[t]]
          /\ lease' = [t \in Tasks |-> IF t \in lost THEN "none" ELSE lease[t]]
          /\ openRuns' = {d \in openRuns : ~(d.agent = a /\ d.task \in lost)}
          /\ outbox' = {d \in outbox : d.task \notin lost}
          /\ UNCHANGED <<reason, assigned, attempt, approval, retiring, sent>>
      BY <1>1 DEF Quarantine, agentVars
    <2>2. OwnedWork' /\ VerifiedWasClaimed' /\ RetiresStale'
      BY <2>1
    <2>3. ApprovalIsBlocked'
      BY <2>1
    <2>4. RunsMatch'
      BY <2>1, DeliveryAssumption DEF WorkIsRecoverable, Deliveries
    <2>5. GatesKept'
      BY <2>1, DispatchAssumption
    <2>6. DeliveryNotLost'
      BY <2>1, DeliveryAssumption DEF WorkIsRecoverable, Deliveries
    <2> QED
      BY <2>2, <2>3, <2>4, <2>5, <2>6
  <1>2. CASE ~Quarantine(a)
    <2>1. UNCHANGED <<taskVars, retiring, deliveryVars>>
      BY <1>2 DEF AgentStep, TouchBegin, TouchEnd, FirstHeartbeat, ApiHeartbeat, Register, Unregister,
                  MarkOffline, ReleaseIdle, BeginInteractive, EndInteractive
    <2> QED
      BY <2>1 DEF taskVars, deliveryVars
  <1> QED
    BY <1>1, <1>2

\* The publisher retires only rows without authority, and the delivery of a
\* working task under a live lease has it.
LEMMA DeliveryStepDispatch ==
  ASSUME TypeOK, WorkIsRecoverable, DispatchInv, NEW d \in Deliveries, DeliveryStep(d)
  PROVE  DispatchInv'
  <1> USE DEF DispatchInv, OwnedWork, ApprovalIsBlocked, VerifiedWasClaimed, RetiresStale,
              RunsMatch, GatesKept, DeliveryNotLost, Working, TypeOK
  <1>1. CASE PublishAssignment(d)
    BY <1>1 DEF PublishAssignment, taskVars
  <1>2. CASE RetireAssignment(d)
    <2>1. UNCHANGED <<taskVars, retiring, openRuns, sent>> /\ outbox' = outbox \ {d} /\ ~Authoritative(d)
      BY <1>2 DEF RetireAssignment
    <2>2. ASSUME NEW t \in Tasks, Working(t), lease[t] = "live"
          PROVE  lastAssignment[t] # d
      <3>1. lastAssignment[t] # None
        BY <2>2, DeliveryAssumption
      <3>2. lastAssignment[t].task = t /\ lastAssignment[t].agent = assigned[t]
        BY <2>2, <3>1 DEF WorkIsRecoverable
      <3> QED
        BY <2>1, <2>2, <3>2 DEF Authoritative
    <2> QED
      BY <2>1, <2>2 DEF taskVars
  <1>3. ASSUME NEW outcome \in {"completed", "failed", "held"}, ApplyResult(d, outcome)
        PROVE  DispatchInv'
    <2>1. CASE ~Current(d)
      BY <1>3, <2>1 DEF ApplyResult
    <2>2. CASE Current(d)
      <3>1. /\ ResultEffect(d, outcome) /\ d.task \in Tasks /\ Working(d.task)
            /\ UNCHANGED <<attempt, lastAssignment, approval, retiring, outbox, sent>>
        BY <1>3, <2>2 DEF ApplyResult, Current, Deliveries
      <3>2. \A e \in openRuns \ {d} : e.task = d.task => d.task \in Stale
        BY <2>2 DEF Current
      <3>3. CASE outcome = "completed"
        BY <3>1, <3>2, <3>3, CompletionKeepsDispatch DEF ResultEffect
      <3>4. CASE outcome \in {"failed", "held"}
        <4> DEFINE t == d.task
        <4>1. attempt[t] > 0
          BY <2>2 DEF Current, Deliveries
        <4>2. /\ status' \in {[status EXCEPT ![t] = "failed"], [status EXCEPT ![t] = "blocked"]}
              /\ reason' \in {reason, [reason EXCEPT ![t] = "waiting_verification"]}
              /\ assigned' \in {assigned, [assigned EXCEPT ![t] = None]}
              /\ lease' = [lease EXCEPT ![t] = "none"]
              /\ openRuns' = openRuns \ {d}
          BY <3>1, <3>4 DEF ResultEffect
        <4>3. OwnedWork' /\ VerifiedWasClaimed' /\ RetiresStale' /\ DeliveryNotLost'
          BY <3>1, <4>1, <4>2
        <4>4. ApprovalIsBlocked'
          BY <3>1, <4>2
        <4>5. RunsMatch'
          BY <3>1, <3>2, <4>2 DEF Deliveries
        <4>6. GatesKept'
          <5>1. status[t] = "working" /\ status'[t] # "working"
            BY <3>1, <4>2
          <5>2. \A u \in Tasks \ {t} : status'[u] = status[u]
            BY <4>2
          <5> QED
            BY <3>1, <5>1, <5>2, DispatchAssumption
        <4> QED
          BY <4>3, <4>4, <4>5, <4>6
      <3> QED
        BY <3>3, <3>4
    <2> QED
      BY <2>1, <2>2
  <1> QED
    BY <1>1, <1>2, <1>3 DEF DeliveryStep

LEMMA SweepDispatch ==
  ASSUME TypeOK, WorkIsRecoverable, DispatchInv,
         ExpireLeases \/ RetireScan \/ RetireApply \/ ReconcileDependencies
  PROVE  DispatchInv'
  <1> USE DEF DispatchInv, OwnedWork, ApprovalIsBlocked, VerifiedWasClaimed, RetiresStale,
              RunsMatch, GatesKept, DeliveryNotLost, Working, TypeOK
  <1>1. CASE ExpireLeases
    <2> DEFINE expired == {t \in Tasks : Expirable(t)}
    <2>1. /\ status' = [t \in Tasks |-> IF t \in expired THEN "failed" ELSE status[t]]
          /\ lease' = [t \in Tasks |-> IF t \in expired THEN "none" ELSE lease[t]]
          /\ openRuns' = {d \in openRuns : d.task \notin expired}
          /\ \A t \in expired : status[t] = "working"
          /\ UNCHANGED <<reason, assigned, attempt, lastAssignment, approval, retiring, outbox, sent>>
      BY <1>1 DEF ExpireLeases, ClosedByExpiry, Expirable
    <2>2. OwnedWork' /\ VerifiedWasClaimed' /\ RetiresStale' /\ DeliveryNotLost'
      BY <2>1
    <2>3. ApprovalIsBlocked'
      BY <2>1
    <2>4. RunsMatch'
      BY <2>1 DEF Deliveries
    <2>5. GatesKept'
      BY <2>1, DispatchAssumption
    <2> QED
      BY <2>2, <2>3, <2>4, <2>5
  <1>2. CASE RetireScan
    BY <1>2 DEF RetireScan, taskVars, deliveryVars
  <1>3. CASE RetireApply
    <2>1. /\ status' = [t \in Tasks |-> IF t \in retiring THEN "canceled" ELSE status[t]]
          /\ retiring' = {}
          /\ UNCHANGED <<reason, assigned, attempt, lastAssignment, lease, approval, deliveryVars>>
      BY <1>3 DEF RetireApply
    <2>2. OwnedWork' /\ ApprovalIsBlocked' /\ VerifiedWasClaimed' /\ RetiresStale'
      BY <2>1
    <2>3. RunsMatch'
      BY <2>1 DEF Deliveries, deliveryVars
    <2>4. GatesKept'
      BY <2>1, DispatchAssumption
    <2>5. DeliveryNotLost'
      BY <2>1 DEF deliveryVars
    <2> QED
      BY <2>2, <2>3, <2>4, <2>5
  <1>4. CASE ReconcileDependencies
    <2> DEFINE ready == {t \in Tasks : /\ Held(t, "waiting_dependency")
                                       /\ assigned[t] = None /\ ~approval[t]
                                       /\ Prereq[t] # {} /\ PrereqsDone(t)}
    <2>1. /\ status' = [t \in Tasks |-> IF t \in ready THEN "queued" ELSE status[t]]
          /\ reason' = [t \in Tasks |-> IF t \in ready THEN "none" ELSE reason[t]]
          /\ \A t \in ready : status[t] = "blocked" /\ ~approval[t]
          /\ UNCHANGED <<assigned, attempt, lastAssignment, lease, approval, retiring, deliveryVars>>
      BY <1>4 DEF ReconcileDependencies, Held
    <2>2. OwnedWork' /\ ApprovalIsBlocked' /\ VerifiedWasClaimed' /\ RetiresStale'
      BY <2>1
    <2>3. RunsMatch'
      BY <2>1 DEF Deliveries, deliveryVars
    <2>4. GatesKept'
      BY <2>1, DispatchAssumption
    <2>5. DeliveryNotLost'
      BY <2>1 DEF deliveryVars
    <2> QED
      BY <2>2, <2>3, <2>4, <2>5
  <1> QED
    BY <1>1, <1>2, <1>3, <1>4

LEMMA StepDispatch ==
  TypeOK /\ WorkIsRecoverable /\ DispatchInv /\ [Next]_vars => DispatchInv'
  <1>1. ASSUME DispatchInv, UNCHANGED vars PROVE DispatchInv'
    BY <1>1 DEF DispatchInv, OwnedWork, ApprovalIsBlocked, VerifiedWasClaimed, RetiresStale,
                RunsMatch, GatesKept, DeliveryNotLost, Working, vars, taskVars, deliveryVars
  <1> QED
    BY <1>1, TaskStepDispatch, AgentStepDispatch, DeliveryStepDispatch, SweepDispatch DEF Next

LEMMA DispatchInvariant == Spec => []DispatchInv
  <1> QED
    BY InitDispatch, StepDispatch, TypeCorrect, AlwaysRecoverable, PTL DEF Spec

\* A claimed delivery is in the outbox or on the wire as long as its lease lives:
\* neither publish_next nor a retirement of rows without authority loses one.
THEOREM DeliveriesNotLost == Spec => []DeliveryNotLost
  <1>1. DispatchInv => DeliveryNotLost
    BY DEF DispatchInv
  <1> QED
    BY <1>1, DispatchInvariant, PTL

\* No claim path, retry or edit starts a task with an open gate, unless a batch
\* retirement takes back the completion of a prerequisite (retire_stale_tasks).
THEOREM GatesAlwaysHold ==
  ASSUME \A t \in Tasks : Prereq[t] \cap Stale = {}
  PROVE  Spec => []GatesHold
  <1>1. DispatchInv => GatesHold
    BY DEF DispatchInv, GatesKept, GatesHold, PrereqsDone
  <1> QED
    BY <1>1, DispatchInvariant, PTL

\* Every way out of working closes the run of the task; only the batch
\* retirement of retire_stale_tasks does not.
THEOREM RunsHaveWork ==
  ASSUME Stale = {}
  PROVE  Spec => []NoOrphanRun
  <1>1. DispatchInv => NoOrphanRun
    BY DEF DispatchInv, RunsMatch, NoOrphanRun
  <1> QED
    BY <1>1, DispatchInvariant, PTL

-----------------------------------------------------------------------------
(* What a step may never do *)

\* Every way out of working, by its step; HTTP actions take no working task or
\* one without a delivery.
LEMMA WaysOutOfWork ==
  ASSUME TypeOK, WorkIsRecoverable, [Next]_vars, NEW t \in Tasks,
         Working(t), lastAssignment[t] # None, status'[t] # "working", t \notin retiring
  PROVE  \/ lastAssignment[t] \in inbox' \ inbox
         \/ lease[t] = "expired" /\ status'[t] = "failed"
         \/ lastAssignment'[t] = None /\ status'[t] = "failed"
  <1> USE DEF Working, TypeOK
  <1>1. CASE \E u \in Tasks : TaskStep(u)
    <2> SUFFICES ASSUME NEW u \in Tasks, TaskStep(u) PROVE FALSE
      BY <1>1
    <2>1. CASE Create(u) \/ Approve(u) \/ Retry(u)
      BY <2>1 DEF Create, Approve, Retry, Gate, Held
    <2>2. CASE (\E lane \in {"backlog", "queued"} : Patch(u, lane)) \/ Unassign(u) \/ Cancel(u)
      BY <2>2 DEF Patch, Unassign, Cancel, Cancelable
    <2>3. CASE BlockWaitingAgent(u) \/ ReapBlocked(u) \/ LeaseElapses(u)
      BY <2>3 DEF BlockWaitingAgent, CanEnterDispatch, ReapBlocked, Held, LeaseElapses
    <2>4. CASE Complete(u)
      BY <2>4 DEF Complete, CompleteAndRelease, Dependents, Held, NoActiveDelivery
    <2>5. CASE \E quota \in BOOLEAN : Fail(u, quota)
      BY <2>5 DEF Fail, NoActiveDelivery
    <2>6. CASE \E a \in Agents : ClaimNext(u, a) \/ ApiAssign(u, a) \/ CreateAssigned(u, a)
      BY <2>6 DEF ClaimNext, ApiAssign, CreateAssigned, Assign
    <2> QED
      BY <2>1, <2>2, <2>3, <2>4, <2>5, <2>6 DEF TaskStep
  <1>2. CASE \E a \in Agents : AgentStep(a)
    BY <1>2 DEF AgentStep, TouchBegin, TouchEnd, FirstHeartbeat, ApiHeartbeat, Register, Unregister,
                MarkOffline, ReleaseIdle, BeginInteractive, EndInteractive, Quarantine, taskVars
  <1>3. ASSUME NEW d \in Deliveries, DeliveryStep(d)
        PROVE  lastAssignment[t] \in inbox' \ inbox
    <2>1. CASE PublishAssignment(d) \/ RetireAssignment(d)
      BY <2>1 DEF PublishAssignment, RetireAssignment, taskVars
    <2>2. ASSUME NEW outcome \in {"completed", "failed", "held"}, ApplyResult(d, outcome)
          PROVE  lastAssignment[t] = d /\ d \in inbox' \ inbox
      <3>1. CASE ~Current(d)
        BY <2>2, <3>1 DEF ApplyResult
      <3>2. CASE Current(d) /\ t # d.task
        <4>1. ResultEffect(d, outcome) /\ d.task \in Tasks
          BY <2>2, <3>2 DEF ApplyResult, Deliveries
        <4>2. status'[t] = status[t]
          BY <4>1, <3>2 DEF ResultEffect, CompleteAndRelease, Dependents, Held
        <4> QED
          BY <4>2
      <3>3. CASE Current(d) /\ t = d.task
        BY <2>2, <3>3 DEF ApplyResult, Current
      <3> QED
        BY <3>1, <3>2, <3>3
    <2> QED
      BY <1>3, <2>1, <2>2 DEF DeliveryStep
  <1>4. CASE ExpireLeases
    BY <1>4 DEF ExpireLeases, Expirable, WorkIsRecoverable
  <1>5. CASE RetireScan \/ RetireApply \/ ReconcileDependencies \/ UNCHANGED vars
    BY <1>5 DEF RetireScan, RetireApply, ReconcileDependencies, Held, vars, taskVars
  <1> QED
    BY <1>1, <1>2, <1>3, <1>4, <1>5 DEF Next

\* Only the result of a delivery, its lease or a quarantine ends its work;
\* cancel, retry, complete, fail and every sweep leave it (ensure_no_active_delivery).
THEOREM DeliveriesEndTheirWork ==
  ASSUME Stale = {}
  PROVE  Spec => DeliveryOwnsExecution
  <1> DEFINE OwnEnd ==
        \A t \in Tasks :
          Working(t) /\ lastAssignment[t] # None /\ status'[t] # "working" =>
              \/ lastAssignment[t] \in inbox' \ inbox
              \/ lease[t] = "expired" /\ status'[t] = "failed"
              \/ lastAssignment'[t] = None /\ status'[t] = "failed"
  <1>1. TypeOK /\ WorkIsRecoverable /\ DispatchInv /\ [Next]_vars => [OwnEnd]_vars
    BY WaysOutOfWork DEF DispatchInv, RetiresStale
  <1> QED
    BY <1>1, TypeCorrect, AlwaysRecoverable, DispatchInvariant, PTL DEF Spec, DeliveryOwnsExecution

\* The result of a superseded delivery is recorded and changes nothing else, for
\* any number of Agents and deliveries on the wire (SqlxTaskWriter::apply).
THEOREM StaleResultsAreInert == Spec => StaleResultIsInert
  <1> DEFINE Inert ==
        \A d \in inbox' \ inbox :
          ~(Working(d.task) /\ lastAssignment[d.task] = d) =>
              UNCHANGED <<taskVars, participant, openRuns>>
  <1>1. ASSUME [Next]_vars, NEW e \in inbox' \ inbox
        PROVE  \E outcome \in {"completed", "failed", "held"} : e \in Deliveries /\ ApplyResult(e, outcome)
    <2>1. CASE \E d \in Deliveries : DeliveryStep(d)
      BY <1>1, <2>1 DEF DeliveryStep, PublishAssignment, RetireAssignment, ApplyResult
    <2>2. CASE \E t \in Tasks : TaskStep(t)
      BY <1>1, <2>2 DEF TaskStep, Create, Patch, Unassign, Approve, Cancel, Retry, BlockWaitingAgent,
         ReapBlocked, Complete, Fail, LeaseElapses, ClaimNext, ApiAssign, CreateAssigned, Assign,
         deliveryVars
    <2>3. CASE \E a \in Agents : AgentStep(a)
      BY <1>1, <2>3 DEF AgentStep, TouchBegin, TouchEnd, FirstHeartbeat, ApiHeartbeat, Register,
         Unregister, MarkOffline, ReleaseIdle, BeginInteractive, EndInteractive, Quarantine,
         deliveryVars
    <2>4. CASE ExpireLeases \/ RetireScan \/ RetireApply \/ ReconcileDependencies \/ UNCHANGED vars
      BY <1>1, <2>4 DEF ExpireLeases, RetireScan, RetireApply, ReconcileDependencies, vars,
         deliveryVars
    <2> QED
      BY <1>1, <2>1, <2>2, <2>3, <2>4 DEF Next
  <1>2. [Next]_vars => [Inert]_vars
    BY <1>1 DEF ApplyResult, Current, taskVars
  <1> QED
    BY <1>2, PTL DEF Spec, StaleResultIsInert

-----------------------------------------------------------------------------
(* The tables implement WorkOwnership.  A claim and a completion are steps  *)
(* of their own there; a step that starts and completes nothing releases    *)
(* the tasks that leave working, if any.                                    *)

\* Nothing starts and nothing completes; what stays working stays with its Agent.
LetsGo ==
    /\ NoNewWork
    /\ attempt' = attempt
    /\ \A t \in Tasks : status'[t] = "completed" <=> status[t] = "completed"

LEMMA LetsGoReleases ==
  ASSUME TypeOK, LetsGo
  PROVE  Ownership!Next
  <1> DEFINE lost == {t \in Tasks : status[t] = "working" /\ status'[t] # "working"}
  <1>1. /\ [t \in Tasks |-> IF Working(t) THEN assigned[t] ELSE None]'
          = [t \in Tasks |-> IF t \in lost THEN None
                             ELSE [u \in Tasks |-> IF Working(u) THEN assigned[u] ELSE None][t]]
        /\ {t \in Tasks : status[t] = "completed"}' = {t \in Tasks : status[t] = "completed"}
        /\ attempt' = attempt
    BY DEF LetsGo, NoNewWork, Working
  <1>2. lost \in SUBSET Tasks
    OBVIOUS
  <1> HIDE DEF lost
  <1> QED
    BY <1>1, <1>2 DEF Ownership!Next, Ownership!Release

LEMMA ClaimIsClaim ==
  ASSUME TypeOK, NEW t \in Tasks, NEW a \in Agents,
         Assign(t, a), AdmissionIdle(a), CanStart(t), status[t] \in {"absent", "queued", "blocked"}
  PROVE  Ownership!Next
  <1>1. /\ status' = [status EXCEPT ![t] = "working"]
        /\ assigned' = [assigned EXCEPT ![t] = a]
        /\ attempt' = [attempt EXCEPT ![t] = attempt[t] + 1]
    BY DEF Assign
  <1>2. /\ ~Working(t) /\ status[t] # "completed"
        /\ \A p \in Prereq[t] : p \in Tasks /\ status[p] = "completed"
        /\ \A u \in Tasks : Working(u) => assigned[u] # a
    BY DispatchAssumption DEF CanStart, PrereqsDone, AdmissionIdle, Owns, Working
  <1>3. [u \in Tasks |-> IF Working(u) THEN assigned[u] ELSE None]'
          = [[u \in Tasks |-> IF Working(u) THEN assigned[u] ELSE None] EXCEPT ![t] = a]
    BY <1>1 DEF Working, TypeOK
  <1>4. {u \in Tasks : status[u] = "completed"}' = {u \in Tasks : status[u] = "completed"}
    BY <1>1, <1>2 DEF TypeOK
  <1>5. Ownership!Claim(t, a)
    BY <1>1, <1>2, <1>3, <1>4, DispatchAssumption DEF Ownership!Claim, Ownership!Free, Working, TypeOK
  <1> QED
    BY <1>5 DEF Ownership!Next

LEMMA CompletionIsFinish ==
  ASSUME TypeOK, DispatchInv, NEW t \in Tasks, CompleteAndRelease(t),
         Working(t) \/ Held(t, "waiting_verification"), UNCHANGED <<assigned, attempt>>
  PROVE  Ownership!Next
  <1>1. /\ status'[t] = "completed" /\ status[t] # "completed"
        /\ \A u \in Tasks \ {t} : /\ status'[u] = "completed" <=> status[u] = "completed"
                                  /\ status'[u] = "working" <=> status[u] = "working"
    BY DEF CompleteAndRelease, Dependents, Held, Working, TypeOK
  <1>2. [u \in Tasks |-> IF Working(u) THEN assigned[u] ELSE None]'
          = [[u \in Tasks |-> IF Working(u) THEN assigned[u] ELSE None] EXCEPT ![t] = None]
    BY <1>1 DEF Working
  <1>3. {u \in Tasks : status[u] = "completed"}' = {u \in Tasks : status[u] = "completed"} \cup {t}
    BY <1>1
  <1>4. (Working(t) /\ assigned[t] # None) \/ attempt[t] > 0
    BY DispatchAssumption DEF DispatchInv, OwnedWork, VerifiedWasClaimed, Held
  <1>5. Ownership!Finish(t)
    BY <1>1, <1>2, <1>3, <1>4 DEF Ownership!Finish
  <1> QED
    BY <1>5 DEF Ownership!Next

LEMMA TaskStepOwnership ==
  ASSUME TypeOK, DispatchInv, NEW t \in Tasks, TaskStep(t)
  PROVE  Ownership!Next
  <1>1. CASE \E a \in Agents : ClaimNext(t, a) \/ ApiAssign(t, a) \/ CreateAssigned(t, a)
    BY <1>1, ClaimPathsMeetGates, ClaimIsClaim
  <1>2. CASE Complete(t)
    BY <1>2, CompletionIsFinish DEF Complete
  <1>3. CASE Create(t) \/ Approve(t) \/ Retry(t)
    BY <1>3, LetsGoReleases DEF Create, Approve, Retry, Gate, Held, LetsGo, NoNewWork, TypeOK
  <1>4. CASE (\E lane \in {"backlog", "queued"} : Patch(t, lane)) \/ Unassign(t) \/ Cancel(t)
    BY <1>4, LetsGoReleases DEF Patch, Unassign, Cancel, Cancelable, LetsGo, NoNewWork, TypeOK
  <1>5. CASE BlockWaitingAgent(t) \/ ReapBlocked(t) \/ LeaseElapses(t)
    BY <1>5, LetsGoReleases DEF BlockWaitingAgent, CanEnterDispatch, ReapBlocked, Held, LeaseElapses,
                                LetsGo, NoNewWork, TypeOK
  <1>6. CASE \E quota \in BOOLEAN : Fail(t, quota)
    BY <1>6, LetsGoReleases DEF Fail, Working, LetsGo, NoNewWork, TypeOK
  <1> QED
    BY <1>1, <1>2, <1>3, <1>4, <1>5, <1>6 DEF TaskStep

LEMMA AgentStepOwnership ==
  ASSUME TypeOK, NEW a \in Agents, AgentStep(a)
  PROVE  Ownership!Next
  <1>1. CASE Quarantine(a)
    BY <1>1, LetsGoReleases DEF Quarantine, Working, LetsGo, NoNewWork, TypeOK
  <1>2. CASE ~Quarantine(a)
    <2>1. UNCHANGED taskVars
      BY <1>2 DEF AgentStep, TouchBegin, TouchEnd, FirstHeartbeat, ApiHeartbeat, Register, Unregister,
                  MarkOffline, ReleaseIdle, BeginInteractive, EndInteractive
    <2> QED
      BY <2>1, LetsGoReleases DEF LetsGo, NoNewWork, taskVars
  <1> QED
    BY <1>1, <1>2

LEMMA DeliveryStepOwnership ==
  ASSUME TypeOK, DispatchInv, NEW d \in Deliveries, DeliveryStep(d)
  PROVE  Ownership!Next
  <1>1. CASE PublishAssignment(d) \/ RetireAssignment(d)
    BY <1>1, LetsGoReleases DEF PublishAssignment, RetireAssignment, LetsGo, NoNewWork, taskVars
  <1>2. ASSUME NEW outcome \in {"completed", "failed", "held"}, ApplyResult(d, outcome)
        PROVE  Ownership!Next
    <2>1. d.task \in Tasks
      BY DEF Deliveries
    <2>2. CASE Current(d) /\ outcome = "completed"
      BY <1>2, <2>1, <2>2, CompletionIsFinish DEF ApplyResult, ResultEffect, Current
    <2>3. CASE Current(d) /\ outcome # "completed"
      BY <1>2, <2>1, <2>3, LetsGoReleases
         DEF ApplyResult, ResultEffect, Current, Working, LetsGo, NoNewWork, TypeOK
    <2>4. CASE ~Current(d)
      BY <1>2, <2>4, LetsGoReleases DEF ApplyResult, LetsGo, NoNewWork
    <2> QED
      BY <2>2, <2>3, <2>4
  <1> QED
    BY <1>1, <1>2 DEF DeliveryStep

LEMMA SweepOwnership ==
  ASSUME TypeOK, retiring = {},
         ExpireLeases \/ RetireScan \/ RetireApply \/ ReconcileDependencies
  PROVE  Ownership!Next
  <1>1. CASE ExpireLeases
    BY <1>1, LetsGoReleases DEF ExpireLeases, Expirable, Working, LetsGo, NoNewWork
  <1>2. CASE RetireScan
    BY <1>2, LetsGoReleases DEF RetireScan, LetsGo, NoNewWork, taskVars
  <1>3. CASE RetireApply
    BY <1>3 DEF RetireApply
  <1>4. CASE ReconcileDependencies
    BY <1>4, LetsGoReleases DEF ReconcileDependencies, Held, LetsGo, NoNewWork
  <1> QED
    BY <1>1, <1>2, <1>3, <1>4

LEMMA InitOwnership == Init => Ownership!Init
  <1> SUFFICES ASSUME Init PROVE Ownership!Init
    OBVIOUS
  <1>1. PICK owner \in [LegacyTasks -> Agents] :
          /\ \A t, u \in LegacyTasks : owner[t] = owner[u] => t = u
          /\ assigned = [t \in Tasks |-> IF t \in LegacyTasks THEN owner[t] ELSE None]
    BY DEF Init
  <1>2. \A t \in Tasks : /\ Working(t) <=> t \in LegacyTasks
                         /\ Working(t) => assigned[t] = owner[t] /\ owner[t] \in Agents
                         /\ status[t] # "completed" /\ attempt[t] = 0
    BY <1>1 DEF Init, Working
  <1>3. attempt = [t \in Tasks |-> 0]
    BY DEF Init
  <1> QED
    BY <1>1, <1>2, <1>3, DispatchAssumption DEF Ownership!Init

LEMMA StepOwnership ==
  ASSUME TypeOK, DispatchInv, retiring = {}, [Next]_vars
  PROVE  [Ownership!Next]_Ownership!vars
  <1>1. CASE UNCHANGED vars
    BY <1>1 DEF Ownership!vars, vars, taskVars, Working
  <1> QED
    BY <1>1, TaskStepOwnership, AgentStepOwnership, DeliveryStepOwnership, SweepOwnership DEF Next

\* The tables implement exclusive, fenced ownership with final completion, for any
\* number of tasks, Agents and attempts, as long as no batch retirement runs.
THEOREM TablesImplementOwnership ==
  ASSUME Stale = {}
  PROVE  Spec => ImplementsOwnership
  <1>1. DispatchInv => retiring = {}
    BY DEF DispatchInv, RetiresStale
  <1>2. TypeOK /\ DispatchInv /\ [Next]_vars => [Ownership!Next]_Ownership!vars
    BY <1>1, StepOwnership
  <1> QED
    BY <1>2, InitOwnership, TypeCorrect, DispatchInvariant, PTL
       DEF Spec, ImplementsOwnership, Ownership!Spec
=============================================================================
