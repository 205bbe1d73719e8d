---------------------------- MODULE TaskDispatch ----------------------------
(***************************************************************************)
(* The life of orchestration tasks in PostgreSQL: how a task is created,   *)
(* gated, claimed by an Agent, delivered, finished, expired, retried and   *)
(* released, by the API service, by the participant liveness worker, by    *)
(* the result consumer and by the periodic sweeps.  Each action is one     *)
(* committed transaction (they serialise on the Agent lifecycle advisory   *)
(* lock and on row locks); a statement that decides on an older snapshot   *)
(* than the row it finally writes is split in two (TouchBegin/TouchEnd and *)
(* RetireScan/RetireApply).                                                *)
(***************************************************************************)
EXTENDS Naturals, FiniteSets

CONSTANTS
    Tasks,          \* orchestration tasks that may ever be created
    Agents,         \* Agents that may serve them
    None,           \* SQL NULL in assigned_agent_id and last_assignment_id
    MaxAttempt,     \* BOUND on orchestration_tasks.attempt
    Prereq,         \* Prereq[t]: the parent and params.dependency_ids of t
    NeedsApproval,  \* tasks created with requires_approval = TRUE
    MissingInput,   \* tasks whose params lack a required input
    Verified,       \* tasks whose params carry an expectedResult contract
    LegacyTasks,    \* working rows older than leases and deliveries (migration 033)
    Stale           \* tasks old enough to fall under the batch retirement

\* What a deployment may choose; TLC evaluates it on every run.
ASSUME DispatchAssumption ==
    /\ None \notin Agents
    /\ MaxAttempt \in Nat
    /\ Prereq \in [Tasks -> SUBSET Tasks]
    /\ NeedsApproval \subseteq Tasks
    /\ MissingInput \subseteq Tasks
    /\ Verified \subseteq Tasks
    /\ LegacyTasks \subseteq Tasks
    /\ Stale \subseteq Tasks

\* One row of orchestration_outbox, of task_runs and of orchestration_inbox:
\* delivery_id is a fresh UUID of each claim, so (task, attempt) names it.
Deliveries == [task : Tasks, attempt : 1..MaxAttempt, agent : Agents]

ASSUME DeliveryAssumption == None \notin Deliveries

Statuses == {"absent", "backlog", "queued", "blocked", "working",
             "completed", "failed", "canceled"}
Reasons == {"none", "waiting_agent", "waiting_dependency", "waiting_approval",
            "waiting_input", "waiting_verification", "quota_exceeded"}

VARIABLES
    \* columns of orchestration_tasks
    status, reason, assigned, attempt, lastAssignment, lease, approval,
    \* the Agent: its participants row and its interactive work lease
    participant, interactive,
    \* the snapshot an in-flight heartbeat statement decides on
    touch,
    \* the rows an in-flight batch retirement has selected
    retiring,
    \* task_runs still open, outbox rows still unpublished, deliveries on the
    \* wire, and deliveries whose result the inbox has recorded
    openRuns, outbox, sent, inbox

taskVars == <<status, reason, assigned, attempt, lastAssignment, lease, approval>>
deliveryVars == <<openRuns, outbox, sent, inbox>>
agentVars == <<participant, interactive>>
vars == <<taskVars, agentVars, touch, retiring, deliveryVars>>

TypeOK ==
    /\ status \in [Tasks -> Statuses]
    /\ reason \in [Tasks -> Reasons]
    /\ assigned \in [Tasks -> Agents \cup {None}]
    /\ attempt \in [Tasks -> 0..MaxAttempt]
    /\ lastAssignment \in [Tasks -> Deliveries \cup {None}]
    /\ lease \in [Tasks -> {"none", "live", "expired"}]
    /\ approval \in [Tasks -> BOOLEAN]
    /\ participant \in [Agents -> {"none", "available", "busy", "offline"}]
    /\ interactive \in [Agents -> BOOLEAN]
    /\ touch \in [Agents -> {"idle", "free", "owner"}]
    /\ retiring \in SUBSET Tasks
    /\ openRuns \in SUBSET Deliveries
    /\ outbox \in SUBSET Deliveries
    /\ sent \in SUBSET Deliveries
    /\ inbox \in SUBSET Deliveries

Init ==
    /\ \E owner \in [LegacyTasks -> Agents] :
        /\ \A t, u \in LegacyTasks : owner[t] = owner[u] => t = u
        /\ assigned = [t \in Tasks |-> IF t \in LegacyTasks THEN owner[t] ELSE None]
        /\ participant = [a \in Agents |->
               IF \E t \in LegacyTasks : owner[t] = a THEN "busy" ELSE "none"]
    /\ status = [t \in Tasks |-> IF t \in LegacyTasks THEN "working" ELSE "absent"]
    /\ reason = [t \in Tasks |-> "none"]
    /\ attempt = [t \in Tasks |-> 0]
    /\ lastAssignment = [t \in Tasks |-> None]
    /\ lease = [t \in Tasks |-> "none"]
    /\ approval = [t \in Tasks |-> t \in NeedsApproval \ LegacyTasks]
    /\ interactive = [a \in Agents |-> FALSE]
    /\ touch = [a \in Agents |-> "idle"]
    /\ retiring = {}
    /\ openRuns = {}
    /\ outbox = {}
    /\ sent = {}
    /\ inbox = {}

-----------------------------------------------------------------------------
(* What the code asks of the rows *)

Working(t) == status[t] = "working"

\* The recurring EXISTS subquery: some working task is assigned to the Agent.
Owns(a) == \E t \in Tasks : Working(t) /\ assigned[t] = a

\* Mutant: the admission trusts the participant row and asks for no working task.
AdmissionTrustsPresence(a) == ~interactive[a] /\ participant[a] # "busy"

\* Mutant: the admission forgets the interactive lease.
AdmissionIgnoresTerminal(a) == participant[a] # "busy" /\ ~Owns(a)

\* agent_work_admission_is_idle_in_tx
AdmissionIdle(a) == ~interactive[a] /\ participant[a] # "busy" /\ ~Owns(a)

\* Every parent and declared prerequisite has completed.
PrereqsDone(t) == \A p \in Prereq[t] : status[p] = "completed"

\* Mutant: an assigned start checks the inputs only.
CanStartWithInputs(t) == t \notin MissingInput

\* ensure_assigned_task_can_start
CanStart(t) == t \notin MissingInput /\ PrereqsDone(t)

\* BlockedTaskPolicy::can_enter_dispatch
CanEnterDispatch(t) ==
    status[t] \in {"queued", "blocked"} /\ reason[t] \in {"none", "waiting_agent"}

Held(t, r) == status[t] = "blocked" /\ reason[t] = r

\* What create, retry and approve learn of the prerequisites.  They read them
\* before they write the row and, in release_ready_dependency_block, once more
\* after it: both reads may still miss a completion that commits meanwhile, and
\* the second is lost with its process.  DependencyRelease has the single steps.
PrereqsSeen(t) == {PrereqsDone(t), Prereq[t] = {}}

\* The blocked_reason initial_unassigned_state computes, in its order.
InitialReason(t, done) ==
    IF t \in MissingInput THEN "waiting_input"
    ELSE IF approval[t] THEN "waiting_approval"
    ELSE IF ~done THEN "waiting_dependency"
    ELSE "none"

\* The row is blocked for the reason r, or ready in the given lane.
Gate(t, r, lane) ==
    /\ reason' = [reason EXCEPT ![t] = r]
    /\ status' = [status EXCEPT ![t] = IF r = "none" THEN lane ELSE "blocked"]

\* ensure_can_cancel: neither a working nor a finished task.
Cancelable(t) == status[t] \in {"backlog", "queued", "blocked", "canceled"}

\* The open run that task_run_repo.finish_current_in_tx closes: the latest one.
CurrentRun(t) ==
    {d \in openRuns : d.task = t /\ \A e \in openRuns : e.task = t => e.attempt <= d.attempt}

\* release_task_dependents_in_tx: the dependents of done that a completion
\* transaction moves to the queue.
Dependents(done) ==
    {t \in Tasks : /\ done \in Prereq[t]
                   /\ Held(t, "waiting_dependency")
                   /\ assigned[t] = None
                   /\ ~approval[t]
                   /\ \A p \in Prereq[t] \ {done} : status[p] = "completed"}

\* Completing t and releasing its dependents, in one transaction.
CompleteAndRelease(t) ==
    /\ status' = [u \in Tasks |-> IF u = t THEN "completed"
                                  ELSE IF u \in Dependents(t) THEN "queued" ELSE status[u]]
    /\ reason' = [u \in Tasks |-> IF u # t /\ u \in Dependents(t) THEN "none" ELSE reason[u]]

\* The participant after its working task ended: offline stays offline, a
\* participant that still owns a working task is left as it is.
Released(a, still) ==
    IF participant[a] \in {"none", "offline"} \/ still THEN participant[a] ELSE "available"

-----------------------------------------------------------------------------
(* Creating, gating and editing tasks: the API service *)

\* create_task without an assignee.
Create(t) ==
    /\ status[t] = "absent"
    /\ \E done \in PrereqsSeen(t) : Gate(t, InitialReason(t, done), "backlog")
    /\ UNCHANGED <<assigned, attempt, lastAssignment, lease, approval,
                   agentVars, touch, retiring, deliveryVars>>

\* update_task with state backlog or queued: the blocked reason is kept.
Patch(t, lane) ==
    /\ lane \in {"backlog", "queued"}
    /\ \/ status[t] \in {"backlog", "queued"}
       \/ status[t] = "blocked" /\ reason[t] \in {"none", "waiting_agent"}
    /\ status' = [status EXCEPT ![t] = lane]
    /\ UNCHANGED <<reason, assigned, attempt, lastAssignment, lease, approval,
                   agentVars, touch, retiring, deliveryVars>>

\* update_task with assignedTo = null.
Unassign(t) ==
    /\ status[t] \notin {"absent", "working"}
    /\ status[t] = "blocked" => reason[t] \in {"none", "waiting_agent"}
    /\ assigned' = [assigned EXCEPT ![t] = None]
    /\ UNCHANGED <<status, reason, attempt, lastAssignment, lease, approval,
                   agentVars, touch, retiring, deliveryVars>>

\* approve_task: the gate opens; dependencies may still hold the task.
Approve(t) ==
    /\ Held(t, "waiting_approval")
    /\ approval[t]
    /\ approval' = [approval EXCEPT ![t] = FALSE]
    /\ \E done \in PrereqsSeen(t) :
           Gate(t, IF done THEN "none" ELSE "waiting_dependency", "queued")
    /\ UNCHANGED <<assigned, attempt, lastAssignment, lease,
                   agentVars, touch, retiring, deliveryVars>>

\* cancel_task: never a working task.
Cancel(t) ==
    /\ Cancelable(t)
    /\ status' = [status EXCEPT ![t] = "canceled"]
    /\ lease' = [lease EXCEPT ![t] = "none"]
    /\ openRuns' = openRuns \ CurrentRun(t)
    /\ UNCHANGED <<reason, assigned, attempt, lastAssignment, approval,
                   agentVars, touch, retiring, outbox, sent, inbox>>

\* Mutant: a retry goes straight back to the backlog.
RetryUngated(t) ==
    /\ status[t] \in {"failed", "canceled"}
    /\ status' = [status EXCEPT ![t] = "backlog"]
    /\ reason' = [reason EXCEPT ![t] = "none"]
    /\ assigned' = [assigned EXCEPT ![t] = None]
    /\ lastAssignment' = [lastAssignment EXCEPT ![t] = None]
    /\ UNCHANGED <<attempt, lease, approval, agentVars, touch, retiring, deliveryVars>>

\* retry_task: back to the start, the gates computed again.
Retry(t) ==
    /\ \/ status[t] \in {"failed", "canceled"}
       \/ Held(t, "quota_exceeded")
       \/ Held(t, "waiting_verification")
    /\ \E done \in PrereqsSeen(t) : Gate(t, InitialReason(t, done), "backlog")
    /\ assigned' = [assigned EXCEPT ![t] = None]
    /\ lastAssignment' = [lastAssignment EXCEPT ![t] = None]
    /\ lease' = [lease EXCEPT ![t] = "none"]
    /\ UNCHANGED <<attempt, approval, agentVars, touch, retiring, deliveryVars>>

\* try_auto_dispatch found nobody: the availability it read may be stale, the
\* task row is not (compare-and-set on status and row_version).
BlockWaitingAgent(t) ==
    /\ CanEnterDispatch(t)
    /\ PrereqsDone(t)
    /\ status' = [status EXCEPT ![t] = "blocked"]
    /\ reason' = [reason EXCEPT ![t] = "waiting_agent"]
    /\ UNCHANGED <<assigned, attempt, lastAssignment, lease, approval,
                   agentVars, touch, retiring, deliveryVars>>

\* BlockedTaskReaperWorker
ReapBlocked(t) ==
    /\ Held(t, "waiting_agent")
    /\ status' = [status EXCEPT ![t] = "canceled"]
    /\ UNCHANGED <<reason, assigned, attempt, lastAssignment, lease, approval,
                   agentVars, touch, retiring, deliveryVars>>

\* retire_stale_tasks: UPDATE ... WHERE id IN (SELECT id ... LIMIT n).  The
\* sub-select filters on the statement snapshot and takes no lock ...
RetireScan ==
    /\ retiring = {}
    /\ \E batch \in SUBSET {t \in Stale : status[t] \in {"backlog", "queued"}} :
        /\ batch # {}
        /\ retiring' = batch
    /\ UNCHANGED <<taskVars, agentVars, touch, deliveryVars>>

\* ... and the row it waited for is only tested for id IN the selected set.
RetireApply ==
    /\ retiring # {}
    /\ status' = [t \in Tasks |-> IF t \in retiring THEN "canceled" ELSE status[t]]
    /\ retiring' = {}
    /\ UNCHANGED <<reason, assigned, attempt, lastAssignment, lease, approval,
                   agentVars, touch, deliveryVars>>

-----------------------------------------------------------------------------
(* Claiming *)

\* Mutant: a claim does not renew lease_expires_at.
AssignWithoutLease(t, a) ==
    LET d == [task |-> t, attempt |-> attempt[t] + 1, agent |-> a]
    IN  /\ attempt[t] < MaxAttempt
        /\ status' = [status EXCEPT ![t] = "working"]
        /\ reason' = [reason EXCEPT ![t] = "none"]
        /\ assigned' = [assigned EXCEPT ![t] = a]
        /\ attempt' = [attempt EXCEPT ![t] = d.attempt]
        /\ lastAssignment' = [lastAssignment EXCEPT ![t] = d]
        /\ participant' = [participant EXCEPT ![a] = "busy"]
        /\ openRuns' = openRuns \cup {d}
        /\ outbox' = outbox \cup {d}
        /\ UNCHANGED <<lease, approval, interactive, touch, retiring, sent, inbox>>

\* CLAIM_TASK_SQL or ASSIGN_TASK_SQL with the run, the busy participant and the
\* outbox row of the same transaction.
Assign(t, a) ==
    LET d == [task |-> t, attempt |-> attempt[t] + 1, agent |-> a]
    IN  /\ attempt[t] < MaxAttempt
        /\ status' = [status EXCEPT ![t] = "working"]
        /\ reason' = [reason EXCEPT ![t] = "none"]
        /\ assigned' = [assigned EXCEPT ![t] = a]
        /\ attempt' = [attempt EXCEPT ![t] = d.attempt]
        /\ lastAssignment' = [lastAssignment EXCEPT ![t] = d]
        /\ lease' = [lease EXCEPT ![t] = "live"]
        /\ participant' = [participant EXCEPT ![a] = "busy"]
        /\ openRuns' = openRuns \cup {d}
        /\ outbox' = outbox \cup {d}
        /\ UNCHANGED <<approval, interactive, touch, retiring, sent, inbox>>

\* claim_next_task_for_participant: after a heartbeat, or the drain of a tick.
ClaimNext(t, a) ==
    /\ participant[a] = "available"
    /\ AdmissionIdle(a)
    /\ CanEnterDispatch(t)
    /\ assigned[t] = None
    /\ ~approval[t]
    /\ CanStart(t)
    /\ Assign(t, a)

\* assign_to_participant, by an operator or by the API's own sweep: the task
\* is tested against the caller's snapshot only, the gates through its reason.
ApiAssign(t, a) ==
    /\ participant[a] = "available"
    /\ AdmissionIdle(a)
    /\ CanEnterDispatch(t) \/ Held(t, "waiting_verification")
    /\ CanStart(t)
    /\ Assign(t, a)

\* create_task_with_assignee: insert, claim and assign in one transaction.
CreateAssigned(t, a) ==
    /\ status[t] = "absent"
    /\ t \notin NeedsApproval
    /\ participant[a] = "available"
    /\ AdmissionIdle(a)
    /\ CanStart(t)
    /\ Assign(t, a)

-----------------------------------------------------------------------------
(* Delivering and finishing *)

\* assignment_state_retirement_reason finds nothing against the delivery.
Authoritative(d) ==
    /\ Working(d.task)
    /\ lease[d.task] = "live"
    /\ lastAssignment[d.task] = d
    /\ assigned[d.task] = d.agent

\* Mutant: the row is marked published before the broker acknowledged it.
PublishMarksFirst(d) ==
    /\ d \in outbox
    /\ Authoritative(d)
    /\ sent' \in {sent, sent \cup {d}}
    /\ outbox' = outbox \ {d}
    /\ UNCHANGED <<taskVars, agentVars, touch, retiring, openRuns, inbox>>

\* publish_next: the row is marked published only after both JetStream acks; a
\* crash in between leaves it in the outbox and it is published again.
PublishAssignment(d) ==
    /\ d \in outbox
    /\ Authoritative(d)
    /\ sent' = sent \cup {d}
    /\ outbox' \in {outbox, outbox \ {d}}
    /\ UNCHANGED <<taskVars, agentVars, touch, retiring, openRuns, inbox>>

\* Mutant: a row without authority is skipped instead of retired.
SkipAssignment(d) ==
    /\ d \in outbox
    /\ ~Authoritative(d)
    /\ UNCHANGED vars

\* retire_locked_assignment: marked published without reaching the wire.
RetireAssignment(d) ==
    /\ d \in outbox
    /\ ~Authoritative(d)
    /\ outbox' = outbox \ {d}
    /\ UNCHANGED <<taskVars, agentVars, touch, retiring, openRuns, sent, inbox>>

\* Mutant: the guarded UPDATE forgets last_assignment_id and attempt.
CurrentByStatus(d) == Working(d.task)

\* The guard of both UPDATEs of SqlxTaskWriter::apply.
Current(d) ==
    /\ Working(d.task)
    /\ lastAssignment[d.task] = d
    /\ attempt[d.task] = d.attempt

\* The part of apply that runs only when the guarded UPDATE matched a row.
ResultEffect(d, outcome) ==
    LET t == d.task
        still == \E u \in Tasks \ {t} : Working(u) /\ assigned[u] = d.agent
    IN  /\ \/ outcome = "completed" /\ CompleteAndRelease(t) /\ UNCHANGED assigned
           \/ /\ outcome = "failed"
              /\ status' = [status EXCEPT ![t] = "failed"]
              /\ UNCHANGED <<reason, assigned>>
           \/ /\ outcome = "held"
              /\ t \in Verified
              /\ status' = [status EXCEPT ![t] = "blocked"]
              /\ reason' = [reason EXCEPT ![t] = "waiting_verification"]
              /\ assigned' = [assigned EXCEPT ![t] = None]
        /\ lease' = [lease EXCEPT ![t] = "none"]
        /\ openRuns' = openRuns \ {d}
        /\ participant' = [participant EXCEPT ![d.agent] = Released(d.agent, still)]

\* SqlxTaskWriter::apply on the first copy of a result; later copies find the
\* inbox row and change nothing.
ApplyResult(d, outcome) ==
    /\ d \in sent \ inbox
    /\ inbox' = inbox \cup {d}
    /\ IF Current(d)
       THEN ResultEffect(d, outcome)
       ELSE UNCHANGED <<status, reason, assigned, lease, openRuns, participant>>
    /\ UNCHANGED <<attempt, lastAssignment, approval, interactive, touch, retiring, outbox, sent>>

\* Mutant: HTTP completion and failure accept work with a delivery.
AnyDelivery(t) == t \in Tasks

\* ensure_no_active_delivery: only legacy work can be ended over HTTP.
NoActiveDelivery(t) == Working(t) => lastAssignment[t] = None

\* complete_task, which also accepts a result held for verification.
Complete(t) ==
    /\ Working(t) \/ Held(t, "waiting_verification")
    /\ NoActiveDelivery(t)
    /\ CompleteAndRelease(t)
    /\ lease' = [lease EXCEPT ![t] = "none"]
    /\ openRuns' = openRuns \ CurrentRun(t)
    /\ UNCHANGED <<assigned, attempt, lastAssignment, approval,
                   agentVars, touch, retiring, outbox, sent, inbox>>

\* fail_task; a provider quota error blocks the task for retry instead.
Fail(t, quota) ==
    /\ Working(t)
    /\ NoActiveDelivery(t)
    /\ status' = [status EXCEPT ![t] = IF quota THEN "blocked" ELSE "failed"]
    /\ reason' = [reason EXCEPT ![t] = IF quota THEN "quota_exceeded" ELSE @]
    /\ assigned' = [assigned EXCEPT ![t] = IF quota THEN None ELSE @]
    /\ lastAssignment' = [lastAssignment EXCEPT ![t] = IF quota THEN None ELSE @]
    /\ lease' = [lease EXCEPT ![t] = "none"]
    /\ openRuns' = openRuns \ CurrentRun(t)
    /\ UNCHANGED <<attempt, approval, agentVars, touch, retiring, outbox, sent, inbox>>

\* invalidate_active_work_for_quarantine_in_tx.  The participant is marked
\* offline by a transaction of its own (MarkOffline), best effort.
Quarantine(a) ==
    LET lost == {t \in Tasks : Working(t) /\ assigned[t] = a}
    IN  /\ lost # {}
        /\ status' = [t \in Tasks |-> IF t \in lost THEN "failed" ELSE status[t]]
        /\ lastAssignment' = [t \in Tasks |-> IF t \in lost THEN None ELSE lastAssignment[t]]
        /\ lease' = [t \in Tasks |-> IF t \in lost THEN "none" ELSE lease[t]]
        /\ openRuns' = {d \in openRuns : ~(d.agent = a /\ d.task \in lost)}
        /\ outbox' = {d \in outbox : d.task \notin lost}
        /\ UNCHANGED <<reason, assigned, attempt, approval, agentVars, touch, retiring, sent, inbox>>

-----------------------------------------------------------------------------
(* Participant liveness *)

\* The presence the touch statement derives for a participant it finds offline
\* or missing, given whether the Agent owns a working task.
Returning(owner) == IF owner THEN "busy" ELSE "available"

\* TOUCH_PARTICIPANT_SQL starts: its subquery will read this snapshot.
TouchBegin(a) ==
    /\ touch[a] = "idle"
    /\ participant[a] # "none"
    /\ touch' = [touch EXCEPT ![a] = IF Owns(a) THEN "owner" ELSE "free"]
    /\ UNCHANGED <<taskVars, agentVars, retiring, deliveryVars>>

\* It gets the row lock and writes the latest row with that snapshot.
TouchEnd(a) ==
    /\ touch[a] # "idle"
    /\ participant' = [participant EXCEPT ![a] =
           IF @ = "offline" THEN Returning(touch[a] = "owner") ELSE @]
    /\ touch' = [touch EXCEPT ![a] = "idle"]
    /\ UNCHANGED <<taskVars, interactive, retiring, deliveryVars>>

\* INSERT_PARTICIPANT_SQL: the touch matched no row.
FirstHeartbeat(a) ==
    /\ participant[a] = "none"
    /\ participant' = [participant EXCEPT ![a] = Returning(Owns(a))]
    /\ UNCHANGED <<taskVars, interactive, touch, retiring, deliveryVars>>

\* ParticipantRepository::heartbeat, under the participant and Agent locks.
ApiHeartbeat(a) ==
    /\ participant[a] # "none"
    /\ participant' = [participant EXCEPT ![a] =
           IF Owns(a) THEN "busy" ELSE IF @ = "offline" THEN "available" ELSE @]
    /\ UNCHANGED <<taskVars, interactive, touch, retiring, deliveryVars>>

\* ParticipantRepository::register, also when a container is restarted.
Register(a) ==
    /\ participant' = [participant EXCEPT ![a] = Returning(Owns(a))]
    /\ UNCHANGED <<taskVars, interactive, touch, retiring, deliveryVars>>

\* unregister deletes the row; a touch waiting for it matches no row.
Unregister(a) ==
    /\ participant[a] # "none"
    /\ participant' = [participant EXCEPT ![a] = "none"]
    /\ touch' = [touch EXCEPT ![a] = "idle"]
    /\ UNCHANGED <<taskVars, interactive, retiring, deliveryVars>>

\* The offline sweeps (heartbeat age, or Redis presence key) and the API's
\* mark_participant_offline.  A heartbeat may be late at any moment.
MarkOffline(a) ==
    /\ participant[a] \in {"available", "busy"}
    /\ participant' = [participant EXCEPT ![a] = "offline"]
    /\ UNCHANGED <<taskVars, interactive, touch, retiring, deliveryVars>>

\* Mutant: the reconciler only looks at participants without an old task.
ReleaseNeverAssigned(a) ==
    /\ participant[a] = "busy"
    /\ \A t \in Tasks : assigned[t] # a
    /\ participant' = [participant EXCEPT ![a] = "available"]
    /\ UNCHANGED <<taskVars, interactive, touch, retiring, deliveryVars>>

\* release_if_idle after a completion, failure or cancellation, best effort;
\* reconcile_orphaned_busy_rows repeats it for every busy participant.
ReleaseIdle(a) ==
    /\ participant[a] = "busy"
    /\ ~Owns(a)
    /\ participant' = [participant EXCEPT ![a] = "available"]
    /\ UNCHANGED <<taskVars, interactive, touch, retiring, deliveryVars>>

\* Browser terminal, MCP or a Working hook take the Agent for a person.
BeginInteractive(a) ==
    /\ AdmissionIdle(a)
    /\ interactive' = [interactive EXCEPT ![a] = TRUE]
    /\ UNCHANGED <<taskVars, participant, touch, retiring, deliveryVars>>

\* The interactive lease is finished or runs out.
EndInteractive(a) ==
    /\ interactive[a]
    /\ interactive' = [interactive EXCEPT ![a] = FALSE]
    /\ UNCHANGED <<taskVars, participant, touch, retiring, deliveryVars>>

-----------------------------------------------------------------------------
(* Lease expiry *)

\* Time passes the lease_expires_at of a task.
LeaseElapses(t) ==
    /\ lease[t] = "live"
    /\ lease' = [lease EXCEPT ![t] = "expired"]
    /\ UNCHANGED <<status, reason, assigned, attempt, lastAssignment, approval,
                   agentVars, touch, retiring, deliveryVars>>

\* The WHERE clause of EXPIRE_WORKING_LEASES_SQL.
Expirable(t) ==
    /\ Working(t)
    /\ \/ lease[t] = "expired"
       \/ /\ lease[t] = "none"
          /\ assigned[t] = None \/ participant[assigned[t]] # "busy"

\* RELEASE_PARTICIPANT_AFTER_LEASE_EXPIRY_SQL: what becomes of the Agent of an
\* expired task, by the work it keeps and the age of its own heartbeat.
Settled(a, keeps, late) ==
    IF participant[a] \in {"none", "offline"} THEN participant[a]
    ELSE IF keeps THEN "busy"
    ELSE IF late THEN "offline" ELSE "available"

\* Mutant: expiry leaves the runs of the expired tasks open.
ClosesNothing(expired) == {d \in openRuns : d.task \in expired /\ d.task \notin Tasks}

\* CLOSE_EXPIRED_TASK_RUNS_SQL
ClosedByExpiry(expired) == {d \in openRuns : d.task \in expired}

\* expire_working_leases: fail every expirable task, close its runs and settle
\* its participant, which goes offline when its own heartbeat is late too.
ExpireLeases ==
    LET expired == {t \in Tasks : Expirable(t)}
        losers == {a \in Agents : \E t \in expired : assigned[t] = a}
        Keeps(a) == \E t \in Tasks \ expired : Working(t) /\ assigned[t] = a
    IN  /\ expired # {}
        /\ status' = [t \in Tasks |-> IF t \in expired THEN "failed" ELSE status[t]]
        /\ lease' = [t \in Tasks |-> IF t \in expired THEN "none" ELSE lease[t]]
        /\ openRuns' = openRuns \ ClosedByExpiry(expired)
        /\ \E late \in SUBSET losers :
            participant' = [a \in Agents |->
                IF a \in losers THEN Settled(a, Keeps(a), a \in late) ELSE participant[a]]
        /\ UNCHANGED <<reason, assigned, attempt, lastAssignment, approval,
                       interactive, touch, retiring, outbox, sent, inbox>>

\* DependencyReconcileWorker: every dependent whose prerequisites completed.
ReconcileDependencies ==
    LET ready == {t \in Tasks : /\ Held(t, "waiting_dependency")
                                /\ assigned[t] = None
                                /\ ~approval[t]
                                /\ Prereq[t] # {}
                                /\ PrereqsDone(t)}
    IN  /\ ready # {}
        /\ status' = [t \in Tasks |-> IF t \in ready THEN "queued" ELSE status[t]]
        /\ reason' = [t \in Tasks |-> IF t \in ready THEN "none" ELSE reason[t]]
        /\ UNCHANGED <<assigned, attempt, lastAssignment, lease, approval,
                       agentVars, touch, retiring, deliveryVars>>

-----------------------------------------------------------------------------

TaskStep(t) ==
    \/ Create(t)
    \/ \E lane \in {"backlog", "queued"} : Patch(t, lane)
    \/ Unassign(t)
    \/ Approve(t)
    \/ Cancel(t)
    \/ Retry(t)
    \/ BlockWaitingAgent(t)
    \/ ReapBlocked(t)
    \/ Complete(t)
    \/ \E quota \in BOOLEAN : Fail(t, quota)
    \/ LeaseElapses(t)
    \/ \E a \in Agents : ClaimNext(t, a) \/ ApiAssign(t, a) \/ CreateAssigned(t, a)

AgentStep(a) ==
    \/ TouchBegin(a)
    \/ TouchEnd(a)
    \/ FirstHeartbeat(a)
    \/ ApiHeartbeat(a)
    \/ Register(a)
    \/ Unregister(a)
    \/ MarkOffline(a)
    \/ ReleaseIdle(a)
    \/ BeginInteractive(a)
    \/ EndInteractive(a)
    \/ Quarantine(a)

DeliveryStep(d) ==
    \/ PublishAssignment(d)
    \/ RetireAssignment(d)
    \/ \E outcome \in {"completed", "failed", "held"} : ApplyResult(d, outcome)

Next ==
    \/ \E t \in Tasks : TaskStep(t)
    \/ \E a \in Agents : AgentStep(a)
    \/ \E d \in Deliveries : DeliveryStep(d)
    \/ ExpireLeases
    \/ RetireScan
    \/ RetireApply
    \/ ReconcileDependencies

Spec == Init /\ [][Next]_vars

\* Fairness: time passes, the liveness worker ticks (leases and busy orphans),
\* and the outbox publisher eventually gets a row acknowledged or retired.
\* People, Agents and the dispatcher are under no obligation.
Settle(d) == (PublishAssignment(d) \/ RetireAssignment(d)) /\ d \notin outbox'

Fairness ==
    /\ \A t \in Tasks : WF_vars(LeaseElapses(t))
    /\ WF_vars(ExpireLeases)
    /\ \A a \in Agents : WF_vars(ReleaseIdle(a))
    /\ \A d \in Deliveries : WF_vars(Settle(d))

LiveSpec == Spec /\ Fairness

-----------------------------------------------------------------------------
(* Safety *)

\* An Agent never works on two tasks, whatever its participant row says: the
\* admission test under the lifecycle lock is what double assignment meets.
OneWorkingTaskPerAgent ==
    \A t, u \in Tasks :
        Working(t) /\ Working(u) /\ assigned[t] = assigned[u] => t = u

\* A person's terminal or MCP session and an orchestrated task never hold the
\* same Agent, although claims, hooks and the terminal admit independently.
ExclusiveUse ==
    \A a \in Agents : ~(interactive[a] /\ Owns(a))

\* No claim path starts a task whose approval, inputs or prerequisites are
\* open; the API path relies on blocked_reason for the approval gate.
GatesHold ==
    \A t \in Tasks : Working(t) /\ lastAssignment[t] # None =>
        ~approval[t] /\ t \notin MissingInput /\ PrereqsDone(t)

\* Work with a delivery can always be recovered: it has a lease, an open run
\* and an Agent that match the delivery it waits for.
WorkIsRecoverable ==
    \A t \in Tasks : Working(t) /\ lastAssignment[t] # None =>
        /\ lastAssignment[t] = [task |-> t, attempt |-> attempt[t], agent |-> assigned[t]]
        /\ lease[t] # "none"
        /\ lastAssignment[t] \in openRuns

\* While its lease is live, a claimed delivery is in the outbox or on the wire.
DeliveryNotLost ==
    \A t \in Tasks : Working(t) /\ lease[t] = "live" =>
        lastAssignment[t] \in outbox \cup sent

\* Without batch retirement, a run is open only while its delivery is the one
\* its task is working on: every way out of working closes it.
NoOrphanRun ==
    \A d \in openRuns : Working(d.task) /\ lastAssignment[d.task] = d

\* HTTP and operator actions cannot revoke a delivery handed to the outbox:
\* only its own result, its lease or the Agent's quarantine ends the work.
DeliveryOwnsExecution ==
    [][\A t \in Tasks :
          Working(t) /\ lastAssignment[t] # None /\ status'[t] # "working" =>
              \/ lastAssignment[t] \in inbox' \ inbox
              \/ lease[t] = "expired" /\ status'[t] = "failed"
              \/ lastAssignment'[t] = None /\ status'[t] = "failed"]_vars

\* The result of a superseded delivery leaves its task and participant alone.
StaleResultIsInert ==
    [][\A d \in inbox' \ inbox :
          ~(Working(d.task) /\ lastAssignment[d.task] = d) =>
              UNCHANGED <<taskVars, participant, openRuns>>]_vars

\* What the comment on TOUCH_PARTICIPANT_SQL promises: an Agent that owns a
\* working task is never presented to dispatch as available.
OwnerNotAvailable == \A a \in Agents : Owns(a) => participant[a] # "available"

\* What the comment on the batch retirement promises: it cancels tasks that
\* never started, none that an Agent is working on or has completed.
RetiresOnlyUnstarted ==
    [][RetireApply => \A t \in retiring : status[t] \notin {"working", "completed"}]_vars

-----------------------------------------------------------------------------
(* Liveness *)

\* Every run that was opened is closed: no crash, lost result, quarantine or
\* retry leaves an execution record open for ever.
RunsClose == \A d \in Deliveries : d \in openRuns ~> d \notin openRuns

\* A busy Agent becomes usable again, even when its sidecar never answers and
\* the release after the end of its task is lost.
BusyHeals == \A a \in Agents : participant[a] = "busy" ~> participant[a] # "busy"

\* A claimed delivery leaves the outbox, also when its task moved on meanwhile.
OutboxDrains == \A d \in Deliveries : d \in outbox ~> d \notin outbox
=============================================================================
