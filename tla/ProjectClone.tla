---------------------------- MODULE ProjectClone ----------------------------
(* Cloning one project's repository (project_clone_worker.rs, project_clone.rs):  *)
(* numbered attempts, an outbox, jobs that only wake a worker, a lease, a staging *)
(* directory per attempt and a rename under the project's row lock. Each replica  *)
(* runs one loop; its interval tick drops the clone that the same loop is running.*)
EXTENDS Naturals

CONSTANTS
    Workers,
    MaxAttempts,   \* config.max_attempts
    Rows,          \* bound: attempts of the project, those asked for by people too
    MaxFaults,     \* bound: crashes and failed statements
    Timely,        \* leases outlast the clone or the recovery they are for
    None

CloneAssumption ==
    /\ MaxAttempts \in Nat /\ Rows \in Nat /\ 1 <= MaxAttempts /\ MaxAttempts <= Rows
    /\ MaxFaults \in Nat /\ Timely \in BOOLEAN /\ None \notin Nat

Attempts == 1..Rows
Active == {"queued", "cloning"}
AttemptStatus == Active \cup {"absent", "ready", "failed", "cancelled"}

VARIABLES
    status,        \* project_clone_attempts.status
    expired,       \* attempts whose lease is over
    materialized,  \* attempts with materialized_at
    column,        \* projects.clone_status
    live,          \* the project is not deleted
    onDisk,        \* the target directory exists
    staging,       \* attempts with a staging directory
    outbox,        \* attempts with an unpublished outbox row
    job,           \* the job of each attempt
    at, cur,       \* where each worker's loop is, and with which attempt
    held,          \* the job a worker took
    keep,          \* what a worker's sweep read as in flight
    faults

rowVars == <<status, expired, materialized, column>>
diskVars == <<onDisk, staging>>
queueVars == <<outbox, job>>
loopVars == <<at, cur, held, keep>>
vars == <<rowVars, live, diskVars, queueVars, loopVars, faults>>

\* Steps of a clone, in order; then those of the reconciler.
Cloning == {"check", "claim", "cancel", "prepare", "run", "publish", "lock", "rename",
            "commit", "force", "fail", "retry", "done"}
Reconciling == {"keep", "sweep", "heal", "expired", "look", "adopt", "orphans"}

TypeOK ==
    /\ status \in [Attempts -> AttemptStatus]
    /\ expired \subseteq {a \in Attempts : status[a] = "cloning"}
    /\ materialized \subseteq Attempts /\ staging \subseteq Attempts /\ outbox \subseteq Attempts
    /\ column \in {"none", "queued", "cloning", "ready", "failed"}
    /\ live \in BOOLEAN /\ onDisk \in BOOLEAN /\ faults \in 0..MaxFaults
    /\ job \in [Attempts -> {"none", "pending", "running"}]
    /\ at \in [Workers -> {"idle"} \cup Cloning \cup Reconciling]
    /\ cur \in [Workers -> Attempts \cup {None}] /\ held \in [Workers -> Attempts \cup {None}]
    /\ keep \in [Workers -> SUBSET Attempts]
    /\ \A w \in Workers : at[w] \in Cloning => cur[w] # None /\ held[w] \in {None, cur[w]}

\* create_with_clone: project, first attempt and outbox row in one transaction.
\* A worker starts with its reconciler.
Init ==
    /\ status = [a \in Attempts |-> IF a = 1 THEN "queued" ELSE "absent"]
    /\ expired = {} /\ materialized = {} /\ column = "queued"
    /\ live = TRUE /\ onDisk = FALSE /\ staging = {}
    /\ outbox = {1} /\ job = [a \in Attempts |-> "none"]
    /\ at = [w \in Workers |-> "keep"]
    /\ cur = [w \in Workers |-> None] /\ held = cur
    /\ keep = [w \in Workers |-> {}] /\ faults = 0

Goto(w, p) == at' = [at EXCEPT ![w] = p]

\* Worker w is at step p with attempt a, and goes to step q.
Step(w, p, a, q) ==
    /\ at[w] = p /\ cur[w] = a
    /\ Goto(w, q)
    /\ UNCHANGED <<cur, held, keep, faults>>

\* Mutant: the publish does not lock the project's row.
NotLocked == FALSE

\* SELECT ... FOR UPDATE of the project, held over the rename until the commit.
Locked == \E w \in Workers : at[w] \in {"rename", "commit"}

\* Writes the attempt and, if the project is live, its summary column.
SetStatus(a, s, c) ==
    /\ ~Locked
    /\ status' = [status EXCEPT ![a] = s]
    /\ expired' = expired \ {a}
    /\ column' = IF live THEN c ELSE column

-----------------------------------------------------------------------------
(* The loop takes a job *)

Dequeue(w, a) ==
    /\ at[w] = "idle" /\ job[a] = "pending"
    /\ job' = [job EXCEPT ![a] = "running"]
    /\ cur' = [cur EXCEPT ![w] = a] /\ held' = [held EXCEPT ![w] = a]
    /\ Goto(w, "check")
    /\ UNCHANGED <<rowVars, live, diskVars, outbox, keep, faults>>

\* find_attempt and project_is_live.
Check(w, a) ==
    /\ \/ status[a] \notin Active /\ Step(w, "check", a, "done")
       \/ status[a] \in Active /\ ~live /\ Step(w, "check", a, "cancel")
       \/ status[a] \in Active /\ live /\ Step(w, "check", a, "claim")
    /\ UNCHANGED <<rowVars, live, diskVars, queueVars>>

IsQueued(a) == status[a] = "queued"

\* claim_for_cloning
Claim(w, a) ==
    /\ \/ /\ IsQueued(a)
          /\ Step(w, "claim", a, "prepare")
          /\ SetStatus(a, "cloning", "cloning")
       \/ /\ ~IsQueued(a)
          /\ Step(w, "claim", a, "done")
          /\ UNCHANGED <<status, expired, column>>
    /\ UNCHANGED <<materialized, live, diskVars, queueVars>>

\* cancel_attempt
Cancel(w, a) ==
    /\ Step(w, "cancel", a, "done")
    /\ \/ status[a] \in Active /\ SetStatus(a, "cancelled", "none")
       \/ status[a] \notin Active /\ UNCHANGED <<status, expired, column>>
    /\ UNCHANGED <<materialized, live, diskVars, queueVars>>

-----------------------------------------------------------------------------
(* execute_clone and finish_ready *)

\* The directory's name, for a live project only; staging; the credential.
Prepare(w, a) ==
    /\ \/ live /\ Step(w, "prepare", a, "run") /\ staging' = staging \cup {a}
       \/ Step(w, "prepare", a, "fail") /\ staging' = staging \ {a}
    /\ UNCHANGED <<rowVars, live, onDisk, queueVars>>

\* run_clone: a result is read from the staging directory, or the clone failed.
Run(w, a) ==
    /\ \/ a \in staging /\ Step(w, "run", a, "publish") /\ UNCHANGED staging
       \/ Step(w, "run", a, "fail") /\ staging' = staging \ {a}
    /\ UNCHANGED <<rowVars, live, onDisk, queueVars>>

\* A target that exists is refused: the claimed row has no materialized_at.
Publish(w, a) ==
    /\ \/ ~onDisk /\ Step(w, "publish", a, "lock") /\ UNCHANGED staging
       \/ onDisk /\ Step(w, "publish", a, "fail") /\ staging' = staging \ {a}
    /\ UNCHANGED <<rowVars, live, onDisk, queueVars>>

\* publish_ready_locked takes the row's lock and reads the project.
Lock(w, a) ==
    /\ ~Locked
    /\ \/ live /\ Step(w, "lock", a, "rename") /\ UNCHANGED staging
       \/ ~live /\ Step(w, "lock", a, "cancel") /\ staging' = staging \ {a}
    /\ UNCHANGED <<rowVars, live, onDisk, queueVars>>

Rename(w, a) ==
    /\ \/ /\ a \in staging /\ ~onDisk
          /\ Step(w, "rename", a, "commit")
          /\ onDisk' = TRUE /\ UNCHANGED staging
       \/ Step(w, "rename", a, "fail") /\ staging' = staging \ {a} /\ UNCHANGED onDisk
    /\ UNCHANGED <<rowVars, live, queueVars>>

\* finalize_ready_tx and the commit; a row that is no longer cloning is forced next.
Commit(w, a) ==
    /\ \/ /\ status[a] = "cloning"
          /\ Step(w, "commit", a, "done")
          /\ status' = [status EXCEPT ![a] = "ready"]
          /\ expired' = expired \ {a} /\ column' = "ready"
       \/ /\ status[a] # "cloning"
          /\ Step(w, "commit", a, "force")
          /\ UNCHANGED <<status, expired, column>>
    /\ materialized' = materialized \cup {a}
    /\ staging' = staging \ {a}
    /\ UNCHANGED <<live, onDisk, queueVars>>

\* force_ready
Force(w, a) ==
    /\ Step(w, "force", a, "done")
    /\ SetStatus(a, "ready", "ready")
    /\ UNCHANGED <<materialized, live, diskVars, queueVars>>

\* finalize_failed; whether a row matched is not known to the caller.
Fail(w, a) ==
    /\ Step(w, "fail", a, "retry")
    /\ \/ status[a] \in Active /\ SetStatus(a, "failed", "failed")
       \/ status[a] \notin Active /\ UNCHANGED <<status, expired, column>>
    /\ UNCHANGED <<materialized, live, diskVars, queueVars>>

\* schedule_retry after attempt a: a new attempt and its outbox row.
AddAttempt(a) ==
    /\ a + 1 \in Attempts /\ status[a + 1] = "absent"
    /\ SetStatus(a + 1, "queued", "queued")
    /\ outbox' = outbox \cup {a + 1}

\* schedule_retry_for
Retry(w, a) ==
    /\ Step(w, "retry", a, "done")
    /\ IF a < MaxAttempts /\ status[a + 1] = "absent"
       THEN AddAttempt(a)
       ELSE UNCHANGED <<status, expired, column, outbox>>
    /\ UNCHANGED <<materialized, live, diskVars, job>>

\* complete_job; a recovery goes on with its pass.
Done(w, a) ==
    /\ at[w] = "done" /\ cur[w] = a
    /\ Goto(w, IF held[w] = None THEN "orphans" ELSE "idle")
    /\ job' = IF held[w] = None THEN job ELSE [job EXCEPT ![a] = "none"]
    /\ cur' = [cur EXCEPT ![w] = None] /\ held' = [held EXCEPT ![w] = None]
    /\ UNCHANGED <<rowVars, live, diskVars, outbox, keep, faults>>

-----------------------------------------------------------------------------
(* The reconciler's pass *)

\* reconcile.tick() wins the select!: the other branch is dropped where it awaits.
Tick(w) ==
    /\ at[w] = "idle" \/ held[w] # None
    /\ Goto(w, "keep")
    /\ cur' = [cur EXCEPT ![w] = None] /\ held' = [held EXCEPT ![w] = None]
    /\ UNCHANGED <<rowVars, live, diskVars, queueVars, keep, faults>>

\* sweep_orphan_staging reads the attempts in flight ...
Keep(w) ==
    /\ at[w] = "keep" /\ Goto(w, "sweep")
    /\ keep' = [keep EXCEPT ![w] = {a \in Attempts : status[a] \in Active}]
    /\ UNCHANGED <<rowVars, live, diskVars, queueVars, cur, held, faults>>

\* ... and then removes the directories of all others.
Sweep(w) ==
    /\ at[w] = "sweep" /\ Goto(w, "heal")
    /\ staging' = staging \cap keep[w]
    /\ keep' = [keep EXCEPT ![w] = {}]
    /\ UNCHANGED <<rowVars, live, onDisk, queueVars, cur, held, faults>>

Unfinalized == {a \in materialized : status[a] # "ready"}

\* recover_materialized
Heal(w) ==
    /\ at[w] = "heal"
    /\ \/ /\ \E a \in Unfinalized : SetStatus(a, "ready", "ready")
          /\ UNCHANGED at
       \/ Unfinalized = {} /\ Goto(w, "expired") /\ UNCHANGED <<status, expired, column>>
    /\ UNCHANGED <<materialized, live, diskVars, queueVars, cur, held, keep, faults>>

\* claim_expired_cloning_for_recovery: the lease now runs for the recoverer.
ClaimExpired(w) ==
    /\ at[w] = "expired"
    /\ \/ \E a \in expired :
             /\ Goto(w, "look") /\ cur' = [cur EXCEPT ![w] = a]
             /\ expired' = expired \ {a}
       \/ expired = {} /\ Goto(w, "orphans") /\ UNCHANGED <<cur, expired>>
    /\ UNCHANGED <<status, materialized, column, live, diskVars, queueVars, held, keep, faults>>

\* Mutant: the target directory is not looked for.
PublishedUnseen == live

IsPublished == onDisk /\ live

\* recover_if_target_published looks at the disk.
Look(w, a) ==
    /\ \/ IsPublished /\ Step(w, "look", a, "adopt") /\ UNCHANGED staging
       \/ ~IsPublished /\ Step(w, "look", a, "fail") /\ staging' = staging \ {a}
    /\ UNCHANGED <<rowVars, live, onDisk, queueVars>>

\* adopt_published_ready
Adopt(w, a) ==
    /\ \/ /\ status[a] \in Active \cup {"ready"}
          /\ Step(w, "adopt", a, "done")
          /\ SetStatus(a, "ready", "ready")
          /\ materialized' = materialized \cup {a}
          /\ UNCHANGED staging
       \/ /\ status[a] \notin Active \cup {"ready"}
          /\ Step(w, "adopt", a, "fail")
          /\ staging' = staging \ {a}
          /\ UNCHANGED rowVars
    /\ UNCHANGED <<live, onDisk, queueVars>>

\* find_orphaned_queued and reenqueue_outbox
Orphans(w) ==
    /\ at[w] = "orphans" /\ Goto(w, "idle")
    /\ outbox' = outbox \cup {a \in Attempts : status[a] = "queued" /\ job[a] = "none"}
    /\ UNCHANGED <<rowVars, live, diskVars, job, cur, held, keep, faults>>

-----------------------------------------------------------------------------
(* Time, faults, people and the neighbours *)

\* The worker that took attempt a's job still works on it.
AtWork(a) == \E w \in Workers : held[w] = a

HasLease(a) == status[a] = "cloning"

LeaseHolding == {"prepare", "run", "publish", "lock", "rename", "commit", "fail", "look", "adopt"}

\* A lease runs out; a heartbeat extends it while the clone runs, and a recovery
\* has a whole lease for itself.
Expire(a) ==
    /\ HasLease(a) /\ a \notin expired
    /\ Timely => \A w \in Workers : cur[w] = a => at[w] \notin LeaseHolding
    /\ expired' = expired \cup {a}
    /\ UNCHANGED <<status, materialized, column, live, diskVars, queueVars, loopVars, faults>>

\* A statement fails: the clone ends where it is and the job is completed; after a
\* failed adoption the attempt counts as not published.
StatementFails(w, a) ==
    /\ faults < MaxFaults /\ faults' = faults + 1
    /\ cur[w] = a
    /\ \/ at[w] \in Cloning \ {"prepare", "run", "publish", "rename", "done"} /\ Goto(w, "done")
          /\ UNCHANGED staging
       \/ at[w] = "adopt" /\ Goto(w, "fail") /\ staging' = staging \ {a}
    /\ UNCHANGED <<rowVars, live, onDisk, queueVars, cur, held, keep>>

Crash(w) ==
    /\ faults < MaxFaults /\ faults' = faults + 1
    /\ Goto(w, "keep")
    /\ cur' = [cur EXCEPT ![w] = None] /\ held' = [held EXCEPT ![w] = None]
    /\ keep' = [keep EXCEPT ![w] = {}]
    /\ UNCHANGED <<rowVars, live, diskVars, queueVars>>

\* relay_next_clone_outbox: enqueue, on conflict nothing, and mark published.
Relay(a) ==
    /\ a \in outbox
    /\ outbox' = outbox \ {a}
    /\ job' = IF job[a] = "none" THEN [job EXCEPT ![a] = "pending"] ELSE job
    /\ UNCHANGED <<rowVars, live, diskVars, loopVars, faults>>

\* The stale lock reaper returns the job of a worker that is gone.
Unlock(a) ==
    /\ job[a] = "running" /\ ~AtWork(a)
    /\ job' = [job EXCEPT ![a] = "pending"]
    /\ UNCHANGED <<rowVars, live, diskVars, outbox, loopVars, faults>>

\* Soft delete of the project; nothing else is touched.
Delete ==
    /\ live /\ ~Locked
    /\ live' = FALSE
    /\ UNCHANGED <<rowVars, diskVars, queueVars, loopVars, faults>>

IsLatest(a) == status[a] # "absent" /\ \A b \in Attempts : b > a => status[b] = "absent"

\* POST /projects/{id}/clone/retry, only from a failed attempt.
ManualRetry(a) ==
    /\ live /\ IsLatest(a) /\ status[a] = "failed"
    /\ AddAttempt(a)
    /\ UNCHANGED <<materialized, live, diskVars, job, loopVars, faults>>

CloneStep(w, a) ==
    \/ Prepare(w, a) \/ Run(w, a) \/ Publish(w, a) \/ Lock(w, a) \/ Rename(w, a)
    \/ Commit(w, a) \/ Force(w, a) \/ Fail(w, a) \/ Retry(w, a) \/ Done(w, a)

PassStep(w) ==
    \/ Keep(w) \/ Sweep(w) \/ Heal(w) \/ ClaimExpired(w) \/ Orphans(w)
    \/ \E a \in Attempts : Look(w, a) \/ Adopt(w, a)

Next ==
    \/ \E w \in Workers, a \in Attempts :
          \/ Dequeue(w, a) \/ Check(w, a) \/ Claim(w, a) \/ Cancel(w, a)
          \/ CloneStep(w, a) \/ StatementFails(w, a)
    \/ \E w \in Workers : Tick(w) \/ PassStep(w) \/ Crash(w)
    \/ \E a \in Attempts : Expire(a) \/ Relay(a) \/ Unlock(a) \/ ManualRetry(a)
    \/ Delete

Spec == Init /\ [][Next]_vars

\* Loops and timers go on. Ticks are a minute apart: they do not cut off the short
\* steps from the dequeue to the claim for ever, while a clone they may always cut.
Fairness ==
    /\ \A w \in Workers : WF_vars(Tick(w)) /\ WF_vars(PassStep(w))
    /\ \A w \in Workers, a \in Attempts :
          /\ SF_vars(Dequeue(w, a)) /\ SF_vars(Check(w, a)) /\ SF_vars(Claim(w, a))
          /\ SF_vars(Cancel(w, a)) /\ WF_vars(CloneStep(w, a))
    /\ \A a \in Attempts : WF_vars(Expire(a)) /\ WF_vars(Relay(a)) /\ WF_vars(Unlock(a))

LiveSpec == Spec /\ Fairness

-----------------------------------------------------------------------------
\* An attempt is ready only with the directory on disk, late finalizers, recoveries
\* and crashes between the rename and the commit included.
ReadyIsOnDisk == \A a \in Attempts : status[a] = "ready" \/ a \in materialized => onDisk

\* No directory appears for a project deleted while its clone ran.
NoDirForDeleted == [][~onDisk /\ onDisk' => live']_vars

\* Both, with the types: what the worker promises of a project's directory, whichever of
\* execute_clone, a recovery or a late finalizer writes the row.
CloneSound == [](TypeOK /\ ReadyIsOnDisk) /\ NoDirForDeleted

\* A rename "can never split-brain into correct clone on disk, attempt reported failed".
PublishedIsReported == onDisk /\ live ~> column = "ready" \/ ~live

\* "a healthy long clone is never recovered": without a fault no lease runs out.
HealthyKeepsLease == faults = 0 => expired = {}

\* "then a BOUNDED retry ... if attempts remain"
RetryFollowsFailure ==
    \A a \in 1..(MaxAttempts - 1) : status[a] = "failed" ~> status[a + 1] # "absent" \/ ~live

=============================================================================
