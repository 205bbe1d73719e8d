---------------------------- MODULE SidecarInbox ----------------------------
(***************************************************************************)
(* The orchestration subscriber of one sidecar: the durable inbox that     *)
(* takes assignments off JetStream, the in-memory execution gate, the jobs *)
(* that run the CLI and publish outcomes, and the replay of both after a   *)
(* restart and every five seconds.  The subscriber loop is one task (pc);  *)
(* each delivery has at most one spawned job.  Every file operation that   *)
(* another task or a restart can fall between is a step of its own.        *)
(***************************************************************************)
EXTENDS Naturals

CONSTANTS
    Deliveries,   \* delivery_ids of assignments for this Agent
    MaxCopies,    \* BOUND on the copies of one assignment the platform publishes
    MaxCrashes    \* BOUND on process restarts

ASSUME SidecarAssumption == MaxCopies \in Nat /\ MaxCrashes \in Nat

VARIABLES
    pending, results, completed,  \* the three directories of the inbox
    stream, copies,               \* unacknowledged assignments, copies published
    pc, cur, listing, todo,       \* the subscriber loop and its local variables
    job,                          \* the spawned job of a delivery (gate = not "none")
    lapsed, foreign,              \* lease over; made for an older container generation
    crashes,
    \* history: outcomes stored, published, assignments acked, tombstones purged
    stored, published, acked, purged

disk == <<pending, results, completed>>
broker == <<stream, copies>>
loop == <<pc, cur, listing, todo>>
world == <<lapsed, foreign, crashes>>
history == <<stored, published, acked, purged>>
vars == <<disk, broker, loop, job, world, history>>

Jobs == {"none", "check", "cli", "store", "publish", "tombstone", "cleanup"}

TypeOK ==
    /\ pending \in SUBSET Deliveries /\ results \in SUBSET Deliveries
    /\ completed \in SUBSET Deliveries /\ stream \in SUBSET Deliveries
    /\ copies \in [Deliveries -> 0..MaxCopies]
    /\ pc \in {"boot", "idle", "accept", "schedule", "results", "pending"}
    /\ cur \in SUBSET Deliveries /\ \A d, e \in cur : d = e
    /\ listing \in SUBSET Deliveries /\ todo \in SUBSET Deliveries
    /\ job \in [Deliveries -> Jobs]
    /\ lapsed \in SUBSET Deliveries /\ foreign \in SUBSET Deliveries
    /\ crashes \in 0..MaxCrashes
    /\ stored \in SUBSET Deliveries /\ published \in SUBSET Deliveries
    /\ acked \in SUBSET Deliveries /\ purged \in SUBSET Deliveries

Init ==
    /\ pending = {} /\ results = {} /\ completed = {}
    /\ stream = {} /\ copies = [d \in Deliveries |-> 0]
    /\ pc = "boot" /\ cur = {} /\ listing = {} /\ todo = {}
    /\ job = [d \in Deliveries |-> "none"]
    /\ lapsed = {} /\ foreign = {} /\ crashes = 0
    /\ stored = {} /\ published = {} /\ acked = {} /\ purged = {}

-----------------------------------------------------------------------------
(* The platform and the clock *)

\* The outbox publisher puts a copy on the stream, again after a lost mark.
SendAssignment(d) ==
    /\ copies[d] < MaxCopies
    /\ copies' = [copies EXCEPT ![d] = @ + 1]
    /\ stream' = stream \cup {d}
    /\ UNCHANGED <<disk, loop, job, world, history>>

\* JetStream gives a message up after ASSIGNMENT_MAX_DELIVER tries.
GiveUp(d) ==
    /\ d \in stream
    /\ stream' = stream \ {d}
    /\ UNCHANGED <<disk, copies, loop, job, world, history>>

\* The assignment's own lease_expires_at passes.
LeaseElapses(d) ==
    /\ copies[d] > 0
    /\ d \notin lapsed
    /\ lapsed' = lapsed \cup {d}
    /\ UNCHANGED <<disk, broker, loop, job, foreign, crashes, history>>

\* The process dies and starts again; a recreated container has a generation
\* for which the assignments published so far were not made.
Crash(recreated) ==
    /\ crashes < MaxCrashes
    /\ crashes' = crashes + 1
    /\ pc' = "boot" /\ cur' = {} /\ listing' = {} /\ todo' = {}
    /\ job' = [d \in Deliveries |-> "none"]
    /\ foreign' = IF recreated THEN foreign \cup {d \in Deliveries : copies[d] > 0} ELSE foreign
    /\ UNCHANGED <<disk, broker, lapsed, history>>

-----------------------------------------------------------------------------
(* Intake: dispatch and AssignmentInbox::accept *)

\* The ack of a message may get lost; then JetStream delivers it again.
AckOrLose(d) ==
    \/ stream' = stream \ {d} /\ acked' = acked \cup {d}
    \/ UNCHANGED <<stream, acked>>

\* A message of another generation is terminated before the inbox sees it.
Term(d) ==
    /\ pc = "idle"
    /\ d \in stream \cap foreign
    /\ stream' = stream \ {d}
    /\ UNCHANGED <<disk, copies, loop, job, world, history>>

\* accept finds the tombstone: AssignmentInboxState::Completed.
FetchDuplicate(d) ==
    /\ pc = "idle"
    /\ d \in stream \ foreign
    /\ d \in completed
    /\ AckOrLose(d)
    /\ UNCHANGED <<disk, copies, loop, job, world, stored, published, purged>>

\* accept finds no tombstone and goes on to look for the pending file.
Fetch(d) ==
    /\ pc = "idle"
    /\ d \in stream \ foreign
    /\ d \notin completed
    /\ pc' = "accept"
    /\ cur' = {d}
    /\ UNCHANGED <<disk, broker, listing, todo, job, world, history>>

\* Mutant: a failed write is acked like a duplicate.
PersistOrAckAnyway ==
    /\ pc = "accept"
    /\ pc' = "schedule"
    /\ pending' \in {pending, pending \cup cur}
    /\ UNCHANGED <<cur, results, completed, broker, listing, todo, job, world, history>>

\* The payload is synced and moved into pending, or is there already; an I/O
\* error is a Nak and leaves the message to be redelivered.
Persist ==
    /\ pc = "accept"
    /\ \/ pending' = pending \cup cur /\ pc' = "schedule" /\ UNCHANGED cur
       \/ pc' = "idle" /\ cur' = {} /\ UNCHANGED pending
    /\ UNCHANGED <<results, completed, broker, listing, todo, job, world, history>>

\* The gate admits one job per delivery.
Start(d, first) == job' = [job EXCEPT ![d] = IF @ = "none" THEN first ELSE @]

\* schedule_assignment of the fetched message, then its ack.
ScheduleFetched ==
    /\ pc = "schedule"
    /\ \E d \in cur : Start(d, "check") /\ AckOrLose(d)
    /\ pc' = "idle"
    /\ cur' = {}
    /\ UNCHANGED <<disk, copies, listing, todo, world, stored, published, purged>>

-----------------------------------------------------------------------------
(* replay_pending, at boot and on every tick *)

\* What mark_completed removes once the tombstone is there.
Clean(gone) ==
    /\ pending' = pending \ gone
    /\ results' = results \ gone

\* pending_results lists the outcomes that were not published yet.
ReplayBegin ==
    /\ pc \in {"boot", "idle"}
    /\ pc' = "results"
    /\ listing' = results
    /\ todo' = {}
    /\ UNCHANGED <<disk, broker, cur, job, world, history>>

\* An I/O error, a file that vanished since the listing among them, ends the
\* replay until the next tick.
ReplayFails ==
    /\ pc \in {"results", "pending"}
    /\ pc' = "idle"
    /\ listing' = {}
    /\ todo' = {}
    /\ UNCHANGED <<disk, broker, cur, job, world, history>>

\* One listed file: cleaned when tombstoned, else read into the replay batch.
Examine(d) ==
    /\ pc \in {"results", "pending"}
    /\ d \in listing
    /\ listing' = listing \ {d}
    /\ \/ d \in completed /\ Clean({d}) /\ UNCHANGED todo
       \/ /\ d \notin completed
          /\ d \in (IF pc = "results" THEN results ELSE pending)
          /\ todo' = todo \cup {d}
          /\ UNCHANGED <<pending, results>>
    /\ UNCHANGED <<completed, broker, pc, cur, job, world, history>>

\* schedule_stored_result publishes the outcome it has read.
ScheduleResult(d) ==
    /\ pc = "results" /\ listing = {} /\ d \in todo
    /\ Start(d, "publish")
    /\ todo' = todo \ {d}
    /\ UNCHANGED <<disk, broker, pc, cur, listing, world, history>>

\* Mutant: the replay covers stored outcomes only.
ListNothing ==
    /\ pc = "results" /\ listing = {} /\ todo = {}
    /\ pc' = "pending"
    /\ UNCHANGED <<disk, broker, cur, listing, todo, job, world, history>>

\* pending_assignments lists what was accepted and not finished.
ListPending ==
    /\ pc = "results" /\ listing = {} /\ todo = {}
    /\ pc' = "pending"
    /\ listing' = pending
    /\ UNCHANGED <<disk, broker, cur, todo, job, world, history>>

\* schedule_assignment for an entry of the batch.
SchedulePending(d) ==
    /\ pc = "pending" /\ listing = {} /\ d \in todo \ foreign
    /\ Start(d, "check")
    /\ todo' = todo \ {d}
    /\ UNCHANGED <<disk, broker, pc, cur, listing, world, history>>

\* An entry of another generation is tombstoned without being run.
DropForeign(d) ==
    /\ pc = "pending" /\ listing = {} /\ d \in todo \cap foreign
    /\ completed' = completed \cup {d}
    /\ Clean({d})
    /\ todo' = todo \ {d}
    /\ UNCHANGED <<broker, pc, cur, listing, job, world, history>>

\* purge_completed_older_than: a day is far more than a lease.
ReplayEnd ==
    /\ pc = "pending" /\ listing = {} /\ todo = {}
    /\ \E old \in SUBSET (completed \cap lapsed) :
        /\ completed' = completed \ old
        /\ Clean(old)
        /\ purged' = purged \cup old
    /\ pc' = "idle"
    /\ UNCHANGED <<broker, cur, listing, todo, job, world, stored, published, acked>>

-----------------------------------------------------------------------------
(* The spawned jobs *)

\* A job that ends, or gives up with an error, leaves the gate.
Step(d, from, to) == job[d] = from /\ job' = [job EXCEPT ![d] = to]

\* pending_result: a stored outcome is published instead of running the CLI,
\* and run_cli refuses to start one after the lease.
CheckResult(d) ==
    /\ Step(d, "check", IF d \in results THEN "publish"
                        ELSE IF d \in lapsed THEN "store" ELSE "cli")
    /\ UNCHANGED <<disk, broker, loop, world, history>>

\* The CLI exits or hits its timeout.
CliEnds(d) ==
    /\ Step(d, "cli", "store")
    /\ UNCHANGED <<disk, broker, loop, world, history>>

\* store_result keeps the first outcome of a delivery.
StoreResult(d) ==
    /\ Step(d, "store", "publish")
    /\ results' = IF d \in completed THEN results ELSE results \cup {d}
    /\ stored' = stored \cup {d}
    /\ UNCHANGED <<pending, completed, broker, loop, world, published, acked, purged>>

\* Mutant: a failed job tombstones its delivery instead of leaving it to replay.
JobFailsForGood(d) ==
    /\ job[d] \in {"check", "store", "publish", "tombstone", "cleanup"}
    /\ job' = [job EXCEPT ![d] = "none"]
    /\ completed' = completed \cup {d}
    /\ UNCHANGED <<pending, results, broker, loop, world, history>>

\* Any step of a job may fail; the replay tries again.
JobFails(d) ==
    /\ job[d] \in {"check", "store", "publish", "tombstone", "cleanup"}
    /\ job' = [job EXCEPT ![d] = "none"]
    /\ UNCHANGED <<disk, broker, loop, world, history>>

\* Mutant: a publish error is not propagated.
PublishUnconfirmed(d) ==
    /\ Step(d, "publish", "tombstone")
    /\ published' \in {published, published \cup {d}}
    /\ UNCHANGED <<disk, broker, loop, world, stored, acked, purged>>

\* publish_result; its ack may be lost, and then the job ends with an error.
PublishResult(d) ==
    /\ \/ Step(d, "publish", "tombstone")
       \/ Step(d, "publish", "none")
    /\ published' = published \cup {d}
    /\ UNCHANGED <<disk, broker, loop, world, stored, acked, purged>>

\* Mutant: the cached outcome is removed before the tombstone is there.
RemoveBeforeTombstone(d) ==
    /\ Step(d, "tombstone", "cleanup")
    /\ results' = results \ {d}
    /\ UNCHANGED <<pending, completed, broker, loop, world, history>>

\* mark_completed: the tombstone first, by renaming the pending file ...
Tombstone(d) ==
    /\ Step(d, "tombstone", "cleanup")
    /\ completed' = completed \cup {d}
    /\ pending' = IF d \in completed THEN pending ELSE pending \ {d}
    /\ UNCHANGED <<results, broker, loop, world, history>>

\* ... and then whatever the delivery left behind.
CleanUp(d) ==
    /\ Step(d, "cleanup", "none")
    /\ Clean({d})
    /\ UNCHANGED <<completed, broker, loop, world, history>>

-----------------------------------------------------------------------------

Intake(d) == FetchDuplicate(d) \/ Fetch(d) \/ Term(d)

Replay(d) == Examine(d) \/ ScheduleResult(d) \/ SchedulePending(d) \/ DropForeign(d)

RunJob(d) ==
    CheckResult(d) \/ CliEnds(d) \/ StoreResult(d) \/ PublishResult(d) \/ Tombstone(d) \/ CleanUp(d)

Next ==
    \/ \E d \in Deliveries : SendAssignment(d) \/ GiveUp(d) \/ LeaseElapses(d)
    \/ \E recreated \in BOOLEAN : Crash(recreated)
    \/ \E d \in Deliveries : Intake(d) \/ Replay(d) \/ RunJob(d) \/ JobFails(d)
    \/ Persist \/ ScheduleFetched
    \/ ReplayBegin \/ ListPending \/ ReplayEnd \/ ReplayFails

Spec == Init /\ [][Next]_vars

\* The subscriber loop and the jobs keep running, the CLI has a timeout, and an
\* operation that is tried again and again does not fail every time.
Fairness ==
    /\ WF_vars(Persist) /\ WF_vars(ScheduleFetched)
    /\ SF_vars(ReplayBegin) /\ SF_vars(ListPending) /\ SF_vars(ReplayEnd)
    /\ \A d \in Deliveries :
        /\ SF_vars(Examine(d))
        /\ SF_vars(ScheduleResult(d)) /\ SF_vars(SchedulePending(d)) /\ SF_vars(DropForeign(d))
        /\ SF_vars(CheckResult(d)) /\ WF_vars(CliEnds(d)) /\ SF_vars(StoreResult(d))
        /\ SF_vars(PublishResult(d) /\ job'[d] = "tombstone")
        /\ SF_vars(Tombstone(d)) /\ SF_vars(CleanUp(d))

LiveSpec == Spec /\ Fairness

-----------------------------------------------------------------------------
(* Safety *)

\* JetStream forgets an assignment only when the inbox holds it or its answer:
\* a crash after the ack finds a pending file, a stored outcome or a tombstone.
AckedIsDurable == acked \subseteq pending \cup results \cup completed \cup purged

\* A delivery is closed for replay only after its outcome reached the platform,
\* unless the container it was made for is gone.
TombstoneMeansPublished == completed \ foreign \subseteq published

\* An outcome survives in results until it has been published, through crashes
\* at every cut of store, publish and mark_completed.
OutcomeKept == stored \ (published \cup foreign) \subseteq results

\* CLI starts of delivery d in a step.
CliStarts(d) == job[d] # "cli" /\ job'[d] = "cli"

\* No crash or lost publish acknowledgement makes a delivery with a durable
\* outcome run again: only a tombstoned one can, in the race RunsOnce is about.
NoRerunBeforeTombstone ==
    [][\A d \in Deliveries : CliStarts(d) => d \notin stored \ completed]_vars

\* What the comments promise: a finished delivery never runs the CLI again.
RunsOnce == [][\A d \in Deliveries : CliStarts(d) => d \notin stored]_vars

-----------------------------------------------------------------------------
(* Liveness *)

\* Every accepted assignment is answered: restarts, failed publishes and
\* aborted replays delay the outcome but do not lose it.
AcceptedIsAnswered ==
    \A d \in Deliveries : d \in pending ~> d \in published \cup foreign
=============================================================================
