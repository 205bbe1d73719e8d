------------------------- MODULE SidecarInboxProofs -------------------------
(***************************************************************************)
(* Theorems about SidecarInbox, for any set of deliveries and any number   *)
(* of copies and restarts.                                                 *)
(***************************************************************************)
EXTENDS SidecarInbox, TLAPS

\* Where a delivery the inbox once held can be found.
Durable == pending \cup results \cup completed \cup purged

\* A job reaches mark_completed only after its outcome was published.
MarkingIsPublished == \A d \in Deliveries : job[d] \in {"tombstone", "cleanup"} => d \in published

\* It cleans up only what has a tombstone, or had one until the purge.
CleaningIsTombstoned == \A d \in Deliveries : job[d] = "cleanup" => d \in completed \cup purged

\* Purged tombstones were right as well.
ClosedIsPublished == (completed \cup purged) \ foreign \subseteq published

\* The delivery about to be acked has been persisted, and whatever happened to
\* it since left a trace.
ScheduledIsDurable == pc = "schedule" => cur \subseteq Durable

\* The three safety invariants and what makes them inductive.
InboxInv ==
    /\ TypeOK
    /\ MarkingIsPublished
    /\ CleaningIsTombstoned
    /\ ClosedIsPublished
    /\ ScheduledIsDurable
    /\ AckedIsDurable
    /\ OutcomeKept

LEMMA InitInbox == Init => InboxInv
  BY SidecarAssumption DEF Init, InboxInv, TypeOK, Jobs, MarkingIsPublished, CleaningIsTombstoned,
     ClosedIsPublished, ScheduledIsDurable, AckedIsDurable, OutcomeKept, Durable

-----------------------------------------------------------------------------
(* Types: one lemma per group of actions *)

LEMMA WorldType ==
  ASSUME TypeOK, NEW d \in Deliveries, SendAssignment(d) \/ GiveUp(d) \/ LeaseElapses(d)
  PROVE  TypeOK'
  <1>1. CASE SendAssignment(d)
    BY <1>1, SidecarAssumption DEF SendAssignment, TypeOK, disk, loop, world, history
  <1>2. CASE GiveUp(d)
    BY <1>2 DEF GiveUp, TypeOK, disk, loop, world, history
  <1>3. CASE LeaseElapses(d)
    BY <1>3 DEF LeaseElapses, TypeOK, disk, broker, loop, history
  <1> QED
    BY <1>1, <1>2, <1>3

LEMMA CrashType ==
  ASSUME TypeOK, NEW recreated \in BOOLEAN, Crash(recreated)
  PROVE  TypeOK'
  <1>1. crashes' \in 0..MaxCrashes
    BY SidecarAssumption DEF Crash, TypeOK
  <1>2. foreign' \in SUBSET Deliveries
    BY DEF Crash, TypeOK
  <1> QED
    BY <1>1, <1>2 DEF Crash, TypeOK, Jobs, disk, broker, history

LEMMA IntakeType ==
  ASSUME TypeOK, NEW d \in Deliveries, Intake(d)
  PROVE  TypeOK'
  BY DEF Intake, FetchDuplicate, Fetch, Term, AckOrLose, TypeOK, disk, broker, loop, world, history

LEMMA LoopType ==
  ASSUME TypeOK, Persist \/ ScheduleFetched \/ ReplayBegin \/ ListPending \/ ReplayEnd \/ ReplayFails
  PROVE  TypeOK'
  <1>1. CASE Persist
    BY <1>1 DEF Persist, TypeOK, broker, world, history
  <1>2. CASE ScheduleFetched
    BY <1>2 DEF ScheduleFetched, Start, AckOrLose, TypeOK, Jobs, disk, world
  <1>3. CASE ReplayBegin \/ ListPending \/ ReplayFails
    BY <1>3 DEF ReplayBegin, ListPending, ReplayFails, TypeOK, disk, broker, world, history
  <1>4. CASE ReplayEnd
    BY <1>4 DEF ReplayEnd, Clean, TypeOK, broker, world
  <1> QED
    BY <1>1, <1>2, <1>3, <1>4

LEMMA ReplayType ==
  ASSUME TypeOK, NEW d \in Deliveries, Replay(d)
  PROVE  TypeOK'
  <1>1. CASE Examine(d)
    BY <1>1 DEF Examine, Clean, TypeOK, broker, world, history
  <1>2. CASE ScheduleResult(d) \/ SchedulePending(d)
    BY <1>2 DEF ScheduleResult, SchedulePending, Start, TypeOK, Jobs, disk, broker, world, history
  <1>3. CASE DropForeign(d)
    BY <1>3 DEF DropForeign, Clean, TypeOK, broker, world, history
  <1> QED
    BY <1>1, <1>2, <1>3 DEF Replay

LEMMA JobType ==
  ASSUME TypeOK, NEW d \in Deliveries, RunJob(d) \/ JobFails(d)
  PROVE  TypeOK'
  <1>1. CASE CheckResult(d) \/ CliEnds(d) \/ JobFails(d)
    BY <1>1 DEF CheckResult, CliEnds, JobFails, Step, TypeOK, Jobs, disk, broker, loop, world, history
  <1>2. CASE StoreResult(d)
    BY <1>2 DEF StoreResult, Step, TypeOK, Jobs, broker, loop, world
  <1>3. CASE PublishResult(d)
    BY <1>3 DEF PublishResult, Step, TypeOK, Jobs, disk, broker, loop, world
  <1>4. CASE Tombstone(d)
    BY <1>4 DEF Tombstone, Step, TypeOK, Jobs, broker, loop, world, history
  <1>5. CASE CleanUp(d)
    BY <1>5 DEF CleanUp, Clean, Step, TypeOK, Jobs, broker, loop, world, history
  <1> QED
    BY <1>1, <1>2, <1>3, <1>4, <1>5 DEF RunJob

LEMMA StepType == TypeOK /\ [Next]_vars => TypeOK'
  <1>1. ASSUME TypeOK, UNCHANGED vars PROVE TypeOK'
    BY <1>1 DEF TypeOK, vars, disk, broker, loop, world, history
  <1> QED
    BY <1>1, WorldType, CrashType, IntakeType, LoopType, ReplayType, JobType DEF Next

-----------------------------------------------------------------------------
(* The invariant *)

\* A step that keeps the history and the jobs' positions right and loses no
\* trace of a delivery keeps the invariant.
TracesKept ==
    /\ Durable \subseteq Durable'
    /\ acked' \subseteq acked \cup Durable
    /\ pc' = "schedule" => cur' \subseteq Durable'
    /\ results \ (published \cup foreign) \subseteq results'
    /\ stored' \subseteq stored \cup results' \cup completed
    /\ published \subseteq published' /\ foreign \subseteq foreign'
    /\ completed' \cup purged' \subseteq completed \cup purged \cup published \cup foreign'
    /\ completed \cup purged \subseteq completed' \cup purged'
    /\ \A d \in Deliveries : job'[d] \in {"tombstone", "cleanup"} => d \in published'
    /\ \A d \in Deliveries : job'[d] = "cleanup" => d \in completed' \cup purged'

LEMMA TracesKeepInv ==
  ASSUME InboxInv, TypeOK', TracesKept
  PROVE  InboxInv'
  <1>1. MarkingIsPublished' /\ CleaningIsTombstoned'
    BY DEF TracesKept, MarkingIsPublished, CleaningIsTombstoned
  <1>2. ClosedIsPublished'
    BY DEF TracesKept, InboxInv, ClosedIsPublished
  <1>3. ScheduledIsDurable'
    BY DEF TracesKept, ScheduledIsDurable
  <1>4. AckedIsDurable'
    BY DEF TracesKept, InboxInv, AckedIsDurable, Durable
  <1>5. OutcomeKept'
    BY DEF TracesKept, InboxInv, OutcomeKept, ClosedIsPublished
  <1> QED
    BY <1>1, <1>2, <1>3, <1>4, <1>5 DEF InboxInv

LEMMA WorldTraces ==
  ASSUME InboxInv, NEW d \in Deliveries, SendAssignment(d) \/ GiveUp(d) \/ LeaseElapses(d)
  PROVE  TracesKept
  BY DEF SendAssignment, GiveUp, LeaseElapses, TracesKept, InboxInv, MarkingIsPublished,
         CleaningIsTombstoned, ScheduledIsDurable, Durable, disk, broker, loop, world, history

LEMMA CrashTraces ==
  ASSUME InboxInv, NEW recreated \in BOOLEAN, Crash(recreated)
  PROVE  TracesKept
  BY DEF Crash, TracesKept, InboxInv, Durable, disk, broker, history

LEMMA IntakeTraces ==
  ASSUME InboxInv, NEW d \in Deliveries, Intake(d)
  PROVE  TracesKept
  <1>1. CASE FetchDuplicate(d)
    BY <1>1 DEF FetchDuplicate, AckOrLose, TracesKept, InboxInv, MarkingIsPublished,
                CleaningIsTombstoned, Durable, disk, loop, world
  <1>2. CASE Fetch(d) \/ Term(d)
    BY <1>2 DEF Fetch, Term, TracesKept, InboxInv, MarkingIsPublished, CleaningIsTombstoned,
                Durable, disk, broker, loop, world, history
  <1> QED
    BY <1>1, <1>2 DEF Intake

LEMMA LoopTraces ==
  ASSUME InboxInv, Persist \/ ScheduleFetched \/ ReplayBegin \/ ListPending \/ ReplayEnd \/ ReplayFails
  PROVE  TracesKept
  <1>1. CASE Persist
    BY <1>1 DEF Persist, TracesKept, InboxInv, MarkingIsPublished, CleaningIsTombstoned,
                Durable, broker, world, history
  <1>2. CASE ScheduleFetched
    <2>1. acked' \subseteq acked \cup Durable
      BY <1>2 DEF ScheduleFetched, AckOrLose, InboxInv, ScheduledIsDurable
    <2>2. \A d \in Deliveries : job'[d] \in {"tombstone", "cleanup"} => job'[d] = job[d]
      BY <1>2 DEF ScheduleFetched, Start, InboxInv, TypeOK
    <2> QED
      BY <1>2, <2>1, <2>2 DEF ScheduleFetched, TracesKept, InboxInv, MarkingIsPublished,
                              CleaningIsTombstoned, Durable, disk, world
  <1>3. CASE ReplayBegin \/ ListPending \/ ReplayFails
    BY <1>3 DEF ReplayBegin, ListPending, ReplayFails, TracesKept, InboxInv, MarkingIsPublished,
                CleaningIsTombstoned, Durable, disk, broker, world, history
  <1>4. CASE ReplayEnd
    <2>1. Durable \subseteq Durable'
      BY <1>4 DEF ReplayEnd, Clean, Durable
    <2>2. results \ (published \cup foreign) \subseteq results'
      BY <1>4 DEF ReplayEnd, Clean, InboxInv, ClosedIsPublished
    <2> QED
      BY <1>4, <2>1, <2>2 DEF ReplayEnd, TracesKept, InboxInv, MarkingIsPublished,
                              CleaningIsTombstoned, broker, world
  <1> QED
    BY <1>1, <1>2, <1>3, <1>4

LEMMA ReplayTraces ==
  ASSUME InboxInv, NEW d \in Deliveries, Replay(d)
  PROVE  TracesKept
  <1>1. CASE Examine(d)
    <2>1. results \ (published \cup foreign) \subseteq results'
      BY <1>1 DEF Examine, Clean, InboxInv, ClosedIsPublished
    <2> QED
      BY <1>1, <2>1 DEF Examine, Clean, TracesKept, InboxInv, MarkingIsPublished,
                        CleaningIsTombstoned, Durable, broker, world, history
  <1>2. CASE ScheduleResult(d) \/ SchedulePending(d)
    <2>1. \A e \in Deliveries : job'[e] \in {"tombstone", "cleanup"} => job'[e] = job[e]
      BY <1>2 DEF ScheduleResult, SchedulePending, Start, InboxInv, TypeOK
    <2> QED
      BY <1>2, <2>1 DEF ScheduleResult, SchedulePending, TracesKept, InboxInv, MarkingIsPublished,
                        CleaningIsTombstoned, Durable, disk, broker, world, history
  <1>3. CASE DropForeign(d)
    BY <1>3 DEF DropForeign, Clean, TracesKept, InboxInv, MarkingIsPublished,
                CleaningIsTombstoned, Durable, broker, world, history
  <1> QED
    BY <1>1, <1>2, <1>3 DEF Replay

LEMMA JobTraces ==
  ASSUME InboxInv, NEW d \in Deliveries, RunJob(d) \/ JobFails(d)
  PROVE  TracesKept
  <1>1. CASE CheckResult(d) \/ CliEnds(d) \/ JobFails(d)
    <2>1. \A e \in Deliveries : job'[e] \in {"tombstone", "cleanup"} => job'[e] = job[e]
      BY <1>1 DEF CheckResult, CliEnds, JobFails, Step, InboxInv, TypeOK
    <2> QED
      BY <1>1, <2>1 DEF CheckResult, CliEnds, JobFails, TracesKept, InboxInv, MarkingIsPublished,
                        CleaningIsTombstoned, ScheduledIsDurable, Durable, disk, broker, loop, world, history
  <1>2. CASE StoreResult(d)
    <2>1. \A e \in Deliveries : job'[e] \in {"tombstone", "cleanup"} => job'[e] = job[e]
      BY <1>2 DEF StoreResult, Step, InboxInv, TypeOK
    <2> QED
      BY <1>2, <2>1 DEF StoreResult, TracesKept, InboxInv, MarkingIsPublished,
                        CleaningIsTombstoned, ScheduledIsDurable, Durable, broker, loop, world
  <1>3. CASE PublishResult(d)
    BY <1>3 DEF PublishResult, Step, TracesKept, InboxInv, TypeOK, MarkingIsPublished,
                CleaningIsTombstoned, ScheduledIsDurable, Durable, disk, broker, loop, world
  <1>4. CASE Tombstone(d)
    <2>1. d \in published
      BY <1>4 DEF Tombstone, Step, InboxInv, MarkingIsPublished
    <2> QED
      BY <1>4, <2>1 DEF Tombstone, Step, TracesKept, InboxInv, TypeOK, MarkingIsPublished,
                        CleaningIsTombstoned, ScheduledIsDurable, Durable, broker, loop, world, history
  <1>5. CASE CleanUp(d)
    <2>1. d \in completed \cup purged /\ d \in published
      BY <1>5 DEF CleanUp, Step, InboxInv, CleaningIsTombstoned, MarkingIsPublished
    <2> QED
      BY <1>5, <2>1 DEF CleanUp, Clean, Step, TracesKept, InboxInv, TypeOK, MarkingIsPublished,
                        CleaningIsTombstoned, ScheduledIsDurable, Durable, broker, loop, world, history
  <1> QED
    BY <1>1, <1>2, <1>3, <1>4, <1>5 DEF RunJob

LEMMA StepInbox == InboxInv /\ [Next]_vars => InboxInv'
  <1> SUFFICES ASSUME InboxInv, [Next]_vars PROVE InboxInv'
    OBVIOUS
  <1>1. TypeOK'
    BY StepType DEF InboxInv
  <1>2. TracesKept
    <2>1. CASE UNCHANGED vars
      BY <2>1 DEF vars, disk, broker, loop, world, history, TracesKept, InboxInv, MarkingIsPublished,
                  CleaningIsTombstoned, ScheduledIsDurable, Durable
    <2>2. CASE Next
      BY <2>2, WorldTraces, CrashTraces, IntakeTraces, LoopTraces, ReplayTraces, JobTraces DEF Next
    <2> QED
      BY <2>1, <2>2
  <1> QED
    BY <1>1, <1>2, TracesKeepInv

LEMMA InboxInvariant == Spec => []InboxInv
  <1> QED
    BY InitInbox, StepInbox, PTL DEF Spec

\* The ack discipline of dispatch: nothing JetStream forgets is lost, however
\* many times the process restarts and whatever the replay aborts.
THEOREM AckImpliesDurable == Spec => []AckedIsDurable
  <1>1. InboxInv => AckedIsDurable
    BY DEF InboxInv
  <1> QED
    BY <1>1, InboxInvariant, PTL

\* mark_completed runs only after publish_result was confirmed, or for another
\* container generation: no tombstone hides an outcome nobody received.
THEOREM TombstoneFollowsPublish == Spec => []TombstoneMeansPublished
  <1>1. InboxInv => TombstoneMeansPublished
    BY DEF InboxInv, ClosedIsPublished, TombstoneMeansPublished
  <1> QED
    BY <1>1, InboxInvariant, PTL

\* A stored outcome stays in the result outbox until the platform has it.
THEOREM OutcomeSurvives == Spec => []OutcomeKept
  <1>1. InboxInv => OutcomeKept
    BY DEF InboxInv
  <1> QED
    BY <1>1, InboxInvariant, PTL

-----------------------------------------------------------------------------
(* When the CLI may start *)

\* A tombstone is purged a day after the delivery was finished, and by then its
\* lease is over: run_cli refuses to start it.
PurgedIsLapsed == purged \subseteq lapsed

\* A delivery that once had an outcome still has it, or a tombstone, or no lease.
OutcomeRemembered == stored \subseteq results \cup completed \cup lapsed

RerunInv == InboxInv /\ PurgedIsLapsed /\ OutcomeRemembered

LEMMA InitRerun == Init => RerunInv
  BY InitInbox DEF Init, RerunInv, PurgedIsLapsed, OutcomeRemembered

LEMMA StepRerun == RerunInv /\ [Next]_vars => RerunInv'
  <1> SUFFICES ASSUME RerunInv, [Next]_vars PROVE PurgedIsLapsed' /\ OutcomeRemembered'
    BY StepInbox DEF RerunInv
  <1> USE DEF RerunInv, PurgedIsLapsed, OutcomeRemembered
  <1>1. ASSUME NEW d \in Deliveries, SendAssignment(d) \/ GiveUp(d) \/ LeaseElapses(d)
        PROVE  PurgedIsLapsed' /\ OutcomeRemembered'
    BY <1>1 DEF SendAssignment, GiveUp, LeaseElapses, disk, world, history
  <1>2. ASSUME NEW recreated \in BOOLEAN, Crash(recreated)
        PROVE  PurgedIsLapsed' /\ OutcomeRemembered'
    BY <1>2 DEF Crash, disk, history
  <1>3. ASSUME NEW d \in Deliveries, Intake(d)
        PROVE  PurgedIsLapsed' /\ OutcomeRemembered'
    BY <1>3 DEF Intake, FetchDuplicate, Fetch, Term, disk, world, history
  <1>4. ASSUME NEW d \in Deliveries, Replay(d)
        PROVE  PurgedIsLapsed' /\ OutcomeRemembered'
    BY <1>4 DEF Replay, Examine, ScheduleResult, SchedulePending, DropForeign, Clean, disk, world,
                history
  <1>5. ASSUME NEW d \in Deliveries, RunJob(d)
        PROVE  PurgedIsLapsed' /\ OutcomeRemembered'
    <2>1. CASE CheckResult(d) \/ CliEnds(d) \/ StoreResult(d) \/ PublishResult(d) \/ Tombstone(d)
      BY <2>1 DEF CheckResult, CliEnds, StoreResult, PublishResult, Tombstone, disk, world, history
    <2>2. CASE CleanUp(d)
      <3>1. d \in completed \cup lapsed
        BY <2>2 DEF CleanUp, Step, InboxInv, CleaningIsTombstoned
      <3> QED
        BY <2>2, <3>1 DEF CleanUp, Clean, world, history
    <2> QED
      BY <1>5, <2>1, <2>2 DEF RunJob
  <1>6. ASSUME NEW d \in Deliveries, JobFails(d)
        PROVE  PurgedIsLapsed' /\ OutcomeRemembered'
    BY <1>6 DEF JobFails, disk, world, history
  <1>7. CASE Persist \/ ScheduleFetched \/ ReplayBegin \/ ListPending \/ ReplayFails
    BY <1>7 DEF Persist, ScheduleFetched, ReplayBegin, ListPending, ReplayFails, disk, world, history
  <1>8. CASE ReplayEnd
    BY <1>8 DEF ReplayEnd, Clean, world
  <1>9. CASE UNCHANGED vars
    BY <1>9 DEF vars, disk, world, history
  <1> QED
    BY <1>1, <1>2, <1>3, <1>4, <1>5, <1>6, <1>7, <1>8, <1>9 DEF Next

\* Only the check of a job starts the CLI, and it finds the stored outcome.
LEMMA StartsAreChecked ==
  ASSUME RerunInv, [Next]_vars, NEW d \in Deliveries, CliStarts(d)
  PROVE  d \notin stored \ completed
  <1>1. TypeOK
    BY DEF RerunInv, InboxInv
  <1>2. PICK e \in Deliveries : CheckResult(e)
    <2>1. ASSUME NEW e \in Deliveries, Intake(e) \/ Replay(e) \/ JobFails(e)
          PROVE  FALSE
      BY <1>1, <2>1 DEF CliStarts, TypeOK, Intake, FetchDuplicate, Fetch, Term, Replay, Examine,
                        ScheduleResult, SchedulePending, DropForeign, Start, JobFails
    <2>2. ASSUME NEW e \in Deliveries, RunJob(e), ~CheckResult(e)
          PROVE  FALSE
      BY <1>1, <2>2 DEF CliStarts, TypeOK, RunJob, CliEnds, StoreResult, PublishResult, Tombstone,
                        CleanUp, Step
    <2>3. CASE \E e \in Deliveries : SendAssignment(e) \/ GiveUp(e) \/ LeaseElapses(e)
      BY <2>3 DEF CliStarts, SendAssignment, GiveUp, LeaseElapses
    <2>4. CASE \E recreated \in BOOLEAN : Crash(recreated)
      BY <1>1, <2>4 DEF CliStarts, TypeOK, Crash
    <2>5. CASE Persist \/ ScheduleFetched \/ ReplayBegin \/ ListPending \/ ReplayEnd \/ ReplayFails
      BY <1>1, <2>5 DEF CliStarts, TypeOK, Persist, ScheduleFetched, Start, ReplayBegin, ListPending,
                        ReplayEnd, ReplayFails
    <2>6. CASE UNCHANGED vars
      BY <2>6 DEF CliStarts, vars
    <2> QED
      BY <2>1, <2>2, <2>3, <2>4, <2>5, <2>6 DEF Next
  <1>3. e = d /\ d \notin results /\ d \notin lapsed
    BY <1>1, <1>2 DEF CliStarts, CheckResult, Step, TypeOK
  <1> QED
    BY <1>3 DEF RerunInv, OutcomeRemembered

\* schedule_assignment looks for a stored outcome, and run_cli at the lease,
\* before a CLI starts: however the process dies or its publishes fail, a
\* delivery with a durable outcome runs again only in the race with its own
\* tombstone.
THEOREM NoRerun == Spec => NoRerunBeforeTombstone
  <1>1. RerunInv /\ [Next]_vars
            => [\A d \in Deliveries : CliStarts(d) => d \notin stored \ completed]_vars
    BY StartsAreChecked
  <1> QED
    BY <1>1, InitRerun, StepRerun, PTL DEF Spec, NoRerunBeforeTombstone
=============================================================================
