----------------------------- MODULE AgentProofs -----------------------------
(***************************************************************************)
(* Theorems about JobQueue, for any rows, keys, workers and bounds, about  *)
(* the self-fix bridge on top of it, for any concurrent approvals, and     *)
(* about the Agent's container of MCAgent (Life), for any requests,        *)
(* containers and bounds.                                                  *)
(***************************************************************************)
EXTENDS MCAgent, FiniteSetTheorems, TLAPS

\* Claims and stale releases cost no attempt: the column counts the failures.
AttemptsAreFailures == \A j \in Jobs : attempts[j] = failures[j]

\* The budget of a dead row is used up in its own column.
DeadIsSpent == \A j \in Jobs : row[j] = "dead" => attempts[j] >= MaxAttempts

\* While nothing overran, a handler's row is locked by its worker; two workers
\* on one row would both be its owner.
RunnerOwnsRow ==
    overruns = 0 => \A w \in Workers : running[w] # None =>
        row[running[w]] = "running" /\ lockedBy[running[w]] = w

QueueInv == TypeOK /\ AttemptsAreFailures /\ DeadIsSpent /\ RunnerOwnsRow /\ NotLost

LEMMA InitQueue == Init => QueueInv
  BY QueueAssumption DEF Init, QueueInv, TypeOK, Present, AttemptsAreFailures, DeadIsSpent,
       RunnerOwnsRow, NotLost

-----------------------------------------------------------------------------
(* One lemma per action *)

LEMMA EnqueueKeeps ==
  ASSUME QueueInv, NEW j \in Jobs, Enqueue(j)
  PROVE  QueueInv'
  BY QueueAssumption DEF Enqueue, QueueInv, TypeOK, Present, AttemptsAreFailures, DeadIsSpent,
       RunnerOwnsRow, NotLost

LEMMA ClaimKeeps ==
  ASSUME QueueInv, NEW w \in Workers, NEW j \in Jobs, Claim(w, j)
  PROVE  QueueInv'
  <1>1. TypeOK'
    BY QueueAssumption DEF Claim, QueueInv, TypeOK, Present
  <1>2. AttemptsAreFailures' /\ DeadIsSpent' /\ NotLost'
    BY DEF Claim, QueueInv, TypeOK, Present, AttemptsAreFailures, DeadIsSpent, NotLost
  <1>3. RunnerOwnsRow'
    BY QueueAssumption DEF Claim, QueueInv, TypeOK, Present, RunnerOwnsRow
  <1> QED
    BY <1>1, <1>2, <1>3 DEF QueueInv

LEMMA CompleteKeeps ==
  ASSUME QueueInv, NEW w \in Workers, Complete(w)
  PROVE  QueueInv'
  <1>1. running[w] \in Jobs
    BY DEF Complete, QueueInv, TypeOK
  <1>2. TypeOK'
    BY <1>1, QueueAssumption DEF Complete, QueueInv, TypeOK, Present
  <1>3. AttemptsAreFailures' /\ DeadIsSpent' /\ NotLost'
    BY <1>1 DEF Complete, QueueInv, TypeOK, Present, AttemptsAreFailures, DeadIsSpent, NotLost
  <1>4. RunnerOwnsRow'
    BY <1>1, QueueAssumption DEF Complete, QueueInv, TypeOK, Present, RunnerOwnsRow
  <1> QED
    BY <1>2, <1>3, <1>4 DEF QueueInv

LEMMA FailKeeps ==
  ASSUME QueueInv, NEW w \in Workers, Fail(w)
  PROVE  QueueInv'
  <1> DEFINE j == running[w]
  <1>1. j \in Jobs
    BY DEF Fail, QueueInv, TypeOK
  <1>2. CASE row[j] = "gone"
    BY <1>1, <1>2, QueueAssumption DEF Fail, QueueInv, TypeOK, Present, AttemptsAreFailures,
         DeadIsSpent, RunnerOwnsRow, NotLost
  <1>3. CASE row[j] # "gone"
    <2>1. /\ row' = [row EXCEPT ![j] = IF Exhausted(j) THEN "dead" ELSE "pending"]
          /\ attempts' = [attempts EXCEPT ![j] = @ + 1]
          /\ lockedBy' = [lockedBy EXCEPT ![j] = None]
          /\ failures' = [failures EXCEPT ![j] = @ + 1]
          /\ running' = [running EXCEPT ![w] = None]
          /\ UNCHANGED <<done, crashes, overruns>>
      BY <1>3 DEF Fail
    <2>2. TypeOK'
      BY <1>1, <2>1, QueueAssumption DEF QueueInv, TypeOK, Present
    <2>3. AttemptsAreFailures'
      BY <1>1, <2>1 DEF QueueInv, TypeOK, AttemptsAreFailures
    <2>4. DeadIsSpent'
      BY <1>1, <2>1, QueueAssumption DEF QueueInv, TypeOK, DeadIsSpent, Exhausted
    <2>5. RunnerOwnsRow'
      BY <1>1, <2>1, QueueAssumption DEF QueueInv, TypeOK, RunnerOwnsRow
    <2>6. NotLost'
      BY <1>1, <2>1 DEF QueueInv, TypeOK, NotLost
    <2> QED
      BY <2>2, <2>3, <2>4, <2>5, <2>6 DEF QueueInv
  <1> QED
    BY <1>2, <1>3

LEMMA AbandonKeeps ==
  ASSUME QueueInv, NEW w \in Workers, Abandon(w)
  PROVE  QueueInv'
  <1>1. /\ running[w] \in Jobs
        /\ done' = done \cup {running[w]} \/ done' = done
    BY DEF Abandon, QueueInv, TypeOK
  <1>2. TypeOK'
    BY <1>1, QueueAssumption DEF Abandon, QueueInv, TypeOK, Present
  <1>3. AttemptsAreFailures' /\ DeadIsSpent' /\ NotLost'
    BY <1>1 DEF Abandon, QueueInv, TypeOK, AttemptsAreFailures, DeadIsSpent, NotLost
  <1>4. RunnerOwnsRow'
    BY <1>1 DEF Abandon, QueueInv, TypeOK, RunnerOwnsRow
  <1> QED
    BY <1>2, <1>3, <1>4 DEF QueueInv

LEMMA ReleaseKeeps ==
  ASSUME QueueInv, NEW j \in Jobs, ReleaseStale(j)
  PROVE  QueueInv'
  <1>1. TypeOK'
    BY QueueAssumption DEF ReleaseStale, QueueInv, TypeOK, Present
  <1>2. AttemptsAreFailures' /\ DeadIsSpent' /\ NotLost'
    BY DEF ReleaseStale, QueueInv, TypeOK, Present, AttemptsAreFailures, DeadIsSpent, NotLost
  <1>3. RunnerOwnsRow'
    <2>1. CASE Live(j)
      BY <2>1 DEF ReleaseStale, QueueInv, TypeOK, RunnerOwnsRow
    <2>2. CASE ~ Live(j)
      BY <2>2 DEF ReleaseStale, QueueInv, TypeOK, RunnerOwnsRow, Live
    <2> QED
      BY <2>1, <2>2
  <1> QED
    BY <1>1, <1>2, <1>3 DEF QueueInv

LEMMA NextKeeps == QueueInv /\ [Next]_queueVars => QueueInv'
  <1> SUFFICES ASSUME QueueInv, [Next]_queueVars
               PROVE  QueueInv'
    OBVIOUS
  <1>1. CASE Next
    BY <1>1, EnqueueKeeps, ClaimKeeps, CompleteKeeps, FailKeeps, AbandonKeeps,
         ReleaseKeeps DEF Next
  <1>2. CASE UNCHANGED queueVars
    BY <1>2 DEF queueVars, QueueInv, TypeOK, AttemptsAreFailures, DeadIsSpent, RunnerOwnsRow,
         NotLost
  <1> QED
    BY <1>1, <1>2

LEMMA QueueInvariant == Spec => []QueueInv
  BY InitQueue, NextKeeps, PTL DEF Spec

-----------------------------------------------------------------------------
\* Types hold, and only a running row has an owner.
THEOREM TypeCorrect == Spec => []TypeOK
  <1>1. QueueInv => TypeOK
    BY DEF QueueInv
  <1> QED
    BY <1>1, QueueInvariant, PTL

\* As long as no lock was released under a live handler, a job has one runner.
THEOREM OneRunner == Spec => []SingleRunner
  <1>1. QueueInv => SingleRunner
    BY DEF QueueInv, RunnerOwnsRow, SingleRunner, TypeOK
  <1> QED
    BY <1>1, QueueInvariant, PTL

\* Only real handler errors dead-letter a job, for every number of crashes,
\* stale releases and overlapping runs.
THEOREM BudgetIsForFailures == Spec => []DeadMeansExhausted
  <1>1. QueueInv => DeadMeansExhausted
    BY DEF QueueInv, AttemptsAreFailures, DeadIsSpent, DeadMeansExhausted, TypeOK
  <1> QED
    BY <1>1, QueueInvariant, PTL

\* A row is deleted only when a handler finished the job.
THEOREM JobsNotLost == Spec => []NotLost
  <1>1. QueueInv => NotLost
    BY DEF QueueInv
  <1> QED
    BY <1>1, QueueInvariant, PTL

\* No late failure and no stale release puts a dead row back in the queue.
THEOREM DeadRowsStayOut == Spec => DeadStaysOut
  <1>1. QueueInv /\ [Next]_queueVars =>
            [\A j \in Jobs : row[j] = "dead" => row'[j] \in {"dead", "gone"}]_queueVars
    <2> SUFFICES ASSUME QueueInv, Next, NEW j \in Jobs, row[j] = "dead"
                 PROVE  row'[j] \in {"dead", "gone"}
      OBVIOUS
    <2>1. CASE \E i \in Jobs : Enqueue(i) \/ ReleaseStale(i)
      BY <2>1 DEF QueueInv, TypeOK, Enqueue, ReleaseStale
    <2>2. CASE \E w \in Workers, i \in Jobs : Claim(w, i)
      BY <2>2 DEF QueueInv, TypeOK, Claim
    <2>3. CASE \E w \in Workers : Complete(w)
      BY <2>3 DEF QueueInv, TypeOK, Complete
    <2>4. CASE \E w \in Workers : Abandon(w)
      BY <2>4 DEF Abandon
    <2>5. ASSUME NEW w \in Workers, Fail(w)
          PROVE  row'[j] \in {"dead", "gone"}
      <3>1. attempts[j] \in Nat /\ attempts[j] >= MaxAttempts
        BY DEF QueueInv, TypeOK, DeadIsSpent
      <3>2. running[w] = j => Exhausted(running[w])
        BY <3>1, QueueAssumption DEF Exhausted
      <3> QED
        BY <2>5, <3>2 DEF Fail, QueueInv, TypeOK
    <2> QED
      BY <2>1, <2>2, <2>3, <2>4, <2>5 DEF Next
  <1> QED
    BY <1>1, QueueInvariant, PTL DEF Spec, DeadStaysOut

-----------------------------------------------------------------------------
(* The self-fix bridge: types *)

Pr == [state : {"draft", "ready", "merged"}, head : Nat]

Bridge == [pc : {"idle", "push", "open", "save", "done"},
           status : {"none", "in_review", "sensitive_blocked"}, pr : Nat, head : Nat]

CallPc == {"idle", "exhausted", "count", "probe", "gate", "regate", "merge", "comment", "record"}
Call == [pc : CallPc, task : Jobs \cup {None}, pr : Nat, head : Nat]

RowType ==
    /\ review \in [Jobs -> {"none", "in_review", "sensitive_blocked", "changes_requested",
                           "merged"}]
    /\ rowPr \in [Jobs -> Nat] /\ rowHead \in [Jobs -> Nat]
    /\ mergeAttempts \in [Jobs -> Nat]
    /\ reviewed \in [Jobs -> SUBSET Nat]
PrType == prs \in [Jobs -> Seq(Pr)]
HeadType == branch \in [Jobs -> Nat] /\ green \subseteq Nat /\ heads \in Nat
BridgeType == bridge \in [Workers -> Bridge]
CallType == call \in [Callers -> Call]

-----------------------------------------------------------------------------
(* and its invariant *)

\* A row names a pull request that GitHub has.
RowNamesPr == \A t \in Jobs : rowPr[t] # 0 => rowPr[t] \in DOMAIN prs[t]

\* What a row offers for review had been offered as clean under that head.
OfferIsRecorded == \A t \in Jobs : review[t] = "in_review" => rowHead[t] \in reviewed[t]

\* A job past create_draft_pr has its pull request, past set_pr_metadata its row too.
BridgeInv ==
    \A w \in Workers :
        /\ bridge[w].pc # "idle" => running[w] \in Jobs
        /\ bridge[w].pc = "save" => bridge[w].pr \in DOMAIN prs[running[w]] /\ bridge[w].pr # 0
        /\ bridge[w].pc = "done" => rowPr[running[w]] # 0

\* What an approval knows: the head it carries was offered, past a gate it is
\* green, past the merge (or the probe that found it) the pull request is merged.
CallInv ==
    \A c \in Callers :
        /\ call[c].pc # "idle" => call[c].task \in Jobs
        /\ call[c].pc \notin {"idle", "exhausted"} =>
               /\ call[c].pr \in DOMAIN prs[call[c].task]
               /\ call[c].head \in reviewed[call[c].task]
        /\ call[c].pc \in {"regate", "merge"} => call[c].head \in green
        /\ call[c].pc \in {"comment", "record"} =>
               prs[call[c].task][call[c].pr].state = "merged"

\* The three properties about pull requests and what makes them inductive.
BridgeSound ==
    /\ RowType /\ PrType /\ HeadType /\ BridgeType /\ CallType
    /\ RowNamesPr
    /\ OfferIsRecorded
    /\ BridgeInv
    /\ CallInv
    /\ MergedWasReviewed
    /\ RecordedMergeHappened
    /\ JobLeavesPr

SFInv == QueueInv /\ BridgeSound

\* Every step of the bridge is a step of the queue, or leaves it alone.
LEMMA QueueStep == [SFNext]_vars => [Next]_queueVars
  BY DEF SFNext, vars, queueVars, Next, TaskCompleted, ReleaseJob, ReapReview, OutsidePush,
       StartJob, WorkerStep, Push, CreateDraftPr, SaveMetadata, FinishJob, DropJob, FailJob,
       AbandonJob, Approve, CallStep, RequestChanges, CountAttempt, ProbeMerged, Gate, Regate,
       Merge, Comment, RecordMerged, CallEnds, ChecksPass

LEMMA InitBridge == SFInit => SFInv
  <1> SUFFICES ASSUME SFInit PROVE SFInv
    OBVIOUS
  <1>1. QueueInv
    BY InitQueue DEF SFInit
  <1>2. BridgeSound
    BY DEF SFInit, Init, NoBridge, NoCall, BridgeSound, RowType, PrType, HeadType, BridgeType,
         CallType, CallPc, Pr, Bridge, Call, RowNamesPr, OfferIsRecorded, BridgeInv, CallInv,
         MergedWasReviewed, RecordedMergeHappened, JobLeavesPr
  <1> QED
    BY <1>1, <1>2 DEF SFInv

-----------------------------------------------------------------------------
(* Records and sequences of records, once and for all *)

\* A call that goes on to another step keeps what it knows.
LEMMA CallMoves ==
  ASSUME CallType, NEW c \in Callers, NEW p \in CallPc, goto(c, p)
  PROVE  /\ CallType'
         /\ call'[c].pc = p /\ call'[c].task = call[c].task
         /\ call'[c].pr = call[c].pr /\ call'[c].head = call[c].head
         /\ \A d \in Callers \ {c} : call'[d] = call[d]
  BY DEF CallType, Call, goto

\* A call that ends knows nothing any more.
LEMMA CallHangs ==
  ASSUME CallType, NEW c \in Callers, hangup(c)
  PROVE  /\ CallType'
         /\ call'[c].pc = "idle"
         /\ \A d \in Callers \ {c} : call'[d] = call[d]
  BY DEF CallType, Call, CallPc, hangup, NoCall

\* A pull request replaced in the list of its task.
LEMMA PrReplaced ==
  ASSUME PrType, NEW t \in Jobs, NEW n \in DOMAIN prs[t], NEW r \in Pr,
         prs' = [prs EXCEPT ![t][n] = r]
  PROVE  /\ PrType'
         /\ \A u \in Jobs : DOMAIN prs'[u] = DOMAIN prs[u]
         /\ \A u \in Jobs : \A m \in DOMAIN prs[u] :
                prs'[u][m] = IF u = t /\ m = n THEN r ELSE prs[u][m]
  <1> DEFINE s == [prs[t] EXCEPT ![n] = r]
  <1>1. prs[t] \in Seq(Pr) /\ DOMAIN prs[t] = 1..Len(prs[t])
    BY DEF PrType
  <1>2. s \in Seq(Pr) /\ DOMAIN s = DOMAIN prs[t]
    BY <1>1
  <1>3. prs' = [prs EXCEPT ![t] = s]
    OBVIOUS
  <1> QED
    BY <1>2, <1>3 DEF PrType

\* A pull request added to it.
LEMMA PrAdded ==
  ASSUME PrType, NEW t \in Jobs, NEW r \in Pr, prs' = [prs EXCEPT ![t] = Append(@, r)]
  PROVE  /\ PrType'
         /\ Len(prs[t]) + 1 \in DOMAIN prs'[t]
         /\ \A u \in Jobs : DOMAIN prs[u] \subseteq DOMAIN prs'[u]
         /\ \A u \in Jobs : \A m \in DOMAIN prs[u] : prs'[u][m] = prs[u][m]
         /\ \A u \in Jobs : \A m \in DOMAIN prs'[u] :
                m \in DOMAIN prs[u] \/ (u = t /\ prs'[u][m] = r)
  <1>1. prs[t] \in Seq(Pr)
    BY DEF PrType
  <1>2. /\ Append(prs[t], r) \in Seq(Pr)
        /\ DOMAIN Append(prs[t], r) = 1..(Len(prs[t]) + 1)
        /\ DOMAIN prs[t] = 1..Len(prs[t])
        /\ \A m \in 1..Len(prs[t]) : Append(prs[t], r)[m] = prs[t][m]
        /\ Append(prs[t], r)[Len(prs[t]) + 1] = r
        /\ Len(prs[t]) \in Nat
    BY <1>1
  <1> QED
    BY <1>2 DEF PrType

-----------------------------------------------------------------------------
(* One lemma per kind of step *)

\* A job that ends, one way or another; its row goes with the handler that
\* finished it, or was dropped for good.
LEMMA JobEnds ==
  ASSUME SFInv, QueueInv', NEW w \in Workers,
         AbandonJob(w) \/ FinishJob(w) \/ DropJob(w) \/ FailJob(w)
  PROVE  BridgeSound'
  <1> USE DEF SFInv, BridgeSound, rowVars, github
  <1>0. UNCHANGED <<rowVars, github, call, reviewed>>
    BY DEF AbandonJob, FinishJob, DropJob, FailJob, sfHistory
  <1>1. /\ RowType' /\ PrType' /\ HeadType' /\ CallType'
        /\ RowNamesPr' /\ OfferIsRecorded' /\ CallInv' /\ MergedWasReviewed' /\ RecordedMergeHappened'
    BY <1>0 DEF RowType, PrType, HeadType, CallType, RowNamesPr, OfferIsRecorded, CallInv,
         MergedWasReviewed, RecordedMergeHappened
  <1>2. BridgeType' /\ BridgeInv'
    <2>1. running' = [running EXCEPT ![w] = None] /\ bridge' = [bridge EXCEPT ![w] = NoBridge]
      BY DEF AbandonJob, FinishJob, DropJob, FailJob, Abandon, Complete, Fail
    <2> QED
      BY <1>0, <2>1 DEF BridgeType, BridgeInv, Bridge, NoBridge, QueueInv, TypeOK
  <1>3. JobLeavesPr'
    <2>1. CASE FinishJob(w)
      <3>1. rowPr[running[w]] # 0
        BY <2>1 DEF FinishJob, BridgeInv
      <3> QED
        BY <1>0, <2>1, <3>1 DEF FinishJob, Complete, JobLeavesPr, QueueInv, TypeOK, sfHistory
    <2>2. CASE DropJob(w)
      BY <1>0, <2>2 DEF DropJob, Complete, JobLeavesPr, QueueInv, TypeOK
    <2>3. CASE FailJob(w)
      BY <1>0, <2>3 DEF FailJob, Fail, JobLeavesPr, QueueInv, TypeOK, sfHistory
    <2>4. CASE AbandonJob(w)
      BY <1>0, <2>4 DEF AbandonJob, Abandon, JobLeavesPr, sfHistory
    <2> QED
      BY <2>1, <2>2, <2>3, <2>4
  <1> QED
    BY <1>1, <1>2, <1>3

LEMMA JobStarts ==
  ASSUME SFInv, NEW w \in Workers, NEW t \in Jobs, StartJob(w, t)
  PROVE  BridgeSound'
  <1> USE DEF SFInv, BridgeSound, rowVars, github, sfHistory
  <1> DEFINE b == [NoBridge EXCEPT !.pc = "push"]
  <1>1. /\ UNCHANGED <<rowVars, github, call, sfHistory>>
        /\ running' = [running EXCEPT ![w] = t] /\ bridge' = [bridge EXCEPT ![w] = b]
        /\ \A u \in Jobs : row'[u] = "gone" => row[u] = "gone"
    BY DEF StartJob, Claim, QueueInv, TypeOK
  <1>2. b \in Bridge /\ b.pc = "push"
    BY DEF NoBridge, Bridge
  <1> HIDE DEF b
  <1>3. BridgeType' /\ BridgeInv'
    BY <1>1, <1>2 DEF BridgeType, BridgeInv, QueueInv, TypeOK
  <1>4. /\ RowType' /\ PrType' /\ HeadType' /\ CallType'
        /\ RowNamesPr' /\ OfferIsRecorded' /\ CallInv' /\ MergedWasReviewed' /\ RecordedMergeHappened'
        /\ JobLeavesPr'
    BY <1>1 DEF RowType, PrType, HeadType, CallType, RowNamesPr, OfferIsRecorded, CallInv,
         MergedWasReviewed, RecordedMergeHappened, JobLeavesPr
  <1> QED
    BY <1>3, <1>4

\* The row of the job and its list of pull requests, while a worker is on it.
LEMMA PrSteps ==
  ASSUME SFInv, NEW w \in Workers, Push(w) \/ CreateDraftPr(w) \/ SaveMetadata(w)
  PROVE  BridgeSound'
  <1> USE DEF SFInv, BridgeSound
  <1> DEFINE t == running[w]
  <1>0. t \in Jobs /\ bridge[w] \in Bridge
    BY DEF Push, CreateDraftPr, SaveMetadata, BridgeInv, BridgeType
  <1>1. CASE Push(w)
    <2>1. PICK s \in {"in_review", "sensitive_blocked"} :
              bridge' = [bridge EXCEPT ![w].pc = "open", ![w].status = s]
      BY <1>1 DEF Push
    <2>2. BridgeType' /\ BridgeInv'
      BY <1>0, <1>1, <2>1 DEF Push, Bridge, BridgeType, BridgeInv, queueVars, rowVars
    <2>3. HeadType'
      BY <1>0, <1>1 DEF Push, HeadType
    <2>4. /\ RowType' /\ PrType' /\ CallType' /\ RowNamesPr' /\ OfferIsRecorded' /\ CallInv'
          /\ MergedWasReviewed' /\ RecordedMergeHappened' /\ JobLeavesPr'
      BY <1>1 DEF Push, queueVars, rowVars, sfHistory, RowType, PrType, CallType, RowNamesPr,
           OfferIsRecorded, CallInv, MergedWasReviewed, RecordedMergeHappened, JobLeavesPr
    <2> QED
      BY <2>2, <2>3, <2>4
  <1>2. CASE CreateDraftPr(w)
    <2>0. UNCHANGED <<queueVars, rowVars, branch, green, heads, call, sfHistory>>
      BY <1>2 DEF CreateDraftPr
    <2>1. CASE OpenPrs(t) # {}
      <3>1. PICK n \in OpenPrs(t) :
                bridge' = [bridge EXCEPT ![w].pc = "save", ![w].pr = n, ![w].head = branch[t]]
        BY <1>2, <2>1 DEF CreateDraftPr
      <3>2. n \in DOMAIN prs[t] /\ n # 0 /\ n \in Nat /\ prs' = prs
        <4>1. prs[t] \in Seq(Pr)
          BY <1>0 DEF PrType
        <4>2. n \in DOMAIN prs[t]
          BY DEF OpenPrs
        <4>3. n # 0 /\ n \in Nat
          BY <4>1, <4>2
        <4>4. prs' = prs
          BY <1>2, <2>1 DEF CreateDraftPr
        <4> QED
          BY <4>2, <4>3, <4>4
      <3>3. BridgeType' /\ BridgeInv'
        BY <1>0, <2>0, <3>1, <3>2 DEF Bridge, BridgeType, BridgeInv, HeadType, queueVars, rowVars
      <3>4. /\ RowType' /\ PrType' /\ HeadType' /\ CallType' /\ RowNamesPr' /\ OfferIsRecorded'
            /\ CallInv' /\ MergedWasReviewed' /\ RecordedMergeHappened' /\ JobLeavesPr'
        BY <2>0, <3>2 DEF queueVars, rowVars, sfHistory, RowType, PrType, HeadType, CallType,
             RowNamesPr, OfferIsRecorded, CallInv, MergedWasReviewed, RecordedMergeHappened,
             JobLeavesPr
      <3> QED
        BY <3>3, <3>4
    <2>2. CASE OpenPrs(t) = {}
      <3> DEFINE r == [state |-> "draft", head |-> 0]
      <3>1. /\ prs' = [prs EXCEPT ![t] = Append(@, r)]
            /\ bridge' = [bridge EXCEPT ![w].pc = "save", ![w].pr = Len(prs[t]) + 1,
                                        ![w].head = branch[t]]
        BY <1>2, <2>2 DEF CreateDraftPr
      <3>2. r \in Pr /\ r.state = "draft"
        BY DEF Pr
      <3> HIDE DEF r
      <3>3. /\ PrType'
            /\ Len(prs[t]) + 1 \in DOMAIN prs'[t]
            /\ \A u \in Jobs : DOMAIN prs[u] \subseteq DOMAIN prs'[u]
            /\ \A u \in Jobs : \A m \in DOMAIN prs[u] : prs'[u][m] = prs[u][m]
            /\ \A u \in Jobs : \A m \in DOMAIN prs'[u] :
                   m \in DOMAIN prs[u] \/ (u = t /\ prs'[u][m] = r)
        BY <1>0, <3>1, <3>2, PrAdded
      <3>4. Len(prs[t]) \in Nat
        BY <1>0 DEF PrType
      <3>5. BridgeType'
        <4>1. PICK k \in Nat : k = Len(prs[t]) + 1
          BY <3>4
        <4>2. bridge' = [bridge EXCEPT ![w].pc = "save", ![w].pr = k, ![w].head = branch[t]]
          BY <3>1, <4>1
        <4> QED
          BY <1>0, <4>2 DEF Bridge, BridgeType, HeadType
      <3>6. BridgeInv'
        BY <1>0, <2>0, <3>1, <3>3, <3>4 DEF Bridge, BridgeType, BridgeInv, queueVars, rowVars
      <3>7. RowType' /\ HeadType' /\ CallType' /\ RowNamesPr' /\ OfferIsRecorded' /\ JobLeavesPr'
        BY <2>0, <3>3 DEF queueVars, rowVars, sfHistory, RowType, HeadType, CallType,
             RowNamesPr, OfferIsRecorded, JobLeavesPr
      <3>8. CallInv' /\ RecordedMergeHappened'
        BY <2>0, <3>3 DEF sfHistory, rowVars, CallInv, RecordedMergeHappened
      <3>9. MergedWasReviewed'
        BY <2>0, <3>2, <3>3 DEF sfHistory, MergedWasReviewed
      <3> QED
        BY <3>3, <3>5, <3>6, <3>7, <3>8, <3>9
    <2> QED
      BY <2>1, <2>2
  <1>3. CASE SaveMetadata(w)
    <2>1. /\ review' = [review EXCEPT ![t] = bridge[w].status]
          /\ rowPr' = [rowPr EXCEPT ![t] = bridge[w].pr]
          /\ rowHead' = [rowHead EXCEPT ![t] = bridge[w].head]
          /\ bridge' = [bridge EXCEPT ![w].pc = "done"]
          /\ reviewed' = [reviewed EXCEPT ![t] = IF bridge[w].status = "in_review"
                                                   THEN @ \cup {bridge[w].head} ELSE @]
          /\ UNCHANGED <<queueVars, mergeAttempts, branch, prs, green, heads, call, permanent>>
      BY <1>3 DEF SaveMetadata, github
    <2>2. /\ bridge[w].pr \in DOMAIN prs[t] /\ bridge[w].pr \in Nat \ {0} /\ bridge[w].head \in Nat
          /\ bridge[w].status \in {"none", "in_review", "sensitive_blocked"}
      BY <1>0, <1>3 DEF SaveMetadata, BridgeInv, Bridge
    <2>3. RowType'
      BY <1>0, <2>1, <2>2 DEF RowType
    <2>4. PrType' /\ HeadType' /\ CallType'
      BY <2>1 DEF PrType, HeadType, CallType
    <2>5. BridgeType' /\ BridgeInv'
      BY <1>0, <2>1, <2>2 DEF Bridge, BridgeType, BridgeInv, RowType, queueVars
    <2>6. RowNamesPr' /\ OfferIsRecorded'
      BY <1>0, <2>1, <2>2 DEF RowType, RowNamesPr, OfferIsRecorded
    <2>7. \A u \in Jobs : reviewed[u] \subseteq reviewed'[u]
      BY <1>0, <2>1 DEF RowType
    <2>8. CallInv' /\ MergedWasReviewed'
      BY <2>1, <2>7 DEF CallInv, MergedWasReviewed
    <2>9. RecordedMergeHappened' /\ JobLeavesPr'
      BY <1>0, <2>1, <2>2 DEF RowType, RecordedMergeHappened, JobLeavesPr, queueVars
    <2> QED
      BY <2>3, <2>4, <2>5, <2>6, <2>8, <2>9
  <1> QED
    BY <1>1, <1>2, <1>3

\* The reaper, and people at GitHub.
LEMMA OutsideFrame ==
  ASSUME SFInv, UNCHANGED <<queueVars, rowPr, rowHead, mergeAttempts, prs, bridge, call, sfHistory>>,
         RowType', HeadType', green \subseteq green',
         \A u \in Jobs : review'[u] \in {review[u], "changes_requested"}
  PROVE  BridgeSound'
  BY DEF SFInv, BridgeSound, PrType, BridgeType, CallType, RowNamesPr, OfferIsRecorded,
       BridgeInv, CallInv, MergedWasReviewed, RecordedMergeHappened, JobLeavesPr, queueVars,
       sfHistory

LEMMA OutsideSteps ==
  ASSUME SFInv, NEW t \in Jobs, ReapReview(t) \/ OutsidePush(t)
  PROVE  BridgeSound'
  <1>1. CASE ReapReview(t)
    BY <1>1, OutsideFrame DEF ReapReview, github, sfHistory, SFInv, BridgeSound, RowType, HeadType
  <1>2. CASE OutsidePush(t)
    BY <1>2, OutsideFrame DEF OutsidePush, rowVars, sfHistory, SFInv, BridgeSound, RowType,
         HeadType
  <1> QED
    BY <1>1, <1>2

LEMMA CheckSteps ==
  ASSUME SFInv, NEW h \in 1..MaxHeads, ChecksPass(h)
  PROVE  BridgeSound'
  BY OutsideFrame DEF ChecksPass, rowVars, sfHistory, SFInv, BridgeSound, RowType, HeadType

\* What a step of a call that only adds pull requests' states and votes on a
\* row leaves alone.
LEMMA CallFrame ==
  ASSUME SFInv, UNCHANGED <<queueVars, rowPr, rowHead, prs, branch, green, heads, bridge, sfHistory>>,
         RowType', \A t \in Jobs : review'[t] \in {review[t], "changes_requested", "merged"},
         CallType', CallInv', RecordedMergeHappened'
  PROVE  BridgeSound'
  BY DEF SFInv, BridgeSound, PrType, HeadType, BridgeType, RowNamesPr, OfferIsRecorded,
       BridgeInv, MergedWasReviewed, JobLeavesPr, queueVars, sfHistory

LEMMA CallSteps ==
  ASSUME SFInv, NEW c \in Callers, CallStep(c)
  PROVE  BridgeSound'
  <1> USE DEF SFInv, BridgeSound
  <1>0. call[c] \in Call /\ (call[c].pc # "idle" => call[c].task \in Jobs)
    BY DEF CallType, CallInv
  <1> DEFINE t == call[c].task  n == call[c].pr
  <1>1. CASE RequestChanges(c)
    <2>1. /\ review' = [review EXCEPT ![t] = "changes_requested"] /\ hangup(c)
          /\ UNCHANGED <<queueVars, rowPr, rowHead, opened, mergeAttempts, github, bridge, sfHistory>>
      BY <1>1 DEF RequestChanges
    <2>2. RowType' /\ CallType' /\ CallInv'
      BY <2>1, CallHangs DEF RowType, CallInv, github, sfHistory
    <2>3. RecordedMergeHappened'
      BY <2>1 DEF RowType, RecordedMergeHappened, github
    <2> QED
      BY <2>1, <2>2, <2>3, CallFrame DEF RowType, github
  <1>2. CASE CountAttempt(c)
    <2>1. /\ mergeAttempts' = [mergeAttempts EXCEPT ![t] = @ + 1] /\ goto(c, "probe")
          /\ call[c].pc = "count"
          /\ UNCHANGED <<queueVars, review, rowPr, rowHead, opened, github, bridge, sfHistory>>
      BY <1>2 DEF CountAttempt
    <2>2. RowType' /\ RecordedMergeHappened'
      <3>1. RowType'
        BY <1>0, <2>1 DEF RowType, sfHistory
      <3>2. RecordedMergeHappened'
        BY <2>1 DEF RecordedMergeHappened, github
      <3> QED
        BY <3>1, <3>2
    <2>3. CallType' /\ CallInv'
      BY <2>1, CallMoves DEF CallInv, CallPc, github, sfHistory
    <2> QED
      BY <2>1, <2>2, <2>3, CallFrame DEF RowType, github
  \* The steps that only move the call.
  <1>3. ASSUME NEW p \in CallPc, goto(c, p), call[c].pc \notin {"idle", "exhausted"},
               p \in {"regate", "merge"} => call[c].head \in green,
               p \in {"comment", "record"} => prs[t][n].state = "merged",
               UNCHANGED <<queueVars, rowVars, github, bridge, sfHistory>>
        PROVE  BridgeSound'
    <2>1. CallType' /\ CallInv'
      BY <1>3, CallMoves DEF CallInv, github, sfHistory
    <2>2. RowType' /\ RecordedMergeHappened'
      BY <1>3 DEF RowType, RecordedMergeHappened, rowVars, github, sfHistory
    <2> QED
      BY <1>3, <2>1, <2>2, CallFrame DEF rowVars, github
  <1>4. CASE ProbeMerged(c)
    BY <1>4, <1>3 DEF ProbeMerged, CallPc
  <1>5. CASE Regate(c)
    BY <1>5, <1>3 DEF Regate, GateOpen, CallPc
  <1>6. CASE Comment(c)
    BY <1>6, <1>3 DEF Comment, CallInv, CallPc
  <1>7. CASE Gate(c)
    <2> DEFINE r == [prs[t][n] EXCEPT !.state = IF @ = "draft" THEN "ready" ELSE @]
    <2>1. /\ prs' = [prs EXCEPT ![t][n] = r] /\ goto(c, "regate")
          /\ call[c].pc = "gate" /\ call[c].head \in green
          /\ UNCHANGED <<queueVars, rowVars, branch, green, heads, bridge, sfHistory>>
      BY <1>7 DEF Gate, GateOpen
    <2>2. t \in Jobs /\ n \in DOMAIN prs[t] /\ prs[t] \in Seq(Pr) /\ call[c].head \in reviewed[t]
      BY <1>0, <2>1 DEF CallInv, PrType
    <2>3. prs[t][n] \in Pr
      BY <2>2
    <2>4. r \in Pr /\ r.head = prs[t][n].head /\ (r.state = "merged" <=> prs[t][n].state = "merged")
      BY <2>3 DEF Pr
    <2> HIDE DEF r
    <2>5. /\ PrType'
          /\ \A u \in Jobs : DOMAIN prs'[u] = DOMAIN prs[u]
          /\ \A u \in Jobs : \A m \in DOMAIN prs[u] :
                 prs'[u][m].head = prs[u][m].head
                 /\ (prs'[u][m].state = "merged" <=> prs[u][m].state = "merged")
      <3> HIDE DEF t, n
      <3>1. /\ PrType'
            /\ \A u \in Jobs : DOMAIN prs'[u] = DOMAIN prs[u]
            /\ \A u \in Jobs : \A m \in DOMAIN prs[u] :
                   prs'[u][m] = IF u = t /\ m = n THEN r ELSE prs[u][m]
        BY <2>1, <2>2, <2>4, PrReplaced
      <3> QED
        BY <2>4, <3>1
    <2>6. CallType' /\ CallInv'
      BY <2>1, <2>2, <2>5, CallMoves DEF CallInv, CallPc, sfHistory
    <2>7. MergedWasReviewed' /\ RecordedMergeHappened'
      BY <2>1, <2>5 DEF MergedWasReviewed, RecordedMergeHappened, rowVars, sfHistory
    <2>8. RowNamesPr' /\ BridgeInv'
      BY <2>1, <2>5 DEF RowNamesPr, BridgeInv, rowVars, queueVars
    <2> QED
      BY <2>1, <2>5, <2>6, <2>7, <2>8 DEF RowType, HeadType, BridgeType, OfferIsRecorded,
           JobLeavesPr, rowVars, queueVars, sfHistory
  <1>8. CASE Merge(c)
    <2> DEFINE r == [state |-> "merged", head |-> branch[t]]
    <2>1. /\ prs' = [prs EXCEPT ![t][n] = r] /\ goto(c, "comment")
          /\ call[c].pc = "merge" /\ branch[t] = call[c].head
          /\ UNCHANGED <<queueVars, rowVars, branch, green, heads, bridge, sfHistory>>
      BY <1>8 DEF Merge
    <2>2. t \in Jobs /\ n \in DOMAIN prs[t] /\ call[c].head \in reviewed[t] \cap green
      BY <1>0, <2>1 DEF CallInv
    <2>3. r \in Pr /\ r.state = "merged" /\ r.head = call[c].head
      BY <2>1, <2>2 DEF Pr, HeadType
    <2> HIDE DEF r
    <2>4. /\ PrType'
          /\ \A u \in Jobs : DOMAIN prs'[u] = DOMAIN prs[u]
          /\ \A u \in Jobs : \A m \in DOMAIN prs[u] :
                 prs'[u][m] = IF u = t /\ m = n THEN r ELSE prs[u][m]
      <3> HIDE DEF t, n
      <3> QED
        BY <2>1, <2>2, <2>3, PrReplaced
    <2>5. CallType' /\ CallInv'
      BY <2>1, <2>2, <2>3, <2>4, CallMoves DEF CallInv, CallPc, sfHistory
    <2>6. MergedWasReviewed' /\ RecordedMergeHappened'
      BY <2>1, <2>2, <2>3, <2>4 DEF MergedWasReviewed, RecordedMergeHappened, rowVars, sfHistory
    <2>7. RowNamesPr' /\ BridgeInv'
      BY <2>1, <2>4 DEF RowNamesPr, BridgeInv, rowVars, queueVars
    <2> QED
      BY <2>1, <2>4, <2>5, <2>6, <2>7 DEF RowType, HeadType, BridgeType, OfferIsRecorded,
           JobLeavesPr, rowVars, queueVars, sfHistory
  <1>9. CASE RecordMerged(c)
    <2>1. /\ review' = [review EXCEPT ![t] = "merged"] /\ hangup(c) /\ call[c].pc = "record"
          /\ UNCHANGED <<queueVars, rowPr, rowHead, opened, mergeAttempts, github, bridge, sfHistory>>
      BY <1>9 DEF RecordMerged
    <2>2. RowType' /\ CallType' /\ CallInv'
      BY <2>1, CallHangs DEF RowType, CallInv, github, sfHistory
    <2>3. t \in Jobs /\ n \in DOMAIN prs[t] /\ prs[t][n].state = "merged"
      BY <1>0, <2>1 DEF CallInv
    <2>4. RecordedMergeHappened'
      BY <2>1, <2>3 DEF RowType, RecordedMergeHappened, github
    <2> QED
      BY <2>1, <2>2, <2>4, CallFrame DEF RowType, github
  <1>10. CASE CallEnds(c)
    <2>1. hangup(c) /\ UNCHANGED <<queueVars, rowVars, github, bridge, sfHistory>>
      BY <1>10 DEF CallEnds
    <2>2. CallType' /\ CallInv'
      BY <2>1, CallHangs DEF CallInv, github, sfHistory
    <2>3. RowType' /\ RecordedMergeHappened'
      BY <2>1 DEF RowType, RecordedMergeHappened, rowVars, github, sfHistory
    <2> QED
      BY <2>1, <2>2, <2>3, CallFrame DEF rowVars, github
  <1> QED
    BY <1>1, <1>2, <1>4, <1>5, <1>6, <1>7, <1>8, <1>9, <1>10 DEF CallStep

LEMMA ApproveStep ==
  ASSUME SFInv, NEW c \in Callers, NEW t \in Jobs, Approve(c, t)
  PROVE  BridgeSound'
  <1>1. UNCHANGED <<queueVars, rowVars, github, bridge, sfHistory>>
    BY DEF Approve
  <1>2. CallType' /\ CallInv'
    <2>1. CASE call' = [call EXCEPT ![c] = [NoCall EXCEPT !.pc = "exhausted", !.task = t]]
      <3> DEFINE k == [NoCall EXCEPT !.pc = "exhausted", !.task = t]
      <3>1. k \in Call /\ k.pc = "exhausted" /\ k.task = t
        BY DEF NoCall, Call, CallPc
      <3>2. call' = [call EXCEPT ![c] = k]
        BY <2>1
      <3> HIDE DEF k
      <3> QED
        BY <1>1, <3>1, <3>2 DEF SFInv, BridgeSound, CallType, CallInv, github, sfHistory
    <2>2. CASE /\ rowPr[t] # 0 /\ review[t] = "in_review"
               /\ call' = [call EXCEPT ![c] =
                             [pc |-> "count", task |-> t, pr |-> rowPr[t], head |-> rowHead[t]]]
      <3>1. rowPr[t] \in Nat /\ rowHead[t] \in Nat
            /\ rowPr[t] \in DOMAIN prs[t] /\ rowHead[t] \in reviewed[t]
        BY <2>2 DEF SFInv, BridgeSound, RowType, RowNamesPr, OfferIsRecorded
      <3> QED
        BY <1>1, <2>2, <3>1 DEF SFInv, BridgeSound, CallType, Call, CallPc, CallInv, github,
             sfHistory
    <2> QED
      BY <2>1, <2>2 DEF Approve
  <1>3. RowType' /\ RecordedMergeHappened'
    BY <1>1 DEF SFInv, BridgeSound, RowType, RecordedMergeHappened, rowVars, github, sfHistory
  <1> QED
    BY <1>1, <1>2, <1>3, CallFrame DEF rowVars, github

LEMMA StepBridge == SFInv /\ [SFNext]_vars => SFInv'
  <1> SUFFICES ASSUME SFInv, [SFNext]_vars PROVE SFInv'
    OBVIOUS
  <1>1. QueueInv'
    BY QueueStep, NextKeeps DEF SFInv
  <1>2. ASSUME NEW t \in Jobs, TaskCompleted(t) \/ ReleaseJob(t) PROVE BridgeSound'
    <2>1. UNCHANGED <<rowVars, github, bridge, call, sfHistory>> /\ (Enqueue(t) \/ ReleaseStale(t))
      BY <1>2 DEF TaskCompleted, ReleaseJob
    <2>2. UNCHANGED running /\ (\A u \in Jobs : row'[u] = "gone" => row[u] = "gone")
      BY <2>1 DEF Enqueue, ReleaseStale, SFInv, QueueInv, TypeOK
    <2> QED
      BY <2>1, <2>2 DEF rowVars, github, sfHistory, SFInv, BridgeSound, RowType, PrType,
           HeadType, BridgeType, CallType, RowNamesPr, OfferIsRecorded, BridgeInv, CallInv,
           MergedWasReviewed, RecordedMergeHappened, JobLeavesPr
  <1>3. ASSUME NEW w \in Workers, NEW t \in Jobs, StartJob(w, t) PROVE BridgeSound'
    BY <1>3, JobStarts
  <1>4. ASSUME NEW w \in Workers, WorkerStep(w) \/ AbandonJob(w) PROVE BridgeSound'
    BY <1>1, <1>4, JobEnds, PrSteps DEF WorkerStep
  <1>5. ASSUME NEW t \in Jobs, ReapReview(t) \/ OutsidePush(t) PROVE BridgeSound'
    BY <1>5, OutsideSteps
  <1>6. ASSUME NEW h \in 1..MaxHeads, ChecksPass(h) PROVE BridgeSound'
    BY <1>6, CheckSteps
  <1>7. ASSUME UNCHANGED vars PROVE BridgeSound'
    BY <1>7 DEF vars, queueVars, rowVars, github, sfHistory, SFInv, BridgeSound, RowType,
         PrType, HeadType, BridgeType, CallType, RowNamesPr, OfferIsRecorded, BridgeInv,
         CallInv, MergedWasReviewed, RecordedMergeHappened, JobLeavesPr
  <1> QED
    BY <1>1, <1>2, <1>3, <1>4, <1>5, <1>6, <1>7, CallSteps, ApproveStep DEF SFNext, SFInv

-----------------------------------------------------------------------------
(* The budget of merge attempts *)

\* Requests past the cap's check that did not count yet.
Counting(t) == {c \in Callers : call[c].pc = "count" /\ call[c].task = t}

\* BudgetAlmostKept is not inductive by itself: each of them will count once more.
BudgetInv ==
    \A t \in Jobs :
        mergeAttempts[t] + Cardinality(Counting(t)) <= MaxMergeAttempts + Cardinality(Callers) - 1

\* Sets of requests have sizes, and smaller sets smaller ones.
LEMMA CountingSize ==
  ASSUME SelfFixAssumption, NEW S \in SUBSET Callers, NEW T \in SUBSET S
  PROVE  /\ Cardinality(T) \in Nat /\ Cardinality(S) \in Nat
         /\ Cardinality(T) <= Cardinality(S)
  <1>1. IsFiniteSet(S)
    BY FS_Subset DEF SelfFixAssumption
  <1> QED
    BY <1>1, FS_Subset, FS_CardinalityType

\* A step that counts nothing and lets nobody past the cap.
LEMMA BudgetUnmoved ==
  ASSUME SelfFixAssumption, SFInv, BudgetInv, UNCHANGED mergeAttempts,
         \A t \in Jobs : Counting(t)' \subseteq Counting(t)
  PROVE  BudgetInv'
  <1> SUFFICES ASSUME NEW t \in Jobs
               PROVE  mergeAttempts[t] + Cardinality(Counting(t)')
                          <= MaxMergeAttempts + Cardinality(Callers) - 1
    BY DEF BudgetInv
  <1>1. Counting(t) \in SUBSET Callers /\ Counting(t)' \in SUBSET Counting(t)
    BY DEF Counting
  <1>2. /\ Cardinality(Counting(t)') \in Nat /\ Cardinality(Counting(t)) \in Nat
        /\ Cardinality(Counting(t)') <= Cardinality(Counting(t))
    BY <1>1, CountingSize
  <1>3. Cardinality(Callers) \in Nat /\ mergeAttempts[t] \in Nat /\ MaxMergeAttempts \in Nat
    BY FS_CardinalityType DEF SelfFixAssumption, SFInv, BridgeSound, RowType
  <1> QED
    BY <1>2, <1>3 DEF BudgetInv

LEMMA InitBudget == SelfFixAssumption /\ SFInit => BudgetInv
  <1> SUFFICES ASSUME SelfFixAssumption, SFInit, NEW t \in Jobs
               PROVE  mergeAttempts[t] + Cardinality(Counting(t))
                          <= MaxMergeAttempts + Cardinality(Callers) - 1
    BY DEF BudgetInv
  <1>1. Counting(t) = {} /\ mergeAttempts[t] = 0
    BY DEF SFInit, NoCall, Counting
  <1>2. Cardinality(Callers) \in Nat
    BY FS_CardinalityType DEF SelfFixAssumption
  <1> QED
    BY <1>1, <1>2, FS_EmptySet DEF SelfFixAssumption

LEMMA StepBudget == SelfFixAssumption /\ SFInv /\ BudgetInv /\ [SFNext]_vars => BudgetInv'
  <1> SUFFICES ASSUME SelfFixAssumption, SFInv, BudgetInv, [SFNext]_vars PROVE BudgetInv'
    OBVIOUS
  <1>0. CallType /\ RowType /\ Cardinality(Callers) \in Nat /\ MaxMergeAttempts \in Nat
    BY FS_CardinalityType DEF SelfFixAssumption, SFInv, BridgeSound
  <1>1. CASE UNCHANGED <<mergeAttempts, call>>
    BY <1>1, BudgetUnmoved DEF Counting
  <1>2. ASSUME NEW c \in Callers, NEW t \in Jobs, Approve(c, t) PROVE BudgetInv'
    <2>0. PICK k : /\ call' = [call EXCEPT ![c] = k] /\ k.task = t
                   /\ k.pc = "count" => mergeAttempts[t] < MaxMergeAttempts
      <3> DEFINE k == [NoCall EXCEPT !.pc = "exhausted", !.task = t]
                 l == [pc |-> "count", task |-> t, pr |-> rowPr[t], head |-> rowHead[t]]
      <3>1. k.task = t /\ k.pc = "exhausted" /\ l.task = t
        BY DEF NoCall
      <3>2. \/ call' = [call EXCEPT ![c] = k]
            \/ call' = [call EXCEPT ![c] = l] /\ mergeAttempts[t] < MaxMergeAttempts
        BY <1>2 DEF Approve
      <3> HIDE DEF k, l
      <3> QED
        BY <3>1, <3>2
    <2>1. \A u \in Jobs \ {t} : Counting(u)' \subseteq Counting(u)
      BY <1>0, <2>0 DEF Counting, CallType
    <2>2. CASE mergeAttempts[t] >= MaxMergeAttempts
      <3>1. Counting(t)' \subseteq Counting(t)
        BY <1>0, <2>0, <2>2 DEF Counting, CallType, RowType
      <3> QED
        BY <1>2, <2>1, <3>1, BudgetUnmoved DEF Approve, rowVars
    <2>3. CASE mergeAttempts[t] < MaxMergeAttempts
      <3> SUFFICES ASSUME NEW u \in Jobs
                   PROVE  mergeAttempts[u] + Cardinality(Counting(u)')
                              <= MaxMergeAttempts + Cardinality(Callers) - 1
        BY <1>2 DEF BudgetInv, Approve, rowVars
      <3>1. Counting(u) \in SUBSET Callers /\ Counting(u)' \in SUBSET Callers
        BY DEF Counting
      <3>2. CASE u = t
        <4>1. Cardinality(Counting(t)') \in Nat /\ Cardinality(Counting(t)') <= Cardinality(Callers)
          BY <3>1, <3>2, CountingSize
        <4> QED
          BY <1>0, <2>3, <3>2, <4>1 DEF RowType
      <3>3. CASE u # t
        <4>1. /\ Cardinality(Counting(u)') \in Nat /\ Cardinality(Counting(u)) \in Nat
              /\ Cardinality(Counting(u)') <= Cardinality(Counting(u))
          BY <2>1, <3>1, <3>3, CountingSize
        <4> QED
          BY <1>0, <4>1 DEF BudgetInv, RowType
      <3> QED
        BY <3>2, <3>3
    <2> QED
      BY <1>0, <2>2, <2>3 DEF RowType
  <1>3. ASSUME NEW c \in Callers, CountAttempt(c) PROVE BudgetInv'
    <2> DEFINE t == call[c].task
    <2>1. c \in Counting(t) /\ t \in Jobs
      BY <1>3 DEF CountAttempt, Counting, SFInv, BridgeSound, CallInv
    <2>2. /\ mergeAttempts' = [mergeAttempts EXCEPT ![t] = @ + 1]
          /\ \A u \in Jobs : Counting(u)' = Counting(u) \ {c}
      BY <1>0, <1>3, CallMoves DEF CountAttempt, Counting, CallPc
    <2> SUFFICES ASSUME NEW u \in Jobs
                 PROVE  mergeAttempts'[u] + Cardinality(Counting(u)')
                            <= MaxMergeAttempts + Cardinality(Callers) - 1
      BY DEF BudgetInv
    <2>3. Counting(u) \in SUBSET Callers /\ IsFiniteSet(Counting(u))
      BY FS_Subset DEF Counting, SelfFixAssumption
    <2>4. Cardinality(Counting(u)) \in Nat
      BY <2>3, FS_CardinalityType
    <2>5. CASE u = t
      <3>1. c \in Counting(u) /\ Counting(u)' = Counting(u) \ {c}
        BY <2>1, <2>2, <2>5
      <3>2. Cardinality(Counting(u) \ {c}) = Cardinality(Counting(u)) - 1
        BY <2>3, <3>1, FS_RemoveElement
      <3>3. mergeAttempts'[u] = mergeAttempts[u] + 1 /\ mergeAttempts[u] \in Nat
        BY <1>0, <2>2, <2>5 DEF RowType
      <3>4. mergeAttempts[u] + Cardinality(Counting(u)) <= MaxMergeAttempts + Cardinality(Callers) - 1
        BY DEF BudgetInv
      <3> QED
        BY <1>0, <2>4, <3>1, <3>2, <3>3, <3>4
    <2>6. CASE u # t
      <3>1. c \notin Counting(u)
        BY <2>6 DEF Counting
      <3>2. Counting(u)' = Counting(u) /\ mergeAttempts'[u] = mergeAttempts[u]
        BY <1>0, <2>2, <2>6, <3>1 DEF RowType
      <3> QED
        BY <3>2 DEF BudgetInv
    <2> QED
      BY <2>5, <2>6
  <1>4. ASSUME NEW c \in Callers, CallStep(c), ~ CountAttempt(c) PROVE BudgetInv'
    <2>1. UNCHANGED mergeAttempts
      BY <1>4 DEF CallStep, RequestChanges, ProbeMerged, Gate, Regate, Merge, Comment,
           RecordMerged, CallEnds, rowVars
    <2>2. hangup(c) \/ \E p \in CallPc \ {"count"} : goto(c, p)
      BY <1>4 DEF CallStep, RequestChanges, ProbeMerged, Gate, Regate, Merge, Comment,
           RecordMerged, CallEnds, CallPc
    <2>3. \A t \in Jobs : Counting(t)' \subseteq Counting(t)
      BY <1>0, <2>2, CallMoves, CallHangs DEF Counting
    <2> QED
      BY <2>1, <2>3, BudgetUnmoved
  <1>5. CASE \/ \E t \in Jobs : TaskCompleted(t) \/ ReleaseJob(t) \/ ReapReview(t) \/ OutsidePush(t)
             \/ \E w \in Workers, t \in Jobs : StartJob(w, t)
             \/ \E w \in Workers : WorkerStep(w) \/ AbandonJob(w)
             \/ \E h \in 1..MaxHeads : ChecksPass(h)
             \/ UNCHANGED vars
    <2>1. UNCHANGED <<mergeAttempts, call>>
      BY <1>5 DEF TaskCompleted, ReleaseJob, ReapReview, OutsidePush, StartJob, WorkerStep,
           Push, CreateDraftPr, SaveMetadata, FinishJob, DropJob, FailJob, AbandonJob,
           ChecksPass, vars, rowVars
    <2> QED
      BY <1>1, <2>1
  <1> QED
    BY <1>2, <1>3, <1>4, <1>5 DEF SFNext

LEMMA WithinBudget == SelfFixAssumption /\ SFInv /\ BudgetInv => BudgetAlmostKept
  <1> SUFFICES ASSUME SelfFixAssumption, SFInv, BudgetInv, NEW t \in Jobs
               PROVE  mergeAttempts[t] <= MaxMergeAttempts + Cardinality(Callers) - 1
    BY DEF BudgetAlmostKept
  <1>1. Counting(t) \in SUBSET Callers
    BY DEF Counting
  <1>2. Cardinality(Counting(t)) \in Nat
    BY <1>1, CountingSize
  <1>3. mergeAttempts[t] \in Nat /\ Cardinality(Callers) \in Nat /\ MaxMergeAttempts \in Nat
    BY FS_CardinalityType DEF SelfFixAssumption, SFInv, BridgeSound, RowType
  <1> QED
    BY <1>2, <1>3 DEF BudgetInv

-----------------------------------------------------------------------------
\* What was merged had been offered as clean under exactly that head and was
\* green, "merged" is written after a merge only, a finished job left its pull
\* request, and approvals in flight overrun the budget by less than their number:
\* whatever heads are pushed, whichever step fails and however calls overlap.
THEOREM MergesAreReviewed == ASSUME SelfFixAssumption PROVE SFSpec => []SelfFixSound
  <1>1. SFInv /\ BudgetInv => SelfFixSound
    BY WithinBudget DEF SFInv, BridgeSound, SelfFixSound
  <1>2. SFInit => SFInv /\ BudgetInv
    BY InitBridge, InitBudget
  <1>3. SFInv /\ BudgetInv /\ [SFNext]_vars => SFInv' /\ BudgetInv'
    BY StepBridge, StepBudget
  <1> QED
    BY <1>1, <1>2, <1>3, PTL DEF SFSpec

\* The bridge uses the queue as a queue: what is proved of any queue holds of
\* the jobs that open pull requests.
THEOREM BridgeImplementsQueue == SFSpec => Spec
  <1>1. SFInit => Init
    BY DEF SFInit
  <1> QED
    BY <1>1, QueueStep, PTL DEF SFSpec, Spec

-----------------------------------------------------------------------------
(* An Agent's container under its work *)

\* Where an operation does not hold the lifecycle lock.
Outside == {"idle", "lock", "register"}

Inside ==
    {"check", "create", "set", "discard", "launch", "undo", "unset", "remove", "confirm", "clear",
     "offline", "erase", "inspect", "invalidate", "fence", "commit", "commit ok"}

LifeShape ==
    /\ lock \in Life!Procs \cup {None} /\ lost \in Nat
    /\ kind \in [Life!Procs -> Life!Kinds \cup {"reconcile"}]
    /\ pc \in [Life!Procs -> Outside \cup Inside]

\* Until a connection is lost, exactly the holder of the lock is inside.
LockIsInside ==
    /\ \A p \in Life!Procs : lock = p => pc[p] \in Inside
    /\ lost = 0 => \A p \in Life!Procs : pc[p] \in Inside => lock = p

\* An operation that was admitted as idle meets no work: only the reconcile sweep does.
AdmittedIdle ==
    lost = 0 => \A p \in Life!Procs : lock = p /\ kind[p] # "reconcile" => ~working

\* The sweep removes a container only after it ended the Agent's work in its transaction.
SweepFences ==
    \A p \in Life!Procs : kind[p] = "reconcile" =>
        pc[p] # "check" /\ (pc[p] = "remove" => p \in fencing)

LifeInv == LifeShape /\ LockIsInside /\ AdmittedIdle /\ SweepFences

USE DEF Life!Procs, Life!Kinds, Outside, Inside

LEMMA Counted == \A n \in Nat : n + 1 \in Nat /\ n + 1 # 0
  OBVIOUS

LEMMA LifeInit ==
  ASSUME Life!Init, None \notin Life!Procs
  PROVE  LifeInv
  BY DEF Life!Init, LifeInv, LifeShape, LockIsInside, AdmittedIdle, SweepFences

\* A request, or the sweep's list.
LEMMA RequestKeeps ==
  ASSUME LifeInv, None \notin Life!Procs, NEW p \in Life!Procs, NEW k \in Life!Kinds \cup {"reconcile"},
         Life!Request(p, k)
  PROVE  LifeInv'
  <1> USE DEF LifeInv, LifeShape, LockIsInside, AdmittedIdle, SweepFences, Life!Goto,
       Life!Holds, Life!Release, Life!row, Life!work, Life!tx, Life!bounds, Life!ops,
       Life!Request
  <1>1. LifeShape'
    OBVIOUS
  <1>2. LockIsInside' /\ AdmittedIdle'
    OBVIOUS
  <1>3. SweepFences'
    OBVIOUS
  <1> QED BY <1>1, <1>2, <1>3

\* lock_agent_lifecycle_in_tx and the admission.
LEMMA AdmitKeeps ==
  ASSUME LifeInv, None \notin Life!Procs, NEW p \in Life!Procs, Life!Admit(p)
  PROVE  LifeInv'
  <1> USE DEF LifeInv, LifeShape, LockIsInside, AdmittedIdle, SweepFences, Life!Goto,
       Life!Holds, Life!Release, Life!row, Life!work, Life!tx, Life!bounds, Life!ops,
       Life!Admit, Life!FirstStep, Life!MayChange, Life!Idle
  <1>1. LifeShape'
    OBVIOUS
  <1>2. LockIsInside' /\ AdmittedIdle'
    <2>1. CASE UNCHANGED lock
      <3>1. pc' = [pc EXCEPT ![p] = "idle"] /\ pc[p] = "lock"
        BY <2>1
      <3> QED BY <2>1, <3>1
    <2>2. CASE lock' = p
      <3>1. /\ pc' = [pc EXCEPT ![p] = Life!FirstStep(kind[p])] /\ lock = None
            /\ Life!FirstStep(kind[p]) \in Inside /\ (kind[p] # "reconcile" => ~working)
        BY <2>2
      <3>2. lost = 0 => \A q \in Life!Procs : pc[q] \notin Inside
        BY <3>1
      <3> QED BY <2>2, <3>1, <3>2
    <2> QED BY <2>1, <2>2
  <1>3. SweepFences'
    OBVIOUS
  <1> QED BY <1>1, <1>2, <1>3

\* start_locked.
LEMMA LifeCheckKeeps ==
  ASSUME LifeInv, None \notin Life!Procs, NEW p \in Life!Procs, Life!Check(p)
  PROVE  LifeInv'
  <1> USE DEF LifeInv, LifeShape, LockIsInside, AdmittedIdle, SweepFences, Life!Goto,
       Life!Holds, Life!Release, Life!row, Life!work, Life!tx, Life!bounds, Life!ops,
       Life!Check, Life!Rejected
  <1>1. LifeShape'
    OBVIOUS
  <1>2. LockIsInside' /\ AdmittedIdle'
    OBVIOUS
  <1>3. SweepFences'
    OBVIOUS
  <1> QED BY <1>1, <1>2, <1>3

\* create_container.
LEMMA LifeCreateKeeps ==
  ASSUME LifeInv, None \notin Life!Procs, NEW p \in Life!Procs, Life!Create(p)
  PROVE  LifeInv'
  <1> USE DEF LifeInv, LifeShape, LockIsInside, AdmittedIdle, SweepFences, Life!Goto,
       Life!Holds, Life!Release, Life!row, Life!work, Life!tx, Life!bounds, Life!ops,
       Life!Create
  <1>1. LifeShape'
    OBVIOUS
  <1>2. LockIsInside' /\ AdmittedIdle'
    OBVIOUS
  <1>3. SweepFences'
    OBVIOUS
  <1> QED BY <1>1, <1>2, <1>3

\* The row is made to name it.
LEMMA LifeSetKeeps ==
  ASSUME LifeInv, None \notin Life!Procs, NEW p \in Life!Procs, Life!Set(p)
  PROVE  LifeInv'
  <1> USE DEF LifeInv, LifeShape, LockIsInside, AdmittedIdle, SweepFences, Life!Goto,
       Life!Holds, Life!Release, Life!row, Life!work, Life!tx, Life!bounds, Life!ops, Life!Set
  <1>1. LifeShape'
    OBVIOUS
  <1>2. LockIsInside' /\ AdmittedIdle'
    OBVIOUS
  <1>3. SweepFences'
    OBVIOUS
  <1> QED BY <1>1, <1>2, <1>3

\* The clean-up.
LEMMA LifeDiscardKeeps ==
  ASSUME LifeInv, None \notin Life!Procs, NEW p \in Life!Procs, Life!Discard(p)
  PROVE  LifeInv'
  <1> USE DEF LifeInv, LifeShape, LockIsInside, AdmittedIdle, SweepFences, Life!Goto,
       Life!Holds, Life!Release, Life!row, Life!work, Life!tx, Life!bounds, Life!ops,
       Life!Discard
  <1>1. LifeShape'
    OBVIOUS
  <1>2. LockIsInside' /\ AdmittedIdle'
    OBVIOUS
  <1>3. SweepFences'
    OBVIOUS
  <1> QED BY <1>1, <1>2, <1>3

\* start_container.
LEMMA LifeLaunchKeeps ==
  ASSUME LifeInv, None \notin Life!Procs, NEW p \in Life!Procs, Life!Launch(p)
  PROVE  LifeInv'
  <1> USE DEF LifeInv, LifeShape, LockIsInside, AdmittedIdle, SweepFences, Life!Goto,
       Life!Holds, Life!Release, Life!row, Life!work, Life!tx, Life!bounds, Life!ops,
       Life!Launch
  <1>1. LifeShape'
    OBVIOUS
  <1>2. LockIsInside' /\ AdmittedIdle'
    OBVIOUS
  <1>3. SweepFences'
    OBVIOUS
  <1> QED BY <1>1, <1>2, <1>3

\* After a failed start.
LEMMA LifeUndoKeeps ==
  ASSUME LifeInv, None \notin Life!Procs, NEW p \in Life!Procs, Life!Undo(p)
  PROVE  LifeInv'
  <1> USE DEF LifeInv, LifeShape, LockIsInside, AdmittedIdle, SweepFences, Life!Goto,
       Life!Holds, Life!Release, Life!row, Life!work, Life!tx, Life!bounds, Life!ops, Life!Undo
  <1>1. LifeShape'
    OBVIOUS
  <1>2. LockIsInside' /\ AdmittedIdle'
    OBVIOUS
  <1>3. SweepFences'
    OBVIOUS
  <1> QED BY <1>1, <1>2, <1>3

\* clear_container after it.
LEMMA LifeUnsetKeeps ==
  ASSUME LifeInv, None \notin Life!Procs, NEW p \in Life!Procs, Life!Unset(p)
  PROVE  LifeInv'
  <1> USE DEF LifeInv, LifeShape, LockIsInside, AdmittedIdle, SweepFences, Life!Goto,
       Life!Holds, Life!Release, Life!row, Life!work, Life!tx, Life!bounds, Life!ops, Life!Unset
  <1>1. LifeShape'
    OBVIOUS
  <1>2. LockIsInside' /\ AdmittedIdle'
    OBVIOUS
  <1>3. SweepFences'
    OBVIOUS
  <1> QED BY <1>1, <1>2, <1>3

\* stop_and_remove_container_locked.
LEMMA LifeRemoveKeeps ==
  ASSUME LifeInv, None \notin Life!Procs, NEW p \in Life!Procs, Life!Remove(p)
  PROVE  LifeInv'
  <1> USE DEF LifeInv, LifeShape, LockIsInside, AdmittedIdle, SweepFences, Life!Goto,
       Life!Holds, Life!Release, Life!row, Life!work, Life!tx, Life!bounds, Life!ops,
       Life!Remove
  <1>1. LifeShape'
    OBVIOUS
  <1>2. LockIsInside' /\ AdmittedIdle'
    OBVIOUS
  <1>3. SweepFences'
    OBVIOUS
  <1> QED BY <1>1, <1>2, <1>3

\* Docker is asked again.
LEMMA LifeConfirmKeeps ==
  ASSUME LifeInv, None \notin Life!Procs, NEW p \in Life!Procs, Life!Confirm(p)
  PROVE  LifeInv'
  <1> USE DEF LifeInv, LifeShape, LockIsInside, AdmittedIdle, SweepFences, Life!Goto,
       Life!Holds, Life!Release, Life!row, Life!work, Life!tx, Life!bounds, Life!ops,
       Life!Confirm, Life!ConfirmedGone
  <1>1. LifeShape'
    OBVIOUS
  <1>2. LockIsInside' /\ AdmittedIdle'
    OBVIOUS
  <1>3. SweepFences'
    OBVIOUS
  <1> QED BY <1>1, <1>2, <1>3

\* clear_container.
LEMMA LifeClearKeeps ==
  ASSUME LifeInv, None \notin Life!Procs, NEW p \in Life!Procs, Life!Clear(p)
  PROVE  LifeInv'
  <1> USE DEF LifeInv, LifeShape, LockIsInside, AdmittedIdle, SweepFences, Life!Goto,
       Life!Holds, Life!Release, Life!row, Life!work, Life!tx, Life!bounds, Life!ops,
       Life!Clear, Life!AfterStop
  <1>1. LifeShape'
    OBVIOUS
  <1>2. LockIsInside' /\ AdmittedIdle'
    OBVIOUS
  <1>3. SweepFences'
    OBVIOUS
  <1> QED BY <1>1, <1>2, <1>3

\* mark_participant_offline_best_effort.
LEMMA LifeOfflineKeeps ==
  ASSUME LifeInv, None \notin Life!Procs, NEW p \in Life!Procs, Life!Offline(p)
  PROVE  LifeInv'
  <1> USE DEF LifeInv, LifeShape, LockIsInside, AdmittedIdle, SweepFences, Life!Goto,
       Life!Holds, Life!Release, Life!row, Life!work, Life!tx, Life!bounds, Life!ops,
       Life!Offline, Life!AfterStop
  <1>1. LifeShape'
    OBVIOUS
  <1>2. LockIsInside' /\ AdmittedIdle'
    OBVIOUS
  <1>3. SweepFences'
    OBVIOUS
  <1> QED BY <1>1, <1>2, <1>3

\* The row is deleted.
LEMMA LifeEraseKeeps ==
  ASSUME LifeInv, None \notin Life!Procs, NEW p \in Life!Procs, Life!Erase(p)
  PROVE  LifeInv'
  <1> USE DEF LifeInv, LifeShape, LockIsInside, AdmittedIdle, SweepFences, Life!Goto,
       Life!Holds, Life!Release, Life!row, Life!work, Life!tx, Life!bounds, Life!ops, Life!Erase
  <1>1. LifeShape'
    OBVIOUS
  <1>2. LockIsInside' /\ AdmittedIdle'
    OBVIOUS
  <1>3. SweepFences'
    OBVIOUS
  <1> QED BY <1>1, <1>2, <1>3

\* reconcile_agent_if_container_absent_locked.
LEMMA LifeInspectKeeps ==
  ASSUME LifeInv, None \notin Life!Procs, NEW p \in Life!Procs, Life!Inspect(p)
  PROVE  LifeInv'
  <1> USE DEF LifeInv, LifeShape, LockIsInside, AdmittedIdle, SweepFences, Life!Goto,
       Life!Holds, Life!Release, Life!row, Life!work, Life!tx, Life!bounds, Life!ops,
       Life!Inspect
  <1>1. LifeShape'
    OBVIOUS
  <1>2. LockIsInside' /\ AdmittedIdle'
    OBVIOUS
  <1>3. SweepFences'
    OBVIOUS
  <1> QED BY <1>1, <1>2, <1>3

\* invalidate_active_work_for_quarantine_in_tx.
LEMMA LifeInvalidateKeeps ==
  ASSUME LifeInv, None \notin Life!Procs, NEW p \in Life!Procs, Life!Invalidate(p)
  PROVE  LifeInv'
  <1> USE DEF LifeInv, LifeShape, LockIsInside, AdmittedIdle, SweepFences, Life!Goto,
       Life!Holds, Life!Release, Life!row, Life!work, Life!tx, Life!bounds, Life!ops,
       Life!Invalidate
  <1>1. LifeShape'
    OBVIOUS
  <1>2. LockIsInside' /\ AdmittedIdle'
    OBVIOUS
  <1>3. SweepFences'
    OBVIOUS
  <1> QED BY <1>1, <1>2, <1>3

\* quarantine_container.
LEMMA LifeFenceKeeps ==
  ASSUME LifeInv, None \notin Life!Procs, NEW p \in Life!Procs, Life!Fence(p)
  PROVE  LifeInv'
  <1> USE DEF LifeInv, LifeShape, LockIsInside, AdmittedIdle, SweepFences, Life!Goto,
       Life!Holds, Life!Release, Life!row, Life!work, Life!tx, Life!bounds, Life!ops, Life!Fence
  <1>1. LifeShape'
    OBVIOUS
  <1>2. LockIsInside' /\ AdmittedIdle'
    OBVIOUS
  <1>3. SweepFences'
    OBVIOUS
  <1> QED BY <1>1, <1>2, <1>3

\* The end of the transaction.
LEMMA LifeCommitKeeps ==
  ASSUME LifeInv, None \notin Life!Procs, NEW p \in Life!Procs, Life!Commit(p)
  PROVE  LifeInv'
  <1> USE DEF LifeInv, LifeShape, LockIsInside, AdmittedIdle, SweepFences, Life!Goto,
       Life!Holds, Life!Release, Life!row, Life!work, Life!tx, Life!bounds, Life!ops,
       Life!Commit
  <1>1. LifeShape'
    OBVIOUS
  <1>2. LockIsInside' /\ AdmittedIdle'
    <2>1. \E l \in {"register", "idle"} : pc' = [pc EXCEPT ![p] = l]
      OBVIOUS
    <2>2. UNCHANGED <<kind, lost>> /\ pc[p] \in Inside
      OBVIOUS
    <2>3. working' => working
      <3>1. \/ UNCHANGED working
            \/ working' = (working /\ ~ends /\ named' # Deleted)
        OBVIOUS
      <3> QED BY ONLY <3>1, Zenon
    <2>4. lock' = IF lock = p THEN None ELSE lock
      OBVIOUS
    <2>5. LockIsInside'
      BY <2>1, <2>2, <2>4
    <2>6. AdmittedIdle'
      BY <2>2, <2>3, <2>4
    <2> QED BY <2>5, <2>6
  <1>3. SweepFences'
    OBVIOUS
  <1> QED BY <1>1, <1>2, <1>3

\* After the lock's release.
LEMMA LifeRegisterKeeps ==
  ASSUME LifeInv, None \notin Life!Procs, NEW p \in Life!Procs, Life!Register(p)
  PROVE  LifeInv'
  <1> USE DEF LifeInv, LifeShape, LockIsInside, AdmittedIdle, SweepFences, Life!Goto,
       Life!Holds, Life!Release, Life!row, Life!work, Life!tx, Life!bounds, Life!ops,
       Life!Register
  <1>1. LifeShape'
    OBVIOUS
  <1>2. LockIsInside' /\ AdmittedIdle'
    OBVIOUS
  <1>3. SweepFences'
    OBVIOUS
  <1> QED BY <1>1, <1>2, <1>3

\* A request is dropped.
LEMMA LifeDropKeeps ==
  ASSUME LifeInv, None \notin Life!Procs, NEW p \in Life!Procs, Life!Drop(p)
  PROVE  LifeInv'
  <1> USE DEF LifeInv, LifeShape, LockIsInside, AdmittedIdle, SweepFences, Life!Goto,
       Life!Holds, Life!Release, Life!row, Life!work, Life!tx, Life!bounds, Life!ops, Life!Drop
  <1>1. LifeShape'
    OBVIOUS
  <1>2. LockIsInside' /\ AdmittedIdle'
    OBVIOUS
  <1>3. SweepFences'
    OBVIOUS
  <1> QED BY <1>1, <1>2, <1>3

\* The lock's connection is lost.
LEMMA LifeLoseKeeps ==
  ASSUME LifeInv, None \notin Life!Procs, Life!LoseLock
  PROVE  LifeInv'
  <1> USE DEF LifeInv, LifeShape, LockIsInside, AdmittedIdle, SweepFences, Life!Goto,
       Life!Holds, Life!Release, Life!row, Life!work, Life!tx, Life!bounds, Life!ops,
       Life!LoseLock
  <1>1. LifeShape'
    BY Counted
  <1>2. LockIsInside' /\ AdmittedIdle'
    BY Counted
  <1>3. SweepFences'
    OBVIOUS
  <1> QED BY <1>1, <1>2, <1>3

\* Work is admitted under the lock only.
LEMMA LifeClaimKeeps ==
  ASSUME LifeInv, None \notin Life!Procs, Life!Claim \/ Life!EndWork \/ Life!Beat
  PROVE  LifeInv'
  <1> USE DEF LifeInv, LifeShape, LockIsInside, AdmittedIdle, SweepFences, Life!Goto,
       Life!Holds, Life!Release, Life!row, Life!work, Life!tx, Life!bounds, Life!ops,
       Life!Claim, Life!LockFree, Life!EndWork, Life!Beat
  <1>1. LifeShape'
    OBVIOUS
  <1>2. LockIsInside' /\ AdmittedIdle'
    <2>1. UNCHANGED <<kind, pc, lock, lost>>
      OBVIOUS
    <2>2. CASE Life!Claim
      BY <2>1, <2>2
    <2>3. CASE Life!EndWork \/ Life!Beat
      <3>1. ~working' \/ UNCHANGED working
        BY <2>3
      <3>2. LockIsInside'
        BY <2>1
      <3>3. CASE ~working'
        BY <3>2, <3>3
      <3>4. CASE UNCHANGED working
        BY <2>1, <3>2, <3>4
      <3> QED BY <3>1, <3>3, <3>4
    <2> QED BY <2>2, <2>3
  <1>3. SweepFences'
    OBVIOUS
  <1> QED BY <1>1, <1>2, <1>3

\* The container's own life.
LEMMA LifeBoxKeeps ==
  ASSUME LifeInv, None \notin Life!Procs, NEW b \in Boxes, Life!Die(b) \/ Life!Vanish(b) \/ Life!TurnBad(b)
  PROVE  LifeInv'
  <1> USE DEF LifeInv, LifeShape, LockIsInside, AdmittedIdle, SweepFences, Life!Goto,
       Life!Holds, Life!Release, Life!row, Life!work, Life!tx, Life!bounds, Life!ops,
       Life!Die, Life!Vanish, Life!TurnBad
  <1>1. LifeShape'
    OBVIOUS
  <1>2. LockIsInside' /\ AdmittedIdle'
    <2>1. UNCHANGED <<kind, pc, lock, lost, working>>
      OBVIOUS
    <2> QED BY <2>1
  <1>3. SweepFences'
    OBVIOUS
  <1> QED BY <1>1, <1>2, <1>3

\* The lifecycle lock does what it is for: stop_and_remove_container_locked meets an
\* Agent at work only in a quarantine, which ended that work first, for any requests, with
\* failing calls and dropped requests wherever they occur.
THEOREM WorkKeepsItsContainer ==
  ASSUME Life!ContainerAssumption
  PROVE  Life!Spec => WorkKeepsContainer
  <1>0. None \notin Life!Procs
    BY DEF Life!ContainerAssumption
  <1>1. Life!Init => LifeInv
    BY <1>0, LifeInit
  <1>2. LifeInv /\ [Life!Next]_(Life!vars) => LifeInv'
    <2> SUFFICES ASSUME LifeInv, [Life!Next]_(Life!vars)
                 PROVE  LifeInv'
      OBVIOUS
    <2>1. ASSUME NEW p \in Life!Procs, Life!Admit(p) \/ Life!Step(p) \/ Life!Drop(p)
          PROVE  LifeInv'
      BY <1>0, <2>1, AdmitKeeps, LifeCheckKeeps, LifeCreateKeeps, LifeSetKeeps,
           LifeDiscardKeeps, LifeLaunchKeeps, LifeUndoKeeps, LifeUnsetKeeps, LifeRemoveKeeps,
           LifeConfirmKeeps, LifeClearKeeps, LifeOfflineKeeps, LifeEraseKeeps,
           LifeInspectKeeps, LifeInvalidateKeeps, LifeFenceKeeps, LifeCommitKeeps,
           LifeRegisterKeeps, LifeDropKeeps DEF Life!Step
    <2>2. ASSUME NEW p \in Life!Procs, NEW k \in Life!Kinds \cup {"reconcile"},
                 Life!Request(p, k)
          PROVE  LifeInv'
      BY <1>0, <2>2, RequestKeeps
    <2>3. CASE Life!LoseLock
      BY <1>0, <2>3, LifeLoseKeeps
    <2>4. CASE Life!Claim \/ Life!EndWork \/ Life!Beat
      BY <1>0, <2>4, LifeClaimKeeps
    <2>5. ASSUME NEW b \in Boxes, Life!Die(b) \/ Life!Vanish(b) \/ Life!TurnBad(b)
          PROVE  LifeInv'
      BY <1>0, <2>5, LifeBoxKeeps
    <2>6. CASE UNCHANGED Life!vars
      BY <2>6 DEF Life!vars, Life!row, Life!work, Life!ops, Life!tx, Life!bounds, LifeInv,
           LifeShape, LockIsInside, AdmittedIdle, SweepFences
    <2> QED BY <2>1, <2>2, <2>3, <2>4, <2>5, <2>6 DEF Life!Next
  <1>3. LifeInv =>
          (lost = 0 => \A p \in Life!Procs : Life!Remove(p) /\ working => p \in fencing)
    BY DEF LifeInv, LockIsInside, AdmittedIdle, SweepFences, Life!Remove
  <1>4. LifeInv /\ [Life!Next]_(Life!vars) =>
          [lost = 0 => \A p \in Life!Procs : Life!Remove(p) /\ working => p \in fencing]_(Life!vars)
    BY <1>3
  <1> QED BY <1>1, <1>2, <1>4, PTL DEF Life!Spec, WorkKeepsContainer, Life!WorkKeepsContainer
=============================================================================
