---------------------------- MODULE LeaderProofs ----------------------------
(* Proofs about MCOrchestrator's leader election and the escalation of reviews that   *)
(* runs under it (Review), for any replicas, sessions, crashes, reviews, calls and    *)
(* batches.                                                                           *)
EXTENDS MCOrchestrator, FiniteSetTheorems, TLAPS

\* Types, and the numbers of kept sessions.
Shape ==
    /\ Review!ElectTypeOK
    /\ \A r \in Replicas : slot[r] # None => slot[r] \in 1..taken
    /\ holder # None => holder \in 1..taken
    /\ broken \subseteq 1..taken

\* Who may have the lock: a session some replica keeps, or one that is lost.
LockInv ==
    /\ \A r, q \in Replicas : slot[r] # None /\ slot[r] = slot[q] => r = q
    /\ Review!NoLeakedLock
    /\ Review!LeadersHoldTheLock

USE DEF Review!Sessions, Review!LeaderAssumption

\* Each step keeps the types, and the numbers of the kept sessions.
LEMMA ShapeStep ==
    Review!LeaderAssumption /\ Shape /\ [Review!ElectNext]_(Review!electVars) => Shape'
<1> SUFFICES ASSUME Review!LeaderAssumption, Shape, [Review!ElectNext]_(Review!electVars)
             PROVE  Shape'
  OBVIOUS
<1> USE DEF Shape, Review!ElectTypeOK, Review!electVars
<1>1. ASSUME NEW r \in Replicas, Review!Tick(r) \/ Review!Verify(r) \/ Review!SweepEnds(r)
      PROVE  Shape'
  BY <1>1 DEF Review!Tick, Review!Verify, Review!SweepEnds
<1>2. ASSUME NEW r \in Replicas, Review!VerifyFails(r) PROVE Shape'
  BY <1>2 DEF Review!VerifyFails, Review!Close, Review!Free
<1>3. ASSUME NEW r \in Replicas, Review!Elect(r) PROVE Shape'
  <2>1. CASE at' = [at EXCEPT ![r] = "waiting"]
    BY <1>3, <2>1 DEF Review!Elect
  <2>2. CASE at' = [at EXCEPT ![r] = "sweeping"]
    <3>1. taken < MaxSessions /\ taken' = taken + 1 /\ slot' = [slot EXCEPT ![r] = taken']
          /\ (holder' = taken' \/ holder' = holder) /\ UNCHANGED <<broken, crashes>>
      BY <1>3, <2>2 DEF Review!Elect
    <3>2. taken' \in 0..MaxSessions /\ taken' \in 1..taken' /\ taken' \in Review!Sessions
          /\ 1..taken \subseteq 1..taken'
      BY <3>1
    <3> QED
      BY <3>1, <3>2, <2>2
  <2> QED
    BY <1>3, <2>1, <2>2 DEF Review!Elect
<1>4. ASSUME NEW r \in Replicas, Review!ElectFails(r) PROVE Shape'
  <2>1. CASE UNCHANGED <<holder, broken, taken>>
    BY <1>4, <2>1 DEF Review!ElectFails
  <2>2. CASE ~UNCHANGED <<holder, broken, taken>>
    <3>1. taken < MaxSessions /\ taken' = taken + 1 /\ holder' = taken'
          /\ broken' = broken \cup {taken'} /\ UNCHANGED <<slot, crashes>>
          /\ at' = [at EXCEPT ![r] = "waiting"]
      BY <1>4, <2>2 DEF Review!ElectFails
    <3>2. taken' \in 0..MaxSessions /\ taken' \in 1..taken' /\ taken' \in Review!Sessions
          /\ 1..taken \subseteq 1..taken'
      BY <3>1
    <3> QED
      BY <3>1, <3>2, <1>4 DEF Review!ElectFails
  <2> QED
    BY <2>1, <2>2
<1>5. ASSUME NEW s \in Review!Sessions, Review!Break(s) \/ Review!ServerEnds(s) PROVE Shape'
  BY <1>5 DEF Review!Break, Review!ServerEnds
<1>6. ASSUME NEW r \in Replicas, Review!Crash(r) PROVE Shape'
  <2>1. /\ slot' = [slot EXCEPT ![r] = None] /\ at' = [at EXCEPT ![r] = "waiting"]
        /\ crashes' = crashes + 1 /\ crashes < MaxCrashes /\ UNCHANGED <<holder, taken>>
    BY <1>6 DEF Review!Crash
  <2>2. broken' \subseteq 1..taken
    BY <1>6 DEF Review!Crash
  <2> QED
    BY <2>1, <2>2
<1>7. CASE UNCHANGED Review!electVars
  BY <1>7
<1> QED
  BY <1>1, <1>2, <1>3, <1>4, <1>5, <1>6, <1>7 DEF Review!ElectNext, Review!Loop, Review!Network

\* Each step keeps what may have the lock.
LEMMA LockStep ==
    Review!LeaderAssumption /\ Shape /\ LockInv /\ [Review!ElectNext]_(Review!electVars) => LockInv'
<1> SUFFICES ASSUME Review!LeaderAssumption, Shape, LockInv, [Review!ElectNext]_(Review!electVars)
             PROVE  LockInv'
  OBVIOUS
<1> USE DEF Shape, Review!ElectTypeOK, LockInv, Review!NoLeakedLock, Review!LeadersHoldTheLock,
       Review!electVars
<1>1. ASSUME NEW r \in Replicas, Review!Tick(r) \/ Review!Verify(r) \/ Review!SweepEnds(r)
      PROVE  LockInv'
  BY <1>1 DEF Review!Tick, Review!Verify, Review!SweepEnds
<1>2. ASSUME NEW r \in Replicas, Review!VerifyFails(r) PROVE LockInv'
  BY <1>2 DEF Review!VerifyFails, Review!Close, Review!Free
<1>3. ASSUME NEW r \in Replicas, Review!Elect(r) PROVE LockInv'
  BY <1>3 DEF Review!Elect, Review!LockIsFree
<1>4. ASSUME NEW r \in Replicas, Review!ElectFails(r) PROVE LockInv'
  BY <1>4 DEF Review!ElectFails
<1>5. ASSUME NEW s \in Review!Sessions, Review!Break(s) \/ Review!ServerEnds(s) PROVE LockInv'
  BY <1>5 DEF Review!Break, Review!ServerEnds
<1>6. ASSUME NEW r \in Replicas, Review!Crash(r) PROVE LockInv'
  BY <1>6 DEF Review!Crash
<1>7. CASE UNCHANGED Review!electVars
  BY <1>7
<1> QED
  BY <1>1, <1>2, <1>3, <1>4, <1>5, <1>6, <1>7 DEF Review!ElectNext, Review!Loop, Review!Network

\* The election starts in a state of the invariant.
LEMMA Initially == Review!LeaderAssumption /\ Review!ElectInit => Shape /\ LockInv
BY DEF Review!ElectInit, Shape, Review!ElectTypeOK, LockInv, Review!NoLeakedLock,
       Review!LeadersHoldTheLock

\* Types of the election's state.
THEOREM ElectTypeCorrect ==
    ASSUME Review!LeaderAssumption PROVE Review!ElectSpec => []Review!ElectTypeOK
<1>1. Shape => Review!ElectTypeOK
  BY DEF Shape
<1> QED
  BY <1>1, Initially, ShapeStep, PTL DEF Review!ElectSpec

\* No path leaks the lock, and a replica that leads without it lost its session.
THEOREM LockIsKept ==
    ASSUME Review!LeaderAssumption
    PROVE  Review!ElectSpec => [](Review!NoLeakedLock /\ Review!LeadersHoldTheLock)
<1>1. LockInv => Review!NoLeakedLock /\ Review!LeadersHoldTheLock
  BY DEF LockInv
<1> QED
  BY <1>1, Initially, ShapeStep, LockStep, PTL DEF Review!ElectSpec

-----------------------------------------------------------------------------
(* The escalation of reviews, under that lock *)

\* A sweep of the replica is about to tell of the review.
Tells(r, v) == telling[r] # None /\ v \in telling[r]

\* A review is in one sweep, which escalated it before anybody told of it.
TellInv ==
    \A v \in Reviews :
        /\ told[v] <= 1
        /\ told[v] > 0 => v \in escalated
        /\ \A r \in Replicas : Tells(r, v) => v \in escalated /\ told[v] = 0
        /\ \A r, q \in Replicas : Tells(r, v) /\ Tells(q, v) => r = q

\* ToldOnce is not inductive by itself: a review nobody told of may have been taken.
ReviewInv == Review!TypeOK /\ Shape /\ LockInv /\ TellInv /\ Review!CompletedIsApproved

LEMMA ReviewInit == Review!ReviewAssumption /\ Review!Init => ReviewInv
<1> SUFFICES ASSUME Review!ReviewAssumption, Review!Init PROVE ReviewInv
  OBVIOUS
<1>1. Shape /\ LockInv
  BY Initially DEF Review!Init, Review!ReviewAssumption
<1>2. Review!TypeOK
  BY <1>1 DEF Review!Init, Review!TypeOK, Shape, Review!ReviewAssumption
<1> QED
  BY <1>1, <1>2 DEF Review!Init, ReviewInv, TellInv, Tells, Review!CompletedIsApproved

\* A step of the reviews is a step of the election or leaves it alone.
LEMMA ElectionStep == [Review!Next]_(Review!vars) => [Review!ElectNext]_(Review!electVars)
BY DEF Review!Next, Review!vars, Review!ElectNext, Review!Loop, Review!Create, Review!PassDue,
       Review!CheckVerdict, Review!ApplyVerdict, Review!Lead, Review!Reap, Review!ReapFails,
       Review!Tell, Review!EndTick, Review!ReplicaCrash

LEMMA VerdictStep ==
  ASSUME Review!ReviewAssumption, ReviewInv, NEW c \in Calls,
         Review!CheckVerdict(c) \/ Review!ApplyVerdict(c)
  PROVE  Review!TypeOK' /\ TellInv' /\ Review!CompletedIsApproved'
<1> USE DEF ReviewInv, Review!TypeOK, TellInv, Tells, Review!CompletedIsApproved,
       Review!ElectTypeOK, Review!electVars
<1>1. CASE Review!CheckVerdict(c)
  BY <1>1 DEF Review!CheckVerdict, Review!rows
<1>2. CASE Review!ApplyVerdict(c)
  <2>1. PICK w \in Reviews, verdict \in Review!Verdicts : call[c] = <<w, verdict>>
    BY <1>2 DEF Review!ApplyVerdict
  <2>2. review' = [review EXCEPT ![w] = verdict] /\ task' = Review!TaskAfter(verdict)
    BY <1>2, <2>1 DEF Review!ApplyVerdict
  <2>3. Review!CompletedIsApproved'
    BY <2>2 DEF Review!TaskAfter, Review!Verdicts
  <2>4. Review!TypeOK'
    BY <1>2, <2>2 DEF Review!ApplyVerdict, Review!TaskAfter, Review!Verdicts
  <2> QED
    BY <1>2, <2>3, <2>4 DEF Review!ApplyVerdict
<1> QED
  BY <1>1, <1>2

LEMMA SweepStep ==
  ASSUME Review!ReviewAssumption, ReviewInv, Review!ElectTypeOK', NEW r \in Replicas,
         \/ Review!Reap(r) \/ Review!ReapFails(r) \/ Review!Tell(r)
         \/ Review!EndTick(r) \/ Review!ReplicaCrash(r)
  PROVE  Review!TypeOK' /\ TellInv' /\ Review!CompletedIsApproved'
<1> USE DEF ReviewInv, Review!TypeOK, TellInv, Tells, Review!CompletedIsApproved
<1>1. CASE Review!Reap(r)
  <2>1. PICK some \in SUBSET Review!Overdue :
            escalated' = escalated \cup some /\ telling' = [telling EXCEPT ![r] = some]
    BY <1>1 DEF Review!Reap
  <2>2. Review!TypeOK'
    BY <1>1, <2>1 DEF Review!Reap, Review!Overdue, Review!electVars
  <2>3. some \cap escalated = {} /\ some \subseteq Reviews
    BY DEF Review!Overdue
  \* Nobody told of what was not escalated, and no sweep has it.
  <2>4. TellInv'
    BY <1>1, <2>1, <2>3 DEF Review!Reap
  <2> QED
    BY <1>1, <2>2, <2>4 DEF Review!Reap
<1>2. CASE Review!ReapFails(r)
  BY <1>2 DEF Review!ReapFails, Review!electVars, Review!rows
<1>3. CASE Review!Tell(r)
  <2>1. PICK v \in telling[r] :
            /\ told[v] < MaxTold
            /\ told' = [told EXCEPT ![v] = @ + 1]
            /\ telling' = [telling EXCEPT ![r] = @ \ {v}]
    BY <1>3 DEF Review!Tell
  <2>2. telling[r] # None /\ telling[r] \in SUBSET escalated /\ v \in Reviews
    BY <1>3 DEF Review!Tell
  <2>3. told[v] = 0 /\ \A q \in Replicas : Tells(q, v) => q = r
    BY <2>1, <2>2
  <2>4. Review!TypeOK'
    BY <1>3, <2>1, <2>2 DEF Review!Tell, Review!electVars, Review!rows, Review!ReviewAssumption
  <2>5. TellInv'
    BY <1>3, <2>1, <2>2, <2>3 DEF Review!Tell, Review!rows
  <2> QED
    BY <1>3, <2>4, <2>5 DEF Review!Tell, Review!rows
<1>4. CASE Review!EndTick(r)
  BY <1>4 DEF Review!EndTick, Review!Forget, Review!SweepEnds, Review!rows, Review!ElectTypeOK
<1>5. CASE Review!ReplicaCrash(r)
  BY <1>5 DEF Review!ReplicaCrash, Review!Forget, Review!Crash, Review!rows, Review!ElectTypeOK
<1> QED
  BY <1>1, <1>2, <1>3, <1>4, <1>5

LEMMA ReviewStep ==
    Review!ReviewAssumption /\ ReviewInv /\ [Review!Next]_(Review!vars) => ReviewInv'
<1> SUFFICES ASSUME Review!ReviewAssumption, ReviewInv, [Review!Next]_(Review!vars) PROVE ReviewInv'
  OBVIOUS
<1>1. Shape' /\ LockInv'
  BY ElectionStep, ShapeStep, LockStep DEF ReviewInv, Review!ReviewAssumption
<1>2. Review!ElectTypeOK'
  BY <1>1 DEF Shape
<1>3. ASSUME NEW r \in Replicas, Review!Lead(r)
      PROVE  Review!TypeOK' /\ TellInv' /\ Review!CompletedIsApproved'
  BY <1>2, <1>3 DEF Review!Lead, Review!Tick, Review!Verify, Review!VerifyFails, Review!Elect,
       Review!rVars, Review!rows, ReviewInv, Review!TypeOK, TellInv, Tells,
       Review!CompletedIsApproved, Review!ElectTypeOK
<1>4. ASSUME NEW r \in Replicas, Review!ElectFails(r), UNCHANGED Review!rVars
      PROVE  Review!TypeOK' /\ TellInv' /\ Review!CompletedIsApproved'
  BY <1>2, <1>4 DEF Review!ElectFails, Review!rVars, Review!rows, ReviewInv, Review!TypeOK,
       TellInv, Tells, Review!CompletedIsApproved, Review!ElectTypeOK
<1>5. CASE (Review!Network /\ UNCHANGED Review!rVars) \/ UNCHANGED Review!vars
  <2>1. UNCHANGED <<at, Review!rVars>>
    BY <1>5 DEF Review!Network, Review!Break, Review!ServerEnds, Review!vars, Review!electVars
  <2>2. UNCHANGED <<at, review, overdue, escalated, task, told, telling, call>>
    BY <2>1 DEF Review!rVars, Review!rows
  <2>3. Review!TypeOK'
    BY <1>2, <2>2 DEF ReviewInv, Review!TypeOK
  <2>4. TellInv' /\ Review!CompletedIsApproved'
    BY <2>2 DEF ReviewInv, TellInv, Tells, Review!CompletedIsApproved
  <2> QED
    BY <1>1, <2>3, <2>4 DEF ReviewInv
<1>6. ASSUME NEW v \in Reviews, Review!Create(v) \/ Review!PassDue(v)
      PROVE  Review!TypeOK' /\ TellInv' /\ Review!CompletedIsApproved'
  BY <1>6 DEF Review!Create, Review!PassDue, ReviewInv, Review!TypeOK, TellInv, Tells,
       Review!CompletedIsApproved, Review!ElectTypeOK, Review!electVars, Review!Verdicts
<1>7. ASSUME NEW c \in Calls, Review!CheckVerdict(c) \/ Review!ApplyVerdict(c)
      PROVE  Review!TypeOK' /\ TellInv' /\ Review!CompletedIsApproved'
  BY <1>7, VerdictStep
<1> QED
  BY <1>1, <1>2, <1>3, <1>4, <1>5, <1>6, <1>7, SweepStep DEF Review!Next, ReviewInv

\* The instance counts as the library does.
LEMMA SameCardinality == \A S : Review!Cardinality(S) = Cardinality(S)
BY Zenon DEF Review!Cardinality, Cardinality

\* "Exactly once, ever": counted over all replicas that believe that they lead.
LEMMA TellingOnce == ReviewInv => Review!ToldOnce
<1> SUFFICES ASSUME ReviewInv, NEW v \in Reviews
             PROVE  told[v] + Cardinality({r \in Replicas : telling[r] # None /\ v \in telling[r]}) <= 1
  BY SameCardinality DEF Review!ToldOnce
<1> DEFINE sweeps == {r \in Replicas : Tells(r, v)}
<1>1. told[v] \in {0, 1}
  BY DEF ReviewInv, TellInv, Review!TypeOK
<1>2. CASE sweeps = {}
  <2>1. Cardinality(sweeps) = 0
    BY <1>2, FS_EmptySet
  <2> QED
    BY <1>1, <2>1 DEF Tells
<1>3. CASE sweeps # {}
  <2>1. PICK r \in Replicas : sweeps = {r} /\ told[v] = 0
    BY <1>3 DEF ReviewInv, TellInv
  <2>2. Cardinality(sweeps) = 1
    BY <2>1, FS_Singleton
  <2> QED
    BY <2>1, <2>2 DEF Tells
<1> QED
  BY <1>2, <1>3

\* No review is told of twice, whoever believes that it leads and whenever it dies, a
\* completed task has an approved review, and the lock of the loop is not leaked.
THEOREM EscalationIsSound == ASSUME Review!ReviewAssumption PROVE Review!Spec => []EscalationSound
<1>1. ReviewInv => EscalationSound
  BY TellingOnce DEF ReviewInv, LockInv, EscalationSound, Review!EscalationSound
<1> QED
  BY <1>1, ReviewInit, ReviewStep, PTL DEF Review!Spec

\* The loop that sweeps is elected as leader.rs elects any: what holds of the election
\* holds of it.
THEOREM ReviewsImplementElection == Review!Spec => Review!ElectSpec
<1>1. Review!Init => Review!ElectInit
  BY DEF Review!Init
<1> QED
  BY <1>1, ElectionStep, PTL DEF Review!Spec, Review!ElectSpec
=============================================================================
