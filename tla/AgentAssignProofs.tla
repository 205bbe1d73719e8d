------------------------- MODULE AgentAssignProofs -------------------------
(* Proofs about the orchestrator's task dispatch, for any number of dispatches. *)
EXTENDS AgentAssign, TLAPS

Late == {"record", "prompt", "work", "finish"}

\* The part of the type invariant the other proofs need.
Shape ==
    /\ state \in States
    /\ session \in Dispatches \cup {None}
    /\ dispatch \in [Dispatches -> {"none", "queued", "starting", "started", "failed"}]
    /\ stale \subseteq Dispatches
    /\ spawn \in [Dispatches -> {"start", "create", "name", "record", "prompt", "work", "finish", "gone"}]
    /\ prompted \subseteq Dispatches
    /\ asking \in 0..1
    /\ intent \in States \cup {None}

\* What a spawn has done by each of its steps.
Progress ==
    /\ \A d \in Dispatches : Driven(d) => dispatch[d] # "none"
    /\ \A d \in Dispatches : dispatch[d] = "started" => d \in prompted
    /\ \A d \in Dispatches : spawn[d] \in {"work", "finish"} => d \in prompted

\* The migration's index, and what it gives a living spawn that keeps its time.
Ownership ==
    /\ \A d, e \in Active : d = e
    /\ \A d \in Dispatches : Driven(d) => d \in Active /\ d \notin stale
    /\ \A d \in Dispatches : dispatch[d] = "none" => d \notin stale
    /\ \A d \in Dispatches : spawn[d] \in Late => session = d
    /\ \A d \in Dispatches : dispatch[d] = "started" /\ Used = 1..d => session = d

\* Every step of the program keeps the shape of the rows.
LEMMA ShapeStep == Shape /\ [Next]_vars => Shape'
<1> SUFFICES ASSUME Shape, [Next]_vars PROVE Shape'
  OBVIOUS
<1> USE DEF Shape, vars, At, Then
<1>1. CASE Assign \/ DispatchConflict \/ AssignOnly
  <2>1. "assigned" \in States
    BY DEF States
  <2>2. CASE Assign
    BY <2>1, <2>2 DEF Assign
  <2>3. CASE DispatchConflict \/ AssignOnly
    BY <2>3 DEF DispatchConflict, AssignOnly
  <2> QED
    BY <1>1, <2>2, <2>3
<1>2. CASE CreateDispatch
  BY <1>2 DEF CreateDispatch, Dispatches
<1>3. ASSUME NEW d \in Dispatches, NEW status \in {"starting", "started", "failed"}, Record(d, status)
      PROVE  /\ dispatch' \in [Dispatches -> {"none", "queued", "starting", "started", "failed"}]
             /\ stale' \subseteq Dispatches
  BY <1>3 DEF Record, Updated
<1>4. ASSUME NEW d \in Dispatches, Step(d) \/ SpawnFails(d) PROVE Shape'
  <2>1. CASE MarkStarting(d)
    BY <1>3, <2>1 DEF MarkStarting
  <2>2. CASE CreateSession(d)
    BY <2>2 DEF CreateSession
  <2>3. CASE SetSession(d)
    BY <2>3 DEF SetSession
  <2>4. CASE RecordSession(d)
    BY <1>3, <2>4 DEF RecordSession
  <2>5. CASE Prompt(d)
    BY <2>5 DEF Prompt
  <2>6. CASE Work(d)
    BY <2>6 DEF Work, States
  <2>7. CASE MarkStarted(d)
    BY <1>3, <2>7 DEF MarkStarted
  <2>8. CASE SpawnFails(d)
    BY <1>3, <2>8 DEF SpawnFails
  <2> QED
    BY <1>4, <2>1, <2>2, <2>3, <2>4, <2>5, <2>6, <2>7, <2>8 DEF Step
<1>5. CASE Reap
  BY <1>5 DEF Reap, Stuck, States
<1>6. ASSUME NEW d \in Dispatches, Age(d) PROVE Shape'
  BY <1>6 DEF Age
<1>7. CASE Crash
  BY <1>7 DEF Crash
<1>8. CASE TransitionCheck
  BY <1>8 DEF TransitionCheck
<1>9. CASE TransitionWrite
  BY <1>9 DEF TransitionWrite
<1>10. CASE UNCHANGED vars
  BY <1>10
<1> QED
  BY <1>1, <1>2, <1>4, <1>5, <1>6, <1>7, <1>8, <1>9, <1>10 DEF Next

\* A dispatch is started only after its session got the prompt.
LEMMA ProgressStep == Shape /\ Progress /\ [Next]_vars => Progress'
<1> SUFFICES ASSUME Shape, Progress, [Next]_vars PROVE Progress'
  OBVIOUS
<1> USE DEF Shape, Progress, vars, At, Then, Driven
<1>1. CASE Assign \/ DispatchConflict \/ AssignOnly
  BY <1>1 DEF Assign, DispatchConflict, AssignOnly
<1>2. CASE CreateDispatch
  BY <1>2 DEF CreateDispatch
<1>4. ASSUME NEW d \in Dispatches, Step(d) \/ SpawnFails(d) PROVE Progress'
  <2>1. CASE MarkStarting(d)
    BY <2>1 DEF MarkStarting, Record, Updated
  <2>2. CASE CreateSession(d)
    BY <2>2 DEF CreateSession
  <2>3. CASE SetSession(d)
    BY <2>3 DEF SetSession
  <2>4. CASE RecordSession(d)
    BY <2>4 DEF RecordSession, Record, Updated
  <2>5. CASE Prompt(d)
    BY <2>5 DEF Prompt
  <2>6. CASE Work(d)
    BY <2>6 DEF Work
  <2>7. CASE MarkStarted(d)
    BY <2>7 DEF MarkStarted, Record, Updated
  <2>8. CASE SpawnFails(d)
    BY <2>8 DEF SpawnFails, Record, Updated
  <2> QED
    BY <1>4, <2>1, <2>2, <2>3, <2>4, <2>5, <2>6, <2>7, <2>8 DEF Step
<1>5. CASE Reap
  BY <1>5 DEF Reap, Stuck
<1>6. ASSUME NEW d \in Dispatches, Age(d) PROVE Progress'
  BY <1>6 DEF Age
<1>7. CASE Crash
  BY <1>7 DEF Crash
<1>8. CASE TransitionCheck \/ TransitionWrite
  BY <1>8 DEF TransitionCheck, TransitionWrite
<1>10. CASE UNCHANGED vars
  BY <1>10
<1> QED
  BY <1>1, <1>2, <1>4, <1>5, <1>6, <1>7, <1>8, <1>10 DEF Next

\* Types, and no started dispatch without a prompt.
THEOREM TypeCorrect == Spec => []TypeOK
<1>1. Init => Shape /\ Progress
  BY DEF Init, Shape, Progress, Driven, States
<1>2. Shape /\ Progress => TypeOK
  BY DEF Shape, Progress, TypeOK, Driven
<1> QED
  BY <1>1, <1>2, ShapeStep, ProgressStep, PTL DEF Spec

\* With spawns that keep their time the index gives each dispatch the task for
\* itself: one step at a time.
LEMMA OwnershipStep == Timely /\ Shape /\ Progress /\ Ownership /\ [Next]_vars => Ownership'
<1> SUFFICES ASSUME Timely, Shape, Progress, Ownership, [Next]_vars PROVE Ownership'
  OBVIOUS
<1> USE DEF Shape, Progress, Ownership, vars, At, Then, Driven, Active, Used, Late
<1>1. CASE Assign \/ DispatchConflict \/ AssignOnly
  BY <1>1 DEF Assign, DispatchConflict, AssignOnly
<1>2. CASE CreateDispatch
  BY <1>2 DEF CreateDispatch
<1>4. ASSUME NEW d \in Dispatches, Step(d) \/ SpawnFails(d) PROVE Ownership'
  <2>1. CASE MarkStarting(d)
    BY <2>1 DEF MarkStarting, Record, Updated
  <2>2. CASE CreateSession(d)
    BY <2>2 DEF CreateSession
  <2>3. CASE SetSession(d)
    BY <2>3 DEF SetSession
  <2>4. CASE RecordSession(d)
    BY <2>4 DEF RecordSession, Record, Updated
  <2>5. CASE Prompt(d)
    BY <2>5 DEF Prompt
  <2>6. CASE Work(d)
    BY <2>6 DEF Work
  <2>7. CASE MarkStarted(d)
    BY <2>7 DEF MarkStarted, Record, Updated
  <2>8. CASE SpawnFails(d)
    BY <2>8 DEF SpawnFails, Record, Updated
  <2> QED
    BY <1>4, <2>1, <2>2, <2>3, <2>4, <2>5, <2>6, <2>7, <2>8 DEF Step
<1>5. CASE Reap
  BY <1>5 DEF Reap, Stuck
<1>6. ASSUME NEW d \in Dispatches, Age(d) PROVE Ownership'
  BY <1>6 DEF Age
<1>7. CASE Crash
  BY <1>7 DEF Crash
<1>8. CASE TransitionCheck \/ TransitionWrite
  BY <1>8 DEF TransitionCheck, TransitionWrite
<1>10. CASE UNCHANGED vars
  BY <1>10
<1> QED
  BY <1>1, <1>2, <1>4, <1>5, <1>6, <1>7, <1>8, <1>10 DEF Next

\* As long as no spawn outlives the TTL, one dispatch at a time drives the task,
\* and the started one is the one whose session the task names.
THEOREM OneDriverAtATime ==
    ASSUME Timely
    PROVE  Spec => [](OneDriver /\ SessionOfStarted)
<1>1. Init => Shape /\ Progress /\ Ownership
  BY DEF Init, Shape, Progress, Ownership, Driven, States, Active, Used, Late
<1>2. Ownership => OneDriver /\ SessionOfStarted
  BY DEF Ownership, OneDriver, SessionOfStarted
<1>3. Shape /\ Progress /\ Ownership /\ [Next]_vars => Ownership'
  BY OwnershipStep
<1> QED
  BY <1>1, <1>2, <1>3, ShapeStep, ProgressStep, PTL DEF Spec

\* No step moves a failed dispatch, in whatever state its spawn is.
LEMMA FailedStaysStep ==
    Shape /\ Progress /\ [Next]_vars => \A d \in Dispatches : dispatch[d] = "failed" => dispatch'[d] = "failed"
<1> SUFFICES ASSUME Shape, Progress, [Next]_vars, NEW d \in Dispatches, dispatch[d] = "failed"
             PROVE  dispatch'[d] = "failed"
  OBVIOUS
<1> USE DEF Shape, Progress, vars
<1>1. CASE CreateDispatch
  BY <1>1 DEF CreateDispatch, Used, Dispatches
<1>2. ASSUME NEW e \in Dispatches, Step(e) \/ SpawnFails(e) PROVE dispatch'[d] = "failed"
  BY <1>2 DEF Step, SpawnFails, MarkStarting, CreateSession, SetSession, RecordSession, Prompt, Work, MarkStarted,
              Record, Updated
<1>3. CASE Reap
  BY <1>3 DEF Reap, Stuck
<1>4. CASE Assign \/ DispatchConflict \/ AssignOnly \/ Crash \/ TransitionCheck \/ TransitionWrite
  BY <1>4 DEF Assign, DispatchConflict, AssignOnly, Crash, TransitionCheck, TransitionWrite
<1>5. ASSUME NEW e \in Dispatches, Age(e) PROVE dispatch'[d] = "failed"
  BY <1>5 DEF Age
<1>6. CASE UNCHANGED vars
  BY <1>6
<1> QED
  BY <1>1, <1>2, <1>3, <1>4, <1>5, <1>6 DEF Next

\* The reaper's verdict is final.
THEOREM FailedIsFinal == Spec => FailedStays
<1>1. Init => Shape /\ Progress
  BY DEF Init, Shape, Progress, Driven, States
<1>2. Shape /\ Progress /\ [Next]_vars
        => [\A d \in Dispatches : dispatch[d] = "failed" => dispatch'[d] = "failed"]_vars
  BY FailedStaysStep
<1> QED
  BY <1>1, <1>2, ShapeStep, ProgressStep, PTL DEF Spec, FailedStays
=============================================================================
