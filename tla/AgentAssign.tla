---------------------------- MODULE AgentAssign ----------------------------
(* One task of the workflow orchestrator and its dispatches: the assign request *)
(* and the spawned dispatch of task/handler.rs over the statements of           *)
(* task/repository.rs, the dispatch reaper, and a user's state transitions.     *)
(* Dispatches are numbered in the order of their rows.                          *)
EXTENDS Naturals

CONSTANTS
    MaxDispatches,  \* bound: rows of task_dispatches for the task
    Timely,         \* a living spawn never takes longer than the TTL
    Reliable,       \* no statement and no call to the Agent gateway fails
    None

ASSUME AgentAssignAssumption ==
    /\ MaxDispatches \in Nat
    /\ Timely \in BOOLEAN /\ Reliable \in BOOLEAN
    /\ None \notin Nat

Dispatches == 1..MaxDispatches

States == {"pending", "assigned", "working", "review", "changes_requested", "failed", "completed"}

VARIABLES
    state, session,   \* tasks.state and tasks.agentforge_session_id
    dispatch,         \* task_dispatches.status
    stale,            \* updated_at is older than the TTL
    spawn,            \* the next step of the dispatch's spawned task
    prompted,         \* dispatches whose session got the task's prompt
    asking,           \* assign requests between their UPDATE and create_dispatch
    intent            \* a transition request that passed its check, or None

vars == <<state, session, dispatch, stale, spawn, prompted, asking, intent>>

TypeOK ==
    /\ state \in States
    /\ session \in Dispatches \cup {None}
    /\ dispatch \in [Dispatches -> {"none", "queued", "starting", "started", "failed"}]
    /\ stale \subseteq Dispatches
    /\ spawn \in [Dispatches -> {"start", "create", "name", "record", "prompt", "work", "finish", "gone"}]
    /\ prompted \subseteq Dispatches
    /\ asking \in 0..1
    /\ intent \in States \cup {None}
    /\ \A d \in Dispatches : spawn[d] # "gone" => dispatch[d] # "none"
    /\ \A d \in Dispatches : dispatch[d] = "started" => d \in prompted

Init ==
    /\ state = "pending" /\ session = None
    /\ dispatch = [d \in Dispatches |-> "none"]
    /\ stale = {} /\ spawn = [d \in Dispatches |-> "gone"] /\ prompted = {}
    /\ asking = 0 /\ intent = None

Used == {d \in Dispatches : dispatch[d] # "none"}
Driven(d) == spawn[d] # "gone"

-----------------------------------------------------------------------------
(* The assign request *)

\* PgTaskStore::assign. Bound: one request at a time between its two statements.
Assign ==
    /\ state \in {"pending", "failed"}
    /\ asking = 0
    /\ state' = "assigned"
    /\ asking' = 1
    /\ UNCHANGED <<session, dispatch, stale, spawn, prompted, intent>>

\* Mutant: a queued dispatch is not active yet.
ActiveOnceStarting == {d \in Dispatches : dispatch[d] \in {"starting", "started"}}

\* The partial unique index of migration 013.
Active == {d \in Dispatches : dispatch[d] \in {"queued", "starting", "started"}}

\* PgTaskStore::create_dispatch and the spawn.
CreateDispatch ==
    /\ asking > 0
    /\ Active = {}
    /\ \E d \in Dispatches :
          /\ Used = 1..(d - 1)
          /\ dispatch' = [dispatch EXCEPT ![d] = "queued"]
          /\ spawn' = [spawn EXCEPT ![d] = "start"]
    /\ asking' = 0
    /\ UNCHANGED <<state, session, stale, prompted, intent>>

\* The index refuses a second active dispatch.
DispatchConflict ==
    /\ asking > 0
    /\ Active # {}
    /\ asking' = 0
    /\ UNCHANGED <<state, session, dispatch, stale, spawn, prompted, intent>>

\* The request names no agent_provider, or its next statement fails.
AssignOnly ==
    /\ asking > 0
    /\ asking' = 0
    /\ UNCHANGED <<state, session, dispatch, stale, spawn, prompted, intent>>

-----------------------------------------------------------------------------
(* The spawned dispatch *)

\* PgTaskStore::update_dispatch: WHERE ... AND status NOT IN ('failed').
Updated(d, status) == IF dispatch[d] = "failed" THEN dispatch ELSE [dispatch EXCEPT ![d] = status]

\* The write of a status, whose failure is only logged.
Record(d, status) ==
    \/ /\ dispatch' = Updated(d, status)
       /\ stale' = stale \ {d}
    \/ ~ Reliable /\ UNCHANGED <<dispatch, stale>>

At(d, step) == spawn[d] = step
Then(d, step) == spawn' = [spawn EXCEPT ![d] = step]

MarkStarting(d) ==
    /\ At(d, "start") /\ Then(d, "create")
    /\ Record(d, "starting")
    /\ UNCHANGED <<state, session, prompted, asking, intent>>

\* session_create of the Agent gateway.
CreateSession(d) ==
    /\ At(d, "create") /\ Then(d, "name")
    /\ UNCHANGED <<state, session, dispatch, stale, prompted, asking, intent>>

SetSession(d) ==
    /\ At(d, "name") /\ Then(d, "record")
    /\ session' = d
    /\ UNCHANGED <<state, dispatch, stale, prompted, asking, intent>>

RecordSession(d) ==
    /\ At(d, "record") /\ Then(d, "prompt")
    /\ Record(d, "starting")
    /\ UNCHANGED <<state, session, prompted, asking, intent>>

Prompt(d) ==
    /\ At(d, "prompt") /\ Then(d, "work")
    /\ prompted' = prompted \cup {d}
    /\ UNCHANGED <<state, session, dispatch, stale, asking, intent>>

\* update_state(Working) has no condition on the old state.
Work(d) ==
    /\ At(d, "work") /\ Then(d, "finish")
    /\ state' = "working"
    /\ UNCHANGED <<session, dispatch, stale, prompted, asking, intent>>

MarkStarted(d) ==
    /\ At(d, "finish") /\ Then(d, "gone")
    /\ Record(d, "started")
    /\ UNCHANGED <<state, session, prompted, asking, intent>>

\* A call or statement failed whose failure ends the dispatch.
SpawnFails(d) ==
    /\ ~ Reliable
    /\ spawn[d] \in {"create", "name", "prompt", "work"}
    /\ Then(d, "gone")
    /\ Record(d, "failed")
    /\ UNCHANGED <<state, session, prompted, asking, intent>>

Step(d) ==
    \/ MarkStarting(d) \/ CreateSession(d) \/ SetSession(d) \/ RecordSession(d)
    \/ Prompt(d) \/ Work(d) \/ MarkStarted(d)

-----------------------------------------------------------------------------
(* The reaper, time and crashes *)

\* Mutant: only starting dispatches are aged out.
StuckStarting == {d \in stale : dispatch[d] = "starting"}

\* The stuck rows of REAP_STUCK_DISPATCHES_SQL.
Stuck == {d \in stale : dispatch[d] \in {"queued", "starting"}}

Reap ==
    /\ Stuck # {}
    /\ dispatch' = [d \in Dispatches |-> IF d \in Stuck THEN "failed" ELSE dispatch[d]]
    /\ stale' = stale \ Stuck
    /\ state' = IF state = "assigned" THEN "pending" ELSE state
    /\ UNCHANGED <<session, spawn, prompted, asking, intent>>

Age(d) ==
    /\ dispatch[d] \in {"queued", "starting"} /\ d \notin stale
    /\ Timely => ~ Driven(d)
    /\ stale' = stale \cup {d}
    /\ UNCHANGED <<state, session, dispatch, spawn, prompted, asking, intent>>

\* The process ends, with every spawn and every request.
Crash ==
    /\ spawn' = [d \in Dispatches |-> "gone"]
    /\ asking' = 0 /\ intent' = None
    /\ UNCHANGED <<state, session, dispatch, stale, prompted>>

-----------------------------------------------------------------------------
(* Transitions by users *)

\* valid_transitions
Transitions == {
    <<"pending", "assigned">>, <<"assigned", "working">>, <<"assigned", "pending">>,
    <<"working", "review">>, <<"working", "failed">>,
    <<"review", "completed">>, <<"review", "changes_requested">>,
    <<"changes_requested", "working">>, <<"failed", "pending">>}

TransitionCheck ==
    /\ intent = None
    /\ \E to \in States : <<state, to>> \in Transitions /\ intent' = to
    /\ UNCHANGED <<state, session, dispatch, stale, spawn, prompted, asking>>

TransitionWrite ==
    /\ intent # None
    /\ state' = intent
    /\ intent' = None
    /\ UNCHANGED <<session, dispatch, stale, spawn, prompted, asking>>

Next ==
    \/ Assign \/ CreateDispatch \/ DispatchConflict \/ AssignOnly
    \/ \E d \in Dispatches : Step(d) \/ SpawnFails(d) \/ Age(d)
    \/ Reap \/ Crash \/ TransitionCheck \/ TransitionWrite

Spec == Init /\ [][Next]_vars

-----------------------------------------------------------------------------
\* "A retried assign must not spawn a second agent session for the same task": at
\* any time one dispatch drives the task.
OneDriver == \A d, e \in Dispatches : Driven(d) /\ Driven(e) => d = e

\* A dispatch that started is the one whose session the task names, unless a
\* later one was created.
SessionOfStarted ==
    \A d \in Dispatches : dispatch[d] = "started" /\ Used = 1..d => session = d

\* "must not be moved to started": the reaper's verdict stays, whatever a late
\* spawn writes.
FailedStays == [][\A d \in Dispatches : dispatch[d] = "failed" => dispatch'[d] = "failed"]_vars

\* A dispatch whose spawn is gone ends: it started, or it is failed in the end.
Undriven(d) == dispatch[d] \in {"queued", "starting"} /\ ~ Driven(d)
OrphansAreReaped == \A d \in Dispatches : Undriven(d) ~> ~ Undriven(d)

\* "so a retry does not spawn a second agent session": a session is prompted only
\* while its dispatch is the task's active one.
PromptedWhileActive == [][\A d \in Dispatches : Prompt(d) => d \in Active]_vars

\* "started and failed rows are terminal": they do not block a dispatch.
TerminalNeverBlocks ==
    [][DispatchConflict => \E d \in Dispatches : dispatch[d] \in {"queued", "starting"}]_vars

=============================================================================
