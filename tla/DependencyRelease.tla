------------------------- MODULE DependencyRelease -------------------------
(***************************************************************************)
(* How a dependent task leaves blocked/waiting_dependency, at the grain of *)
(* SQL statements under READ COMMITTED: a completion transaction writes    *)
(* its own task, then releases dependents on a snapshot that shows only    *)
(* committed work and its own; the handler that creates a dependent reads, *)
(* writes and checks again in separate statements; the reconciler sweeps.  *)
(***************************************************************************)
EXTENDS Naturals, FiniteSets

CONSTANTS
    Prereqs,     \* tasks that others wait for
    Dependents,  \* tasks created with prerequisites
    Needs        \* Needs[c]: the parent and dependency_ids of c

ASSUME DependencyAssumption == Needs \in [Dependents -> (SUBSET Prereqs) \ {{}}]

VARIABLES
    done,      \* prerequisites committed as completed
    tx,        \* the completion transaction of a prerequisite
    held,      \* dependents a completion transaction has released, uncommitted
    row,       \* the dependent: absent, waiting (blocked/waiting_dependency), ready
    handler,   \* the request creating it
    raced      \* history: which races kept a statement from releasing a dependent

vars == <<done, tx, held, row, handler, raced>>

TypeOK ==
    /\ done \in SUBSET Prereqs
    /\ tx \in [Prereqs -> {"idle", "updated", "released"}]
    /\ held \in [Prereqs -> SUBSET Dependents]
    /\ row \in [Dependents -> {"absent", "waiting", "ready"}]
    /\ handler \in [Dependents -> {"none", "unresolved", "resolved", "recheck"}]
    /\ raced \in [Dependents -> SUBSET {"completions", "recheck", "interrupt"}]

Init ==
    /\ done = {}
    /\ tx = [p \in Prereqs |-> "idle"]
    /\ held = [p \in Prereqs |-> {}]
    /\ row = [c \in Dependents |-> "absent"]
    /\ handler = [c \in Dependents |-> "none"]
    /\ raced = [c \in Dependents |-> {}]

-----------------------------------------------------------------------------
(* Completion: complete_task and SqlxTaskWriter::apply *)

\* set_result_in_tx or the guarded UPDATE of the result consumer.
SetResult(p) ==
    /\ p \notin done
    /\ tx[p] = "idle"
    /\ tx' = [tx EXCEPT ![p] = "updated"]
    /\ UNCHANGED <<done, held, row, handler, raced>>

\* Mutant: a dependent is released by any one of its prerequisites.
ReleasableByOne(p) == {c \in Dependents : row[c] = "waiting" /\ p \in Needs[c]}

\* The rows RELEASE_TASK_DEPENDENTS_SQL matches on its snapshot.
Releasable(p) ==
    {c \in Dependents : row[c] = "waiting" /\ p \in Needs[c] /\ Needs[c] \subseteq done \cup {p}}

\* Dependents that only uncommitted work of others keeps out of the snapshot.
Missed(p) ==
    {c \in Dependents :
        /\ row[c] = "waiting"
        /\ p \in Needs[c]
        /\ \E q \in Needs[c] \ {p} : tx[q] # "idle"}

\* release_task_dependents_in_tx
ReleaseDependents(p) ==
    /\ tx[p] = "updated"
    /\ held' = [held EXCEPT ![p] = Releasable(p)]
    /\ raced' = [c \in Dependents |->
           IF c \in Missed(p) \ Releasable(p) THEN raced[c] \cup {"completions"} ELSE raced[c]]
    /\ tx' = [tx EXCEPT ![p] = "released"]
    /\ UNCHANGED <<done, row, handler>>

\* Commit publishes the task and its released dependents together.
Commit(p) ==
    /\ tx[p] = "released"
    /\ done' = done \cup {p}
    /\ row' = [c \in Dependents |-> IF c \in held[p] THEN "ready" ELSE row[c]]
    /\ tx' = [tx EXCEPT ![p] = "idle"]
    /\ held' = [held EXCEPT ![p] = {}]
    /\ UNCHANGED <<handler, raced>>

\* Any error, or a crash, rolls both back.
Abort(p) ==
    /\ tx[p] # "idle"
    /\ tx' = [tx EXCEPT ![p] = "idle"]
    /\ held' = [held EXCEPT ![p] = {}]
    /\ UNCHANGED <<done, row, handler, raced>>

-----------------------------------------------------------------------------
(* Creation: create_task; approve_task and retry_task have the same shape *)

\* dependencies_unresolved reads the prerequisites outside any transaction.
ReadPrerequisites(c) ==
    /\ row[c] = "absent"
    /\ handler[c] = "none"
    /\ handler' = [handler EXCEPT ![c] =
           IF Needs[c] \subseteq done THEN "resolved" ELSE "unresolved"]
    /\ UNCHANGED <<done, tx, held, row, raced>>

\* The row is inserted with the state that reading implies.
InsertRow(c) ==
    /\ handler[c] \in {"resolved", "unresolved"}
    /\ row' = [row EXCEPT ![c] = IF handler[c] = "resolved" THEN "ready" ELSE "waiting"]
    /\ handler' = [handler EXCEPT ![c] = IF @ = "resolved" THEN "none" ELSE "recheck"]
    /\ UNCHANGED <<done, tx, held, raced>>

\* Mutant: the row is not checked again after the insert.
SkipRecheck(c) ==
    /\ handler[c] = "recheck"
    /\ handler' = [handler EXCEPT ![c] = "none"]
    /\ UNCHANGED <<done, tx, held, row, raced>>

\* release_ready_dependency_block: read the prerequisites once more and, when
\* they are done, compare-and-set the block away.
Recheck(c) ==
    /\ handler[c] = "recheck"
    /\ row' = [row EXCEPT ![c] = IF Needs[c] \subseteq done THEN "ready" ELSE @]
    /\ raced' = [raced EXCEPT ![c] =
           IF \E p \in Needs[c] : tx[p] = "released" THEN @ \cup {"recheck"} ELSE @]
    /\ handler' = [handler EXCEPT ![c] = "none"]
    /\ UNCHANGED <<done, tx, held>>

\* The request dies between two of its statements.
Interrupt(c) ==
    /\ handler[c] # "none"
    /\ handler' = [handler EXCEPT ![c] = "none"]
    /\ raced' = [raced EXCEPT ![c] = IF handler[c] = "recheck" THEN @ \cup {"interrupt"} ELSE @]
    /\ UNCHANGED <<done, tx, held, row>>

-----------------------------------------------------------------------------
(* DependencyReconcileWorker *)

\* Mutant: the sweep only looks at rows with a single prerequisite.
SingleParentOrphans ==
    {c \in Dependents : row[c] = "waiting" /\ Needs[c] \subseteq done /\ Cardinality(Needs[c]) = 1}

\* The rows RECONCILE_SQL matches.
Orphans == {c \in Dependents : row[c] = "waiting" /\ Needs[c] \subseteq done}

\* One pass releases all of them.
Reconcile ==
    /\ Orphans # {}
    /\ row' = [c \in Dependents |-> IF c \in Orphans THEN "ready" ELSE row[c]]
    /\ UNCHANGED <<done, tx, held, handler, raced>>

-----------------------------------------------------------------------------

Completion(p) == SetResult(p) \/ ReleaseDependents(p) \/ Commit(p) \/ Abort(p)

Request(c) == ReadPrerequisites(c) \/ InsertRow(c) \/ Recheck(c) \/ Interrupt(c)

Next ==
    \/ \E p \in Prereqs : Completion(p)
    \/ \E c \in Dependents : Request(c)
    \/ Reconcile

Spec == Init /\ [][Next]_vars

\* The worker ticks every minute; nothing else is obliged to happen.
LiveSpec == Spec /\ WF_vars(Reconcile)

-----------------------------------------------------------------------------

\* No path, however its reads interleave with other commits and aborts, makes
\* a task dispatchable before each of its prerequisites is durably completed.
NeverEarly == \A c \in Dependents : row[c] = "ready" => Needs[c] \subseteq done

\* A dependent nobody is still working on, although its prerequisites are done.
Stranded(c) ==
    /\ row[c] = "waiting"
    /\ Needs[c] \subseteq done
    /\ handler[c] = "none"

\* The two statements of a completion and the second look of a creation cover
\* every order but three: overlapping completions, a second look while one
\* commits, and an interrupted request.
OnlyRacesStrand == \A c \in Dependents : Stranded(c) => raced[c] # {}

\* The reconciler repairs each of them.
StrandedIsReleased == \A c \in Dependents : Stranded(c) ~> row[c] = "ready"

\* What the comment on RELEASE_TASK_DEPENDENTS_SQL promises: completion paths
\* alone never leave ready work to the periodic reconciler.
CompletionsReleaseAll ==
    \A c \in Dependents : Stranded(c) => raced[c] # {"completions"}
=============================================================================
