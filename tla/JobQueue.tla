------------------------------ MODULE JobQueue ------------------------------
(* One queue of the job_queue table: enqueue under a unique key, claiming     *)
(* with FOR UPDATE SKIP LOCKED, completion, failure with a retry budget, and   *)
(* the reaper that returns abandoned locks (jobs/src/queue.rs, worker.rs,      *)
(* stale_job_lock_reaper.rs, api/src/services/self_fix_pr_worker.rs).          *)
(*                                                                             *)
(* None of the finishing statements looks at locked_by, so a worker whose lock *)
(* was released as stale still finishes the row, whoever runs it by then.      *)
EXTENDS Naturals, FiniteSets

CONSTANTS
    Jobs,         \* rows that may be inserted, one id each
    Key,          \* [Jobs -> keys]: the unique_key of each row
    Workers,      \* worker loops of this queue
    MaxAttempts,  \* max_attempts of every row
    MaxCrashes,   \* bound: worker deaths and finishing statements that failed
    MaxOverruns,  \* bound: locks released while their worker still runs
    None

ASSUME QueueAssumption ==
    /\ MaxAttempts \in Nat \ {0}
    /\ MaxCrashes \in Nat
    /\ MaxOverruns \in Nat
    /\ None \notin Jobs \cup Workers

VARIABLES
    row,       \* the row's status; "gone" after DELETE, "absent" before INSERT
    attempts,  \* the attempts column
    lockedBy,  \* locked_by
    running,   \* the row each worker's handler is working on
    failures,  \* history: handler errors whose fail statement was executed
    done,      \* history: jobs some handler finished without an error
    crashes, overruns

queueVars == <<row, attempts, lockedBy, running, failures, done, crashes, overruns>>

Present == {"pending", "running", "dead"}

\* Types, and the lock columns: only a running row has an owner.
TypeOK ==
    /\ row \in [Jobs -> Present \cup {"absent", "gone"}]
    /\ attempts \in [Jobs -> Nat]
    /\ lockedBy \in [Jobs -> Workers \cup {None}]
    /\ running \in [Workers -> Jobs \cup {None}]
    /\ failures \in [Jobs -> Nat]
    /\ done \in SUBSET Jobs
    /\ crashes \in Nat
    /\ overruns \in Nat
    /\ \A j \in Jobs : row[j] = "running" <=> lockedBy[j] # None

Init ==
    /\ row = [j \in Jobs |-> "absent"]
    /\ attempts = [j \in Jobs |-> 0]
    /\ lockedBy = [j \in Jobs |-> None]
    /\ running = [w \in Workers |-> None]
    /\ failures = [j \in Jobs |-> 0]
    /\ done = {}
    /\ crashes = 0
    /\ overruns = 0

\* ON CONFLICT (unique_key) DO NOTHING: a row in any status blocks its key.
Blocked(j) == \E i \in Jobs : Key[i] = Key[j] /\ row[i] \in Present

Enqueue(j) ==
    /\ row[j] = "absent"
    /\ ~ Blocked(j)
    /\ row' = [row EXCEPT ![j] = "pending"]
    /\ UNCHANGED <<attempts, lockedBy, running, failures, done, crashes, overruns>>

\* Mutant: the claim does not look at the status.
ClaimAny(w, j) ==
    /\ running[w] = None
    /\ row[j] \in {"pending", "running"}
    /\ row' = [row EXCEPT ![j] = "running"]
    /\ lockedBy' = [lockedBy EXCEPT ![j] = w]
    /\ running' = [running EXCEPT ![w] = j]
    /\ UNCHANGED <<attempts, failures, done, crashes, overruns>>

\* Any due row may be the one chosen: run_at and other sessions' row locks
\* (SKIP LOCKED) decide which are visible to this worker.
Claim(w, j) ==
    /\ running[w] = None
    /\ row[j] = "pending"
    /\ row' = [row EXCEPT ![j] = "running"]
    /\ lockedBy' = [lockedBy EXCEPT ![j] = w]
    /\ running' = [running EXCEPT ![w] = j]
    /\ UNCHANGED <<attempts, failures, done, crashes, overruns>>

\* The handler returned Ok: DELETE by id.
Complete(w) ==
    LET j == running[w] IN
    /\ j # None
    /\ row' = [row EXCEPT ![j] = "gone"]
    /\ lockedBy' = [lockedBy EXCEPT ![j] = None]
    /\ running' = [running EXCEPT ![w] = None]
    /\ done' = done \cup {j}
    /\ UNCHANGED <<attempts, failures, crashes, overruns>>

\* attempts + 1 >= max_attempts
Exhausted(j) == attempts[j] + 1 >= MaxAttempts

\* Mutant: an exhausted job is deleted instead of being kept as dead.
FailDeletes(w) ==
    LET j == running[w] IN
    /\ j # None
    /\ running' = [running EXCEPT ![w] = None]
    /\ row' = [row EXCEPT ![j] = IF @ = "gone" \/ Exhausted(j) THEN "gone" ELSE "pending"]
    /\ attempts' = [attempts EXCEPT ![j] = @ + 1]
    /\ lockedBy' = [lockedBy EXCEPT ![j] = None]
    /\ failures' = [failures EXCEPT ![j] = @ + 1]
    /\ UNCHANGED <<done, crashes, overruns>>

\* The handler returned Err or panicked: the only statement that uses up an
\* attempt, and no statement at all when the row was deleted meanwhile.
Fail(w) ==
    LET j == running[w] IN
    /\ j # None
    /\ running' = [running EXCEPT ![w] = None]
    /\ IF row[j] = "gone"
       THEN UNCHANGED <<row, attempts, lockedBy, failures>>
       ELSE /\ row' = [row EXCEPT ![j] = IF Exhausted(j) THEN "dead" ELSE "pending"]
            /\ attempts' = [attempts EXCEPT ![j] = @ + 1]
            /\ lockedBy' = [lockedBy EXCEPT ![j] = None]
            /\ failures' = [failures EXCEPT ![j] = @ + 1]
    /\ UNCHANGED <<done, crashes, overruns>>

\* The process dies in the handler, or the finishing statement fails and is
\* only logged: the row stays running under a lock nobody works on.
Abandon(w) ==
    /\ running[w] # None
    /\ crashes < MaxCrashes
    /\ crashes' = crashes + 1
    /\ running' = [running EXCEPT ![w] = None]
    /\ \E ok \in BOOLEAN : done' = IF ok THEN done \cup {running[w]} ELSE done
    /\ UNCHANGED <<row, attempts, lockedBy, failures, overruns>>

Live(j) == \E w \in Workers : running[w] = j

\* Mutant: a released lock uses up an attempt.
ReleaseCounts(j) ==
    /\ row[j] = "running"
    /\ Live(j) => overruns < MaxOverruns
    /\ overruns' = IF Live(j) THEN overruns + 1 ELSE overruns
    /\ row' = [row EXCEPT ![j] = "pending"]
    /\ lockedBy' = [lockedBy EXCEPT ![j] = None]
    /\ attempts' = [attempts EXCEPT ![j] = @ + 1]
    /\ UNCHANGED <<running, failures, done, crashes>>

\* The timeout "must exceed the longest legitimate job runtime": a release that
\* overtakes a live handler is an overrun, and overruns are bounded.
ReleaseStale(j) ==
    /\ row[j] = "running"
    /\ Live(j) => overruns < MaxOverruns
    /\ overruns' = IF Live(j) THEN overruns + 1 ELSE overruns
    /\ row' = [row EXCEPT ![j] = "pending"]
    /\ lockedBy' = [lockedBy EXCEPT ![j] = None]
    /\ UNCHANGED <<attempts, running, failures, done, crashes>>

Next ==
    \/ \E j \in Jobs : Enqueue(j) \/ ReleaseStale(j)
    \/ \E w \in Workers, j \in Jobs : Claim(w, j)
    \/ \E w \in Workers : Complete(w) \/ Fail(w) \/ Abandon(w)

Spec == Init /\ [][Next]_queueVars

-----------------------------------------------------------------------------
\* While no lock is released under a live handler, no two handlers run the same
\* job, and the row of a running handler is locked by its worker (the promise
\* of dequeue's FOR UPDATE SKIP LOCKED and of the reaper's timeout).
SingleRunner ==
    overruns = 0 =>
        /\ \A v, w \in Workers : running[v] = running[w] /\ running[v] # None => v = w
        /\ \A w \in Workers : running[w] # None =>
                /\ row[running[w]] = "running"
                /\ lockedBy[running[w]] = w

\* A job is dead-lettered only after MaxAttempts real handler errors: neither a
\* crash, nor the stale-lock reaper, nor an overlapping run uses up its budget
\* (the comments of fail and release_stale_locks).
DeadMeansExhausted ==
    \A j \in Jobs : row[j] = "dead" => failures[j] >= MaxAttempts

\* A row disappears only after some handler finished the job, also when several
\* workers run it and finish in any order.
NotLost == \A j \in Jobs : row[j] = "gone" => j \in done

\* A dead row leaves that status only because a late overlapping run finished
\* it; a late failure or the reaper never puts it back in the queue.
DeadStaysOut ==
    [][\A j \in Jobs : row[j] = "dead" => row'[j] \in {"dead", "gone"}]_queueVars

=============================================================================
