------------------------------ MODULE Presence ------------------------------
(* Liveness of Agents with the Redis presence backend (presence_store.rs): a   *)
(* steady heartbeat only refreshes a key with a TTL, a transition also writes  *)
(* the participant row, and the offline sweep looks at keys, or at             *)
(* last_heartbeat_at while Redis is away and no grace holds                    *)
(* (participant_liveness.rs). Times are counted in heartbeat intervals: every  *)
(* live sidecar beats once between two ticks.                                  *)
EXTENDS Integers, FiniteSets

CONSTANTS
    Agents,
    Workers,       \* replicas of the liveness worker, in one queue group
    Stale,         \* stale_after, in intervals
    Lease,         \* intervals until a working task's lease expires
    MaxOutages,    \* bound: Redis outages
    MaxFailures,   \* bound: failed or crashed PostgreSQL writes of a heartbeat
    None

PresenceAssumption ==
    /\ Stale \in Nat /\ Stale > 1
    /\ Lease \in Nat /\ MaxOutages \in Nat /\ MaxFailures \in Nat
    /\ None \notin Int /\ None \notin Agents

VARIABLES
    alive,      \* the sidecar is up
    due,        \* its heartbeat of this interval is still to come
    quiet,      \* history: intervals since its last heartbeat
    key,        \* TTL left of af:presence:<agent>, 0 when absent
    up,         \* Redis answers
    outages, failures,
    status,     \* participants.status
    seen,       \* age of participants.last_heartbeat_at
    working,    \* what is left of the lease of the Agent's working task, or None
    fallback,   \* age of fallback_since, Stale when none
    skip,       \* age of last_steady_skip, Stale when none
    doing       \* what a worker is in the middle of

redis == <<key, up, outages>>
sidecars == <<alive, due, quiet>>
row == <<status, seen, working>>
backend == <<fallback, skip>>
vars == <<redis, sidecars, row, backend, doing, failures>>

Idle == [at |-> "idle"]

TypeOK ==
    /\ alive \in [Agents -> BOOLEAN] /\ due \in [Agents -> BOOLEAN]
    /\ quiet \in [Agents -> 0..Stale]
    /\ key \in [Agents -> 0..Stale]
    /\ up \in BOOLEAN
    /\ outages \in 0..MaxOutages /\ failures \in 0..MaxFailures
    /\ status \in [Agents -> {"offline", "available", "busy"}]
    /\ seen \in [Agents -> 0..Stale]
    /\ working \in [Agents -> 0..Lease \cup {None}]
    /\ fallback \in [Workers -> 0..Stale] /\ skip \in [Workers -> 0..Stale]
    /\ \A a \in Agents : status[a] = "busy" => working[a] # None
    /\ \A a \in Agents : status[a] = "available" => working[a] = None

Init ==
    /\ alive = [a \in Agents |-> FALSE] /\ due = [a \in Agents |-> FALSE]
    /\ quiet = [a \in Agents |-> Stale]
    /\ key = [a \in Agents |-> 0]
    /\ up = TRUE /\ outages = 0 /\ failures = 0
    /\ status = [a \in Agents |-> "offline"]
    /\ seen = [a \in Agents |-> Stale]
    /\ working = [a \in Agents |-> None]
    /\ fallback = [w \in Workers |-> Stale] /\ skip = [w \in Workers |-> Stale]
    /\ doing = [w \in Workers |-> Idle]

Do(w, step) == doing' = [doing EXCEPT ![w] = step]

\* note_fallback keeps the first time; clear_fallback forgets it.
Noted(w) == IF fallback[w] = Stale THEN [fallback EXCEPT ![w] = 0] ELSE fallback
Cleared(w) == [fallback EXCEPT ![w] = Stale]

-----------------------------------------------------------------------------
(* Heartbeats *)

\* Mutant: the key is set before the previous value is looked at.
KeyAnyway(a) == TRUE

\* SET ... GET returned the value that was set.
KeyPresent(a) == key[a] > 0

\* PresenceBackend::record, and what handle_heartbeat makes of it.
Beat(w, a) ==
    /\ doing[w] = Idle
    /\ alive[a] /\ due[a]
    /\ due' = [due EXCEPT ![a] = FALSE]
    /\ quiet' = [quiet EXCEPT ![a] = 0]
    /\ IF up
       THEN /\ key' = [key EXCEPT ![a] = Stale]
            /\ fallback' = Cleared(w)
            /\ IF KeyPresent(a)
               THEN skip' = [skip EXCEPT ![w] = 0] /\ UNCHANGED doing
               ELSE Do(w, [at |-> "write", agent |-> a]) /\ UNCHANGED skip
       ELSE /\ fallback' = Noted(w)
            /\ Do(w, [at |-> "write", agent |-> a])
            /\ UNCHANGED <<key, skip>>
    /\ UNCHANGED <<alive, up, outages, row, failures>>

\* TOUCH_PARTICIPANT_SQL: a returning Agent that still has a working task is busy.
Returned(a) ==
    IF status[a] # "offline" THEN status[a] ELSE IF working[a] # None THEN "busy" ELSE "available"

WriteBeat(w) ==
    /\ doing[w].at = "write"
    /\ LET a == doing[w].agent IN
          /\ status' = [status EXCEPT ![a] = Returned(a)]
          /\ seen' = [seen EXCEPT ![a] = 0]
    /\ Do(w, Idle)
    /\ UNCHANGED <<redis, sidecars, working, backend, failures>>

\* The write fails, or the worker dies before it: the key stays set.
WriteFails(w) ==
    /\ doing[w].at = "write"
    /\ failures < MaxFailures
    /\ failures' = failures + 1
    /\ Do(w, Idle)
    /\ \/ UNCHANGED backend
       \/ /\ fallback' = Cleared(w)
          /\ skip' = [skip EXCEPT ![w] = Stale]
    /\ UNCHANGED <<redis, sidecars, row>>

-----------------------------------------------------------------------------
(* The offline sweep *)

\* NON_OFFLINE_PARTICIPANT_AGENTS_SQL
Candidates == {a \in Agents : status[a] # "offline"}

\* Mutant: a fallback gives no grace.
NoGrace(w) == FALSE

\* pg_sweep_within_grace
Grace(w) == fallback'[w] < Stale /\ skip[w] < Stale

\* dead_agents with an answer of Redis; no candidates, no question.
SweepKeys(w) ==
    /\ doing[w] = Idle
    /\ up \/ Candidates = {}
    /\ fallback' = IF Candidates = {} THEN fallback ELSE Cleared(w)
    /\ Do(w, IF \E a \in Candidates : key[a] = 0
             THEN [at |-> "mark", dead |-> {a \in Candidates : key[a] = 0}] ELSE Idle)
    /\ UNCHANGED <<redis, sidecars, row, skip, failures>>

\* MARK_OFFLINE_BY_AGENT_IDS_SQL
Mark(w) ==
    /\ doing[w].at = "mark"
    /\ status' = [a \in Agents |-> IF a \in doing[w].dead THEN "offline" ELSE status[a]]
    /\ Do(w, Idle)
    /\ UNCHANGED <<redis, sidecars, seen, working, backend, failures>>

\* The PostgreSQL sweep, MARK_STALE_OFFLINE_SQL, unless it is graced.
SweepRows(w) ==
    /\ doing[w] = Idle
    /\ ~ up /\ Candidates # {}
    /\ fallback' = Noted(w)
    /\ status' = IF Grace(w) THEN status
                 ELSE [a \in Agents |-> IF seen[a] >= Stale THEN "offline" ELSE status[a]]
    /\ UNCHANGED <<redis, sidecars, seen, working, skip, doing, failures>>

-----------------------------------------------------------------------------
(* Tasks *)

\* Claim by heartbeat or drain: SET_PARTICIPANT_STATUS_SQL.
Claim(a) ==
    /\ status[a] = "available"
    /\ status' = [status EXCEPT ![a] = "busy"]
    /\ seen' = [seen EXCEPT ![a] = 0]
    /\ working' = [working EXCEPT ![a] = Lease]
    /\ UNCHANGED <<redis, sidecars, backend, doing, failures>>

\* The Agent's result ends its task.
Result(a) ==
    /\ working[a] # None
    /\ alive[a]
    /\ working' = [working EXCEPT ![a] = None]
    /\ status' = [status EXCEPT ![a] = IF @ = "offline" THEN "offline" ELSE "available"]
    /\ UNCHANGED <<redis, sidecars, seen, backend, doing, failures>>

\* RELEASE_PARTICIPANT_AFTER_LEASE_EXPIRY_SQL
AfterExpiry(a) == IF status[a] = "offline" \/ seen[a] >= Stale THEN "offline" ELSE "available"

ExpireLease(a) ==
    /\ working[a] = 0
    /\ working' = [working EXCEPT ![a] = None]
    /\ status' = [status EXCEPT ![a] = AfterExpiry(a)]
    /\ UNCHANGED <<redis, sidecars, seen, backend, doing, failures>>

-----------------------------------------------------------------------------
(* Sidecars, Redis and time *)

\* Bound: one beat of an Agent per interval, also when its sidecar restarts.
Start(a) ==
    /\ ~ alive[a] /\ quiet[a] > 0
    /\ alive' = [alive EXCEPT ![a] = TRUE]
    /\ due' = [due EXCEPT ![a] = TRUE]
    /\ UNCHANGED <<quiet, redis, row, backend, doing, failures>>

Stop(a) ==
    /\ alive[a]
    /\ alive' = [alive EXCEPT ![a] = FALSE]
    /\ due' = [due EXCEPT ![a] = FALSE]
    /\ UNCHANGED <<quiet, redis, row, backend, doing, failures>>

RedisDown ==
    /\ up /\ outages < MaxOutages
    /\ up' = FALSE /\ outages' = outages + 1
    /\ UNCHANGED <<key, sidecars, row, backend, doing, failures>>

RedisUp ==
    /\ ~ up
    /\ up' = TRUE
    /\ UNCHANGED <<key, outages, sidecars, row, backend, doing, failures>>

Older(n) == IF n < Stale THEN n + 1 ELSE Stale

\* SET ... EX ttl
KeyLeft(a) == IF key[a] = 0 THEN 0 ELSE key[a] - 1
Less(n) == IF n = None \/ n = 0 THEN n ELSE n - 1

\* An interval ends: every live sidecar's beat was handled.
Tick ==
    /\ \A a \in Agents : ~ due[a]
    /\ \A w \in Workers : doing[w] = Idle
    /\ due' = alive
    /\ quiet' = [a \in Agents |-> Older(quiet[a])]
    /\ key' = [a \in Agents |-> KeyLeft(a)]
    /\ seen' = [a \in Agents |-> Older(seen[a])]
    /\ working' = [a \in Agents |-> Less(working[a])]
    /\ fallback' = [w \in Workers |-> Older(fallback[w])]
    /\ skip' = [w \in Workers |-> Older(skip[w])]
    /\ UNCHANGED <<alive, up, outages, status, doing, failures>>

Worker(w) ==
    \/ \E a \in Agents : Beat(w, a)
    \/ WriteBeat(w) \/ WriteFails(w) \/ SweepKeys(w) \/ Mark(w) \/ SweepRows(w)

Next ==
    \/ \E w \in Workers : Worker(w)
    \/ \E a \in Agents : Claim(a) \/ Result(a) \/ ExpireLease(a) \/ Start(a) \/ Stop(a)
    \/ RedisDown \/ RedisUp \/ Tick

Spec == Init /\ [][Next]_vars

\* Workers sweep every interval, handle what they started and every heartbeat;
\* expired leases are swept, and time passes.
Fairness ==
    /\ SF_vars(Tick)
    /\ \A w \in Workers : WF_vars(WriteBeat(w)) /\ WF_vars(Mark(w)) /\ SF_vars(SweepKeys(w) \/ SweepRows(w))
    /\ \A a \in Agents : SF_vars(\E w \in Workers : Beat(w, a)) /\ WF_vars(ExpireLease(a))

LiveSpec == Spec /\ Fairness

-----------------------------------------------------------------------------
WentOffline(a) == status[a] # "offline" /\ status'[a] = "offline"

\* The sweep over rows takes only Agents offline that sent nothing for
\* stale_after, however Redis comes and goes ("otherwise live agents would be
\* wrongly marked offline"): the grace lasts until PostgreSQL has seen every live
\* Agent again. (One worker, and no write of a heartbeat has failed.)
GraceProtects ==
    [][\A w \in Workers, a \in Agents :
          failures = 0 /\ SweepRows(w) /\ WentOffline(a) => quiet[a] >= Stale]_vars

\* An Agent that stays up comes back, unless a lease of its tasks expired or the
\* write of a heartbeat failed.
UpIsOnline ==
    \A a \in Agents : [](working[a] # 0 /\ failures = 0) /\ <>[](alive[a]) => []<>(status[a] # "offline")

\* "return those whose Redis presence key is absent (TTL-expired = offline)"
ExpiredMeansOffline ==
    [][\A w \in Workers, a \in Agents : Mark(w) /\ WentOffline(a) => quiet[a] >= Stale]_vars

\* "key absent -> the Phase 1 PG write runs so busy/available ... are correct":
\* an Agent that stays up does not stay offline.
TransitionIsWritten ==
    \A a \in Agents : [](working[a] # 0) /\ <>[](alive[a]) => []<>(status[a] # "offline")

=============================================================================
