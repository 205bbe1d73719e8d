------------------------------- MODULE Leader -------------------------------
(* Leader election of the orchestrator's singleton loops (leader.rs): a session *)
(* advisory lock of PostgreSQL, kept on a connection outside the pool. Sessions *)
(* are numbered as they take the lock.                                          *)
EXTENDS Naturals

CONSTANTS
    Replicas,
    MaxSessions,   \* bound: sessions that ever take the lock
    MaxCrashes,    \* bound: crashes of replicas
    None

LeaderAssumption == MaxSessions \in Nat /\ MaxCrashes \in Nat /\ None \notin Nat

Sessions == 1..MaxSessions

VARIABLES
    at,        \* where each replica's loop is
    slot,      \* the session a replica keeps, or None
    holder,    \* the session that has the lock, or None
    broken,    \* sessions whose connection is lost
    taken,     \* sessions numbered so far
    crashes

electVars == <<at, slot, holder, broken, taken, crashes>>

ElectTypeOK ==
    /\ at \in [Replicas -> {"waiting", "electing", "sweeping"}]
    /\ slot \in [Replicas -> Sessions \cup {None}]
    /\ holder \in Sessions \cup {None}
    /\ broken \subseteq Sessions
    /\ taken \in 0..MaxSessions
    /\ crashes \in 0..MaxCrashes
    /\ \A r \in Replicas : at[r] = "sweeping" => slot[r] # None
    /\ \A r \in Replicas : at[r] = "electing" => slot[r] = None

ElectInit ==
    /\ at = [r \in Replicas |-> "waiting"]
    /\ slot = [r \in Replicas |-> None]
    /\ holder = None /\ broken = {} /\ taken = 0 /\ crashes = 0

Free(s) == IF holder = s THEN None ELSE holder

-----------------------------------------------------------------------------
(* ensure_leader *)

\* No slot: the tick goes straight to the election.
Tick(r) ==
    /\ at[r] = "waiting" /\ slot[r] = None
    /\ at' = [at EXCEPT ![r] = "electing"]
    /\ UNCHANGED <<slot, holder, broken, taken, crashes>>

\* SELECT 1 on the kept connection.
Verify(r) ==
    /\ at[r] = "waiting" /\ slot[r] # None /\ slot[r] \notin broken
    /\ at' = [at EXCEPT ![r] = "sweeping"]
    /\ UNCHANGED <<slot, holder, broken, taken, crashes>>

\* Mutant: the connection goes back to the pool with the lock.
CloseToPool(s) == holder

\* Detach and close: over a live connection the server ends the session.
Close(s) == IF s \in broken THEN holder ELSE Free(s)

\* SELECT 1 fails, also for a reason that left the connection alive.
VerifyFails(r) ==
    /\ at[r] = "waiting" /\ slot[r] # None
    /\ holder' = Close(slot[r])
    /\ slot' = [slot EXCEPT ![r] = None]
    /\ at' = [at EXCEPT ![r] = "electing"]
    /\ UNCHANGED <<broken, taken, crashes>>

LockIsFree == holder = None

\* pg_try_advisory_lock: leader, or not.
Elect(r) ==
    /\ at[r] = "electing"
    /\ \/ /\ LockIsFree /\ taken < MaxSessions
          /\ taken' = taken + 1
          /\ holder' = IF holder = None THEN taken' ELSE holder
          /\ slot' = [slot EXCEPT ![r] = taken']
          /\ at' = [at EXCEPT ![r] = "sweeping"]
       \/ /\ holder # None
          /\ at' = [at EXCEPT ![r] = "waiting"]
          /\ UNCHANGED <<slot, holder, taken>>
    /\ UNCHANGED <<broken, crashes>>

\* An error skips the tick; when the connection is lost with the answer, the
\* server gave the lock and nobody has it.
ElectFails(r) ==
    /\ at[r] = "electing"
    /\ at' = [at EXCEPT ![r] = "waiting"]
    /\ \/ UNCHANGED <<holder, broken, taken>>
       \/ /\ holder = None /\ taken < MaxSessions
          /\ taken' = taken + 1
          /\ holder' = taken' /\ broken' = broken \cup {taken'}
    /\ UNCHANGED <<slot, crashes>>

\* The sweep ends and the loop waits for its next tick.
SweepEnds(r) ==
    /\ at[r] = "sweeping"
    /\ at' = [at EXCEPT ![r] = "waiting"]
    /\ UNCHANGED <<slot, holder, broken, taken, crashes>>

-----------------------------------------------------------------------------
(* PostgreSQL, the network and crashes *)

Break(s) ==
    /\ s \in 1..taken /\ s \notin broken
    /\ broken' = broken \cup {s}
    /\ UNCHANGED <<at, slot, holder, taken, crashes>>

\* The server ends a session that lost its connection.
ServerEnds(s) ==
    /\ s \in broken /\ holder = s
    /\ holder' = None
    /\ UNCHANGED <<at, slot, broken, taken, crashes>>

Crash(r) ==
    /\ crashes < MaxCrashes
    /\ crashes' = crashes + 1
    /\ broken' = IF slot[r] = None THEN broken ELSE broken \cup {slot[r]}
    /\ slot' = [slot EXCEPT ![r] = None]
    /\ at' = [at EXCEPT ![r] = "waiting"]
    /\ UNCHANGED <<holder, taken>>

Loop(r) == Tick(r) \/ Verify(r) \/ VerifyFails(r) \/ Elect(r) \/ SweepEnds(r)

Network == \E s \in Sessions : Break(s) \/ ServerEnds(s)

ElectNext ==
    \/ \E r \in Replicas : Loop(r) \/ ElectFails(r) \/ Crash(r)
    \/ Network

ElectSpec == ElectInit /\ [][ElectNext]_electVars

-----------------------------------------------------------------------------
\* "So no path leaks the lock": the lock is never with a session that is alive
\* and that no replica keeps.
NoLeakedLock ==
    holder # None => holder \in broken \/ \E r \in Replicas : slot[r] = holder

\* A replica that keeps a session without the lock lost that session's connection.
LeadersHoldTheLock ==
    \A r \in Replicas : slot[r] # None /\ slot[r] # holder => slot[r] \in broken

=============================================================================
