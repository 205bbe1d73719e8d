--------------------------- MODULE WorkOwnership ---------------------------
(***************************************************************************)
(* What task dispatch promises, without participants, leases, deliveries   *)
(* or retries: a task has at most one owner, an Agent at most one task;    *)
(* ownership starts only when the prerequisites are done and under a new   *)
(* epoch, the fencing token of the delivery; a task is done at most once   *)
(* and for good, and only after somebody owned it.                         *)
(***************************************************************************)
EXTENDS Naturals

CONSTANTS Tasks, Agents, None, Prereq

VARIABLES owner, done, epoch

vars == <<owner, done, epoch>>

TypeOK ==
    /\ owner \in [Tasks -> Agents \cup {None}]
    /\ done \in SUBSET Tasks
    /\ epoch \in [Tasks -> Nat]

Free(a) == \A t \in Tasks : owner[t] # a

Init ==
    /\ owner \in [Tasks -> Agents \cup {None}]
    /\ \A t, u \in Tasks : owner[t] = owner[u] /\ owner[t] # None => t = u
    /\ done = {}
    /\ epoch = [t \in Tasks |-> 0]

\* A free Agent takes a task nobody owns.
Claim(t, a) ==
    /\ owner[t] = None
    /\ t \notin done
    /\ Prereq[t] \subseteq done
    /\ Free(a)
    /\ owner' = [owner EXCEPT ![t] = a]
    /\ epoch' = [epoch EXCEPT ![t] = @ + 1]
    /\ UNCHANGED done

\* Work ends without a result: failed, expired, quarantined, held or canceled.
Release(lost) ==
    /\ owner' = [t \in Tasks |-> IF t \in lost THEN None ELSE owner[t]]
    /\ UNCHANGED <<done, epoch>>

\* A result is accepted, directly or after a person verified it.
Finish(t) ==
    /\ owner[t] # None \/ epoch[t] > 0
    /\ t \notin done
    /\ owner' = [owner EXCEPT ![t] = None]
    /\ done' = done \cup {t}
    /\ UNCHANGED epoch

Next ==
    \/ \E t \in Tasks, a \in Agents : Claim(t, a)
    \/ \E lost \in SUBSET Tasks : Release(lost)
    \/ \E t \in Tasks : Finish(t)

Spec == Init /\ [][Next]_vars
=============================================================================
