--------------------------- MODULE AgentContainer ---------------------------
(* The container of one Agent (agent_container_control.rs): start, stop, replace,   *)
(* roll, the two deletions and the reconcile sweep, under the Agent's lifecycle     *)
(* lock, against Docker and the agents row. The tenant's operations write the row   *)
(* at once, on other connections than the lock's; the administrator's write it in   *)
(* the lock's own transaction.                                                      *)
EXTENDS Naturals

CONSTANTS
    Callers,       \* requests in flight
    Sweeper,       \* the reconcile worker
    Boxes,         \* the containers that may be created for the Agent
    MaxFaults,     \* bound: failing calls to Docker or the database
    MaxDrops,      \* bound: requests dropped by a disconnect or a crash
    MaxLost,       \* bound: lost connections of a lifecycle transaction
    None, Deleted

ContainerAssumption ==
    /\ Sweeper \notin Callers /\ None \notin Boxes \cup Callers \cup {Sweeper}
    /\ Deleted \notin Boxes
    /\ None # Deleted /\ MaxFaults \in Nat /\ MaxDrops \in Nat /\ MaxLost \in Nat

VARIABLES
    named,         \* agents.container_id, or Deleted
    keyed,         \* the row has the container's keys
    box,           \* the containers
    bad,           \* containers that no longer pass the admission checks
    presence,      \* the participant's status
    working,       \* the Agent owns a working task
    lock,          \* the holder of the lifecycle lock
    kind, pc, at,  \* each operation: what, where, on which container
    fencing,       \* operations that quarantine their container
    pend,          \* what the lock's transaction has written to container_id
    ends,          \* whether it has failed the Agent's work
    faults, drops, lost

row == <<named, keyed>>
work == <<presence, working>>
ops == <<kind, pc, at, fencing>>
tx == <<lock, pend, ends>>
bounds == <<faults, drops, lost>>
vars == <<row, box, bad, work, ops, tx, bounds>>

Procs == Callers \cup {Sweeper}
Kinds == {"start", "stop", "replace", "roll", "delete", "purge"}
Same == "same"

TypeOK ==
    /\ named \in Boxes \cup {None, Deleted} /\ keyed \in BOOLEAN
    /\ keyed => named \in Boxes
    /\ box \in [Boxes -> {"none", "created", "running", "stopped", "gone"}]
    /\ bad \subseteq Boxes /\ working \in BOOLEAN
    /\ presence \in {"available", "busy", "offline"}
    /\ lock \in Procs \cup {None}
    /\ kind \in [Procs -> Kinds \cup {"reconcile"}] /\ fencing \subseteq Procs
    /\ at \in [Procs -> Boxes \cup {None}]
    /\ pend \in Boxes \cup {None, Deleted, Same} /\ ends \in BOOLEAN
    /\ (pend # Same \/ ends) => lock # None
    /\ faults <= MaxFaults /\ drops <= MaxDrops /\ lost <= MaxLost

\* A new Agent, without a container.
Init ==
    /\ named = None /\ keyed = FALSE /\ box = [b \in Boxes |-> "none"] /\ bad = {}
    /\ presence = "offline" /\ working = FALSE
    /\ kind = [p \in Procs |-> "reconcile"] /\ pc = [p \in Procs |-> "idle"]
    /\ at = [p \in Procs |-> None] /\ fencing = {}
    /\ lock = None /\ pend = Same /\ ends = FALSE
    /\ faults = 0 /\ drops = 0 /\ lost = 0

Present(b) == box[b] \in {"created", "running", "stopped"}
Becomes(b, s) == box' = [box EXCEPT ![b] = s]
Goto(p, l) == pc' = [pc EXCEPT ![p] = l]
Fault == faults < MaxFaults /\ faults' = faults + 1
NoFault == UNCHANGED faults
Holds(p) == lock = p

\* agent_work_admission_is_idle_in_tx
Idle == ~working /\ presence # "busy"

\* The row's container and its keys are written together.
Write(b, k) == named' = b /\ keyed' = k

\* force_remove; two failed attempts leave it present, perhaps stopped.
RemoveBox(b) ==
    \/ /\ box' = IF Present(b) THEN [box EXCEPT ![b] = "gone"] ELSE box
       /\ NoFault
    \/ /\ Fault
       /\ box' \in {box, IF box[b] = "running" THEN [box EXCEPT ![b] = "stopped"] ELSE box}

-----------------------------------------------------------------------------
(* Admission *)

\* A request; the sweep lists the rows with a container before it takes any lock.
Request(p, k) ==
    /\ pc[p] = "idle" /\ named # Deleted
    /\ IF p = Sweeper THEN k = "reconcile" /\ named \in Boxes ELSE k \in Kinds
    /\ kind' = [kind EXCEPT ![p] = k] /\ Goto(p, "lock")
    /\ at' = [at EXCEPT ![p] = IF p = Sweeper THEN named ELSE None]
    /\ UNCHANGED <<row, box, bad, work, fencing, tx, bounds>>

\* Where an admitted operation begins.
FirstStep(k) ==
    IF k = "reconcile" THEN "inspect"
    ELSE IF k = "start" THEN "check"
    ELSE IF named \in Boxes THEN "remove"
    ELSE IF k = "purge" THEN "erase" ELSE "offline"

\* The work admission test of an operation.
MayChange == named # Deleted /\ Idle

\* lock_agent_lifecycle_in_tx, and the row as it is then.
Admit(p) ==
    /\ pc[p] = "lock" /\ lock = None
    /\ IF kind[p] = "reconcile" \/ (MayChange /\ ~(kind[p] = "roll" /\ named = None))
       THEN /\ lock' = p /\ Goto(p, FirstStep(kind[p]))
            /\ at' = IF kind[p] = "reconcile" THEN at ELSE [at EXCEPT ![p] =
                         IF named \in Boxes THEN named ELSE None]
       ELSE Goto(p, "idle") /\ UNCHANGED <<lock, at>>
    /\ UNCHANGED <<row, box, bad, work, kind, fencing, pend, ends, bounds>>

-----------------------------------------------------------------------------
(* Start *)

\* ensure_container_admission rejects the container.
Rejected(b) == b \in bad

\* start_locked: the container the row names.
Check(p) ==
    /\ pc[p] = "check"
    /\ at' = [at EXCEPT ![p] = IF named \in Boxes THEN named ELSE None]
    /\ \/ /\ NoFault
          /\ \/ named = Deleted /\ Goto(p, "commit") /\ UNCHANGED fencing
             \/ named = None /\ Goto(p, "create") /\ UNCHANGED fencing
             \/ /\ named \in Boxes /\ box[named] = "running" /\ keyed
                /\ IF Rejected(named)
                   THEN Goto(p, "remove") /\ fencing' = fencing \cup {p}
                   ELSE Goto(p, "commit ok") /\ UNCHANGED fencing
             \/ /\ named \in Boxes /\ Present(named) /\ ~(box[named] = "running" /\ keyed)
                /\ Goto(p, "remove") /\ UNCHANGED fencing
             \/ /\ named \in Boxes /\ box[named] = "gone"
                /\ Goto(p, "clear") /\ UNCHANGED fencing
       \/ Fault /\ named \in Boxes /\ Goto(p, "commit") /\ UNCHANGED fencing
    /\ UNCHANGED <<row, box, bad, work, kind, tx, drops, lost>>

\* Image, workspace and credentials, then create_container under the Agent's name:
\* Docker refuses a name that is in use.
Create(p) ==
    /\ pc[p] = "create"
    /\ \/ \E b \in Boxes :
            /\ box[b] = "none" /\ \A c \in Boxes : ~Present(c)
            /\ Becomes(b, "created") /\ at' = [at EXCEPT ![p] = b] /\ Goto(p, "set")
       \/ Goto(p, "commit") /\ UNCHANGED <<box, at>>
    /\ UNCHANGED <<row, bad, work, kind, fencing, tx, bounds>>

\* The container is inspected and the row is made to name it. A database error of
\* the roll's own transaction ends it there.
Set(p) ==
    /\ pc[p] = "set"
    /\ IF kind[p] = "roll"
       THEN /\ UNCHANGED row
            /\ \/ /\ Holds(p) /\ NoFault
                  /\ IF pend = None THEN pend' = at[p] /\ Goto(p, "launch")
                                    ELSE UNCHANGED pend /\ Goto(p, "discard")
               \/ ~Holds(p) /\ NoFault /\ Goto(p, "commit") /\ UNCHANGED pend
               \/ Holds(p) /\ Fault /\ pend' = Same /\ Goto(p, "commit")
               \/ Fault /\ Goto(p, "discard") /\ UNCHANGED pend
       ELSE /\ UNCHANGED pend
            /\ \/ /\ named = None /\ NoFault
                  /\ Write(at[p], TRUE) /\ Goto(p, "launch")
               \/ named # None /\ NoFault /\ Goto(p, "discard") /\ UNCHANGED row
               \/ Fault /\ Goto(p, "discard") /\ UNCHANGED row
    /\ UNCHANGED <<box, bad, work, kind, at, fencing, lock, ends, drops, lost>>

\* The clean-up of a container the row does not name.
Discard(p) ==
    /\ pc[p] = "discard" /\ RemoveBox(at[p]) /\ Goto(p, "commit")
    /\ UNCHANGED <<row, bad, work, kind, at, fencing, tx, drops, lost>>

\* start_container; one that reports an error may have started.
Launch(p) ==
    /\ pc[p] = "launch"
    /\ \/ box[at[p]] = "created" /\ Becomes(at[p], "running") /\ NoFault /\ Goto(p, "commit ok")
       \/ ~Present(at[p]) /\ UNCHANGED box /\ NoFault /\ Goto(p, "undo")
       \/ /\ Fault /\ Goto(p, "undo")
          /\ box' \in {box, IF Present(at[p]) THEN [box EXCEPT ![at[p]] = "running"] ELSE box}
    /\ UNCHANGED <<row, bad, work, kind, at, fencing, tx, drops, lost>>

Undo(p) ==
    /\ pc[p] = "undo" /\ RemoveBox(at[p]) /\ Goto(p, "unset")
    /\ UNCHANGED <<row, bad, work, kind, at, fencing, tx, drops, lost>>

\* clear_container after a failed start, whatever became of the removal.
Unset(p) ==
    /\ pc[p] = "unset" /\ Goto(p, "commit")
    /\ IF kind[p] = "roll"
       THEN pend' = (IF Holds(p) /\ pend = at[p] THEN None ELSE pend) /\ UNCHANGED row /\ NoFault
       ELSE /\ UNCHANGED pend
            /\ \/ NoFault /\ IF named = at[p] THEN Write(None, FALSE) ELSE UNCHANGED row
               \/ Fault /\ UNCHANGED row
    /\ UNCHANGED <<box, bad, work, kind, at, fencing, lock, ends, drops, lost>>

-----------------------------------------------------------------------------
(* Stop, and what the other operations do after it *)

\* stop_and_remove_container_locked, remove_container_for_replacement
Remove(p) ==
    /\ pc[p] = "remove" /\ RemoveBox(at[p]) /\ Goto(p, "confirm")
    /\ UNCHANGED <<row, bad, work, kind, at, fencing, tx, drops, lost>>

\* Mutant: a container that is still there counts as stopped.
GoneAnyway(b) == TRUE

\* The inspection finds no such container.
ConfirmedGone(b) == box[b] = "gone"

Confirm(p) ==
    /\ pc[p] = "confirm"
    /\ \/ /\ ConfirmedGone(at[p]) /\ NoFault
          /\ Goto(p, IF kind[p] = "purge" THEN "erase" ELSE "clear")
       \/ /\ (~ConfirmedGone(at[p]) /\ NoFault) \/ Fault
          /\ Goto(p, IF p \in fencing THEN "fence" ELSE "commit")
    /\ UNCHANGED <<row, box, bad, work, kind, at, fencing, tx, drops, lost>>

\* What follows a confirmed stop.
AfterStop(p) ==
    IF p \in fencing \/ kind[p] \in {"stop", "reconcile"} THEN "commit"
    ELSE IF kind[p] = "start" THEN "create"
    ELSE IF kind[p] = "replace" THEN "check" ELSE "erase"

\* clear_container: only while the row still names that container. A stop takes a
\* row that names another one for cleared.
Clear(p) ==
    /\ pc[p] = "clear"
    /\ IF kind[p] = "roll"
       THEN /\ UNCHANGED row /\ NoFault
            /\ IF Holds(p) /\ named = at[p]
               THEN pend' = None /\ Goto(p, "create") ELSE UNCHANGED pend /\ Goto(p, "commit")
       ELSE /\ UNCHANGED pend
            /\ \/ /\ named = at[p] /\ NoFault
                  /\ Write(None, FALSE) /\ Goto(p, "offline")
               \/ /\ named # at[p] /\ NoFault /\ UNCHANGED row
                  /\ Goto(p, IF kind[p] = "start" THEN "commit" ELSE AfterStop(p))
               \/ Fault /\ UNCHANGED row /\ Goto(p, "commit")
    /\ UNCHANGED <<box, bad, work, kind, at, fencing, lock, ends, drops, lost>>

\* mark_participant_offline_best_effort, by a transaction of its own.
Offline(p) ==
    /\ pc[p] = "offline" /\ Goto(p, AfterStop(p))
    /\ \/ presence' = "offline" /\ NoFault
       \/ Fault /\ UNCHANGED presence
    /\ UNCHANGED <<row, box, bad, working, kind, at, fencing, tx, drops, lost>>

\* The row is deleted: by the tenant whatever it names, by the administrator only
\* with the container that was removed.
Erase(p) ==
    /\ pc[p] = "erase" /\ Goto(p, "commit")
    /\ IF kind[p] = "purge"
       THEN /\ pend' = (IF Holds(p) /\ named = at[p] THEN Deleted ELSE pend)
            /\ UNCHANGED <<row, work>> /\ NoFault
       ELSE /\ UNCHANGED pend
            /\ \/ Write(Deleted, FALSE) /\ presence' = "offline" /\ working' = FALSE /\ NoFault
               \/ Fault /\ UNCHANGED <<row, work>>
    /\ UNCHANGED <<box, bad, kind, at, fencing, lock, ends, drops, lost>>

-----------------------------------------------------------------------------
(* Reconcile and quarantine *)

\* Docker does not find it.
Absent(b) == box[b] = "gone"

\* reconcile_agent_if_container_absent_locked
Inspect(p) ==
    /\ pc[p] = "inspect"
    /\ \/ Absent(at[p]) /\ Goto(p, "clear") /\ NoFault
       \/ Present(at[p]) /\ named # at[p] /\ Goto(p, "commit") /\ NoFault
       \/ Present(at[p]) /\ named = at[p] /\ ~Rejected(at[p]) /\ Goto(p, "commit") /\ NoFault
       \/ Present(at[p]) /\ named = at[p] /\ Rejected(at[p]) /\ Goto(p, "invalidate") /\ NoFault
       \/ Fault /\ Goto(p, "commit")
    /\ UNCHANGED <<row, box, bad, work, kind, at, fencing, tx, drops, lost>>

\* invalidate_active_work_for_quarantine_in_tx
Invalidate(p) ==
    /\ pc[p] = "invalidate"
    /\ IF Holds(p) THEN /\ ends' = working /\ fencing' = fencing \cup {p} /\ Goto(p, "remove")
                   ELSE UNCHANGED <<ends, fencing>> /\ Goto(p, "commit")
    /\ UNCHANGED <<row, box, bad, work, kind, at, lock, pend, bounds>>

\* Mutant: a container that cannot be removed keeps its keys.
Spare == UNCHANGED row

\* quarantine_container's columns.
Revoke == keyed' = FALSE /\ UNCHANGED named

\* quarantine_container: the row keeps the container but not its keys.
Fence(p) ==
    /\ pc[p] = "fence"
    /\ \/ named = at[p] /\ Revoke /\ Goto(p, "offline") /\ NoFault
       \/ named # at[p] /\ UNCHANGED row /\ Goto(p, "commit") /\ NoFault
       \/ Fault /\ UNCHANGED row /\ Goto(p, "commit")
    /\ UNCHANGED <<box, bad, work, kind, at, fencing, tx, drops, lost>>

-----------------------------------------------------------------------------
(* The end of an operation *)

Release(p) ==
    IF Holds(p) THEN lock' = None /\ pend' = Same /\ ends' = FALSE ELSE UNCHANGED tx

\* The transaction's writes become durable, the lock is free.
Commit(p) ==
    /\ pc[p] \in {"commit", "commit ok"}
    /\ LET committed == Holds(p) /\ NoFault
           aborted == (Holds(p) /\ Fault) \/ (~Holds(p) /\ NoFault)
       IN \/ /\ committed
             /\ named' = IF pend = Same THEN named ELSE pend
             /\ keyed' = IF pend = Same THEN keyed ELSE pend \in Boxes
             /\ working' = (working /\ ~ends /\ named' # Deleted)
             /\ presence' = IF named' = Deleted THEN "offline" ELSE presence
             /\ Goto(p, IF pc[p] = "commit ok" /\ kind[p] \in {"start", "replace"}
                        THEN "register" ELSE "idle")
          \/ aborted /\ UNCHANGED <<row, work>> /\ Goto(p, "idle")
    /\ Release(p) /\ fencing' = fencing \ {p}
    /\ UNCHANGED <<box, bad, kind, at, drops, lost>>

\* register_started_agent_participant_best_effort, after the lock is released.
Register(p) ==
    /\ pc[p] = "register" /\ Goto(p, "idle")
    /\ \/ /\ named # Deleted
          /\ presence' = IF presence = "offline" THEN "available" ELSE presence
       \/ UNCHANGED presence
    /\ UNCHANGED <<row, box, bad, working, kind, at, fencing, tx, bounds>>

\* The request is dropped or its process ends: the transaction rolls back. A create
\* that is on its way may still reach Docker.
Drop(p) ==
    /\ pc[p] # "idle" /\ drops < MaxDrops /\ drops' = drops + 1
    /\ Goto(p, "idle") /\ fencing' = fencing \ {p} /\ Release(p)
    /\ box' \in {box} \cup {[box EXCEPT ![b] = "created"] : b \in {c \in Boxes :
           pc[p] = "create" /\ box[c] = "none" /\ \A d \in Boxes : ~Present(d)}}
    /\ UNCHANGED <<row, bad, work, kind, at, faults, lost>>

\* The lock's connection is lost while its holder goes on.
LoseLock ==
    /\ lock # None /\ lost < MaxLost /\ lost' = lost + 1
    /\ lock' = None /\ pend' = Same /\ ends' = FALSE
    /\ UNCHANGED <<row, box, bad, work, ops, faults, drops>>

-----------------------------------------------------------------------------
(* The Agent's work and its container's life *)

\* Mutant: work is admitted while an operation holds the lock.
Anytime == TRUE

\* Admission of work takes the lifecycle lock as well.
LockFree == lock = None

\* A claim of an available participant.
Claim ==
    /\ LockFree /\ named # Deleted /\ presence = "available" /\ ~working
    /\ working' = TRUE /\ presence' = "busy"
    /\ UNCHANGED <<row, box, bad, ops, tx, bounds>>

\* The work ends; the transaction of a quarantine has the task's row locked.
EndWork ==
    /\ working /\ ~ends /\ working' = FALSE
    /\ presence' = IF presence = "busy" THEN "available" ELSE presence
    /\ UNCHANGED <<row, box, bad, ops, tx, bounds>>

\* release_if_idle, and a heartbeat of the running container.
Beat ==
    /\ \/ presence = "busy" /\ ~working /\ presence' = "available"
       \/ /\ named \in Boxes /\ keyed /\ box[named] = "running" /\ presence = "offline"
          /\ presence' = IF working THEN "busy" ELSE "available"
    /\ UNCHANGED <<row, box, bad, working, ops, tx, bounds>>

\* The container ends, disappears from the host, or stops passing the checks.
Die(b) == box[b] = "running" /\ Becomes(b, "stopped")
    /\ UNCHANGED <<row, bad, work, ops, tx, bounds>>
Vanish(b) == Present(b) /\ Becomes(b, "gone") /\ Fault
    /\ UNCHANGED <<row, bad, work, ops, tx, drops, lost>>
TurnBad(b) == box[b] = "running" /\ b \notin bad /\ bad' = bad \cup {b}
    /\ UNCHANGED <<row, box, work, ops, tx, bounds>>

Step(p) ==
    \/ Check(p) \/ Create(p) \/ Set(p) \/ Discard(p) \/ Launch(p) \/ Undo(p) \/ Unset(p)
    \/ Remove(p) \/ Confirm(p) \/ Clear(p) \/ Offline(p) \/ Erase(p)
    \/ Inspect(p) \/ Invalidate(p) \/ Fence(p) \/ Commit(p) \/ Register(p)

Next ==
    \/ \E p \in Procs : Admit(p) \/ Step(p) \/ Drop(p)
    \/ \E p \in Procs, k \in Kinds \cup {"reconcile"} : Request(p, k)
    \/ LoseLock \/ Claim \/ EndWork \/ Beat
    \/ \E b \in Boxes : Die(b) \/ Vanish(b) \/ TurnBad(b)

Spec == Init /\ [][Next]_vars

-----------------------------------------------------------------------------
\* "so a live container is never abandoned": a container of the Agent is named by its
\* row, or an operation in flight has it in hand.
NothingAbandoned ==
    \A b \in Boxes : Present(b) =>
        named = b \/ \E p \in Procs : pc[p] # "idle" /\ at[p] = b

\* The row stops naming a container only when Docker no longer has it, whatever
\* fails or is dropped once, while no operation loses its lock unawares.
RowForgetsGone ==
    [][lost' = 0 /\ named \in Boxes /\ named' # named => ~Present(named)]_vars

\* A container is taken away from under the Agent's work only by a quarantine: what
\* the lifecycle lock is for, as long as no operation loses it unawares.
WorkKeepsContainer ==
    [][lost = 0 => \A p \in Procs : Remove(p) /\ working => p \in fencing]_vars

\* A quarantine that ran to its end took the container or, when the one call that
\* failed is the removal, its keys.
QuarantineHolds ==
    [][\A p \in Procs :
        p \in fencing /\ named = at[p] /\ Present(at[p]) /\ Commit(p) => ~keyed]_vars

=============================================================================
