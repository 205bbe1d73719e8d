------------------------------ MODULE MCAgent ------------------------------
(* What happens to an Agent and to what it made, for TLC: the pull request of a     *)
(* task it finished, the operations on its container, and the leases its sessions   *)
(* hold. The three share no variable, so a behaviour follows one of them and the    *)
(* others keep still.                                                               *)
EXTENDS SelfFix, TLC

CONSTANTS
    \* AgentContainer's
    Requests, Sweeper, Boxes, MaxFaults, MaxDrops, MaxLost, Deleted,
    \* AgentLease's
    Sessions, Conns, MaxGen, MaxSeq, MaxInputs, MaxLate

VARIABLES
    part,      \* the one this behaviour follows
    named, keyed, box, bad, presence, working, lock, kind, pc, at, fencing, pend, ends, faults,
    drops, lost,
    gen, made, status, owner, lease, lifeGen, lastSeq, orch, cli, active, seq, sent, rows, shown,
    txs, monitor, inputs

lifeVars == <<named, keyed, box, bad, presence, working, lock, kind, pc, at, fencing, pend, ends,
              faults, drops, lost>>
leaseVars == <<gen, made, status, owner, lease, lifeGen, lastSeq, orch, cli, active, seq, sent,
               rows, shown, txs, monitor, inputs>>
agentVars == <<part, vars, lifeVars, leaseVars>>

\* Each task has its own job.
OwnKey == [t \in Jobs |-> t]

Life == INSTANCE AgentContainer WITH Callers <- Requests
Lease == INSTANCE AgentLease WITH tx <- txs

ASSUME InstancesAssumption ==
    SelfFixAssumption /\ Life!ContainerAssumption /\ Lease!LeaseAssumption

AgentInit ==
    /\ part \in {"review", "container", "lease"}
    /\ SFInit /\ Life!Init /\ Lease!Init

AgentNext ==
    /\ UNCHANGED part
    /\ \/ part = "review" /\ SFNext /\ UNCHANGED <<lifeVars, leaseVars>>
       \/ part = "container" /\ Life!Next /\ UNCHANGED <<vars, leaseVars>>
       \/ part = "lease" /\ Lease!Next /\ UNCHANGED <<vars, lifeVars>>

AgentSpec == AgentInit /\ [][AgentNext]_agentVars

Symmetry ==
    Permutations(Workers) \cup Permutations(Callers) \cup Permutations(Boxes)
        \cup Permutations(Sessions) \cup Permutations(Conns)

-----------------------------------------------------------------------------
\* The container: its row forgets it only when it is gone, and a quarantine that ran to
\* its end took the container or its keys.
ContainerSound == []Life!TypeOK /\ Life!RowForgetsGone /\ Life!QuarantineHolds

\* No container is removed under work, unless it was quarantined or a lock was lost.
WorkKeepsContainer == Life!WorkKeepsContainer

\* AgentLease's: no live lease beside a task, a session loses a live lease only to its own
\* stop, its container's end or time, and events apply in their order.
LeaseSound ==
    /\ [](Lease!TypeOK /\ Lease!SessionsExcludeTasks)
    /\ Lease!OwnerIsProtected /\ Lease!OnlyNewerEventsApply
=============================================================================
