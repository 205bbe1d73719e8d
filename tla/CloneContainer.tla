--------------------------- MODULE CloneContainer ---------------------------
(* The container of a clone (clone_runtime.rs): created, started and waited for by *)
(* run_clone, removed by its guard, by the guard's drop or by the sweep. Each      *)
(* attempt has one container of its own name.                                      *)
EXTENDS Naturals

CONSTANTS
    Attempts,
    Sweepers,      \* replicas on the same Docker host
    MaxCrashes     \* bound: crashes of the process

ContainerAssumption == MaxCrashes \in Nat

VARIABLES
    pc,            \* where run_clone is
    outcome,       \* what it returned
    box,           \* the container
    file,          \* the staging directory has a result file with a head_sha
    cloned,        \* attempts whose container cloned all and wrote its result
    known,         \* attempts whose guard has the container's id
    doomed,        \* attempts with a detached removal
    old,           \* containers past max_clone_age
    listed,        \* what each sweep still has to remove
    crashes

vars == <<pc, outcome, box, file, cloned, known, doomed, old, listed, crashes>>

Gone == {"none", "over"}
Steps == {"create", "start", "wait", "zero", "nonzero", "remove", "removing"}
Exited == {"exited 0", "exited n"}

TypeOK ==
    /\ pc \in [Attempts -> Gone \cup Steps]
    /\ outcome \in [Attempts -> {"none", "ready", "failed", "timeout", "error"}]
    /\ box \in [Attempts -> {"none", "created", "running"} \cup Exited]
    /\ file \subseteq Attempts /\ cloned \subseteq Attempts /\ doomed \subseteq known
    /\ known \subseteq Attempts /\ old \subseteq {a \in Attempts : box[a] = "running"}
    /\ listed \in [Sweepers -> SUBSET Attempts] /\ crashes \in 0..MaxCrashes
    /\ \A a \in Attempts : pc[a] \in {"start", "wait", "zero", "nonzero"} => a \in known

\* A staging directory may hold the result file of an earlier run.
Init ==
    /\ pc = [a \in Attempts |-> "none"] /\ outcome = pc /\ box = pc
    /\ file \in SUBSET Attempts
    /\ cloned = {} /\ known = {} /\ doomed = {} /\ old = {}
    /\ listed = [s \in Sweepers |-> {}] /\ crashes = 0

Goto(a, p) == pc' = [pc EXCEPT ![a] = p]
Report(a, o) == outcome' = [outcome EXCEPT ![a] = o] /\ Goto(a, "remove")

\* Mutant: the result file of an earlier run stays.
KeepFile(a) == file

\* remove_file of the staging directory's result file.
PreClean(a) == file \ {a}

\* Mutant: the guard is not told the container.
Forget(a) == known

\* CloneCleanupGuard::set_container
SetContainer(a) == known \cup {a}

\* The network, the result file of an earlier run, the guard.
Begin(a) ==
    /\ pc[a] = "none"
    /\ \/ Goto(a, "create") /\ file' = PreClean(a) /\ UNCHANGED outcome
       \/ /\ Goto(a, "over") /\ outcome' = [outcome EXCEPT ![a] = "error"]
          /\ UNCHANGED file
    /\ UNCHANGED << box, cloned, known, doomed, old, listed, crashes>>

Create(a) ==
    /\ pc[a] = "create"
    /\ \/ /\ box' = [box EXCEPT ![a] = "created"] /\ known' = SetContainer(a)
          /\ Goto(a, "start") /\ UNCHANGED outcome
       \/ Report(a, "error") /\ UNCHANGED <<box, known>>
    /\ UNCHANGED <<file, cloned, doomed, old, listed, crashes>>

Start(a) ==
    /\ pc[a] = "start"
    /\ \/ /\ box[a] = "created"
          /\ box' = [box EXCEPT ![a] = "running"]
          /\ Goto(a, "wait") /\ UNCHANGED outcome
       \/ Report(a, "error") /\ UNCHANGED box
    /\ UNCHANGED <<file, cloned, known, doomed, old, listed, crashes>>

\* The container ends: cloned and reported, without a valid report, or failed.
Exit(a) ==
    /\ box[a] = "running"
    /\ \/ /\ box' = [box EXCEPT ![a] = "exited 0"]
          /\ file' = file \cup {a} /\ cloned' = cloned \cup {a}
       \/ \E e \in Exited : box' = [box EXCEPT ![a] = e] /\ UNCHANGED <<file, cloned>>
    /\ old' = old \ {a}
    /\ UNCHANGED <<pc, outcome, known, doomed, listed, crashes>>

\* wait_exit; without a frame recover_exit_code inspects, which may fail as well. A
\* container that is removed under the wait ends with a signal.
Wait(a) ==
    /\ pc[a] = "wait"
    /\ \/ box[a] = "exited 0" /\ Goto(a, "zero") /\ UNCHANGED outcome
       \/ box[a] \in {"exited n", "none"} /\ Goto(a, "nonzero") /\ UNCHANGED outcome
       \/ Report(a, "error")
    /\ UNCHANGED <<box, file, cloned, known, doomed, old, listed, crashes>>

\* The timeout; recover_finished_at_timeout honours a clone that just finished.
TimeOut(a) ==
    /\ pc[a] = "wait"
    /\ \/ box[a] = "exited 0" /\ a \in file /\ Report(a, "ready")
       \/ Report(a, "timeout")
    /\ UNCHANGED <<box, file, cloned, known, doomed, old, listed, crashes>>

\* classify_exit
Classify(a) ==
    /\ pc[a] \in {"zero", "nonzero"}
    /\ Report(a, IF pc[a] = "zero" /\ a \in file THEN "ready" ELSE "failed")
    /\ UNCHANGED <<box, file, cloned, known, doomed, old, listed, crashes>>

\* CloneCleanupGuard::run marks itself done ...
Remove(a) ==
    /\ pc[a] = "remove" /\ Goto(a, "removing")
    /\ UNCHANGED <<outcome, box, file, cloned, known, doomed, old, listed, crashes>>

\* ... and then awaits the removal, which may fail.
Removed(a) ==
    /\ pc[a] = "removing" /\ Goto(a, "over")
    /\ box' \in {box, IF a \in known THEN [box EXCEPT ![a] = "none"] ELSE box}
    /\ old' = IF box'[a] = "none" THEN old \ {a} ELSE old
    /\ UNCHANGED <<outcome, file, cloned, known, doomed, listed, crashes>>

\* The future is dropped: the guard's drop spawns a removal unless run() began.
\* A create request that is dropped may still reach the daemon.
Cut(a) ==
    /\ pc[a] \in Steps /\ Goto(a, "over")
    /\ doomed' = IF a \in known /\ pc[a] # "removing" THEN doomed \cup {a} ELSE doomed
    /\ box' \in {box, IF pc[a] = "create" THEN [box EXCEPT ![a] = "created"] ELSE box}
    /\ UNCHANGED <<outcome, file, cloned, known, old, listed, crashes>>

\* The detached removal, best effort.
Detached(a) ==
    /\ a \in doomed
    /\ doomed' = doomed \ {a}
    /\ box' \in {box, [box EXCEPT ![a] = "none"]}
    /\ old' = IF box'[a] = "none" THEN old \ {a} ELSE old
    /\ UNCHANGED <<pc, outcome, file, cloned, known, listed, crashes>>

\* max_clone_age is the timeout and slack: run_clone is over by then.
Age(a) ==
    /\ box[a] = "running" /\ pc[a] = "over" /\ a \notin old
    /\ old' = old \cup {a}
    /\ UNCHANGED <<pc, outcome, box, file, cloned, known, doomed, listed, crashes>>

\* "Reap rule: not-running => orphan; running => only past the hard ceiling."
Reapable(a) == box[a] \in {"created"} \cup Exited \/ a \in old

\* list_clone_containers of one sweep.
List(s) ==
    /\ listed[s] = {}
    /\ listed' = [listed EXCEPT ![s] = {a \in Attempts : Reapable(a)}]
    /\ listed'[s] # {}
    /\ UNCHANGED <<pc, outcome, box, file, cloned, known, doomed, old, crashes>>

\* force_remove by id; the next sweep retries what failed.
Reap(s, a) ==
    /\ a \in listed[s]
    /\ listed' = [listed EXCEPT ![s] = @ \ {a}]
    /\ box' = [box EXCEPT ![a] = "none"]
    /\ old' = old \ {a}
    /\ UNCHANGED <<pc, outcome, file, cloned, known, doomed, crashes>>

ReapFails(s, a) ==
    /\ a \in listed[s]
    /\ listed' = [listed EXCEPT ![s] = @ \ {a}]
    /\ UNCHANGED <<pc, outcome, box, file, cloned, known, doomed, old, crashes>>

\* The process ends, with its runs, its detached removals and its sweeps.
Crash ==
    /\ crashes < MaxCrashes /\ crashes' = crashes + 1
    /\ pc' = [a \in Attempts |-> IF pc[a] \in Steps THEN "over" ELSE pc[a]]
    /\ doomed' = {} /\ listed' = [s \in Sweepers |-> {}]
    /\ UNCHANGED <<outcome, box, file, cloned, known, old>>

RunStep(a) ==
    \/ Begin(a) \/ Create(a) \/ Start(a) \/ Wait(a) \/ TimeOut(a) \/ Classify(a)
    \/ Remove(a) \/ Removed(a)

Next ==
    \/ \E a \in Attempts : RunStep(a) \/ Exit(a) \/ Cut(a) \/ Detached(a) \/ Age(a)
    \/ \E s \in Sweepers : List(s) \/ \E a \in Attempts : Reap(s, a) \/ ReapFails(s, a)
    \/ Crash

Spec == Init /\ [][Next]_vars

-----------------------------------------------------------------------------
\* "a half-baked clone is never marked ready": Ready only when this run's container
\* cloned all, whatever an earlier run left in the directory.
ReadyIsCloned == \A a \in Attempts : outcome[a] = "ready" => a \in cloned
=============================================================================
