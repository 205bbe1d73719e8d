------------------------------ MODULE CliImage ------------------------------
(* The local image of one CLI tool (cli_image_updater.rs, cli_image_roll.rs): the   *)
(* runtime alias that new Agents start from, moved by the updaters of several        *)
(* replicas, used by a roll, and cleaned up after by the prune. One advisory lock    *)
(* per tool, held by a transaction, keeps them apart. Registry, Docker and people    *)
(* who pull by hand do not take it.                                                  *)
EXTENDS Naturals

CONSTANTS
    Updaters,      \* replicas that poll
    Roller,        \* the roll of an administrator
    Images,        \* content ids, each with one digest
    Version,       \* [Images -> Nat]: the CLI-version label
    Signed,        \* images whose signature verifies
    MaxMoves,      \* bound: what the registry tag becomes, and pulls by hand
    MaxFaults,     \* bound: failing calls
    MaxLost,       \* bound: lost connections of a lock's transaction
    None

ImageAssumption ==
    /\ Version \in [Images -> Nat] /\ Signed \subseteq Images
    /\ Roller \notin Updaters /\ None \notin Images \cup Updaters \cup {Roller}
    /\ MaxMoves \in Nat /\ MaxFaults \in Nat /\ MaxLost \in Nat

VARIABLES
    registry,      \* the image of the registry's tag
    tracked,       \* the image of the local copy of that tag
    alias,         \* the image of agentforge-agent:<tool>
    local,         \* images on this host
    used,          \* images of containers, stopped ones too
    lock,          \* who has the tool's advisory lock
    step,          \* where an updater's tick, or the roll, is
    mind,          \* its locals: the registry's answer (wants), the tracked image or the
                   \* roll's (seen), the alias (found), what a prune listed (todo)
    moves, faults, lost

docker == <<tracked, alias, local, used>>
bounds == <<moves, faults, lost>>
vars == <<registry, docker, lock, step, mind, bounds>>

Procs == Updaters \cup {Roller}
Maybe == Images \cup {None}
Updating == {"digest", "tracked", "alias", "pull", "inspect", "verify", "tag", "check", "commit"}
Pruning == {"prune", "list", "remove", "pruned"}
Rolling == {"snapshot", "rolling"}
Blank == [wants |-> None, seen |-> None, found |-> None, todo |-> {}]

TypeOK ==
    /\ registry \in Images /\ tracked \in Maybe /\ alias \in Maybe
    /\ local \subseteq Images /\ used \subseteq local
    /\ {tracked, alias} \subseteq local \cup {None}
    /\ lock \in Procs \cup {None}
    /\ step \in [Procs -> {"idle"} \cup Updating \cup Pruning \cup Rolling]
    /\ mind \in [Procs -> [wants : Maybe, seen : Maybe, found : Maybe, todo : SUBSET Images]]
    /\ moves \in 0..MaxMoves /\ faults \in 0..MaxFaults /\ lost \in 0..MaxLost
    /\ lock # None => step[lock] \notin {"idle", "prune"}

\* A host that may have images of earlier deployments; the alias was verified.
Init ==
    /\ registry \in Images
    /\ alias \in Signed \cup {None} /\ tracked \in {alias, None}
    /\ local = {alias, tracked} \ {None} /\ used \in SUBSET local
    /\ lock = None /\ step = [p \in Procs |-> "idle"]
    /\ mind = [p \in Procs |-> Blank]
    /\ moves = 0 /\ faults = 0 /\ lost = 0

Goto(p, s) == step' = [step EXCEPT ![p] = s]
Freed(p) == IF lock = p THEN None ELSE lock
Sees(p, field, i) == mind' = [mind EXCEPT ![p][field] = i]

-----------------------------------------------------------------------------
(* The lock *)

LockIsFree == lock = None

\* begin and pg_try_advisory_xact_lock: busy ends this check, and the tick goes on to
\* its prune.
TryLock(p, s, busy) ==
    \/ LockIsFree /\ lock' = p /\ Goto(p, s)
    \/ lock # None /\ Goto(p, busy) /\ UNCHANGED lock

Begin(u) ==
    /\ step[u] = "idle" /\ TryLock(u, "digest", "prune")
    /\ UNCHANGED <<registry, docker, mind, bounds>>

BeginPrune(u) ==
    /\ step[u] = "prune" /\ TryLock(u, "list", "idle")
    /\ UNCHANGED <<registry, docker, mind, bounds>>

\* The end of a transaction; a commit whose connection is lost fails.
Finish(p, s) == lock' = Freed(p) /\ Goto(p, s) /\ mind' = [mind EXCEPT ![p] = Blank]

After(p) == IF step[p] \in Updating THEN "prune" ELSE "idle"

\* A call fails, and the transaction is rolled back.
Fails(p) ==
    /\ step[p] \notin {"idle", "prune"} /\ faults < MaxFaults
    /\ faults' = faults + 1
    /\ Finish(p, After(p))
    /\ UNCHANGED <<registry, docker, moves, lost>>

\* The connection is lost, and the holder does not know.
LoseLock ==
    /\ lock # None /\ lost < MaxLost
    /\ lock' = None /\ lost' = lost + 1
    /\ UNCHANGED <<registry, docker, step, mind, moves, faults>>

-----------------------------------------------------------------------------
(* check_and_update_image *)

RemoteDigest(u) ==
    /\ step[u] = "digest" /\ Goto(u, "tracked")
    /\ Sees(u, "wants", registry)
    /\ UNCHANGED <<registry, docker, lock, bounds>>

InspectTracked(u) ==
    /\ step[u] = "tracked" /\ Goto(u, "alias")
    /\ Sees(u, "seen", tracked)
    /\ UNCHANGED <<registry, docker, lock, bounds>>

InspectAlias(u) ==
    /\ step[u] = "alias"
    /\ Sees(u, "found", alias)
    /\ Goto(u, IF mind[u].seen = mind[u].wants THEN "verify" ELSE "pull")
    /\ UNCHANGED <<registry, docker, lock, bounds>>

\* What the registry's tag is by now becomes the tracked image.
Fetched == tracked' = registry /\ local' = local \cup {registry}

Pull(u) ==
    /\ step[u] = "pull" /\ Goto(u, "inspect")
    /\ Fetched
    /\ UNCHANGED <<registry, alias, used, lock, mind, bounds>>

\* The pulled image must be the one the registry announced.
InspectPulled(u) ==
    /\ step[u] = "inspect"
    /\ IF tracked = mind[u].wants
       THEN Sees(u, "seen", tracked) /\ Goto(u, "verify") /\ UNCHANGED lock
       ELSE Finish(u, "prune")
    /\ UNCHANGED <<registry, docker, bounds>>

\* reject_cli_version_downgrade
Downgrades(u) == mind[u].found # None /\ Version[mind[u].seen] < Version[mind[u].found]

Trusted(u) == mind[u].seen \in Signed /\ ~ Downgrades(u)

\* Signature and version; then the alias may already be right.
Verify(u) ==
    /\ step[u] = "verify"
    /\ IF Trusted(u)
       THEN /\ Goto(u, IF mind[u].found = mind[u].seen THEN "commit" ELSE "tag")
            /\ UNCHANGED <<lock, mind>>
       ELSE Finish(u, "prune")
    /\ UNCHANGED <<registry, docker, bounds>>

\* Mutant: the mutable tag is resolved again.
TrackedNow(u) == tracked

\* "Retag the exact content id we inspected and verified."
Candidate(u) == mind[u].seen

\* Tagging an image that is gone fails.
Tag(u) ==
    /\ step[u] = "tag"
    /\ IF Candidate(u) \in local
       THEN alias' = Candidate(u) /\ Goto(u, "check") /\ UNCHANGED <<lock, mind>>
       ELSE Finish(u, "prune") /\ UNCHANGED alias
    /\ UNCHANGED <<registry, tracked, local, used, bounds>>

\* The alias is inspected again; a difference is an error of this check, and its
\* transaction had nothing to write.
CheckAlias(u) ==
    /\ step[u] = "check"
    /\ IF alias = mind[u].seen
       THEN Goto(u, "commit") /\ UNCHANGED <<lock, mind>>
       ELSE Finish(u, "prune")
    /\ UNCHANGED <<registry, docker, bounds>>

Commit(u) ==
    /\ step[u] = "commit" /\ Finish(u, "prune")
    /\ UNCHANGED <<registry, docker, bounds>>

-----------------------------------------------------------------------------
(* prune_orphans *)

\* is_prunable_agent_image: images without a tag.
Dangling == local \ {tracked, alias}

\* list_local_images without referenced_image_ids.
Prunable == Dangling \ used

List(u) ==
    /\ step[u] = "list" /\ Goto(u, "remove")
    /\ Sees(u, "todo", Prunable)
    /\ UNCHANGED <<registry, docker, lock, bounds>>

\* Docker refuses an image that has a tag or a container by now.
Remove(u) ==
    /\ step[u] = "remove"
    /\ \E i \in mind[u].todo :
          /\ local' = IF i \in Dangling \ used THEN local \ {i} ELSE local
          /\ Sees(u, "todo", mind[u].todo \ {i})
    /\ UNCHANGED <<registry, tracked, alias, used, lock, step, bounds>>

PruneEnds(u) ==
    /\ step[u] = "remove" /\ mind[u].todo = {} /\ Finish(u, "idle")
    /\ UNCHANGED <<registry, docker, bounds>>

-----------------------------------------------------------------------------
(* roll *)

StartRoll ==
    /\ step[Roller] = "idle" /\ LockIsFree
    /\ lock' = Roller /\ Goto(Roller, "snapshot")
    /\ UNCHANGED <<registry, docker, mind, bounds>>

\* snapshot_verified_roll_image, once for all Agents of the roll.
Snapshot ==
    /\ step[Roller] = "snapshot"
    /\ IF alias \in Signed
       THEN /\ Goto(Roller, "rolling") /\ Sees(Roller, "seen", alias)
            /\ UNCHANGED lock
       ELSE Finish(Roller, "idle")
    /\ UNCHANGED <<registry, docker, bounds>>

\* One Agent's container is replaced by one of the roll's image.
RollOne ==
    /\ step[Roller] = "rolling" /\ mind[Roller].seen \in local
    /\ used' = used \cup {mind[Roller].seen}
    /\ UNCHANGED <<registry, tracked, alias, local, lock, step, mind, bounds>>

EndRoll ==
    /\ step[Roller] = "rolling" /\ Finish(Roller, "idle")
    /\ UNCHANGED <<registry, docker, bounds>>

-----------------------------------------------------------------------------
(* Others *)

\* A release, or a tag that goes back.
Publish ==
    /\ moves < MaxMoves /\ moves' = moves + 1
    /\ registry' \in Images \ {registry}
    /\ UNCHANGED <<docker, lock, step, mind, faults, lost>>

\* Somebody pulls the tag by hand.
PullByHand ==
    /\ moves < MaxMoves /\ moves' = moves + 1
    /\ Fetched
    /\ UNCHANGED <<registry, alias, used, lock, step, mind, faults, lost>>

\* A single Agent starts from the alias; containers go.
AgentStarts ==
    /\ alias \in Signed /\ used' = used \cup {alias}
    /\ UNCHANGED <<registry, tracked, alias, local, lock, step, mind, bounds>>

ContainersGo ==
    /\ \E i \in used : used' = used \ {i}
    /\ UNCHANGED <<registry, tracked, alias, local, lock, step, mind, bounds>>

UpdateStep(u) ==
    \/ RemoteDigest(u) \/ InspectTracked(u) \/ InspectAlias(u) \/ Pull(u) \/ InspectPulled(u)
    \/ Verify(u) \/ Tag(u) \/ CheckAlias(u) \/ Commit(u)
PruneStep(u) == BeginPrune(u) \/ List(u) \/ Remove(u) \/ PruneEnds(u)

Next ==
    \/ \E u \in Updaters : Begin(u) \/ UpdateStep(u) \/ PruneStep(u)
    \/ StartRoll \/ Snapshot \/ RollOne \/ EndRoll
    \/ \E p \in Procs : Fails(p)
    \/ LoseLock \/ Publish \/ PullByHand \/ AgentStarts \/ ContainersGo

Spec == Init /\ [][Next]_vars

-----------------------------------------------------------------------------
\* The alias only becomes an image whose signature verified, whatever the mutable tags
\* are while it is looked at ("must not be resolved again after the trust decision").
AliasIsVerified == [][alias' # alias => alias' \in Signed]_vars

\* New Agents never get an older CLI than before, however many replicas update, as long
\* as no lock is lost unawares (reject_cli_version_downgrade under the lock).
NeverOlder ==
    [][lost = 0 /\ alias' # alias /\ alias # None => Version[alias'] >= Version[alias]]_vars

\* "so a roll cannot observe or apply a partially changed runtime alias": the image of a
\* roll stays the alias, and so on the host, until the roll ends.
RollKeepsImage == lost = 0 /\ step[Roller] = "rolling" => alias = mind[Roller].seen

\* The alias only becomes a verified image, never an older one, and stays what it is while
\* a roll uses it (check_and_update_image and roll under the tool's advisory lock).
ImageSound == [](TypeOK /\ RollKeepsImage) /\ AliasIsVerified /\ NeverOlder
=============================================================================
