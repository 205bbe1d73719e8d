------------------------------- MODULE MCJobs -------------------------------
(* The job queue, the clone worker with the containers it runs, and the updater of   *)
(* CLI images, for TLC. They share no row and no container, so a behaviour follows   *)
(* one of them and the others keep still. All rows but j3 share a unique key, as two *)
(* completions of one task would.                                                    *)
EXTENDS JobQueue, TLC

CONSTANTS
    \* ProjectClone's, and CloneContainer's
    Rows, Timely, CloneRuns, Sweepers, MaxEnds,
    \* CliImage's
    Updaters, Roller, Images, Version, Signed, MaxMoves, MaxLost,
    MaxFaults,     \* bound: of the clone workers, and of the updaters
    j1, j3, i1     \* two of the rows, and the oldest of the images

VARIABLES
    part,      \* the one this behaviour follows
    status, expired, materialized, column, live, onDisk, staging, outbox, job, at, cur, held,
    keep, faults,
    pc, outcome, box, file, cloned, known, doomed, old, listed, ends,
    registry, tracked, alias, local, used, lock, step, mind, moves, failed, lost

cloneVars == <<status, expired, materialized, column, live, onDisk, staging, outbox, job, at,
               cur, held, keep, faults>>
boxVars == <<pc, outcome, box, file, cloned, known, doomed, old, listed, ends>>
imageVars == <<registry, tracked, alias, local, used, lock, step, mind, moves, failed, lost>>
jobsVars == <<part, queueVars, cloneVars, boxVars, imageVars>>

SharedKey == [j \in Jobs |-> IF j = j3 THEN j3 ELSE j1]

\* The first image is older than the others.
FirstIsOld == [i \in Images |-> IF i = i1 THEN 1 ELSE 2]

Clone == INSTANCE ProjectClone
Box == INSTANCE CloneContainer WITH
           Attempts <- CloneRuns, MaxCrashes <- MaxEnds, crashes <- ends
Image == INSTANCE CliImage WITH faults <- failed

ASSUME InstancesAssumption ==
    Clone!CloneAssumption /\ Box!ContainerAssumption /\ Image!ImageAssumption

JobsInit ==
    /\ part \in {"queue", "clone", "container", "image"}
    /\ Init /\ Clone!Init /\ Box!Init /\ Image!Init
    \* What the other parts start from does not matter.
    /\ part # "container" => file = {}
    /\ part # "image" => registry = i1 /\ alias = None

JobsNext ==
    /\ UNCHANGED part
    /\ \/ part = "queue" /\ Next /\ UNCHANGED <<cloneVars, boxVars, imageVars>>
       \/ part = "clone" /\ Clone!Next /\ UNCHANGED <<queueVars, boxVars, imageVars>>
       \/ part = "container" /\ Box!Next /\ UNCHANGED <<queueVars, cloneVars, imageVars>>
       \/ part = "image" /\ Image!Next /\ UNCHANGED <<queueVars, cloneVars, boxVars>>

JobsSpec == JobsInit /\ [][JobsNext]_jobsVars

Symmetry == Permutations(Workers) \cup Permutations(CloneRuns) \cup Permutations(Sweepers)
                \cup Permutations(Updaters)

-----------------------------------------------------------------------------
\* ProjectClone's: a ready attempt has its directory, and no directory appears for a
\* project deleted while its clone ran.
CloneSound == Clone!CloneSound

\* CloneContainer's: Ready only when this run's own container cloned all.
ReadyIsCloned == Box!TypeOK /\ Box!ReadyIsCloned

\* CliImage's: the alias only becomes a verified image, never an older one, and stays what
\* it is while a roll uses it.
ImageSound == Image!ImageSound
=============================================================================
