---------------------------- MODULE DockerProofs ----------------------------
(***************************************************************************)
(* Theorems about what the workers of MCJobs keep on a Docker host: the    *)
(* images of a CLI tool (Image), for any replicas, images, signatures,     *)
(* versions and bounds, the container of a clone (Box), for any attempts,  *)
(* sweeps and crashes, and the directory that those containers fill        *)
(* (Clone), for any workers and attempts.                                  *)
(***************************************************************************)
EXTENDS MCJobs, TLAPS

-----------------------------------------------------------------------------
(* The images: the inductive invariant *)

\* The trust decision is about the image that will be tagged.
TagsTrusted ==
    \A u \in Updaters : step[u] = "tag" =>
        /\ mind[u].seen \in Signed
        /\ mind[u].found # None => Version[mind[u].seen] >= Version[mind[u].found]

\* The roll and the updaters take different steps.
OwnSteps ==
    /\ step[Roller] \notin Image!Updating \cup Image!Pruning
    /\ \A u \in Updaters : step[u] \notin Image!Rolling

\* Until a lock is lost, whoever is inside a transaction has it.
InsideHoldsLock ==
    lost = 0 => \A p \in Image!Procs : step[p] \notin {"idle", "prune"} => lock = p

\* Then what an updater found the alias to be is what it is until it tags.
FoundIsAlias ==
    lost = 0 => \A u \in Updaters :
        step[u] \in {"pull", "inspect", "verify", "tag"} => mind[u].found = alias

ImageInv ==
    /\ Image!TypeOK /\ TagsTrusted /\ OwnSteps
    /\ InsideHoldsLock /\ FoundIsAlias /\ Image!RollKeepsImage

LEMMA InitImage ==
  ASSUME Image!ImageAssumption, Image!Init
  PROVE  ImageInv
  <1>1. Image!TypeOK
    BY DEF Image!ImageAssumption, Image!Init, Image!TypeOK, Image!Maybe, Image!Blank, Image!Procs
  <1> QED BY <1>1 DEF Image!ImageAssumption, Image!Init, ImageInv, TagsTrusted, OwnSteps,
       InsideHoldsLock, FoundIsAlias, Image!RollKeepsImage, Image!Procs, Image!Updating,
       Image!Pruning, Image!Rolling

-----------------------------------------------------------------------------
(* One lemma per action *)

LEMMA BeginKeeps ==
  ASSUME Image!ImageAssumption, ImageInv, NEW u \in Updaters, Image!Begin(u)
  PROVE  ImageInv'
  <1>1. Image!TypeOK'
    BY DEF Image!Begin, Image!TryLock, Image!LockIsFree, Image!Goto, Image!ImageAssumption,
         ImageInv, Image!TypeOK, Image!Maybe, Image!Procs, Image!docker, Image!bounds,
         Image!Updating, Image!Pruning, Image!Rolling
  <1>2. TagsTrusted' /\ OwnSteps'
    BY DEF Image!Begin, Image!TryLock, Image!LockIsFree, Image!Goto, Image!ImageAssumption,
         ImageInv, Image!TypeOK, Image!Maybe, Image!Procs, Image!docker, Image!bounds,
         Image!Updating, Image!Pruning, Image!Rolling, TagsTrusted, OwnSteps
  <1>3. InsideHoldsLock' /\ FoundIsAlias' /\ Image!RollKeepsImage'
    BY DEF Image!Begin, Image!TryLock, Image!LockIsFree, Image!Goto, Image!ImageAssumption,
         ImageInv, Image!TypeOK, Image!Maybe, Image!Procs, Image!docker, Image!bounds,
         Image!Updating, Image!Pruning, Image!Rolling, OwnSteps, InsideHoldsLock,
         FoundIsAlias, Image!RollKeepsImage
  <1> QED BY <1>1, <1>2, <1>3 DEF ImageInv

LEMMA BeginPruneKeeps ==
  ASSUME Image!ImageAssumption, ImageInv, NEW u \in Updaters, Image!BeginPrune(u)
  PROVE  ImageInv'
  <1>1. Image!TypeOK'
    BY DEF Image!BeginPrune, Image!TryLock, Image!LockIsFree, Image!Goto,
         Image!ImageAssumption, ImageInv, Image!TypeOK, Image!Maybe, Image!Procs,
         Image!docker, Image!bounds, Image!Updating, Image!Pruning, Image!Rolling
  <1>2. TagsTrusted' /\ OwnSteps'
    BY DEF Image!BeginPrune, Image!TryLock, Image!LockIsFree, Image!Goto,
         Image!ImageAssumption, ImageInv, Image!TypeOK, Image!Maybe, Image!Procs,
         Image!docker, Image!bounds, Image!Updating, Image!Pruning, Image!Rolling,
         TagsTrusted, OwnSteps
  <1>3. InsideHoldsLock' /\ FoundIsAlias' /\ Image!RollKeepsImage'
    BY DEF Image!BeginPrune, Image!TryLock, Image!LockIsFree, Image!Goto,
         Image!ImageAssumption, ImageInv, Image!TypeOK, Image!Maybe, Image!Procs,
         Image!docker, Image!bounds, Image!Updating, Image!Pruning, Image!Rolling, OwnSteps,
         InsideHoldsLock, FoundIsAlias, Image!RollKeepsImage
  <1> QED BY <1>1, <1>2, <1>3 DEF ImageInv

LEMMA FailsKeeps ==
  ASSUME Image!ImageAssumption, ImageInv, NEW p \in Image!Procs, Image!Fails(p)
  PROVE  ImageInv'
  <1>1. Image!TypeOK'
    BY DEF Image!Fails, Image!After, Image!Finish, Image!Freed, Image!Blank, Image!Goto,
         Image!ImageAssumption, ImageInv, Image!TypeOK, Image!Maybe, Image!Procs,
         Image!docker, Image!bounds, Image!Updating, Image!Pruning, Image!Rolling
  <1>2. TagsTrusted' /\ OwnSteps'
    BY DEF Image!Fails, Image!After, Image!Finish, Image!Freed, Image!Blank, Image!Goto,
         Image!ImageAssumption, ImageInv, Image!TypeOK, Image!Maybe, Image!Procs,
         Image!docker, Image!bounds, Image!Updating, Image!Pruning, Image!Rolling,
         TagsTrusted, OwnSteps
  <1>3. InsideHoldsLock' /\ FoundIsAlias' /\ Image!RollKeepsImage'
    BY DEF Image!Fails, Image!After, Image!Finish, Image!Freed, Image!Blank, Image!Goto,
         Image!ImageAssumption, ImageInv, Image!TypeOK, Image!Maybe, Image!Procs,
         Image!docker, Image!bounds, Image!Updating, Image!Pruning, Image!Rolling, OwnSteps,
         InsideHoldsLock, FoundIsAlias, Image!RollKeepsImage
  <1> QED BY <1>1, <1>2, <1>3 DEF ImageInv

LEMMA LoseLockKeeps ==
  ASSUME Image!ImageAssumption, ImageInv, Image!LoseLock
  PROVE  ImageInv'
  <1>1. Image!TypeOK'
    BY DEF Image!LoseLock, Image!ImageAssumption, ImageInv, Image!TypeOK, Image!Maybe,
         Image!Procs, Image!docker, Image!bounds, Image!Updating, Image!Pruning, Image!Rolling
  <1>2. TagsTrusted' /\ OwnSteps'
    BY DEF Image!LoseLock, Image!ImageAssumption, ImageInv, Image!TypeOK, Image!Maybe,
         Image!Procs, Image!docker, Image!bounds, Image!Updating, Image!Pruning,
         Image!Rolling, TagsTrusted, OwnSteps
  <1>3. InsideHoldsLock' /\ FoundIsAlias' /\ Image!RollKeepsImage'
    BY DEF Image!LoseLock, Image!ImageAssumption, ImageInv, Image!TypeOK, Image!Maybe,
         Image!Procs, Image!docker, Image!bounds, Image!Updating, Image!Pruning,
         Image!Rolling, OwnSteps, InsideHoldsLock, FoundIsAlias, Image!RollKeepsImage
  <1> QED BY <1>1, <1>2, <1>3 DEF ImageInv

LEMMA RemoteDigestKeeps ==
  ASSUME Image!ImageAssumption, ImageInv, NEW u \in Updaters, Image!RemoteDigest(u)
  PROVE  ImageInv'
  <1>1. Image!TypeOK'
    BY DEF Image!RemoteDigest, Image!Goto, Image!Sees, Image!ImageAssumption, ImageInv,
         Image!TypeOK, Image!Maybe, Image!Procs, Image!docker, Image!bounds, Image!Updating,
         Image!Pruning, Image!Rolling
  <1>2. TagsTrusted' /\ OwnSteps'
    BY DEF Image!RemoteDigest, Image!Goto, Image!Sees, Image!ImageAssumption, ImageInv,
         Image!TypeOK, Image!Maybe, Image!Procs, Image!docker, Image!bounds, Image!Updating,
         Image!Pruning, Image!Rolling, TagsTrusted, OwnSteps
  <1>3. InsideHoldsLock' /\ FoundIsAlias' /\ Image!RollKeepsImage'
    BY DEF Image!RemoteDigest, Image!Goto, Image!Sees, Image!ImageAssumption, ImageInv,
         Image!TypeOK, Image!Maybe, Image!Procs, Image!docker, Image!bounds, Image!Updating,
         Image!Pruning, Image!Rolling, OwnSteps, InsideHoldsLock, FoundIsAlias,
         Image!RollKeepsImage
  <1> QED BY <1>1, <1>2, <1>3 DEF ImageInv

LEMMA InspectTrackedKeeps ==
  ASSUME Image!ImageAssumption, ImageInv, NEW u \in Updaters, Image!InspectTracked(u)
  PROVE  ImageInv'
  <1>1. Image!TypeOK'
    BY DEF Image!InspectTracked, Image!Goto, Image!Sees, Image!ImageAssumption, ImageInv,
         Image!TypeOK, Image!Maybe, Image!Procs, Image!docker, Image!bounds, Image!Updating,
         Image!Pruning, Image!Rolling
  <1>2. TagsTrusted' /\ OwnSteps'
    BY DEF Image!InspectTracked, Image!Goto, Image!Sees, Image!ImageAssumption, ImageInv,
         Image!TypeOK, Image!Maybe, Image!Procs, Image!docker, Image!bounds, Image!Updating,
         Image!Pruning, Image!Rolling, TagsTrusted, OwnSteps
  <1>3. InsideHoldsLock' /\ FoundIsAlias' /\ Image!RollKeepsImage'
    BY DEF Image!InspectTracked, Image!Goto, Image!Sees, Image!ImageAssumption, ImageInv,
         Image!TypeOK, Image!Maybe, Image!Procs, Image!docker, Image!bounds, Image!Updating,
         Image!Pruning, Image!Rolling, OwnSteps, InsideHoldsLock, FoundIsAlias,
         Image!RollKeepsImage
  <1> QED BY <1>1, <1>2, <1>3 DEF ImageInv

LEMMA InspectAliasKeeps ==
  ASSUME Image!ImageAssumption, ImageInv, NEW u \in Updaters, Image!InspectAlias(u)
  PROVE  ImageInv'
  <1>1. Image!TypeOK'
    BY DEF Image!InspectAlias, Image!Goto, Image!Sees, Image!ImageAssumption, ImageInv,
         Image!TypeOK, Image!Maybe, Image!Procs, Image!docker, Image!bounds, Image!Updating,
         Image!Pruning, Image!Rolling
  <1>2. TagsTrusted' /\ OwnSteps'
    BY DEF Image!InspectAlias, Image!Goto, Image!Sees, Image!ImageAssumption, ImageInv,
         Image!TypeOK, Image!Maybe, Image!Procs, Image!docker, Image!bounds, Image!Updating,
         Image!Pruning, Image!Rolling, TagsTrusted, OwnSteps
  <1>3. InsideHoldsLock' /\ FoundIsAlias' /\ Image!RollKeepsImage'
    BY DEF Image!InspectAlias, Image!Goto, Image!Sees, Image!ImageAssumption, ImageInv,
         Image!TypeOK, Image!Maybe, Image!Procs, Image!docker, Image!bounds, Image!Updating,
         Image!Pruning, Image!Rolling, OwnSteps, InsideHoldsLock, FoundIsAlias,
         Image!RollKeepsImage
  <1> QED BY <1>1, <1>2, <1>3 DEF ImageInv

LEMMA PullKeeps ==
  ASSUME Image!ImageAssumption, ImageInv, NEW u \in Updaters, Image!Pull(u)
  PROVE  ImageInv'
  <1>1. Image!TypeOK'
    BY DEF Image!Pull, Image!Fetched, Image!Goto, Image!ImageAssumption, ImageInv,
         Image!TypeOK, Image!Maybe, Image!Procs, Image!docker, Image!bounds, Image!Updating,
         Image!Pruning, Image!Rolling
  <1>2. TagsTrusted' /\ OwnSteps'
    BY DEF Image!Pull, Image!Fetched, Image!Goto, Image!ImageAssumption, ImageInv,
         Image!TypeOK, Image!Maybe, Image!Procs, Image!docker, Image!bounds, Image!Updating,
         Image!Pruning, Image!Rolling, TagsTrusted, OwnSteps
  <1>3. InsideHoldsLock' /\ FoundIsAlias' /\ Image!RollKeepsImage'
    BY DEF Image!Pull, Image!Fetched, Image!Goto, Image!ImageAssumption, ImageInv,
         Image!TypeOK, Image!Maybe, Image!Procs, Image!docker, Image!bounds, Image!Updating,
         Image!Pruning, Image!Rolling, OwnSteps, InsideHoldsLock, FoundIsAlias,
         Image!RollKeepsImage
  <1> QED BY <1>1, <1>2, <1>3 DEF ImageInv

LEMMA InspectPulledKeeps ==
  ASSUME Image!ImageAssumption, ImageInv, NEW u \in Updaters, Image!InspectPulled(u)
  PROVE  ImageInv'
  <1>1. Image!TypeOK'
    BY DEF Image!InspectPulled, Image!Sees, Image!Finish, Image!Freed, Image!Blank,
         Image!Goto, Image!ImageAssumption, ImageInv, Image!TypeOK, Image!Maybe, Image!Procs,
         Image!docker, Image!bounds, Image!Updating, Image!Pruning, Image!Rolling
  <1>2. TagsTrusted' /\ OwnSteps'
    BY DEF Image!InspectPulled, Image!Sees, Image!Finish, Image!Freed, Image!Blank,
         Image!Goto, Image!ImageAssumption, ImageInv, Image!TypeOK, Image!Maybe, Image!Procs,
         Image!docker, Image!bounds, Image!Updating, Image!Pruning, Image!Rolling,
         TagsTrusted, OwnSteps
  <1>3. InsideHoldsLock' /\ FoundIsAlias' /\ Image!RollKeepsImage'
    BY DEF Image!InspectPulled, Image!Sees, Image!Finish, Image!Freed, Image!Blank,
         Image!Goto, Image!ImageAssumption, ImageInv, Image!TypeOK, Image!Maybe, Image!Procs,
         Image!docker, Image!bounds, Image!Updating, Image!Pruning, Image!Rolling, OwnSteps,
         InsideHoldsLock, FoundIsAlias, Image!RollKeepsImage
  <1> QED BY <1>1, <1>2, <1>3 DEF ImageInv

LEMMA VerifyKeeps ==
  ASSUME Image!ImageAssumption, ImageInv, NEW u \in Updaters, Image!Verify(u)
  PROVE  ImageInv'
  <1>1. Image!TypeOK'
    BY DEF Image!Verify, Image!Trusted, Image!Downgrades, Image!Finish, Image!Freed,
         Image!Blank, Image!Goto, Image!ImageAssumption, ImageInv, Image!TypeOK, Image!Maybe,
         Image!Procs, Image!docker, Image!bounds, Image!Updating, Image!Pruning, Image!Rolling
  <1>2. TagsTrusted' /\ OwnSteps'
    BY DEF Image!Verify, Image!Trusted, Image!Downgrades, Image!Finish, Image!Freed,
         Image!Blank, Image!Goto, Image!ImageAssumption, ImageInv, Image!TypeOK, Image!Maybe,
         Image!Procs, Image!docker, Image!bounds, Image!Updating, Image!Pruning,
         Image!Rolling, TagsTrusted, OwnSteps
  <1>3. InsideHoldsLock' /\ FoundIsAlias' /\ Image!RollKeepsImage'
    BY DEF Image!Verify, Image!Trusted, Image!Downgrades, Image!Finish, Image!Freed,
         Image!Blank, Image!Goto, Image!ImageAssumption, ImageInv, Image!TypeOK, Image!Maybe,
         Image!Procs, Image!docker, Image!bounds, Image!Updating, Image!Pruning,
         Image!Rolling, OwnSteps, InsideHoldsLock, FoundIsAlias, Image!RollKeepsImage
  <1> QED BY <1>1, <1>2, <1>3 DEF ImageInv

LEMMA TagKeeps ==
  ASSUME Image!ImageAssumption, ImageInv, NEW u \in Updaters, Image!Tag(u)
  PROVE  ImageInv'
  <1>1. Image!TypeOK'
    BY DEF Image!Tag, Image!Candidate, Image!Finish, Image!Freed, Image!Blank, Image!Goto,
         Image!ImageAssumption, ImageInv, Image!TypeOK, Image!Maybe, Image!Procs,
         Image!docker, Image!bounds, Image!Updating, Image!Pruning, Image!Rolling
  <1>2. TagsTrusted' /\ OwnSteps'
    BY DEF Image!Tag, Image!Candidate, Image!Finish, Image!Freed, Image!Blank, Image!Goto,
         Image!ImageAssumption, ImageInv, Image!TypeOK, Image!Maybe, Image!Procs,
         Image!docker, Image!bounds, Image!Updating, Image!Pruning, Image!Rolling,
         TagsTrusted, OwnSteps
  <1>3. InsideHoldsLock' /\ FoundIsAlias' /\ Image!RollKeepsImage'
    BY DEF Image!Tag, Image!Candidate, Image!Finish, Image!Freed, Image!Blank, Image!Goto,
         Image!ImageAssumption, ImageInv, Image!TypeOK, Image!Maybe, Image!Procs,
         Image!docker, Image!bounds, Image!Updating, Image!Pruning, Image!Rolling, OwnSteps,
         InsideHoldsLock, FoundIsAlias, Image!RollKeepsImage
  <1> QED BY <1>1, <1>2, <1>3 DEF ImageInv

LEMMA CheckAliasKeeps ==
  ASSUME Image!ImageAssumption, ImageInv, NEW u \in Updaters, Image!CheckAlias(u)
  PROVE  ImageInv'
  <1>1. Image!TypeOK'
    BY DEF Image!CheckAlias, Image!Finish, Image!Freed, Image!Blank, Image!Goto,
         Image!ImageAssumption, ImageInv, Image!TypeOK, Image!Maybe, Image!Procs,
         Image!docker, Image!bounds, Image!Updating, Image!Pruning, Image!Rolling
  <1>2. TagsTrusted' /\ OwnSteps'
    BY DEF Image!CheckAlias, Image!Finish, Image!Freed, Image!Blank, Image!Goto,
         Image!ImageAssumption, ImageInv, Image!TypeOK, Image!Maybe, Image!Procs,
         Image!docker, Image!bounds, Image!Updating, Image!Pruning, Image!Rolling,
         TagsTrusted, OwnSteps
  <1>3. InsideHoldsLock' /\ FoundIsAlias' /\ Image!RollKeepsImage'
    BY DEF Image!CheckAlias, Image!Finish, Image!Freed, Image!Blank, Image!Goto,
         Image!ImageAssumption, ImageInv, Image!TypeOK, Image!Maybe, Image!Procs,
         Image!docker, Image!bounds, Image!Updating, Image!Pruning, Image!Rolling, OwnSteps,
         InsideHoldsLock, FoundIsAlias, Image!RollKeepsImage
  <1> QED BY <1>1, <1>2, <1>3 DEF ImageInv

LEMMA CommitKeeps ==
  ASSUME Image!ImageAssumption, ImageInv, NEW u \in Updaters, Image!Commit(u)
  PROVE  ImageInv'
  <1>1. Image!TypeOK'
    BY DEF Image!Commit, Image!Finish, Image!Freed, Image!Blank, Image!Goto,
         Image!ImageAssumption, ImageInv, Image!TypeOK, Image!Maybe, Image!Procs,
         Image!docker, Image!bounds, Image!Updating, Image!Pruning, Image!Rolling
  <1>2. TagsTrusted' /\ OwnSteps'
    BY DEF Image!Commit, Image!Finish, Image!Freed, Image!Blank, Image!Goto,
         Image!ImageAssumption, ImageInv, Image!TypeOK, Image!Maybe, Image!Procs,
         Image!docker, Image!bounds, Image!Updating, Image!Pruning, Image!Rolling,
         TagsTrusted, OwnSteps
  <1>3. InsideHoldsLock' /\ FoundIsAlias' /\ Image!RollKeepsImage'
    BY DEF Image!Commit, Image!Finish, Image!Freed, Image!Blank, Image!Goto,
         Image!ImageAssumption, ImageInv, Image!TypeOK, Image!Maybe, Image!Procs,
         Image!docker, Image!bounds, Image!Updating, Image!Pruning, Image!Rolling, OwnSteps,
         InsideHoldsLock, FoundIsAlias, Image!RollKeepsImage
  <1> QED BY <1>1, <1>2, <1>3 DEF ImageInv

LEMMA ListKeeps ==
  ASSUME Image!ImageAssumption, ImageInv, NEW u \in Updaters, Image!List(u)
  PROVE  ImageInv'
  <1>1. Image!TypeOK'
    BY DEF Image!List, Image!Prunable, Image!Dangling, Image!Goto, Image!Sees,
         Image!ImageAssumption, ImageInv, Image!TypeOK, Image!Maybe, Image!Procs,
         Image!docker, Image!bounds, Image!Updating, Image!Pruning, Image!Rolling
  <1>2. TagsTrusted' /\ OwnSteps'
    BY DEF Image!List, Image!Prunable, Image!Dangling, Image!Goto, Image!Sees,
         Image!ImageAssumption, ImageInv, Image!TypeOK, Image!Maybe, Image!Procs,
         Image!docker, Image!bounds, Image!Updating, Image!Pruning, Image!Rolling,
         TagsTrusted, OwnSteps
  <1>3. InsideHoldsLock' /\ FoundIsAlias' /\ Image!RollKeepsImage'
    BY DEF Image!List, Image!Prunable, Image!Dangling, Image!Goto, Image!Sees,
         Image!ImageAssumption, ImageInv, Image!TypeOK, Image!Maybe, Image!Procs,
         Image!docker, Image!bounds, Image!Updating, Image!Pruning, Image!Rolling, OwnSteps,
         InsideHoldsLock, FoundIsAlias, Image!RollKeepsImage
  <1> QED BY <1>1, <1>2, <1>3 DEF ImageInv

LEMMA RemoveKeeps ==
  ASSUME Image!ImageAssumption, ImageInv, NEW u \in Updaters, Image!Remove(u)
  PROVE  ImageInv'
  <1>1. Image!TypeOK'
    BY DEF Image!Remove, Image!Dangling, Image!Sees, Image!ImageAssumption, ImageInv,
         Image!TypeOK, Image!Maybe, Image!Procs, Image!docker, Image!bounds, Image!Updating,
         Image!Pruning, Image!Rolling
  <1>2. TagsTrusted' /\ OwnSteps'
    BY DEF Image!Remove, Image!Dangling, Image!Sees, Image!ImageAssumption, ImageInv,
         Image!TypeOK, Image!Maybe, Image!Procs, Image!docker, Image!bounds, Image!Updating,
         Image!Pruning, Image!Rolling, TagsTrusted, OwnSteps
  <1>3. InsideHoldsLock' /\ FoundIsAlias' /\ Image!RollKeepsImage'
    BY DEF Image!Remove, Image!Dangling, Image!Sees, Image!ImageAssumption, ImageInv,
         Image!TypeOK, Image!Maybe, Image!Procs, Image!docker, Image!bounds, Image!Updating,
         Image!Pruning, Image!Rolling, OwnSteps, InsideHoldsLock, FoundIsAlias,
         Image!RollKeepsImage
  <1> QED BY <1>1, <1>2, <1>3 DEF ImageInv

LEMMA PruneEndsKeeps ==
  ASSUME Image!ImageAssumption, ImageInv, NEW u \in Updaters, Image!PruneEnds(u)
  PROVE  ImageInv'
  <1>1. Image!TypeOK'
    BY DEF Image!PruneEnds, Image!Finish, Image!Freed, Image!Blank, Image!Goto,
         Image!ImageAssumption, ImageInv, Image!TypeOK, Image!Maybe, Image!Procs,
         Image!docker, Image!bounds, Image!Updating, Image!Pruning, Image!Rolling
  <1>2. TagsTrusted' /\ OwnSteps'
    BY DEF Image!PruneEnds, Image!Finish, Image!Freed, Image!Blank, Image!Goto,
         Image!ImageAssumption, ImageInv, Image!TypeOK, Image!Maybe, Image!Procs,
         Image!docker, Image!bounds, Image!Updating, Image!Pruning, Image!Rolling,
         TagsTrusted, OwnSteps
  <1>3. InsideHoldsLock' /\ FoundIsAlias' /\ Image!RollKeepsImage'
    BY DEF Image!PruneEnds, Image!Finish, Image!Freed, Image!Blank, Image!Goto,
         Image!ImageAssumption, ImageInv, Image!TypeOK, Image!Maybe, Image!Procs,
         Image!docker, Image!bounds, Image!Updating, Image!Pruning, Image!Rolling, OwnSteps,
         InsideHoldsLock, FoundIsAlias, Image!RollKeepsImage
  <1> QED BY <1>1, <1>2, <1>3 DEF ImageInv

LEMMA StartRollKeeps ==
  ASSUME Image!ImageAssumption, ImageInv, Image!StartRoll
  PROVE  ImageInv'
  <1>1. Image!TypeOK'
    BY DEF Image!StartRoll, Image!LockIsFree, Image!Goto, Image!ImageAssumption, ImageInv,
         Image!TypeOK, Image!Maybe, Image!Procs, Image!docker, Image!bounds, Image!Updating,
         Image!Pruning, Image!Rolling
  <1>2. TagsTrusted' /\ OwnSteps'
    BY DEF Image!StartRoll, Image!LockIsFree, Image!Goto, Image!ImageAssumption, ImageInv,
         Image!TypeOK, Image!Maybe, Image!Procs, Image!docker, Image!bounds, Image!Updating,
         Image!Pruning, Image!Rolling, TagsTrusted, OwnSteps
  <1>3. InsideHoldsLock' /\ FoundIsAlias' /\ Image!RollKeepsImage'
    BY DEF Image!StartRoll, Image!LockIsFree, Image!Goto, Image!ImageAssumption, ImageInv,
         Image!TypeOK, Image!Maybe, Image!Procs, Image!docker, Image!bounds, Image!Updating,
         Image!Pruning, Image!Rolling, OwnSteps, InsideHoldsLock, FoundIsAlias,
         Image!RollKeepsImage
  <1> QED BY <1>1, <1>2, <1>3 DEF ImageInv

LEMMA SnapshotKeeps ==
  ASSUME Image!ImageAssumption, ImageInv, Image!Snapshot
  PROVE  ImageInv'
  <1>1. Image!TypeOK'
    BY DEF Image!Snapshot, Image!Sees, Image!Finish, Image!Freed, Image!Blank, Image!Goto,
         Image!ImageAssumption, ImageInv, Image!TypeOK, Image!Maybe, Image!Procs,
         Image!docker, Image!bounds, Image!Updating, Image!Pruning, Image!Rolling
  <1>2. TagsTrusted' /\ OwnSteps'
    BY DEF Image!Snapshot, Image!Sees, Image!Finish, Image!Freed, Image!Blank, Image!Goto,
         Image!ImageAssumption, ImageInv, Image!TypeOK, Image!Maybe, Image!Procs,
         Image!docker, Image!bounds, Image!Updating, Image!Pruning, Image!Rolling,
         TagsTrusted, OwnSteps
  <1>3. InsideHoldsLock' /\ FoundIsAlias' /\ Image!RollKeepsImage'
    BY DEF Image!Snapshot, Image!Sees, Image!Finish, Image!Freed, Image!Blank, Image!Goto,
         Image!ImageAssumption, ImageInv, Image!TypeOK, Image!Maybe, Image!Procs,
         Image!docker, Image!bounds, Image!Updating, Image!Pruning, Image!Rolling, OwnSteps,
         InsideHoldsLock, FoundIsAlias, Image!RollKeepsImage
  <1> QED BY <1>1, <1>2, <1>3 DEF ImageInv

LEMMA RollOneKeeps ==
  ASSUME Image!ImageAssumption, ImageInv, Image!RollOne
  PROVE  ImageInv'
  <1>1. Image!TypeOK'
    BY DEF Image!RollOne, Image!ImageAssumption, ImageInv, Image!TypeOK, Image!Maybe,
         Image!Procs, Image!docker, Image!bounds, Image!Updating, Image!Pruning, Image!Rolling
  <1>2. TagsTrusted' /\ OwnSteps'
    BY DEF Image!RollOne, Image!ImageAssumption, ImageInv, Image!TypeOK, Image!Maybe,
         Image!Procs, Image!docker, Image!bounds, Image!Updating, Image!Pruning,
         Image!Rolling, TagsTrusted, OwnSteps
  <1>3. InsideHoldsLock' /\ FoundIsAlias' /\ Image!RollKeepsImage'
    BY DEF Image!RollOne, Image!ImageAssumption, ImageInv, Image!TypeOK, Image!Maybe,
         Image!Procs, Image!docker, Image!bounds, Image!Updating, Image!Pruning,
         Image!Rolling, OwnSteps, InsideHoldsLock, FoundIsAlias, Image!RollKeepsImage
  <1> QED BY <1>1, <1>2, <1>3 DEF ImageInv

LEMMA EndRollKeeps ==
  ASSUME Image!ImageAssumption, ImageInv, Image!EndRoll
  PROVE  ImageInv'
  <1>1. Image!TypeOK'
    BY DEF Image!EndRoll, Image!Finish, Image!Freed, Image!Blank, Image!Goto,
         Image!ImageAssumption, ImageInv, Image!TypeOK, Image!Maybe, Image!Procs,
         Image!docker, Image!bounds, Image!Updating, Image!Pruning, Image!Rolling
  <1>2. TagsTrusted' /\ OwnSteps'
    BY DEF Image!EndRoll, Image!Finish, Image!Freed, Image!Blank, Image!Goto,
         Image!ImageAssumption, ImageInv, Image!TypeOK, Image!Maybe, Image!Procs,
         Image!docker, Image!bounds, Image!Updating, Image!Pruning, Image!Rolling,
         TagsTrusted, OwnSteps
  <1>3. InsideHoldsLock' /\ FoundIsAlias' /\ Image!RollKeepsImage'
    BY DEF Image!EndRoll, Image!Finish, Image!Freed, Image!Blank, Image!Goto,
         Image!ImageAssumption, ImageInv, Image!TypeOK, Image!Maybe, Image!Procs,
         Image!docker, Image!bounds, Image!Updating, Image!Pruning, Image!Rolling, OwnSteps,
         InsideHoldsLock, FoundIsAlias, Image!RollKeepsImage
  <1> QED BY <1>1, <1>2, <1>3 DEF ImageInv

LEMMA PublishKeeps ==
  ASSUME Image!ImageAssumption, ImageInv, Image!Publish
  PROVE  ImageInv'
  <1>1. Image!TypeOK'
    BY DEF Image!Publish, Image!ImageAssumption, ImageInv, Image!TypeOK, Image!Maybe,
         Image!Procs, Image!docker, Image!bounds, Image!Updating, Image!Pruning, Image!Rolling
  <1>2. TagsTrusted' /\ OwnSteps'
    BY DEF Image!Publish, Image!ImageAssumption, ImageInv, Image!TypeOK, Image!Maybe,
         Image!Procs, Image!docker, Image!bounds, Image!Updating, Image!Pruning,
         Image!Rolling, TagsTrusted, OwnSteps
  <1>3. InsideHoldsLock' /\ FoundIsAlias' /\ Image!RollKeepsImage'
    BY DEF Image!Publish, Image!ImageAssumption, ImageInv, Image!TypeOK, Image!Maybe,
         Image!Procs, Image!docker, Image!bounds, Image!Updating, Image!Pruning,
         Image!Rolling, OwnSteps, InsideHoldsLock, FoundIsAlias, Image!RollKeepsImage
  <1> QED BY <1>1, <1>2, <1>3 DEF ImageInv

LEMMA PullByHandKeeps ==
  ASSUME Image!ImageAssumption, ImageInv, Image!PullByHand
  PROVE  ImageInv'
  <1>1. Image!TypeOK'
    BY DEF Image!PullByHand, Image!Fetched, Image!ImageAssumption, ImageInv, Image!TypeOK,
         Image!Maybe, Image!Procs, Image!docker, Image!bounds, Image!Updating, Image!Pruning,
         Image!Rolling
  <1>2. TagsTrusted' /\ OwnSteps'
    BY DEF Image!PullByHand, Image!Fetched, Image!ImageAssumption, ImageInv, Image!TypeOK,
         Image!Maybe, Image!Procs, Image!docker, Image!bounds, Image!Updating, Image!Pruning,
         Image!Rolling, TagsTrusted, OwnSteps
  <1>3. InsideHoldsLock' /\ FoundIsAlias' /\ Image!RollKeepsImage'
    BY DEF Image!PullByHand, Image!Fetched, Image!ImageAssumption, ImageInv, Image!TypeOK,
         Image!Maybe, Image!Procs, Image!docker, Image!bounds, Image!Updating, Image!Pruning,
         Image!Rolling, OwnSteps, InsideHoldsLock, FoundIsAlias, Image!RollKeepsImage
  <1> QED BY <1>1, <1>2, <1>3 DEF ImageInv

LEMMA AgentStartsKeeps ==
  ASSUME Image!ImageAssumption, ImageInv, Image!AgentStarts
  PROVE  ImageInv'
  <1>1. Image!TypeOK'
    BY DEF Image!AgentStarts, Image!ImageAssumption, ImageInv, Image!TypeOK, Image!Maybe,
         Image!Procs, Image!docker, Image!bounds, Image!Updating, Image!Pruning, Image!Rolling
  <1>2. TagsTrusted' /\ OwnSteps'
    BY DEF Image!AgentStarts, Image!ImageAssumption, ImageInv, Image!TypeOK, Image!Maybe,
         Image!Procs, Image!docker, Image!bounds, Image!Updating, Image!Pruning,
         Image!Rolling, TagsTrusted, OwnSteps
  <1>3. InsideHoldsLock' /\ FoundIsAlias' /\ Image!RollKeepsImage'
    BY DEF Image!AgentStarts, Image!ImageAssumption, ImageInv, Image!TypeOK, Image!Maybe,
         Image!Procs, Image!docker, Image!bounds, Image!Updating, Image!Pruning,
         Image!Rolling, OwnSteps, InsideHoldsLock, FoundIsAlias, Image!RollKeepsImage
  <1> QED BY <1>1, <1>2, <1>3 DEF ImageInv

LEMMA ContainersGoKeeps ==
  ASSUME Image!ImageAssumption, ImageInv, Image!ContainersGo
  PROVE  ImageInv'
  <1>1. Image!TypeOK'
    BY DEF Image!ContainersGo, Image!ImageAssumption, ImageInv, Image!TypeOK, Image!Maybe,
         Image!Procs, Image!docker, Image!bounds, Image!Updating, Image!Pruning, Image!Rolling
  <1>2. TagsTrusted' /\ OwnSteps'
    BY DEF Image!ContainersGo, Image!ImageAssumption, ImageInv, Image!TypeOK, Image!Maybe,
         Image!Procs, Image!docker, Image!bounds, Image!Updating, Image!Pruning,
         Image!Rolling, TagsTrusted, OwnSteps
  <1>3. InsideHoldsLock' /\ FoundIsAlias' /\ Image!RollKeepsImage'
    BY DEF Image!ContainersGo, Image!ImageAssumption, ImageInv, Image!TypeOK, Image!Maybe,
         Image!Procs, Image!docker, Image!bounds, Image!Updating, Image!Pruning,
         Image!Rolling, OwnSteps, InsideHoldsLock, FoundIsAlias, Image!RollKeepsImage
  <1> QED BY <1>1, <1>2, <1>3 DEF ImageInv

-----------------------------------------------------------------------------
(* The theorems *)

LEMMA ImageInvStep ==
  ASSUME Image!ImageAssumption, ImageInv, [Image!Next]_(Image!vars)
  PROVE  ImageInv'
  <1>1. CASE \E u \in Updaters : Image!Begin(u) \/ Image!UpdateStep(u) \/ Image!PruneStep(u)
    BY <1>1, BeginKeeps, RemoteDigestKeeps, InspectTrackedKeeps, InspectAliasKeeps, PullKeeps,
         InspectPulledKeeps, VerifyKeeps, TagKeeps, CheckAliasKeeps, CommitKeeps,
         BeginPruneKeeps, ListKeeps, RemoveKeeps, PruneEndsKeeps DEF Image!UpdateStep,
         Image!PruneStep
  <1>2. CASE Image!StartRoll \/ Image!Snapshot \/ Image!RollOne \/ Image!EndRoll
    BY <1>2, StartRollKeeps, SnapshotKeeps, RollOneKeeps, EndRollKeeps
  <1>3. CASE \E p \in Image!Procs : Image!Fails(p)
    BY <1>3, FailsKeeps
  <1>4. CASE \/ Image!LoseLock \/ Image!Publish \/ Image!PullByHand
             \/ Image!AgentStarts \/ Image!ContainersGo
    BY <1>4, LoseLockKeeps, PublishKeeps, PullByHandKeeps, AgentStartsKeeps, ContainersGoKeeps
  <1>5. CASE UNCHANGED Image!vars
    BY <1>5 DEF Image!vars, Image!docker, Image!bounds, ImageInv, Image!TypeOK, TagsTrusted,
         OwnSteps, InsideHoldsLock, FoundIsAlias, Image!RollKeepsImage
  <1> QED BY <1>1, <1>2, <1>3, <1>4, <1>5 DEF Image!Next

LEMMA ImageInvHolds ==
  ASSUME Image!ImageAssumption
  PROVE  Image!Spec => []ImageInv
  <1>1. Image!Init => ImageInv
    BY InitImage
  <1>2. ImageInv /\ [Image!Next]_(Image!vars) => ImageInv'
    BY ImageInvStep
  <1> QED BY <1>1, <1>2, PTL DEF Image!Spec

\* The alias is written by a tag and by nothing else.
LEMMA OnlyTagsMoveTheAlias ==
  ASSUME [Image!Next]_(Image!vars), alias' # alias
  PROVE  \E u \in Updaters : Image!Tag(u) /\ alias' = Image!Candidate(u)
  <1>1. CASE \E u \in Updaters : Image!Begin(u) \/ Image!UpdateStep(u) \/ Image!PruneStep(u)
    BY <1>1 DEF Image!UpdateStep, Image!PruneStep, Image!Begin, Image!BeginPrune,
         Image!RemoteDigest, Image!InspectTracked, Image!InspectAlias, Image!Pull,
         Image!InspectPulled, Image!Verify, Image!Tag, Image!CheckAlias, Image!Commit,
         Image!List, Image!Remove, Image!PruneEnds, Image!docker
  <1>2. CASE Image!StartRoll \/ Image!Snapshot \/ Image!RollOne \/ Image!EndRoll
    BY <1>2 DEF Image!StartRoll, Image!Snapshot, Image!RollOne, Image!EndRoll, Image!docker
  <1>3. CASE \E p \in Image!Procs : Image!Fails(p)
    BY <1>3 DEF Image!Fails, Image!docker
  <1>4. CASE \/ Image!LoseLock \/ Image!Publish \/ Image!PullByHand
             \/ Image!AgentStarts \/ Image!ContainersGo
    BY <1>4 DEF Image!LoseLock, Image!Publish, Image!PullByHand, Image!AgentStarts,
         Image!ContainersGo, Image!docker
  <1>5. CASE UNCHANGED Image!vars
    BY <1>5 DEF Image!vars, Image!docker
  <1> QED BY <1>1, <1>2, <1>3, <1>4, <1>5 DEF Image!Next

\* reject_cli_version_downgrade and the signature check decide about the image that is
\* tagged, and, while no lock is lost, about the alias that it replaces.
LEMMA TagIsTrusted ==
  ASSUME ImageInv, NEW u \in Updaters, Image!Tag(u), alias' = Image!Candidate(u)
  PROVE  /\ alias' \in Signed
         /\ lost = 0 /\ alias # None => Version[alias'] >= Version[alias]
  BY DEF ImageInv, TagsTrusted, FoundIsAlias, Image!Tag, Image!Candidate

\* What new Agents start from was verified, whatever the registry, a pull by hand or a
\* lost lock do while check_and_update_image runs.
THEOREM AliasStaysVerified ==
  ASSUME Image!ImageAssumption
  PROVE  Image!Spec => Image!AliasIsVerified
  <1>1. ImageInv /\ [Image!Next]_(Image!vars) => [alias' # alias => alias' \in Signed]_(Image!vars)
    BY OnlyTagsMoveTheAlias, TagIsTrusted
  <1> QED BY <1>1, ImageInvHolds, PTL DEF Image!Spec, Image!AliasIsVerified

\* The version check of check_and_update_image holds when the alias is written, with any
\* number of replicas, until a transaction loses its lock.
THEOREM NoDowngrade ==
  ASSUME Image!ImageAssumption
  PROVE  Image!Spec => Image!NeverOlder
  <1>1. ImageInv /\ [Image!Next]_(Image!vars) =>
          [lost = 0 /\ alias' # alias /\ alias # None =>
              Version[alias'] >= Version[alias]]_(Image!vars)
    BY OnlyTagsMoveTheAlias, TagIsTrusted
  <1> QED BY <1>1, ImageInvHolds, PTL DEF Image!Spec, Image!NeverOlder

\* A roll replaces all its Agents by the image it verified first, and that image is still
\* the alias, as snapshot_verified_roll_image relies on the tool's lock.
THEOREM RollSeesOneImage ==
  ASSUME Image!ImageAssumption
  PROVE  Image!Spec => [](Image!TypeOK /\ Image!RollKeepsImage)
  <1>1. ImageInv => Image!TypeOK /\ Image!RollKeepsImage
    BY DEF ImageInv
  <1> QED BY <1>1, ImageInvHolds, PTL

\* What the updater, the prune and the roll of a CLI tool promise together.
THEOREM ImagesAreSound ==
  ASSUME Image!ImageAssumption
  PROVE  Image!Spec => ImageSound
  BY AliasStaysVerified, NoDowngrade, RollSeesOneImage, PTL DEF ImageSound, Image!ImageSound

-----------------------------------------------------------------------------
(* The container of a clone *)

\* A result file that a running attempt can see is of its own container: Begin removed
\* the file of an earlier run, and nothing else writes one.
FileIsOwn ==
    \A a \in CloneRuns : pc[a] \in Box!Steps /\ a \in file => a \in cloned

\* A container past the ceiling belongs to a run that is over, so no step of a run meets it.
OldIsOver == \A a \in old : pc[a] = "over"

BoxInv == ReadyIsCloned /\ FileIsOwn /\ OldIsOver

USE DEF Box!Gone, Box!Steps, Box!Exited

LEMMA BoxInit ==
  ASSUME Box!ContainerAssumption, Box!Init
  PROVE  BoxInv
  BY DEF Box!ContainerAssumption, Box!Init, BoxInv, ReadyIsCloned, Box!TypeOK,
       Box!ReadyIsCloned, FileIsOwn, OldIsOver

\* The run itself: each step writes the row of its own attempt.
LEMMA RunKeeps ==
  ASSUME Box!ContainerAssumption, BoxInv, NEW a \in CloneRuns, Box!RunStep(a)
  PROVE  BoxInv'
  <1> USE DEF Box!ContainerAssumption, BoxInv, ReadyIsCloned, Box!TypeOK, Box!ReadyIsCloned,
       FileIsOwn, OldIsOver, Box!Goto, Box!Report
  <1>1. CASE Box!Begin(a)
    <2>1. Box!TypeOK'
      BY <1>1 DEF Box!Begin, Box!PreClean
    <2>2. Box!ReadyIsCloned' /\ OldIsOver'
      BY <1>1 DEF Box!Begin, Box!PreClean
    <2>3. FileIsOwn'
      BY <1>1 DEF Box!Begin, Box!PreClean
    <2> QED BY <2>1, <2>2, <2>3
  <1>2. CASE Box!Create(a)
    <2>1. Box!TypeOK'
      BY <1>2 DEF Box!Create, Box!SetContainer
    <2>2. Box!ReadyIsCloned' /\ FileIsOwn' /\ OldIsOver'
      BY <1>2 DEF Box!Create, Box!SetContainer
    <2> QED BY <2>1, <2>2
  <1>3. CASE Box!Start(a)
    <2>1. Box!TypeOK'
      BY <1>3 DEF Box!Start
    <2>2. Box!ReadyIsCloned' /\ FileIsOwn' /\ OldIsOver'
      BY <1>3 DEF Box!Start
    <2> QED BY <2>1, <2>2
  <1>4. CASE Box!Wait(a)
    <2>1. Box!TypeOK'
      BY <1>4 DEF Box!Wait
    <2>2. Box!ReadyIsCloned' /\ FileIsOwn' /\ OldIsOver'
      BY <1>4 DEF Box!Wait
    <2> QED BY <2>1, <2>2
  <1>5. CASE Box!TimeOut(a)
    <2>1. PICK o \in {"ready", "timeout"} :
            /\ outcome' = [outcome EXCEPT ![a] = o] /\ pc' = [pc EXCEPT ![a] = "remove"]
            /\ o = "ready" => a \in file
      BY <1>5 DEF Box!TimeOut
    <2>2. pc[a] = "wait" /\ UNCHANGED <<box, file, cloned, known, doomed, old, listed, ends>>
      BY <1>5 DEF Box!TimeOut
    <2>3. Box!TypeOK' /\ FileIsOwn' /\ OldIsOver'
      BY <2>1, <2>2
    <2>4. Box!ReadyIsCloned'
      BY <2>1, <2>2
    <2> QED BY <2>3, <2>4
  <1>6. CASE Box!Classify(a)
    BY <1>6 DEF Box!Classify
  <1>7. CASE Box!Remove(a)
    BY <1>7 DEF Box!Remove
  <1>8. CASE Box!Removed(a)
    BY <1>8 DEF Box!Removed
  <1> QED BY <1>1, <1>2, <1>3, <1>4, <1>5, <1>6, <1>7, <1>8 DEF Box!RunStep

\* The container ends, ages or is removed behind the run's back.
LEMMA OutsideKeeps ==
  ASSUME Box!ContainerAssumption, BoxInv, NEW a \in CloneRuns,
         Box!Exit(a) \/ Box!Cut(a) \/ Box!Detached(a) \/ Box!Age(a)
  PROVE  BoxInv'
  <1> USE DEF Box!ContainerAssumption, BoxInv, ReadyIsCloned, Box!TypeOK, Box!ReadyIsCloned,
       FileIsOwn, OldIsOver, Box!Goto
  <1>1. CASE Box!Exit(a)
    <2>1. Box!TypeOK'
      <3>1. /\ \E e \in Box!Exited : box' = [box EXCEPT ![a] = e]
            /\ file' \in {file, file \cup {a}} /\ cloned' \in {cloned, cloned \cup {a}}
            /\ old' = old \ {a} /\ UNCHANGED <<pc, outcome, known, doomed, listed, ends>>
        BY <1>1 DEF Box!Exit
      <3>2. box' \in [CloneRuns -> {"none", "created", "running"} \cup Box!Exited]
        BY <3>1
      <3>3. old' \subseteq {b \in CloneRuns : box'[b] = "running"}
        BY <3>1
      <3> QED BY <3>1, <3>2, <3>3
    <2>2. Box!ReadyIsCloned' /\ FileIsOwn' /\ OldIsOver'
      BY <1>1 DEF Box!Exit
    <2> QED BY <2>1, <2>2
  <1>2. CASE Box!Cut(a)
    BY <1>2 DEF Box!Cut
  <1>3. CASE Box!Detached(a)
    BY <1>3 DEF Box!Detached
  <1>4. CASE Box!Age(a)
    BY <1>4 DEF Box!Age
  <1> QED BY <1>1, <1>2, <1>3, <1>4

LEMMA OneMore ==
  ASSUME NEW m \in Nat, NEW n \in 0..m, n < m
  PROVE  n + 1 \in 0..m
  OBVIOUS

\* The sweeps of all replicas, and a crash.
LEMMA SweepKeeps ==
  ASSUME Box!ContainerAssumption, BoxInv,
         \/ \E s \in Sweepers : \/ Box!List(s)
                                \/ \E a \in CloneRuns : Box!Reap(s, a) \/ Box!ReapFails(s, a)
         \/ Box!Crash
  PROVE  BoxInv'
  <1> USE DEF Box!ContainerAssumption, BoxInv, ReadyIsCloned, Box!TypeOK, Box!ReadyIsCloned,
       FileIsOwn, OldIsOver
  <1>1. ASSUME NEW s \in Sweepers, Box!List(s)
        PROVE  BoxInv'
    BY <1>1 DEF Box!List
  <1>2. ASSUME NEW s \in Sweepers, NEW a \in CloneRuns, Box!Reap(s, a)
        PROVE  BoxInv'
    BY <1>2 DEF Box!Reap
  <1>3. ASSUME NEW s \in Sweepers, NEW a \in CloneRuns, Box!ReapFails(s, a)
        PROVE  BoxInv'
    BY <1>3 DEF Box!ReapFails
  <1>4. CASE Box!Crash
    <2>1. pc' = [a \in CloneRuns |-> IF pc[a] \in Box!Steps THEN "over" ELSE pc[a]]
      BY <1>4 DEF Box!Crash
    <2>2. \A a \in CloneRuns :
            /\ pc'[a] \in Box!Gone \cup Box!Steps /\ pc'[a] \notin Box!Steps
            /\ pc[a] = "over" => pc'[a] = "over"
      BY <2>1
    <2>3. pc' \in [CloneRuns -> Box!Gone \cup Box!Steps]
      BY <2>1, <2>2
    <2>4. /\ UNCHANGED <<outcome, box, file, cloned, known, old>> /\ doomed' = {}
          /\ ends' \in 0..MaxEnds /\ listed' \in [Sweepers -> SUBSET CloneRuns]
      <3>1. ends \in 0..MaxEnds /\ ends < MaxEnds /\ ends' = ends + 1
        BY <1>4 DEF Box!Crash
      <3>2. ends' \in 0..MaxEnds
        BY <3>1, OneMore
      <3>3. listed' \in [Sweepers -> SUBSET CloneRuns]
        BY <1>4 DEF Box!Crash
      <3> QED BY <1>4, <3>2, <3>3 DEF Box!Crash
    <2>5. Box!TypeOK'
      BY <2>2, <2>3, <2>4
    <2>6. FileIsOwn' /\ Box!ReadyIsCloned'
      BY <2>2, <2>4
    <2>7. OldIsOver'
      <3>1. old \subseteq CloneRuns
        OBVIOUS
      <3> QED BY <2>2, <2>4, <3>1
    <2> QED BY <2>5, <2>6, <2>7
  <1> QED BY <1>1, <1>2, <1>3, <1>4

\* "a half-baked clone is never marked ready": classify_exit and
\* recover_finished_at_timeout believe a result file only when this run's own container
\* wrote it, whatever sweeps, dropped futures and crashes do to containers and files.
THEOREM ReadyMeansCloned ==
  ASSUME Box!ContainerAssumption
  PROVE  Box!Spec => []ReadyIsCloned
  <1>1. Box!Init => BoxInv
    BY BoxInit
  <1>2. BoxInv /\ [Box!Next]_(Box!vars) => BoxInv'
    <2>1. ASSUME BoxInv, Box!Next
          PROVE  BoxInv'
      BY <2>1, RunKeeps, OutsideKeeps, SweepKeeps DEF Box!Next
    <2>2. ASSUME BoxInv, UNCHANGED Box!vars
          PROVE  BoxInv'
      BY <2>2 DEF Box!vars, BoxInv, ReadyIsCloned, Box!TypeOK, Box!ReadyIsCloned, FileIsOwn,
           OldIsOver
    <2> QED BY <2>1, <2>2
  <1>3. BoxInv => ReadyIsCloned
    BY DEF BoxInv
  <1> QED BY <1>1, <1>2, <1>3, PTL DEF Box!Spec

-----------------------------------------------------------------------------
(* The project's directory *)

\* Who finalizes has seen the directory: the rename made it, a recovery found it.
FinalizersSawIt ==
    \A w \in Workers : at[w] \in {"commit", "force", "adopt"} => onDisk

\* The project's row is locked from the check that it is live to the rename.
RenamesWhileLive == \A w \in Workers : at[w] = "rename" => live

\* Between clones a worker has no job.
PassesHoldNone ==
    \A w \in Workers : at[w] \in {"idle"} \cup Clone!Reconciling => held[w] = None

DirInv ==
    /\ Clone!TypeOK /\ Clone!ReadyIsOnDisk
    /\ FinalizersSawIt /\ RenamesWhileLive /\ PassesHoldNone

USE DEF Clone!Active, Clone!AttemptStatus, Clone!Cloning, Clone!Reconciling, Clone!Attempts

LEMMA DirInit ==
  ASSUME Clone!CloneAssumption, Clone!Init
  PROVE  DirInv
  <1>1. 1 \in 1..Rows /\ None \notin 1..Rows /\ 0 \in 0..MaxFaults
    BY DEF Clone!CloneAssumption
  <1>2. Clone!TypeOK
    BY <1>1 DEF Clone!Init, Clone!TypeOK
  <1> QED BY <1>1, <1>2 DEF Clone!Init, DirInv, Clone!ReadyIsOnDisk, FinalizersSawIt,
       RenamesWhileLive, PassesHoldNone
-----------------------------------------------------------------------------
(* The project's directory: one lemma per action *)

LEMMA NoneIsNoAttempt ==
  ASSUME Clone!CloneAssumption
  PROVE  \A a \in 1..Rows : a # None
  BY DEF Clone!CloneAssumption

\* What is written by SetStatus and by a step of a clone keeps its type.
LEMMA StatusTyped ==
  ASSUME Clone!CloneAssumption, Clone!TypeOK, NEW a \in 1..Rows, NEW s \in Clone!AttemptStatus,
         NEW c \in {"none", "queued", "cloning", "ready", "failed"}, Clone!SetStatus(a, s, c)
  PROVE  /\ status' \in [1..Rows -> Clone!AttemptStatus]
         /\ expired' \subseteq {b \in 1..Rows : status'[b] = "cloning"}
         /\ column' \in {"none", "queued", "cloning", "ready", "failed"}
  BY DEF Clone!TypeOK, Clone!SetStatus

Loop ==
    /\ at \in [Workers -> {"idle"} \cup Clone!Cloning \cup Clone!Reconciling]
    /\ cur \in [Workers -> 1..Rows \cup {None}] /\ held \in [Workers -> 1..Rows \cup {None}]
    /\ keep \in [Workers -> SUBSET (1..Rows)]
    /\ \A w \in Workers : at[w] \in Clone!Cloning => cur[w] # None /\ held[w] \in {None, cur[w]}

LEMMA StepTyped ==
  ASSUME Clone!CloneAssumption, DirInv, NEW w \in Workers, NEW a \in 1..Rows,
         NEW p \in {"look", "adopt"} \cup Clone!Cloning,
         NEW q \in Clone!Cloning \cup Clone!Reconciling, Clone!Step(w, p, a, q)
  PROVE  Loop' /\ faults' = faults
  BY NoneIsNoAttempt DEF DirInv, Loop, Clone!TypeOK, PassesHoldNone, Clone!Step, Clone!Goto

\* A step on the disk: rows, outbox and jobs stay, the attempt's staging comes or goes.
LEMMA DiskTyped ==
  ASSUME Clone!TypeOK, NEW a \in 1..Rows, Loop', onDisk' \in BOOLEAN,
         staging' \in {staging, staging \cup {a}, staging \ {a}},
         UNCHANGED <<status, expired, materialized, column, live, outbox, job, faults>>
  PROVE  Clone!TypeOK'
  BY DEF Clone!TypeOK, Loop, Clone!Attempts

\* The loop takes a job.
LEMMA DequeueKeeps ==
  ASSUME Clone!CloneAssumption, DirInv, NEW w \in Workers, NEW a \in 1..Rows,
         Clone!Dequeue(w, a)
  PROVE  DirInv'
  <1> USE NoneIsNoAttempt DEF DirInv, Clone!TypeOK, Clone!ReadyIsOnDisk, FinalizersSawIt,
       RenamesWhileLive, PassesHoldNone, Clone!rowVars, Clone!diskVars, Clone!queueVars,
       Clone!loopVars, Clone!Step, Clone!SetStatus, Clone!Goto, Clone!Locked,
       Clone!CloneAssumption, Clone!Dequeue
  <1>1. Clone!TypeOK'
    OBVIOUS
  <1>2. Clone!ReadyIsOnDisk' /\ FinalizersSawIt'
    OBVIOUS
  <1>3. RenamesWhileLive' /\ PassesHoldNone'
    OBVIOUS
  <1> QED BY <1>1, <1>2, <1>3

\* find_attempt and project_is_live.
LEMMA CheckKeeps ==
  ASSUME Clone!CloneAssumption, DirInv, NEW w \in Workers, NEW a \in 1..Rows,
         Clone!Check(w, a)
  PROVE  DirInv'
  <1> USE NoneIsNoAttempt DEF DirInv, Clone!TypeOK, Clone!ReadyIsOnDisk, FinalizersSawIt,
       RenamesWhileLive, PassesHoldNone, Clone!rowVars, Clone!diskVars, Clone!queueVars,
       Clone!loopVars, Clone!Step, Clone!SetStatus, Clone!Goto, Clone!Locked,
       Clone!CloneAssumption, Clone!Check
  <1>1. Clone!TypeOK'
    OBVIOUS
  <1>2. Clone!ReadyIsOnDisk' /\ FinalizersSawIt'
    OBVIOUS
  <1>3. RenamesWhileLive' /\ PassesHoldNone'
    OBVIOUS
  <1> QED BY <1>1, <1>2, <1>3

\* claim_for_cloning.
LEMMA ClaimKeeps ==
  ASSUME Clone!CloneAssumption, DirInv, NEW w \in Workers, NEW a \in 1..Rows,
         Clone!Claim(w, a)
  PROVE  DirInv'
  <1> USE NoneIsNoAttempt DEF DirInv, Clone!TypeOK, Clone!ReadyIsOnDisk, FinalizersSawIt,
       RenamesWhileLive, PassesHoldNone, Clone!rowVars, Clone!diskVars, Clone!queueVars,
       Clone!loopVars, Clone!Step, Clone!SetStatus, Clone!Goto, Clone!Locked,
       Clone!CloneAssumption, Clone!Claim, Clone!IsQueued
  <1>1. Clone!TypeOK'
    <2>1. Loop' /\ faults' = faults
      <3>1. PICK q \in Clone!Cloning : Clone!Step(w, "claim", a, q)
        BY DEF Clone!Claim
      <3> QED BY <3>1, StepTyped
    <2>2. CASE Clone!SetStatus(a, "cloning", "cloning")
      BY <2>1, <2>2, StatusTyped DEF Loop, Clone!Claim
    <2>3. CASE UNCHANGED <<status, expired, column>>
      BY <2>1, <2>3 DEF Loop, Clone!Claim
    <2> QED BY <2>2, <2>3 DEF Clone!Claim
  <1>2. Clone!ReadyIsOnDisk' /\ FinalizersSawIt'
    OBVIOUS
  <1>3. RenamesWhileLive' /\ PassesHoldNone'
    OBVIOUS
  <1> QED BY <1>1, <1>2, <1>3

\* cancel_attempt.
LEMMA CancelKeeps ==
  ASSUME Clone!CloneAssumption, DirInv, NEW w \in Workers, NEW a \in 1..Rows,
         Clone!Cancel(w, a)
  PROVE  DirInv'
  <1> USE NoneIsNoAttempt DEF DirInv, Clone!TypeOK, Clone!ReadyIsOnDisk, FinalizersSawIt,
       RenamesWhileLive, PassesHoldNone, Clone!rowVars, Clone!diskVars, Clone!queueVars,
       Clone!loopVars, Clone!Step, Clone!SetStatus, Clone!Goto, Clone!Locked,
       Clone!CloneAssumption, Clone!Cancel
  <1>1. Clone!TypeOK'
    <2>1. Loop' /\ faults' = faults
      BY StepTyped DEF Clone!Cancel
    <2>2. CASE Clone!SetStatus(a, "cancelled", "none")
      BY <2>1, <2>2, StatusTyped DEF Loop, Clone!Cancel
    <2>3. CASE UNCHANGED <<status, expired, column>>
      BY <2>1, <2>3 DEF Loop, Clone!Cancel
    <2> QED BY <2>2, <2>3 DEF Clone!Cancel
  <1>2. Clone!ReadyIsOnDisk' /\ FinalizersSawIt'
    OBVIOUS
  <1>3. RenamesWhileLive' /\ PassesHoldNone'
    OBVIOUS
  <1> QED BY <1>1, <1>2, <1>3

\* The staging directory.
LEMMA PrepareKeeps ==
  ASSUME Clone!CloneAssumption, DirInv, NEW w \in Workers, NEW a \in 1..Rows,
         Clone!Prepare(w, a)
  PROVE  DirInv'
  <1> USE NoneIsNoAttempt DEF DirInv, Clone!TypeOK, Clone!ReadyIsOnDisk, FinalizersSawIt,
       RenamesWhileLive, PassesHoldNone, Clone!rowVars, Clone!diskVars, Clone!queueVars,
       Clone!loopVars, Clone!Step, Clone!SetStatus, Clone!Goto, Clone!Locked,
       Clone!CloneAssumption, Clone!Prepare
  <1>1. Clone!TypeOK'
    <2>1. Loop' /\ faults' = faults
      BY StepTyped
    <2>2. /\ onDisk' \in BOOLEAN /\ staging' \in {staging, staging \cup {a}, staging \ {a}}
          /\ UNCHANGED <<status, expired, materialized, column, live, outbox, job>>
      OBVIOUS
    <2> QED BY <2>1, <2>2, DiskTyped
  <1>2. Clone!ReadyIsOnDisk' /\ FinalizersSawIt'
    OBVIOUS
  <1>3. RenamesWhileLive' /\ PassesHoldNone'
    OBVIOUS
  <1> QED BY <1>1, <1>2, <1>3

\* run_clone.
LEMMA CloneRunKeeps ==
  ASSUME Clone!CloneAssumption, DirInv, NEW w \in Workers, NEW a \in 1..Rows,
         Clone!Run(w, a)
  PROVE  DirInv'
  <1> USE NoneIsNoAttempt DEF DirInv, Clone!TypeOK, Clone!ReadyIsOnDisk, FinalizersSawIt,
       RenamesWhileLive, PassesHoldNone, Clone!rowVars, Clone!diskVars, Clone!queueVars,
       Clone!loopVars, Clone!Step, Clone!SetStatus, Clone!Goto, Clone!Locked,
       Clone!CloneAssumption, Clone!Run
  <1>1. Clone!TypeOK'
    <2>1. Loop' /\ faults' = faults
      BY StepTyped
    <2>2. /\ onDisk' \in BOOLEAN /\ staging' \in {staging, staging \cup {a}, staging \ {a}}
          /\ UNCHANGED <<status, expired, materialized, column, live, outbox, job>>
      OBVIOUS
    <2> QED BY <2>1, <2>2, DiskTyped
  <1>2. Clone!ReadyIsOnDisk' /\ FinalizersSawIt'
    OBVIOUS
  <1>3. RenamesWhileLive' /\ PassesHoldNone'
    OBVIOUS
  <1> QED BY <1>1, <1>2, <1>3

\* The target's look-up.
LEMMA TargetKeeps ==
  ASSUME Clone!CloneAssumption, DirInv, NEW w \in Workers, NEW a \in 1..Rows,
         Clone!Publish(w, a)
  PROVE  DirInv'
  <1> USE NoneIsNoAttempt DEF DirInv, Clone!TypeOK, Clone!ReadyIsOnDisk, FinalizersSawIt,
       RenamesWhileLive, PassesHoldNone, Clone!rowVars, Clone!diskVars, Clone!queueVars,
       Clone!loopVars, Clone!Step, Clone!SetStatus, Clone!Goto, Clone!Locked,
       Clone!CloneAssumption, Clone!Publish
  <1>1. Clone!TypeOK'
    <2>1. Loop' /\ faults' = faults
      BY StepTyped
    <2>2. /\ onDisk' \in BOOLEAN /\ staging' \in {staging, staging \cup {a}, staging \ {a}}
          /\ UNCHANGED <<status, expired, materialized, column, live, outbox, job>>
      OBVIOUS
    <2> QED BY <2>1, <2>2, DiskTyped
  <1>2. Clone!ReadyIsOnDisk' /\ FinalizersSawIt'
    OBVIOUS
  <1>3. RenamesWhileLive' /\ PassesHoldNone'
    OBVIOUS
  <1> QED BY <1>1, <1>2, <1>3

\* publish_ready_locked reads the project under its row's lock.
LEMMA LockKeeps ==
  ASSUME Clone!CloneAssumption, DirInv, NEW w \in Workers, NEW a \in 1..Rows,
         Clone!Lock(w, a)
  PROVE  DirInv'
  <1> USE NoneIsNoAttempt DEF DirInv, Clone!TypeOK, Clone!ReadyIsOnDisk, FinalizersSawIt,
       RenamesWhileLive, PassesHoldNone, Clone!rowVars, Clone!diskVars, Clone!queueVars,
       Clone!loopVars, Clone!Step, Clone!SetStatus, Clone!Goto, Clone!Locked,
       Clone!CloneAssumption, Clone!Lock
  <1>1. Clone!TypeOK'
    <2>1. Loop' /\ faults' = faults
      BY StepTyped
    <2>2. /\ onDisk' \in BOOLEAN /\ staging' \in {staging, staging \cup {a}, staging \ {a}}
          /\ UNCHANGED <<status, expired, materialized, column, live, outbox, job>>
      OBVIOUS
    <2> QED BY <2>1, <2>2, DiskTyped
  <1>2. Clone!ReadyIsOnDisk' /\ FinalizersSawIt'
    OBVIOUS
  <1>3. RenamesWhileLive' /\ PassesHoldNone'
    OBVIOUS
  <1> QED BY <1>1, <1>2, <1>3

\* The directory appears.
LEMMA RenameKeeps ==
  ASSUME Clone!CloneAssumption, DirInv, NEW w \in Workers, NEW a \in 1..Rows,
         Clone!Rename(w, a)
  PROVE  DirInv'
  <1> USE NoneIsNoAttempt DEF DirInv, Clone!TypeOK, Clone!ReadyIsOnDisk, FinalizersSawIt,
       RenamesWhileLive, PassesHoldNone, Clone!rowVars, Clone!diskVars, Clone!queueVars,
       Clone!loopVars, Clone!Step, Clone!SetStatus, Clone!Goto, Clone!Locked,
       Clone!CloneAssumption, Clone!Rename
  <1>1. Clone!TypeOK'
    <2>1. Loop' /\ faults' = faults
      BY StepTyped
    <2>2. /\ onDisk' \in BOOLEAN /\ staging' \in {staging, staging \cup {a}, staging \ {a}}
          /\ UNCHANGED <<status, expired, materialized, column, live, outbox, job>>
      OBVIOUS
    <2> QED BY <2>1, <2>2, DiskTyped
  <1>2. Clone!ReadyIsOnDisk' /\ FinalizersSawIt'
    OBVIOUS
  <1>3. RenamesWhileLive' /\ PassesHoldNone'
    OBVIOUS
  <1> QED BY <1>1, <1>2, <1>3

\* finalize_ready_tx.
LEMMA FinalizeKeeps ==
  ASSUME Clone!CloneAssumption, DirInv, NEW w \in Workers, NEW a \in 1..Rows,
         Clone!Commit(w, a)
  PROVE  DirInv'
  <1> USE NoneIsNoAttempt DEF DirInv, Clone!TypeOK, Clone!ReadyIsOnDisk, FinalizersSawIt,
       RenamesWhileLive, PassesHoldNone, Clone!rowVars, Clone!diskVars, Clone!queueVars,
       Clone!loopVars, Clone!Step, Clone!SetStatus, Clone!Goto, Clone!Locked,
       Clone!CloneAssumption, Clone!Commit
  <1>1. Clone!TypeOK'
    <2>1. Loop' /\ faults' = faults
      BY StepTyped
    <2>2. /\ status' \in [1..Rows -> Clone!AttemptStatus]
          /\ expired' \subseteq {b \in 1..Rows : status'[b] = "cloning"}
          /\ column' \in {"none", "queued", "cloning", "ready", "failed"}
      BY DEF Clone!Attempts, Clone!AttemptStatus
    <2>3. materialized' = materialized \cup {a} /\ staging' = staging \ {a}
          /\ UNCHANGED <<live, onDisk, outbox, job>>
      OBVIOUS
    <2> QED BY <2>1, <2>2, <2>3 DEF Loop, Clone!Attempts
  <1>2. Clone!ReadyIsOnDisk' /\ FinalizersSawIt'
    OBVIOUS
  <1>3. RenamesWhileLive' /\ PassesHoldNone'
    OBVIOUS
  <1> QED BY <1>1, <1>2, <1>3

\* force_ready.
LEMMA ForceKeeps ==
  ASSUME Clone!CloneAssumption, DirInv, NEW w \in Workers, NEW a \in 1..Rows,
         Clone!Force(w, a)
  PROVE  DirInv'
  <1> USE NoneIsNoAttempt DEF DirInv, Clone!TypeOK, Clone!ReadyIsOnDisk, FinalizersSawIt,
       RenamesWhileLive, PassesHoldNone, Clone!rowVars, Clone!diskVars, Clone!queueVars,
       Clone!loopVars, Clone!Step, Clone!SetStatus, Clone!Goto, Clone!Locked,
       Clone!CloneAssumption, Clone!Force
  <1>1. Clone!TypeOK'
    OBVIOUS
  <1>2. Clone!ReadyIsOnDisk' /\ FinalizersSawIt'
    OBVIOUS
  <1>3. RenamesWhileLive' /\ PassesHoldNone'
    OBVIOUS
  <1> QED BY <1>1, <1>2, <1>3

\* finalize_failed.
LEMMA FailKeeps ==
  ASSUME Clone!CloneAssumption, DirInv, NEW w \in Workers, NEW a \in 1..Rows,
         Clone!Fail(w, a)
  PROVE  DirInv'
  <1> USE NoneIsNoAttempt DEF DirInv, Clone!TypeOK, Clone!ReadyIsOnDisk, FinalizersSawIt,
       RenamesWhileLive, PassesHoldNone, Clone!rowVars, Clone!diskVars, Clone!queueVars,
       Clone!loopVars, Clone!Step, Clone!SetStatus, Clone!Goto, Clone!Locked,
       Clone!CloneAssumption, Clone!Fail
  <1>1. Clone!TypeOK'
    <2>1. Loop' /\ faults' = faults
      BY StepTyped DEF Clone!Fail
    <2>2. CASE Clone!SetStatus(a, "failed", "failed")
      BY <2>1, <2>2, StatusTyped DEF Loop, Clone!Fail
    <2>3. CASE UNCHANGED <<status, expired, column>>
      BY <2>1, <2>3 DEF Loop, Clone!Fail
    <2> QED BY <2>2, <2>3 DEF Clone!Fail
  <1>2. Clone!ReadyIsOnDisk' /\ FinalizersSawIt'
    OBVIOUS
  <1>3. RenamesWhileLive' /\ PassesHoldNone'
    OBVIOUS
  <1> QED BY <1>1, <1>2, <1>3

\* schedule_retry_for.
LEMMA RetryKeeps ==
  ASSUME Clone!CloneAssumption, DirInv, NEW w \in Workers, NEW a \in 1..Rows,
         Clone!Retry(w, a)
  PROVE  DirInv'
  <1> USE NoneIsNoAttempt DEF DirInv, Clone!TypeOK, Clone!ReadyIsOnDisk, FinalizersSawIt,
       RenamesWhileLive, PassesHoldNone, Clone!rowVars, Clone!diskVars, Clone!queueVars,
       Clone!loopVars, Clone!Step, Clone!SetStatus, Clone!Goto, Clone!Locked,
       Clone!CloneAssumption, Clone!Retry, Clone!AddAttempt
  <1>1. Clone!TypeOK'
    <2>1. Loop' /\ faults' = faults
      BY StepTyped DEF Clone!Retry
    <2>2. CASE Clone!AddAttempt(a)
      <3>1. a + 1 \in 1..Rows /\ Clone!SetStatus(a + 1, "queued", "queued")
            /\ outbox' = outbox \cup {a + 1}
        BY <2>2 DEF Clone!AddAttempt
      <3> QED BY <2>1, <3>1, StatusTyped DEF Loop, Clone!Retry
    <2>3. CASE UNCHANGED <<status, expired, column, outbox>>
      BY <2>1, <2>3 DEF Loop, Clone!Retry
    <2> QED BY <2>2, <2>3 DEF Clone!Retry
  <1>2. Clone!ReadyIsOnDisk' /\ FinalizersSawIt'
    OBVIOUS
  <1>3. RenamesWhileLive' /\ PassesHoldNone'
    OBVIOUS
  <1> QED BY <1>1, <1>2, <1>3

\* complete_job.
LEMMA DoneKeeps ==
  ASSUME Clone!CloneAssumption, DirInv, NEW w \in Workers, NEW a \in 1..Rows,
         Clone!Done(w, a)
  PROVE  DirInv'
  <1> USE NoneIsNoAttempt DEF DirInv, Clone!TypeOK, Clone!ReadyIsOnDisk, FinalizersSawIt,
       RenamesWhileLive, PassesHoldNone, Clone!rowVars, Clone!diskVars, Clone!queueVars,
       Clone!loopVars, Clone!Step, Clone!SetStatus, Clone!Goto, Clone!Locked,
       Clone!CloneAssumption, Clone!Done
  <1>1. Clone!TypeOK'
    OBVIOUS
  <1>2. Clone!ReadyIsOnDisk' /\ FinalizersSawIt'
    OBVIOUS
  <1>3. RenamesWhileLive' /\ PassesHoldNone'
    OBVIOUS
  <1> QED BY <1>1, <1>2, <1>3

\* The interval drops the other branch.
LEMMA TickKeeps ==
  ASSUME Clone!CloneAssumption, DirInv, NEW w \in Workers, Clone!Tick(w)
  PROVE  DirInv'
  <1> USE NoneIsNoAttempt DEF DirInv, Clone!TypeOK, Clone!ReadyIsOnDisk, FinalizersSawIt,
       RenamesWhileLive, PassesHoldNone, Clone!rowVars, Clone!diskVars, Clone!queueVars,
       Clone!loopVars, Clone!Step, Clone!SetStatus, Clone!Goto, Clone!Locked,
       Clone!CloneAssumption, Clone!Tick
  <1>1. Clone!TypeOK'
    OBVIOUS
  <1>2. Clone!ReadyIsOnDisk' /\ FinalizersSawIt'
    OBVIOUS
  <1>3. RenamesWhileLive' /\ PassesHoldNone'
    OBVIOUS
  <1> QED BY <1>1, <1>2, <1>3

\* The attempts in flight.
LEMMA KeepKeeps ==
  ASSUME Clone!CloneAssumption, DirInv, NEW w \in Workers, Clone!Keep(w)
  PROVE  DirInv'
  <1> USE NoneIsNoAttempt DEF DirInv, Clone!TypeOK, Clone!ReadyIsOnDisk, FinalizersSawIt,
       RenamesWhileLive, PassesHoldNone, Clone!rowVars, Clone!diskVars, Clone!queueVars,
       Clone!loopVars, Clone!Step, Clone!SetStatus, Clone!Goto, Clone!Locked,
       Clone!CloneAssumption, Clone!Keep
  <1>1. Clone!TypeOK'
    OBVIOUS
  <1>2. Clone!ReadyIsOnDisk' /\ FinalizersSawIt'
    OBVIOUS
  <1>3. RenamesWhileLive' /\ PassesHoldNone'
    OBVIOUS
  <1> QED BY <1>1, <1>2, <1>3

\* sweep_orphan_staging.
LEMMA SweepStepKeeps ==
  ASSUME Clone!CloneAssumption, DirInv, NEW w \in Workers, Clone!Sweep(w)
  PROVE  DirInv'
  <1> USE NoneIsNoAttempt DEF DirInv, Clone!TypeOK, Clone!ReadyIsOnDisk, FinalizersSawIt,
       RenamesWhileLive, PassesHoldNone, Clone!rowVars, Clone!diskVars, Clone!queueVars,
       Clone!loopVars, Clone!Step, Clone!SetStatus, Clone!Goto, Clone!Locked,
       Clone!CloneAssumption, Clone!Sweep
  <1>1. Clone!TypeOK'
    OBVIOUS
  <1>2. Clone!ReadyIsOnDisk' /\ FinalizersSawIt'
    OBVIOUS
  <1>3. RenamesWhileLive' /\ PassesHoldNone'
    OBVIOUS
  <1> QED BY <1>1, <1>2, <1>3

\* recover_materialized.
LEMMA HealKeeps ==
  ASSUME Clone!CloneAssumption, DirInv, NEW w \in Workers, Clone!Heal(w)
  PROVE  DirInv'
  <1> USE NoneIsNoAttempt DEF DirInv, Clone!TypeOK, Clone!ReadyIsOnDisk, FinalizersSawIt,
       RenamesWhileLive, PassesHoldNone, Clone!rowVars, Clone!diskVars, Clone!queueVars,
       Clone!loopVars, Clone!Step, Clone!SetStatus, Clone!Goto, Clone!Locked,
       Clone!CloneAssumption, Clone!Heal, Clone!Unfinalized
  <1>1. Clone!TypeOK'
    <2>1. Loop'
      BY DEF Loop, Clone!Heal
    <2>2. CASE \E a \in Clone!Unfinalized : Clone!SetStatus(a, "ready", "ready")
      BY <2>1, <2>2, StatusTyped DEF Loop, Clone!Heal
    <2>3. CASE UNCHANGED <<status, expired, column>>
      BY <2>1, <2>3 DEF Loop, Clone!Heal
    <2> QED BY <2>2, <2>3 DEF Clone!Heal
  <1>2. Clone!ReadyIsOnDisk' /\ FinalizersSawIt'
    OBVIOUS
  <1>3. RenamesWhileLive' /\ PassesHoldNone'
    OBVIOUS
  <1> QED BY <1>1, <1>2, <1>3

\* claim_expired_cloning_for_recovery.
LEMMA ClaimExpiredKeeps ==
  ASSUME Clone!CloneAssumption, DirInv, NEW w \in Workers, Clone!ClaimExpired(w)
  PROVE  DirInv'
  <1> USE NoneIsNoAttempt DEF DirInv, Clone!TypeOK, Clone!ReadyIsOnDisk, FinalizersSawIt,
       RenamesWhileLive, PassesHoldNone, Clone!rowVars, Clone!diskVars, Clone!queueVars,
       Clone!loopVars, Clone!Step, Clone!SetStatus, Clone!Goto, Clone!Locked,
       Clone!CloneAssumption, Clone!ClaimExpired
  <1>1. Clone!TypeOK'
    <2>1. Loop'
      <3>1. CASE expired = {} /\ Clone!Goto(w, "orphans") /\ UNCHANGED <<cur, expired>>
        BY <3>1 DEF Loop, Clone!ClaimExpired
      <3>2. ASSUME NEW a \in 1..Rows, Clone!Goto(w, "look"), cur' = [cur EXCEPT ![w] = a]
            PROVE  Loop'
        BY <3>2 DEF Loop, Clone!ClaimExpired
      <3> QED BY <3>1, <3>2 DEF Clone!ClaimExpired
    <2>2. expired' \subseteq expired
      BY DEF Clone!ClaimExpired
    <2> QED BY <2>1, <2>2 DEF Loop, Clone!ClaimExpired
  <1>2. Clone!ReadyIsOnDisk' /\ FinalizersSawIt'
    OBVIOUS
  <1>3. RenamesWhileLive' /\ PassesHoldNone'
    OBVIOUS
  <1> QED BY <1>1, <1>2, <1>3

\* recover_if_target_published.
LEMMA LookKeeps ==
  ASSUME Clone!CloneAssumption, DirInv, NEW w \in Workers, NEW a \in 1..Rows,
         Clone!Look(w, a)
  PROVE  DirInv'
  <1> USE NoneIsNoAttempt DEF DirInv, Clone!TypeOK, Clone!ReadyIsOnDisk, FinalizersSawIt,
       RenamesWhileLive, PassesHoldNone, Clone!rowVars, Clone!diskVars, Clone!queueVars,
       Clone!loopVars, Clone!Step, Clone!SetStatus, Clone!Goto, Clone!Locked,
       Clone!CloneAssumption, Clone!Look, Clone!IsPublished
  <1>1. Clone!TypeOK'
    <2>1. Loop' /\ faults' = faults
      <3>1. PICK q \in Clone!Cloning \cup Clone!Reconciling : Clone!Step(w, "look", a, q)
        BY DEF Clone!Look
      <3> QED BY <3>1, StepTyped
    <2> QED BY <2>1 DEF Loop, Clone!Look
  <1>2. Clone!ReadyIsOnDisk' /\ FinalizersSawIt'
    OBVIOUS
  <1>3. RenamesWhileLive' /\ PassesHoldNone'
    OBVIOUS
  <1> QED BY <1>1, <1>2, <1>3

\* adopt_published_ready.
LEMMA AdoptKeeps ==
  ASSUME Clone!CloneAssumption, DirInv, NEW w \in Workers, NEW a \in 1..Rows,
         Clone!Adopt(w, a)
  PROVE  DirInv'
  <1> USE NoneIsNoAttempt DEF DirInv, Clone!TypeOK, Clone!ReadyIsOnDisk, FinalizersSawIt,
       RenamesWhileLive, PassesHoldNone, Clone!rowVars, Clone!diskVars, Clone!queueVars,
       Clone!loopVars, Clone!Step, Clone!SetStatus, Clone!Goto, Clone!Locked,
       Clone!CloneAssumption, Clone!Adopt
  <1>1. Clone!TypeOK'
    <2>1. Loop' /\ faults' = faults
      <3>1. PICK q \in Clone!Cloning \cup Clone!Reconciling : Clone!Step(w, "adopt", a, q)
        BY DEF Clone!Adopt
      <3> QED BY <3>1, StepTyped
    <2>2. CASE Clone!SetStatus(a, "ready", "ready") /\ materialized' = materialized \cup {a}
      <3>1. /\ status' \in [1..Rows -> Clone!AttemptStatus]
            /\ expired' \subseteq {b \in 1..Rows : status'[b] = "cloning"}
            /\ column' \in {"none", "queued", "cloning", "ready", "failed"}
        BY <2>2, StatusTyped DEF Clone!AttemptStatus, Clone!Active
      <3>2. /\ staging' \in {staging, staging \ {a}}
            /\ UNCHANGED <<live, onDisk, outbox, job>>
        OBVIOUS
      <3> QED BY <2>1, <2>2, <3>1, <3>2 DEF Loop, Clone!Attempts
    <2>3. CASE UNCHANGED Clone!rowVars
      BY <2>1, <2>3 DEF Loop, Clone!Adopt
    <2> QED BY <2>2, <2>3 DEF Clone!Adopt
  <1>2. Clone!ReadyIsOnDisk' /\ FinalizersSawIt'
    OBVIOUS
  <1>3. RenamesWhileLive' /\ PassesHoldNone'
    OBVIOUS
  <1> QED BY <1>1, <1>2, <1>3

\* reenqueue_outbox.
LEMMA OrphansKeeps ==
  ASSUME Clone!CloneAssumption, DirInv, NEW w \in Workers, Clone!Orphans(w)
  PROVE  DirInv'
  <1> USE NoneIsNoAttempt DEF DirInv, Clone!TypeOK, Clone!ReadyIsOnDisk, FinalizersSawIt,
       RenamesWhileLive, PassesHoldNone, Clone!rowVars, Clone!diskVars, Clone!queueVars,
       Clone!loopVars, Clone!Step, Clone!SetStatus, Clone!Goto, Clone!Locked,
       Clone!CloneAssumption, Clone!Orphans
  <1>1. Clone!TypeOK'
    OBVIOUS
  <1>2. Clone!ReadyIsOnDisk' /\ FinalizersSawIt'
    OBVIOUS
  <1>3. RenamesWhileLive' /\ PassesHoldNone'
    OBVIOUS
  <1> QED BY <1>1, <1>2, <1>3

\* A statement fails.
LEMMA StatementFailsKeeps ==
  ASSUME Clone!CloneAssumption, DirInv, NEW w \in Workers, NEW a \in 1..Rows,
         Clone!StatementFails(w, a)
  PROVE  DirInv'
  <1> USE NoneIsNoAttempt DEF DirInv, Clone!TypeOK, Clone!ReadyIsOnDisk, FinalizersSawIt,
       RenamesWhileLive, PassesHoldNone, Clone!rowVars, Clone!diskVars, Clone!queueVars,
       Clone!loopVars, Clone!Step, Clone!SetStatus, Clone!Goto, Clone!Locked,
       Clone!CloneAssumption, Clone!StatementFails
  <1>1. Clone!TypeOK'
    <2>1. faults' \in 0..MaxFaults
      BY OneMore DEF Clone!StatementFails
    <2>2. \E q \in {"done", "fail"} : /\ at' = [at EXCEPT ![w] = q]
                                    /\ (q = "fail" => at[w] = "adopt")
                                    /\ (q = "done" => at[w] \in Clone!Cloning)
      BY DEF Clone!StatementFails
    <2>3. Loop'
      BY <2>2 DEF Loop, Clone!StatementFails
    <2> QED BY <2>1, <2>3 DEF Loop, Clone!StatementFails
  <1>2. Clone!ReadyIsOnDisk' /\ FinalizersSawIt'
    OBVIOUS
  <1>3. RenamesWhileLive' /\ PassesHoldNone'
    OBVIOUS
  <1> QED BY <1>1, <1>2, <1>3

\* A replica restarts.
LEMMA CrashKeeps ==
  ASSUME Clone!CloneAssumption, DirInv, NEW w \in Workers, Clone!Crash(w)
  PROVE  DirInv'
  <1> USE NoneIsNoAttempt DEF DirInv, Clone!TypeOK, Clone!ReadyIsOnDisk, FinalizersSawIt,
       RenamesWhileLive, PassesHoldNone, Clone!rowVars, Clone!diskVars, Clone!queueVars,
       Clone!loopVars, Clone!Step, Clone!SetStatus, Clone!Goto, Clone!Locked,
       Clone!CloneAssumption, Clone!Crash
  <1>1. Clone!TypeOK'
    OBVIOUS
  <1>2. Clone!ReadyIsOnDisk' /\ FinalizersSawIt'
    OBVIOUS
  <1>3. RenamesWhileLive' /\ PassesHoldNone'
    OBVIOUS
  <1> QED BY <1>1, <1>2, <1>3

\* A lease runs out.
LEMMA ExpireKeeps ==
  ASSUME Clone!CloneAssumption, DirInv, NEW a \in 1..Rows, Clone!Expire(a)
  PROVE  DirInv'
  <1> USE NoneIsNoAttempt DEF DirInv, Clone!TypeOK, Clone!ReadyIsOnDisk, FinalizersSawIt,
       RenamesWhileLive, PassesHoldNone, Clone!rowVars, Clone!diskVars, Clone!queueVars,
       Clone!loopVars, Clone!Step, Clone!SetStatus, Clone!Goto, Clone!Locked,
       Clone!CloneAssumption, Clone!Expire, Clone!HasLease
  <1>1. Clone!TypeOK'
    OBVIOUS
  <1>2. Clone!ReadyIsOnDisk' /\ FinalizersSawIt'
    OBVIOUS
  <1>3. RenamesWhileLive' /\ PassesHoldNone'
    OBVIOUS
  <1> QED BY <1>1, <1>2, <1>3

\* relay_next_clone_outbox.
LEMMA RelayKeeps ==
  ASSUME Clone!CloneAssumption, DirInv, NEW a \in 1..Rows, Clone!Relay(a)
  PROVE  DirInv'
  <1> USE NoneIsNoAttempt DEF DirInv, Clone!TypeOK, Clone!ReadyIsOnDisk, FinalizersSawIt,
       RenamesWhileLive, PassesHoldNone, Clone!rowVars, Clone!diskVars, Clone!queueVars,
       Clone!loopVars, Clone!Step, Clone!SetStatus, Clone!Goto, Clone!Locked,
       Clone!CloneAssumption, Clone!Relay
  <1>1. Clone!TypeOK'
    OBVIOUS
  <1>2. Clone!ReadyIsOnDisk' /\ FinalizersSawIt'
    OBVIOUS
  <1>3. RenamesWhileLive' /\ PassesHoldNone'
    OBVIOUS
  <1> QED BY <1>1, <1>2, <1>3

\* The stale lock reaper.
LEMMA UnlockKeeps ==
  ASSUME Clone!CloneAssumption, DirInv, NEW a \in 1..Rows, Clone!Unlock(a)
  PROVE  DirInv'
  <1> USE NoneIsNoAttempt DEF DirInv, Clone!TypeOK, Clone!ReadyIsOnDisk, FinalizersSawIt,
       RenamesWhileLive, PassesHoldNone, Clone!rowVars, Clone!diskVars, Clone!queueVars,
       Clone!loopVars, Clone!Step, Clone!SetStatus, Clone!Goto, Clone!Locked,
       Clone!CloneAssumption, Clone!Unlock
  <1>1. Clone!TypeOK'
    OBVIOUS
  <1>2. Clone!ReadyIsOnDisk' /\ FinalizersSawIt'
    OBVIOUS
  <1>3. RenamesWhileLive' /\ PassesHoldNone'
    OBVIOUS
  <1> QED BY <1>1, <1>2, <1>3

\* POST .../clone/retry.
LEMMA ManualRetryKeeps ==
  ASSUME Clone!CloneAssumption, DirInv, NEW a \in 1..Rows, Clone!ManualRetry(a)
  PROVE  DirInv'
  <1> USE NoneIsNoAttempt DEF DirInv, Clone!TypeOK, Clone!ReadyIsOnDisk, FinalizersSawIt,
       RenamesWhileLive, PassesHoldNone, Clone!rowVars, Clone!diskVars, Clone!queueVars,
       Clone!loopVars, Clone!Step, Clone!SetStatus, Clone!Goto, Clone!Locked,
       Clone!CloneAssumption, Clone!ManualRetry, Clone!AddAttempt, Clone!IsLatest
  <1>1. Clone!TypeOK'
    OBVIOUS
  <1>2. Clone!ReadyIsOnDisk' /\ FinalizersSawIt'
    OBVIOUS
  <1>3. RenamesWhileLive' /\ PassesHoldNone'
    OBVIOUS
  <1> QED BY <1>1, <1>2, <1>3

\* The project is deleted.
LEMMA DeleteKeeps ==
  ASSUME Clone!CloneAssumption, DirInv, Clone!Delete
  PROVE  DirInv'
  <1> USE NoneIsNoAttempt DEF DirInv, Clone!TypeOK, Clone!ReadyIsOnDisk, FinalizersSawIt,
       RenamesWhileLive, PassesHoldNone, Clone!rowVars, Clone!diskVars, Clone!queueVars,
       Clone!loopVars, Clone!Step, Clone!SetStatus, Clone!Goto, Clone!Locked,
       Clone!CloneAssumption, Clone!Delete
  <1>1. Clone!TypeOK'
    OBVIOUS
  <1>2. Clone!ReadyIsOnDisk' /\ FinalizersSawIt'
    OBVIOUS
  <1>3. RenamesWhileLive' /\ PassesHoldNone'
    OBVIOUS
  <1> QED BY <1>1, <1>2, <1>3

LEMMA DirStep ==
  ASSUME Clone!CloneAssumption, DirInv, [Clone!Next]_(Clone!vars)
  PROVE  DirInv'
  <1>1. ASSUME NEW w \in Workers, NEW a \in 1..Rows,
               \/ Clone!Dequeue(w, a) \/ Clone!Check(w, a) \/ Clone!Claim(w, a)
               \/ Clone!Cancel(w, a) \/ Clone!StatementFails(w, a)
        PROVE  DirInv'
    BY <1>1, DequeueKeeps, CheckKeeps, ClaimKeeps, CancelKeeps, StatementFailsKeeps
  <1>2. ASSUME NEW w \in Workers, NEW a \in 1..Rows, Clone!CloneStep(w, a)
        PROVE  DirInv'
    BY <1>2, PrepareKeeps, CloneRunKeeps, TargetKeeps, LockKeeps, RenameKeeps, FinalizeKeeps,
         ForceKeeps, FailKeeps, RetryKeeps, DoneKeeps DEF Clone!CloneStep
  <1>3. ASSUME NEW w \in Workers, Clone!Tick(w) \/ Clone!PassStep(w) \/ Clone!Crash(w)
        PROVE  DirInv'
    BY <1>3, TickKeeps, KeepKeeps, SweepStepKeeps, HealKeeps, ClaimExpiredKeeps, OrphansKeeps,
         LookKeeps, AdoptKeeps, CrashKeeps DEF Clone!PassStep
  <1>4. ASSUME NEW a \in 1..Rows,
               Clone!Expire(a) \/ Clone!Relay(a) \/ Clone!Unlock(a) \/ Clone!ManualRetry(a)
        PROVE  DirInv'
    BY <1>4, ExpireKeeps, RelayKeeps, UnlockKeeps, ManualRetryKeeps
  <1>5. CASE Clone!Delete
    BY <1>5, DeleteKeeps
  <1>6. CASE UNCHANGED Clone!vars
    BY <1>6 DEF Clone!vars, Clone!rowVars, Clone!diskVars, Clone!queueVars, Clone!loopVars,
         DirInv, Clone!TypeOK, Clone!ReadyIsOnDisk, FinalizersSawIt, RenamesWhileLive,
         PassesHoldNone
  <1> QED BY <1>1, <1>2, <1>3, <1>4, <1>5, <1>6 DEF Clone!Next

\* Only the rename makes the directory, and under the lock the project is live.
LEMMA DirAppearsWhileLive ==
  ASSUME Clone!CloneAssumption, DirInv, [Clone!Next]_(Clone!vars), ~onDisk, onDisk'
  PROVE  live'
  <1>1. \E w \in Workers, a \in 1..Rows : Clone!Rename(w, a)
    <2>1. ASSUME NEW w \in Workers, NEW a \in 1..Rows,
                 \/ Clone!Dequeue(w, a) \/ Clone!Check(w, a) \/ Clone!Claim(w, a)
                 \/ Clone!Cancel(w, a) \/ Clone!StatementFails(w, a)
          PROVE  FALSE
      BY <2>1 DEF Clone!Dequeue, Clone!Check, Clone!Claim, Clone!Cancel, Clone!StatementFails,
           Clone!diskVars
    <2>2. ASSUME NEW w \in Workers, NEW a \in 1..Rows, Clone!CloneStep(w, a), ~Clone!Rename(w, a)
          PROVE  FALSE
      BY <2>2 DEF Clone!CloneStep, Clone!Prepare, Clone!Run, Clone!Publish, Clone!Lock,
           Clone!Commit, Clone!Force, Clone!Fail, Clone!Retry, Clone!Done, Clone!diskVars
    <2>3. ASSUME NEW w \in Workers, Clone!Tick(w) \/ Clone!PassStep(w) \/ Clone!Crash(w)
          PROVE  FALSE
      BY <2>3 DEF Clone!PassStep, Clone!Tick, Clone!Keep, Clone!Sweep, Clone!Heal,
           Clone!ClaimExpired, Clone!Orphans, Clone!Look, Clone!Adopt, Clone!Crash,
           Clone!diskVars
    <2>4. ASSUME NEW a \in 1..Rows,
                 Clone!Expire(a) \/ Clone!Relay(a) \/ Clone!Unlock(a) \/ Clone!ManualRetry(a)
          PROVE  FALSE
      BY <2>4 DEF Clone!Expire, Clone!Relay, Clone!Unlock, Clone!ManualRetry, Clone!diskVars
    <2>5. ~Clone!Delete /\ ~UNCHANGED Clone!vars
      BY DEF Clone!Delete, Clone!vars, Clone!diskVars
    <2> QED BY <2>1, <2>2, <2>3, <2>4, <2>5 DEF Clone!Next
  <1>2. PICK w \in Workers, a \in 1..Rows : Clone!Rename(w, a)
    BY <1>1
  <1>3. at[w] = "rename" /\ live' = live
    BY <1>2 DEF Clone!Rename, Clone!Step
  <1> QED BY <1>3 DEF DirInv, RenamesWhileLive

\* An attempt counts as ready only with its directory, and no directory appears for a
\* deleted project: execute_clone, publish_ready_locked, force_ready and the three
\* recoveries agree, whatever leases, ticks, crashes and failing statements cut off.
THEOREM CloneIsSound ==
  ASSUME Clone!CloneAssumption
  PROVE  Clone!Spec => CloneSound
  <1>1. Clone!Init => DirInv
    BY DirInit
  <1>2. DirInv /\ [Clone!Next]_(Clone!vars) => DirInv'
    BY DirStep
  <1>3. Clone!Spec => []DirInv
    BY <1>1, <1>2, PTL DEF Clone!Spec
  <1>4. DirInv => Clone!TypeOK /\ Clone!ReadyIsOnDisk
    BY DEF DirInv
  <1>5. DirInv /\ [Clone!Next]_(Clone!vars) => [~onDisk /\ onDisk' => live']_(Clone!vars)
    BY DirAppearsWhileLive
  <1> QED BY <1>3, <1>4, <1>5, PTL DEF Clone!Spec, CloneSound, Clone!CloneSound,
       Clone!NoDirForDeleted

=============================================================================
