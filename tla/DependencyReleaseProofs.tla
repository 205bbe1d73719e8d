---------------------- MODULE DependencyReleaseProofs ----------------------
(* Theorems about DependencyRelease, for any dependency graph. *)
EXTENDS DependencyRelease, TLAPS

\* What a completion transaction is about to publish is right once its own
\* task is published with it.
HeldIsReleasable ==
    \A p \in Prereqs : \A c \in held[p] : tx[p] = "released" /\ Needs[c] \subseteq done \cup {p}

\* A handler that read every prerequisite as completed cannot be outdated:
\* completion is final.
ResolvedIsFinal ==
    \A c \in Dependents : handler[c] = "resolved" => Needs[c] \subseteq done

\* NeverEarly is not inductive by itself: Commit publishes what the statement
\* before it decided on an older snapshot.
EarlyInv == TypeOK /\ NeverEarly /\ HeldIsReleasable /\ ResolvedIsFinal

LEMMA InitEarly == Init => EarlyInv
  BY DEF Init, EarlyInv, TypeOK, NeverEarly, HeldIsReleasable, ResolvedIsFinal

LEMMA CompletionEarly ==
  ASSUME EarlyInv, NEW p \in Prereqs, Completion(p)
  PROVE  EarlyInv'
  <1>1. CASE SetResult(p)
    BY <1>1 DEF SetResult, EarlyInv, TypeOK, NeverEarly, HeldIsReleasable, ResolvedIsFinal
  <1>2. CASE ReleaseDependents(p)
    <2>1. TypeOK'
      BY <1>2 DEF ReleaseDependents, Releasable, EarlyInv, TypeOK
    <2>2. HeldIsReleasable'
      BY <1>2 DEF ReleaseDependents, Releasable, EarlyInv, TypeOK, HeldIsReleasable
    <2> QED
      BY <1>2, <2>1, <2>2 DEF ReleaseDependents, EarlyInv, NeverEarly, ResolvedIsFinal
  <1>3. CASE Commit(p)
    <2>1. TypeOK'
      BY <1>3 DEF Commit, EarlyInv, TypeOK
    <2>2. NeverEarly'
      BY <1>3 DEF Commit, EarlyInv, TypeOK, NeverEarly, HeldIsReleasable
    <2>3. HeldIsReleasable' /\ ResolvedIsFinal'
      BY <1>3 DEF Commit, EarlyInv, TypeOK, HeldIsReleasable, ResolvedIsFinal
    <2> QED
      BY <2>1, <2>2, <2>3 DEF EarlyInv
  <1>4. CASE Abort(p)
    BY <1>4 DEF Abort, EarlyInv, TypeOK, NeverEarly, HeldIsReleasable, ResolvedIsFinal
  <1> QED
    BY <1>1, <1>2, <1>3, <1>4 DEF Completion

LEMMA RequestEarly ==
  ASSUME EarlyInv, NEW c \in Dependents, Request(c)
  PROVE  EarlyInv'
  <1>1. CASE ReadPrerequisites(c)
    BY <1>1 DEF ReadPrerequisites, EarlyInv, TypeOK, NeverEarly, HeldIsReleasable, ResolvedIsFinal
  <1>2. CASE InsertRow(c)
    BY <1>2 DEF InsertRow, EarlyInv, TypeOK, NeverEarly, HeldIsReleasable, ResolvedIsFinal
  <1>3. CASE Recheck(c)
    <2>1. TypeOK'
      BY <1>3 DEF Recheck, EarlyInv, TypeOK
    <2> QED
      BY <1>3, <2>1 DEF Recheck, EarlyInv, TypeOK, NeverEarly, HeldIsReleasable, ResolvedIsFinal
  <1>4. CASE Interrupt(c)
    <2>1. TypeOK'
      BY <1>4 DEF Interrupt, EarlyInv, TypeOK
    <2> QED
      BY <1>4, <2>1 DEF Interrupt, EarlyInv, TypeOK, NeverEarly, HeldIsReleasable, ResolvedIsFinal
  <1> QED
    BY <1>1, <1>2, <1>3, <1>4 DEF Request

LEMMA StepEarly == EarlyInv /\ [Next]_vars => EarlyInv'
  <1>1. ASSUME EarlyInv, Reconcile PROVE EarlyInv'
    BY <1>1 DEF Reconcile, Orphans, EarlyInv, TypeOK, NeverEarly, HeldIsReleasable, ResolvedIsFinal
  <1>2. ASSUME EarlyInv, UNCHANGED vars PROVE EarlyInv'
    BY <1>2 DEF vars, EarlyInv, TypeOK, NeverEarly, HeldIsReleasable, ResolvedIsFinal
  <1> QED
    BY <1>1, <1>2, CompletionEarly, RequestEarly DEF Next

\* No order of the statements of completions, creations and sweeps, with any
\* of them rolled back or cut short, queues a dependent too early.
THEOREM NoEarlyRelease == Spec => []NeverEarly
  <1>1. EarlyInv => NeverEarly
    BY DEF EarlyInv
  <1> QED
    BY <1>1, InitEarly, StepEarly, PTL DEF Spec

-----------------------------------------------------------------------------
(* Who leaves ready work to the reconciler *)

\* The statements of a creation and of completions have all had their look at
\* this waiting dependent, and none was kept from releasing it by a race.
Unraced(c) == row[c] = "waiting" /\ handler[c] = "none" /\ raced[c] = {}

\* A completion writes its task once, and publishes it only by committing.
OpenIsNotDone == \A p \in Prereqs : tx[p] # "idle" => p \notin done

\* A request that has read the prerequisites has not inserted its row yet.
DraftHasNoRow ==
    \A c \in Dependents : handler[c] \in {"resolved", "unresolved"} => row[c] = "absent"

\* Only a row that exists can be released, and rows are never removed.
HeldHasRow == \A p \in Prereqs : \A c \in held[p] : row[c] # "absent"

\* A completion that is past its release statement without the dependent left
\* it to a later completion, one that is not past its own statement.
LeftToALaterOne ==
    \A c \in Dependents : \A p \in Needs[c] :
        Unraced(c) /\ tx[p] = "released" /\ c \notin held[p]
            => \E q \in Needs[c] \ {p} : q \notin done /\ tx[q] # "released"

\* OnlyRacesStrand is not inductive by itself: which commit has to release the
\* dependent is decided by the order of the statements before the commits.
RaceInv ==
    /\ EarlyInv
    /\ OpenIsNotDone
    /\ DraftHasNoRow
    /\ HeldHasRow
    /\ LeftToALaterOne
    /\ OnlyRacesStrand

LEMMA InitRace == Init => RaceInv
  <1>1. Init => OpenIsNotDone /\ DraftHasNoRow /\ HeldHasRow /\ LeftToALaterOne /\ OnlyRacesStrand
    BY DEF Init, OpenIsNotDone, DraftHasNoRow, HeldHasRow, LeftToALaterOne, Unraced, OnlyRacesStrand, Stranded
  <1> QED
    BY <1>1, InitEarly DEF RaceInv

LEMMA CompletionRace ==
  ASSUME RaceInv, NEW p \in Prereqs, Completion(p)
  PROVE  RaceInv'
  <1> USE DependencyAssumption
  <1>0. EarlyInv'
    BY CompletionEarly DEF RaceInv
  <1>1. CASE SetResult(p)
    BY <1>0, <1>1 DEF SetResult, RaceInv, EarlyInv, TypeOK, OpenIsNotDone, DraftHasNoRow, HeldHasRow,
                      LeftToALaterOne, Unraced, OnlyRacesStrand, Stranded
  <1>2. CASE ReleaseDependents(p)
    <2>1. \A c \in Dependents : Unraced(c)' => Unraced(c) /\ c \notin Missed(p) \ Releasable(p)
      BY <1>2 DEF ReleaseDependents, RaceInv, EarlyInv, TypeOK, Unraced
    <2>2. OpenIsNotDone' /\ DraftHasNoRow' /\ HeldHasRow'
      BY <1>2 DEF ReleaseDependents, RaceInv, EarlyInv, TypeOK, OpenIsNotDone, DraftHasNoRow, HeldHasRow,
                      Releasable
    <2>3. OnlyRacesStrand'
      BY <1>2, <2>1 DEF ReleaseDependents, RaceInv, OnlyRacesStrand, Stranded, Unraced
    <2>4. LeftToALaterOne'
      <3> SUFFICES ASSUME NEW c \in Dependents, NEW q \in Needs[c],
                          Unraced(c)', tx'[q] = "released", c \notin held'[q]
                   PROVE  \E r \in Needs[c] \ {q} : r \notin done' /\ tx'[r] # "released"
        BY DEF LeftToALaterOne
      <3>1. Unraced(c) /\ c \notin Missed(p) \ Releasable(p)
        BY <2>1
      <3>2. CASE q = p
        <4>1. c \notin Releasable(p)
          BY <1>2, <3>2 DEF ReleaseDependents, RaceInv, EarlyInv, TypeOK
        <4>2. PICK r \in Needs[c] \ {p} : r \notin done
          BY <4>1, <3>1, <3>2 DEF Releasable, Unraced
        <4>3. tx[r] = "idle"
          BY <4>1, <4>2, <3>1, <3>2 DEF Missed, Unraced
        <4> QED
          BY <1>2, <3>2, <4>2, <4>3 DEF ReleaseDependents, RaceInv, EarlyInv, TypeOK
      <3>3. CASE q # p
        <4>1. q \in Prereqs /\ tx[q] = "released" /\ c \notin held[q]
          BY <1>2, <3>3 DEF ReleaseDependents, RaceInv, EarlyInv, TypeOK
        <4>2. PICK r \in Needs[c] \ {q} : r \notin done /\ tx[r] # "released"
          BY <3>1, <4>1 DEF RaceInv, LeftToALaterOne
        \* Were r the task completed here, this statement would have raced with q.
        <4>3. r # p
          BY <3>1, <3>3, <4>1, <4>2 DEF Missed, Releasable, Unraced, RaceInv, OpenIsNotDone
        <4> QED
          BY <1>2, <4>2, <4>3 DEF ReleaseDependents, RaceInv, EarlyInv, TypeOK
      <3> QED
        BY <3>2, <3>3
    <2> QED
      BY <1>0, <2>2, <2>3, <2>4 DEF RaceInv
  <1>3. CASE Commit(p)
    <2>1. OpenIsNotDone' /\ DraftHasNoRow' /\ HeldHasRow'
      BY <1>3 DEF Commit, RaceInv, EarlyInv, TypeOK, OpenIsNotDone, DraftHasNoRow, HeldHasRow, HeldIsReleasable
    <2>2. \A c \in Dependents : Unraced(c)' => Unraced(c) /\ c \notin held[p]
      BY <1>3 DEF Commit, RaceInv, EarlyInv, TypeOK, Unraced
    <2>3. LeftToALaterOne'
      BY <1>3, <2>2 DEF Commit, RaceInv, EarlyInv, TypeOK, LeftToALaterOne
    <2>4. OnlyRacesStrand'
      BY <1>3, <2>2 DEF Commit, RaceInv, EarlyInv, TypeOK, LeftToALaterOne, OnlyRacesStrand,
                        Stranded, Unraced
    <2> QED
      BY <1>0, <2>1, <2>3, <2>4 DEF RaceInv
  <1>4. CASE Abort(p)
    BY <1>0, <1>4 DEF Abort, RaceInv, EarlyInv, TypeOK, OpenIsNotDone, DraftHasNoRow, HeldHasRow,
                      LeftToALaterOne, Unraced, OnlyRacesStrand, Stranded
  <1> QED
    BY <1>1, <1>2, <1>3, <1>4 DEF Completion

LEMMA RequestRace ==
  ASSUME RaceInv, NEW c \in Dependents, Request(c)
  PROVE  RaceInv'
  <1>0. EarlyInv'
    BY RequestEarly DEF RaceInv
  <1> USE DEF RaceInv, EarlyInv, TypeOK, OpenIsNotDone, DraftHasNoRow, HeldHasRow, LeftToALaterOne, Unraced,
              OnlyRacesStrand, Stranded
  <1>1. CASE ReadPrerequisites(c)
    BY <1>0, <1>1 DEF ReadPrerequisites
  <1>2. CASE InsertRow(c)
    BY <1>0, <1>2 DEF InsertRow
  <1>3. CASE Recheck(c)
    BY <1>0, <1>3 DEF Recheck
  <1>4. CASE Interrupt(c)
    BY <1>0, <1>4 DEF Interrupt
  <1> QED
    BY <1>1, <1>2, <1>3, <1>4 DEF Request

LEMMA StepRace == RaceInv /\ [Next]_vars => RaceInv'
  <1>1. ASSUME RaceInv, Reconcile PROVE RaceInv'
    <2>1. EarlyInv'
      BY <1>1, StepEarly DEF RaceInv, Next
    <2> QED
      BY <1>1, <2>1 DEF Reconcile, Orphans, RaceInv, EarlyInv, TypeOK, OpenIsNotDone,
                        DraftHasNoRow, HeldHasRow, LeftToALaterOne, Unraced, OnlyRacesStrand, Stranded
  <1>2. ASSUME RaceInv, UNCHANGED vars PROVE RaceInv'
    <2>1. EarlyInv'
      BY <1>2, StepEarly DEF RaceInv
    <2> QED
      BY <1>2, <2>1 DEF vars, RaceInv, OpenIsNotDone, DraftHasNoRow, HeldHasRow, LeftToALaterOne, Unraced,
                        OnlyRacesStrand, Stranded
  <1> QED
    BY <1>1, <1>2, CompletionRace, RequestRace DEF Next

\* Whatever the dependency graph, ready work is left to the reconciler only by
\* one of the three races the model names: the statements of completions and
\* the second look of a creation cover every other order.
THEOREM OnlyRacesLeaveWork == Spec => []OnlyRacesStrand
  <1>1. RaceInv => OnlyRacesStrand
    BY DEF RaceInv
  <1> QED
    BY <1>1, InitRace, StepRace, PTL DEF Spec
=============================================================================
