------------------------------ MODULE MCSweeps ------------------------------
(* Two workers that repair what others left undone, for TLC: the release of          *)
(* dependents and the presence of Agents. They share no state, so a behaviour follows *)
(* one of them and the other keeps still. c1 waits for both prerequisites, c2 only    *)
(* for the second.                                                                    *)
EXTENDS DependencyRelease, TLC

CONSTANTS p1, p2, c1, c2, g1, g2, w1, None

VARIABLES
    part,      \* the one this behaviour follows
    alive, due, quiet, key, up, outages, failures, presence, seen, working, fallback, skip, doing

presenceVars == <<alive, due, quiet, key, up, outages, failures, presence, seen, working,
                  fallback, skip, doing>>
sweepVars == <<part, vars, presenceVars>>

Shared == [c \in Dependents |-> IF c = c1 THEN {p1, p2} ELSE {p2}]

Beats == INSTANCE Presence WITH
             Agents <- {g1, g2}, Workers <- {w1}, Stale <- 2, Lease <- 2, MaxOutages <- 1,
             MaxFailures <- 0, status <- presence

ASSUME InstancesAssumption == Beats!PresenceAssumption

SweepInit ==
    /\ part \in {"dependency", "presence"}
    /\ Init /\ Beats!Init

SweepNext ==
    /\ UNCHANGED part
    /\ \/ part = "dependency" /\ Next /\ UNCHANGED presenceVars
       \/ part = "presence" /\ Beats!Next /\ UNCHANGED vars

\* Each part's own fairness, in the behaviours that follow it.
BeatsGo ==
    LET on == part = "presence" IN
    /\ SF_presenceVars(on /\ Beats!Tick)
    /\ WF_presenceVars(on /\ Beats!WriteBeat(w1)) /\ WF_presenceVars(on /\ Beats!Mark(w1))
    /\ SF_presenceVars(on /\ (Beats!SweepKeys(w1) \/ Beats!SweepRows(w1)))
    /\ \A g \in {g1, g2} : /\ SF_presenceVars(on /\ Beats!Beat(w1, g))
                           /\ WF_presenceVars(on /\ Beats!ExpireLease(g))

SweepSpec ==
    /\ SweepInit /\ [][SweepNext]_sweepVars
    /\ WF_vars(part = "dependency" /\ Reconcile)
    /\ BeatsGo

-----------------------------------------------------------------------------
\* Presence's: in the grace after a fallback to PostgreSQL nobody goes offline unseen, and
\* an Agent that stays up is online again and again.
PresenceSound == []Beats!TypeOK /\ Beats!GraceProtects
UpIsOnline == part = "presence" => Beats!UpIsOnline
=============================================================================
