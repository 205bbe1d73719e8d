----------------------- MODULE TaskDispatchRefinement -----------------------
(* Task dispatch implements the ownership discipline of WorkOwnership. *)
EXTENDS TaskDispatch

\* The Agent a working row is assigned to owns the task; the attempt counter,
\* which every claim increments, is its epoch.
Ownership == INSTANCE WorkOwnership WITH
    owner <- [t \in Tasks |-> IF Working(t) THEN assigned[t] ELSE None],
    done  <- {t \in Tasks : status[t] = "completed"},
    epoch <- attempt

\* Every behaviour of the tables is one of exclusive, fenced ownership: claims,
\* sweeps, results and retries of all workers compose into its three steps.
ImplementsOwnership == Ownership!Spec
=============================================================================
