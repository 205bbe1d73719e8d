--------------------------- MODULE MCTaskDispatch ---------------------------
(* Small instances of TaskDispatch for TLC. *)
EXTENDS TaskDispatchRefinement, TLC

CONSTANTS t1, t2, t3, a1, a2

\* t2 waits for t1; every other task is independent.
Chain == [t \in Tasks |-> IF t = t2 THEN {t1} \cap Tasks ELSE {}]
Independent == [t \in Tasks |-> {}]
=============================================================================
