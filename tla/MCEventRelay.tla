---------------------------- MODULE MCEventRelay ----------------------------
(* Small instances of EventRelay for TLC. *)
EXTENDS EventRelay, TLC

Symmetry == Permutations(Events)
=============================================================================
