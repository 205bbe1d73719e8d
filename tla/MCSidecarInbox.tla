--------------------------- MODULE MCSidecarInbox ---------------------------
(* Small instances of SidecarInbox for TLC. *)
EXTENDS SidecarInbox, TLC

\* Deliveries are interchangeable for the safety properties.
Symmetry == Permutations(Deliveries)
=============================================================================
