-------------------------- MODULE MCNotifications --------------------------
(* Instances of Notifications for TLC. *)
EXTENDS Notifications, TLC

Symmetry == Permutations(Web) \union Permutations(Filter)
============================================================================
