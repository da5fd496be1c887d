---------------------------- MODULE MCSupportDesk ----------------------------
(* Instances of SupportDesk for TLC: the pages share a key of the cache, a refused page does nothing. *)
EXTENDS SupportDesk, TLC

CONSTANT k1

MCKeyOf == [kind \in Kind |-> k1]

Symmetry == Permutations(Thread) \union Permutations(Text)
============================================================================
