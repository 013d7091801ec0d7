----------------------------- MODULE MCSessions -----------------------------
(* Sessions, with connections and users that are all alike. *)
EXTENDS Sessions, TLC

Symmetry == Permutations(Conns) \union Permutations(Users)
=============================================================================
