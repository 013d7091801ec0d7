-------------------------- MODULE MCConnLifecycle --------------------------
(* ConnLifecycle for TLC. *)
EXTENDS ConnLifecycle, TLC

CONSTANTS w1, w2

TwoWorkers == <<w1, w2>>
OneWorker == <<w1>>
NoWorkers == <<Main>>

\* Nothing tells connections or descriptors apart (safety runs only).
Symmetry == Permutations(Conns) \union Permutations(Fds)
=============================================================================
