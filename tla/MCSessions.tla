---------------------------- MODULE MCSessions -----------------------------
(* Sessions with two requests, caches of two and a short time to live. *)
EXTENDS Sessions, TLC

Symmetry == Permutations(Task)
=============================================================================
