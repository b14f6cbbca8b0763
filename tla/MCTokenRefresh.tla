--------------------------- MODULE MCTokenRefresh ---------------------------
(* Instances of the refresh coordinator for TLC. *)
EXTENDS TokenRefresh, TLC

\* Callers are interchangeable.
Symmetry == Permutations(Caller)
=============================================================================
