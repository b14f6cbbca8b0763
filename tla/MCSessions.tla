----------------------------- MODULE MCSessions -----------------------------
(* Instances of the session manager for TLC. *)
EXTENDS SessionsProps, TLC

\* Jobs, sessions and actor incarnations are interchangeable.
Symmetry == Permutations(Job) \cup Permutations(Actor) \cup Permutations(Session)

=============================================================================
