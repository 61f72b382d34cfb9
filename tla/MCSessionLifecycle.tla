------------------------- MODULE MCSessionLifecycle -------------------------
(* Instances of SessionLifecycle small enough for TLC.                     *)
EXTENDS SessionLifecycle, TLC

\* Fresh identities, handlers and units of work are interchangeable; legacy
\* identities are not, the environment's one container names one of them.
Symmetry ==
  Permutations(Sessions \ Legacy) \cup Permutations(Handlers) \cup Permutations(Work)

=============================================================================
