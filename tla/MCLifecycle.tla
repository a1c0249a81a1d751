---------------------------- MODULE MCLifecycle ----------------------------
(* Lifecycle on small sets of model values, for TLC. *)
EXTENDS Lifecycle, TLC

\* No definition names a particular handler, id or owner, so they can be
\* permuted; used by the runs that check safety only.
Symmetry == Permutations(Handlers) \cup Permutations(Ids) \cup Permutations(Owners)
=============================================================================
