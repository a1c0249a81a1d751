-------------------------- MODULE MCOutputPipeline --------------------------
(* OutputPipeline for TLC. *)
EXTENDS OutputPipeline

\* Sessions are interchangeable; used by the runs that check safety only.
Symmetry == Permutations(Sessions)
=============================================================================
