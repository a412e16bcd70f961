-------------------------- MODULE MCActionPipeline --------------------------
(***************************************************************************)
(* Small instances of ActionPipeline.  Callers are interchangeable, and so *)
(* are operators; drainers are too, but one is enough.                     *)
(***************************************************************************)
EXTENDS ActionPipelineInvariant, TLC

Interchangeable == Permutations(Callers) \cup Permutations(Operators)

=============================================================================
