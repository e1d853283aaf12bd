--------------------------- MODULE MCJobPipeline ---------------------------
(* Model checking of JobPipeline: valid messages are interchangeable.      *)
EXTENDS JobPipeline, TLC

Symmetry == Permutations(Messages \ Malformed)
=============================================================================
