------------------------- MODULE MCGenerationQueue -------------------------
(* Model-checking instance of GenerationQueue: the constants are model values *)
(* and small numbers set in the cfg files.                                    *)
EXTENDS GenerationQueue, TLC

\* Jobs and workers are only compared for equality.
Interchangeable == Permutations(Jobs) \cup Permutations(Workers)

=============================================================================
