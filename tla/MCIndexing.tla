------------------------------- MODULE MCIndexing -------------------------------
(* The instance of Indexing that TLC checks: a GIF of two embedded frames.      *)
EXTENDS Indexing, TLC

MCFrameCount == [a \in Assets |-> IF a \in Gifs THEN 2 ELSE 1]

\* Nothing tells two processes or two manifests apart (for runs of invariants only).
Symmetry == Permutations(Processes) \union Permutations(Versions)

================================================================================
