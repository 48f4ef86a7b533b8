---------------------------- MODULE MCLibraryCopies ----------------------------
(* The instance of LibraryCopies that TLC checks: every candidate and the       *)
(* asset of the other process have the same content, each from its own path.    *)
EXTENDS LibraryCopies, TLC

CONSTANT c1

MCContentOf == [i \in Ids |-> c1]
MCPathOf == [i \in Ids |-> i]

\* Candidates have the same content and threads give the same commands.
Symmetry == Permutations(Candidates) \union Permutations(Threads)

================================================================================
