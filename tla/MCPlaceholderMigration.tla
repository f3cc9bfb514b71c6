------------------------ MODULE MCPlaceholderMigration ------------------------
(* An instance of PlaceholderMigration for TLC. *)
EXTENDS PlaceholderMigration, TLC

Symmetry == Permutations(Attempt) \cup Permutations(Question)
              \cup Permutations(Process)
===============================================================================
