-------------------------- MODULE MCBackupService --------------------------
(* BackupService on small instances: contents c1 and c2 have the same size. *)
EXTENDS BackupService, TLC

CONSTANTS c1, c2, c3, text

Sizes == [c \in Content |-> IF c \in {c1, c2} THEN 1 ELSE IF c = c3 THEN 2 ELSE 3]

Symmetry == Permutations(Run) \union Permutations({c1, c2})
=============================================================================
