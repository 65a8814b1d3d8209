--------------------------- MODULE MCAlertService ---------------------------
(* AlertService on a small instance. *)
EXTENDS AlertService, TLC

Symmetry == Permutations(Worker) \union Permutations(Key)

=============================================================================
