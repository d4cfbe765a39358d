---------------------------- MODULE MCSearchSession ----------------------------
(* Instances of SearchSession: goroutines that handle presses are alike. *)
EXTENDS SearchSession, TLC

Symmetry == Permutations(Presses)

=============================================================================
