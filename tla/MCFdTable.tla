----------------------------- MODULE MCFdTable -----------------------------
(* An instance of FdTable.tla for model checking. *)
EXTENDS FdTable, TLC

Symmetry == Permutations(Thread)
=============================================================================
