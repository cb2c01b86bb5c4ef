------------------------------ MODULE MCInput ------------------------------
(* An instance of Input.tla for model checking. *)
EXTENDS Input
=============================================================================
