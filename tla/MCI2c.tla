------------------------------- MODULE MCI2c -------------------------------
(* An instance of I2c.tla for model checking. *)
EXTENDS I2c
=============================================================================
