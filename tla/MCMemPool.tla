----------------------------- MODULE MCMemPool -----------------------------
(* An instance of MemPool.tla for model checking. *)
EXTENDS MemPool
=============================================================================
