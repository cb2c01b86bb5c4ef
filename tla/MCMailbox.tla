----------------------------- MODULE MCMailbox -----------------------------
(* An instance of Mailbox.tla for model checking. *)
EXTENDS Mailbox
=============================================================================
