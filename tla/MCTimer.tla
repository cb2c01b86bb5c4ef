------------------------------- MODULE MCTimer -------------------------------
(* Instances of Timer.tla for model checking. *)
EXTENDS Timer

CONSTANTS base, idle

Two == {base, idle}
\* A delay shorter than the preemption period, one longer, and none at all.
MCDelays == {0, 1, 3}
=============================================================================
