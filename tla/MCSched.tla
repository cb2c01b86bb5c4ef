------------------------------- MODULE MCSched -------------------------------
(* Instances of Sched.tla for model checking. *)
EXTENDS Sched

CONSTANTS idle, base, init, user

\* start_kernel creates the base and the idle thread, the base thread the init
\* thread, and the init thread one user thread.
MCTid == {idle, base, init, user}
MCChildren ==
  [s \in MCTid \cup {BOOT} |->
     CASE s = BOOT -> {base, idle}
       [] s = base -> {init}
       [] s = init -> {user}
       [] OTHER    -> {}]

\* The priorities the code gives: the base thread asks for 0, the init thread
\* for 1, a user thread for the default, the idle thread for 98.
MCPrio ==
  [t \in MCTid |-> CASE t = base -> 0 [] t = init -> 1 [] t = user -> 80
                     [] t = idle -> 98]

\* Three threads, no init thread: the base thread creates the user thread.
MCTid3 == {idle, base, user}
MCChildren3 ==
  [s \in MCTid3 \cup {BOOT} |->
     CASE s = BOOT -> {base, idle} [] s = base -> {user} [] OTHER -> {}]
MCPrio3 ==
  [t \in MCTid3 |-> CASE t = base -> 0 [] t = user -> 80 [] t = idle -> 98]

=============================================================================
