------------------------------ MODULE SchedSpec ------------------------------
(* What the scheduler promises its threads: each is in one place, whoever   *)
(* gives up the core hands it to the best of the ready threads, and the     *)
(* idle thread, there before the first switch, never sleeps.                *)
EXTENDS Integers

CONSTANTS Thread, Rank, IDLE, NULL

VARIABLES running, ready, asleep

vars == <<running, ready, asleep>>

Init == running = NULL /\ ready = {} /\ asleep = {}

\* No thread that waits for the core has a better rank than n.
Best(n) == n \in ready /\ \A r \in ready : Rank[n] <= Rank[r]

Create(t) ==
  /\ t \notin ready \cup asleep \cup {running}
  /\ ready' = ready \cup {t}
  /\ UNCHANGED <<running, asleep>>

Start(n) ==
  /\ running = NULL /\ IDLE \in ready
  /\ Best(n)
  /\ running' = n /\ ready' = ready \ {n}
  /\ UNCHANGED asleep

Yield(n) ==
  /\ running # NULL /\ Best(n)
  /\ running' = n /\ ready' = (ready \ {n}) \cup {running}
  /\ UNCHANGED asleep

Sleep(n) ==
  /\ running \notin {NULL, IDLE} /\ Best(n)
  /\ running' = n /\ ready' = ready \ {n}
  /\ asleep' = asleep \cup {running}

Suspend(t) ==
  /\ t \in ready \ {IDLE}
  /\ ready' = ready \ {t} /\ asleep' = asleep \cup {t}
  /\ UNCHANGED running

Wake(t) ==
  /\ t \in asleep
  /\ ready' = ready \cup {t} /\ asleep' = asleep \ {t}
  /\ UNCHANGED running

Next ==
  \E t \in Thread : \/ Create(t) \/ Start(t) \/ Yield(t) \/ Sleep(t)
                    \/ Suspend(t) \/ Wake(t)

Spec == Init /\ [][Next]_vars
=============================================================================
