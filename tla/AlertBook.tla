------------------------------ MODULE AlertBook ------------------------------
(***************************************************************************)
(* What the alert list promises to the people who watch it, whatever the   *)
(* tick and the admins do at the same time: for every key, "nothing yet",  *)
(* then an alert that somebody may acknowledge, which ends once, and after *)
(* which only a new alert can start.  FireAlarm implements it with book[k] *)
(* the status of the latest fire_alerts row of k.                          *)
(***************************************************************************)
CONSTANT Keys

VARIABLE book

vars == <<book>>

Live == {"open", "acked"}

Init == book = [k \in Keys |-> "none"]

\* One evaluation: new alerts for keys that have none open, ends for keys that have one.
Evaluation(O, C) ==
    /\ \A k \in O : book[k] \notin Live
    /\ \A k \in C : book[k] \in Live
    /\ book' = [k \in Keys |-> IF k \in O THEN "open" ELSE IF k \in C THEN "closed" ELSE book[k]]

\* Somebody silences alerts that ring.
Acknowledge(K) ==
    /\ \A k \in K : book[k] = "open"
    /\ book' = [k \in Keys |-> IF k \in K THEN "acked" ELSE book[k]]

Next ==
    \/ \E O, C \in SUBSET Keys : Evaluation(O, C)
    \/ \E K \in SUBSET Keys : Acknowledge(K)

Spec == Init /\ [][Next]_vars
=============================================================================
