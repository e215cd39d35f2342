------------------------------- MODULE Agenda -------------------------------
(***************************************************************************)
(* What the event queue of SIMH promises its callers: units wait in the    *)
(* order of the times they asked for, first come first served among equal  *)
(* ones; a unit runs when its time has come, neither sooner nor later; and *)
(* what happens to one unit never moves another.  Times are counted from   *)
(* now.  EventQueue implements this specification.                         *)
(***************************************************************************)
EXTENDS Integers, Sequences, SequencesExt

CONSTANTS
    Units,      \* what can be scheduled
    Delays      \* the delays asked for

VARIABLE agenda     \* the units waiting, with the time each has left

Shifted(n) == [i \in DOMAIN agenda |-> [agenda[i] EXCEPT !.left = @ - n]]

Waiting(u) == \E i \in DOMAIN agenda : agenda[i].unit = u

Without(u) ==
    IF Waiting(u) THEN RemoveAt(agenda, CHOOSE i \in DOMAIN agenda : agenda[i].unit = u)
    ELSE agenda

\* Behind every unit that is due no later.
Place(a, u, d) ==
    LET earlier == {i \in DOMAIN a : a[i].left <= d}
    IN  InsertAt(a, Max(earlier \union {0}) + 1, [unit |-> u, left |-> d])

Init == agenda \in UNION {[1 .. 1 -> [unit : Units, left : Delays]]}

Schedule(u, d) == ~Waiting(u) /\ agenda' = Place(agenda, u, d)

Reschedule(u, d) == agenda' = Place(Without(u), u, d)

Withdraw(u) == agenda' = Without(u)

Pass == agenda # <<>> /\ agenda' = Shifted(1)

Run == agenda # <<>> /\ agenda[1].left = 0 /\ agenda' = Tail(agenda)

\* A stop request brings the first unit forward to now, and the rest by as much.
Hurry == agenda # <<>> /\ agenda' = Shifted(agenda[1].left)

\* RUN and BOOT forget the past.
Restart == agenda' \in [1 .. 1 -> [unit : Units, left : Delays]]

Next ==
    \/ \E u \in Units, d \in Delays : Schedule(u, d) \/ Reschedule(u, d)
    \/ \E u \in Units : Withdraw(u)
    \/ Pass \/ Run \/ Hurry \/ Restart

Spec == Init /\ [][Next]_agenda
=============================================================================
