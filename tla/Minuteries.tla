----------------------------- MODULE Minuteries -----------------------------
(***************************************************************************)
(* What the alarms of the HAL promise: each one counts its ticks down and  *)
(* calls back when none is left, neither before nor after.                 *)
(***************************************************************************)
EXTENDS Integers

CONSTANTS
    N,              \* the tick counter is a number modulo N
    Alarme          \* the alarms that may be registered

VARIABLES
    liste,          \* the registered ones
    reste,          \* [alarm -> ticks before its callback], 0 when not registered
    rappels         \* the alarms called back in the last tick

mvars == <<liste, reste, rappels>>

MInit ==
    /\ liste = {}
    /\ reste = [a \in Alarme |-> 0]
    /\ rappels = {}

\* At least nticks whole ticks pass before the callback.
Armer(a, nticks) ==
    /\ a \notin liste
    /\ liste' = liste \cup {a}
    /\ reste' = [reste EXCEPT ![a] = nticks + 1]
    /\ UNCHANGED rappels

Desarmer(a) ==
    /\ liste' = liste \ {a}
    /\ reste' = [reste EXCEPT ![a] = 0]
    /\ UNCHANGED rappels

\* suite[a] is what the callback of a returns: its next delay, or 0 to stop.
Top(suite) ==
    /\ rappels' = {a \in liste : reste[a] = 1}
    /\ liste' = liste \ {a \in rappels' : suite[a] = 0}
    /\ reste' = [a \in Alarme |->
           IF a \in rappels' THEN suite[a]
           ELSE IF a \in liste THEN reste[a] - 1 ELSE 0]

MNext ==
    \/ \E a \in Alarme, nticks \in 0 .. N - 2 : Armer(a, nticks)
    \/ \E a \in Alarme : Desarmer(a)
    \/ \E suite \in [Alarme -> 0 .. N - 1] : Top(suite)

MSpec == MInit /\ [][MNext]_mvars
=============================================================================
