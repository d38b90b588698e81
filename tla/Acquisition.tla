---------------------------- MODULE Acquisition ----------------------------
(***************************************************************************)
(* What the floor-sensor acquisition promises the rest of the system-on-   *)
(* chip, without its serial link: a scan, once triggered, measures every   *)
(* sensor once, and then publishes all the measures of that scan in one    *)
(* step.  A reset abandons the scan under way and publishes nothing.       *)
(* CapteursSol refines this specification.                                 *)
(***************************************************************************)
EXTENDS Integers

CONSTANTS
    Capteurs,   \* the sensors of the bar
    Octets,     \* the values a published byte may have
    Valeurs     \* Valeurs[k]: the bytes sensor k may measure

VARIABLES
    phase,      \* "repos" (idle) or "balayage" (scanning)
    lus,        \* the measures of the scan under way, by sensor
    publie,     \* the measures readable from outside
    pret        \* 1 just after a publication

vars == <<phase, lus, publie, pret>>

Vide == [k \in {} |-> 0]

Init ==
    /\ phase = "repos"
    /\ lus = Vide
    /\ publie \in [Capteurs -> Octets]
    /\ pret = 0

Declencher ==
    /\ phase = "repos"
    /\ phase' = "balayage"
    /\ pret' = 0
    /\ UNCHANGED <<lus, publie>>

Mesurer(k) ==
    /\ phase = "balayage"
    /\ k \in Capteurs \ DOMAIN lus
    /\ \E v \in Valeurs[k] :
          lus' = [j \in DOMAIN lus \cup {k} |-> IF j = k THEN v ELSE lus[j]]
    /\ UNCHANGED <<phase, publie, pret>>

Publier ==
    /\ phase = "balayage"
    /\ DOMAIN lus = Capteurs
    /\ publie' = lus
    /\ pret' = 1
    /\ phase' = "repos"
    /\ lus' = Vide

Acquitter ==
    /\ phase = "repos"
    /\ pret' = 0
    /\ UNCHANGED <<phase, lus, publie>>

Abandonner ==
    /\ phase = "balayage"
    /\ phase' = "repos"
    /\ lus' = Vide
    /\ UNCHANGED <<publie, pret>>

Next ==
    \/ Declencher
    \/ \E k \in Capteurs : Mesurer(k)
    \/ Publier
    \/ Acquitter
    \/ Abandonner

Spec == Init /\ [][Next]_vars
============================================================================
