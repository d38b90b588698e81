---------------------------- MODULE BancMoteurs ----------------------------
(***************************************************************************)
(* calibration.c, the motor bench: the keyboard raises and lowers the      *)
(* speed of each motor, forwards only, to find the dead zone and the trim. *)
(* One action handles one key: nothing else runs on the processor.         *)
(***************************************************************************)
EXTENDS Pilotage

CONSTANTS
    Depart,         \* 1600
    step,           \* 10
    Restes          \* what the register may hold when the program starts

ASSUME BancAssumption ==
    /\ Depart \in 0 .. PWM_MAX
    /\ step \in Nat

VARIABLES
    vG, vD,
    registre,       \* the word in the PWM register
    saisi           \* a key has been handled since the program started

bvars == <<vG, vD, registre, saisi>>

Touches == {"z", "s", "q", "d", "w", "c", "0", "autre"}

\* A download leaves the register alone, and the first word is written after
\* the first key.
BInit ==
    /\ vG = Depart
    /\ vD = Depart
    /\ registre \in Restes
    /\ saisi = FALSE

envoyer_commande(g, d) ==
    [m \in {"L", "R"} |-> preparer_moteur(1, 0, IF m = "L" THEN g ELSE d)]

\* Mutant: s runs on into q.
PasGaucheSansBreak(k) == IF k \in {"z", "q"} THEN step
                         ELSE IF k = "w" THEN -step ELSE 0

\* What a key adds to each motor.
PasGauche(k) == IF k \in {"z", "q"} THEN step
                ELSE IF k \in {"s", "w"} THEN -step ELSE 0
PasDroit(k)  == IF k \in {"z", "d"} THEN step
                ELSE IF k \in {"s", "c"} THEN -step ELSE 0

\* Mutant: the bounds are left to preparer_moteur.
BorneesAilleurs(v) == v

Bornees(v) == IF v > PWM_MAX THEN PWM_MAX ELSE IF v < 0 THEN 0 ELSE v

Touche(k) ==
    /\ vG' = IF k = "0" THEN 0 ELSE Bornees(vG + PasGauche(k))
    /\ vD' = IF k = "0" THEN 0 ELSE Bornees(vD + PasDroit(k))
    /\ registre' = envoyer_commande(vG', vD')
    /\ saisi' = TRUE

BNext == \E k \in Touches : Touche(k)

BSpec == BInit /\ [][BNext]_bvars

----------------------------------------------------------------------------
\* "PWM Actuel -> Gauche: %d | Droite: %d" (line 49): after any sequence of
\* keys the speeds shown at the prompt, from which the trim is computed, are
\* those in the register, forwards.  Before the first key they are not.
AffichageVrai ==
    saisi => registre = [m \in {"L", "R"} |->
        [go |-> 1, arriere |-> 0, vitesse |-> IF m = "L" THEN vG ELSE vD]]

\* "Augmenter les DEUX moteurs" (line 41): a ramp keeps the difference set with
\* the single-motor keys as long as no motor has come to a bound, and a bound
\* may only narrow it: it never widens or reverses it.
EquilibreGarde ==
    [][Touche("z") \/ Touche("s") =>
         /\ vG' - vD' # vG - vD => {vG', vD'} \cap {0, PWM_MAX} # {}
         /\ Abs(vG' - vD') <= Abs(vG - vD)
         /\ (vG > vD => vG' >= vD') /\ (vG < vD => vG' <= vD')]_bvars
============================================================================
