----------------------------- MODULE SuiviLigne -----------------------------
(***************************************************************************)
(* Finaleversion/hello_world.c: the line follower.  Each pass of its loop  *)
(* reads the sensor vector, computes a correction in floating point and    *)
(* writes the command of both motors.  The float results are exact here:   *)
(* the gains are integers but Ki = KiNum / KiDen, and only (int)correction *)
(* is used.                                                                *)
(***************************************************************************)
EXTENDS Pilotage

CONSTANTS
    NbCapteurs,         \* 7
    VITESSE_BASE,       \* 300
    Elan,               \* 200, added to VITESSE_BASE near the line
    Kp0, Kp_enerve,     \* 40 and 120
    KiNum, KiDen,       \* Ki = 1 / 5
    Kd,                 \* 1200
    IntegraleMax,       \* 500
    Vecteurs            \* the sensor vectors, as sets of sensors that see the line

Capteurs  == 0 .. NbCapteurs - 1
ErreurMax == NbCapteurs - 1
Erreurs   == -ErreurMax .. ErreurMax

ASSUME SuiviAssumption ==
    /\ NbCapteurs \in Nat \ {0}
    /\ {VITESSE_BASE, Elan, Kp0, Kp_enerve, KiNum, Kd, IntegraleMax} \subseteq Nat
    /\ KiDen \in Nat \ {0}
    /\ Vecteurs \subseteq SUBSET Capteurs

VARIABLES
    val_capt,           \* the vector read in the last pass
    erreur_prec,        \* the error of the last pass
    derivee,            \* its change in that pass
    integrale,
    Kp,
    vitesse_actuelle,
    correction,         \* (int)correction of that pass
    commande            \* the word in the PWM register

vars == <<val_capt, erreur_prec, derivee, integrale, Kp, vitesse_actuelle,
          correction, commande>>

\* Mutant: the lower bound is forgotten.
BorneHaute(x) == IF x > IntegraleMax THEN IntegraleMax ELSE x

Borne(x) == IF x > IntegraleMax THEN IntegraleMax
            ELSE IF x < -IntegraleMax THEN -IntegraleMax ELSE x

\* PPU + PDU - 6, from the first and the last sensor that see the line (the
\* only element of the set); the last error when none sees it.
Erreur(v) ==
    IF v = {} THEN {erreur_prec}
    ELSE {PPU + PDU - ErreurMax : PPU \in {k \in v : \A j \in v : k <= j},
                                  PDU \in {k \in v : \A j \in v : j <= k}}

\* Mutants: the gain of the start for ever; a derivative of the wrong sign.
CorrectionKp0(kp, e, d, i) == Tronque(KiDen * (Kp0 * e + Kd * d) + KiNum * i, KiDen)
CorrectionInverse(kp, e, d, i) == Tronque(KiDen * (kp * e - Kd * d) + KiNum * i, KiDen)

Correction(kp, e, d, i) == Tronque(KiDen * (kp * e + Kd * d) + KiNum * i, KiDen)

Init ==
    /\ val_capt = {}
    /\ erreur_prec = 0
    /\ derivee = 0
    /\ integrale = 0
    /\ Kp = Kp0
    /\ vitesse_actuelle = VITESSE_BASE
    /\ correction = 0
    /\ commande = [m \in {"L", "R"} |-> [go |-> 0, arriere |-> 0, vitesse |-> 0]]

\* Mutant: the integral is frozen while the line is lost.
TourIntegraleFigee(v) ==
    \E erreur \in Erreur(v) :
        /\ val_capt' = v
        /\ derivee' = erreur - erreur_prec
        /\ integrale' = IF v = {} THEN integrale
                        ELSE IF erreur * erreur_prec < 0 THEN 0
                        ELSE Borne(integrale + erreur)
        /\ Kp' = IF Abs(erreur) >= 3 THEN Kp_enerve ELSE Kp
        /\ vitesse_actuelle' = IF Abs(erreur) <= 1 THEN VITESSE_BASE + Elan
                               ELSE vitesse_actuelle
        /\ correction' = Correction(Kp', erreur, derivee', integrale')
        /\ erreur_prec' = erreur
        /\ commande' = piloter_progressif(vitesse_actuelle' - correction',
                                          vitesse_actuelle' + correction')

\* One pass of the loop on the vector v.
Tour(v) ==
    \E erreur \in Erreur(v) :
        /\ val_capt' = v
        /\ derivee' = erreur - erreur_prec
        /\ integrale' = IF erreur * erreur_prec < 0 THEN 0
                        ELSE Borne(integrale + erreur)
        /\ Kp' = IF Abs(erreur) >= 3 THEN Kp_enerve ELSE Kp
        /\ vitesse_actuelle' = IF Abs(erreur) <= 1 THEN VITESSE_BASE + Elan
                               ELSE vitesse_actuelle
        /\ correction' = Correction(Kp', erreur, derivee', integrale')
        /\ erreur_prec' = erreur
        /\ commande' = piloter_progressif(vitesse_actuelle' - correction',
                                          vitesse_actuelle' + correction')

Next == \E v \in Vecteurs : Tour(v)

Spec == Init /\ [][Next]_vars

\* The loop never stops: it waits for nothing but usleep.  Said of the pass on
\* the vector of the last pass, so that a line that does not move is allowed.
FairSpec == Spec /\ WF_vars(Tour(val_capt))

----------------------------------------------------------------------------
TypeOK ==
    /\ val_capt \in SUBSET Capteurs
    /\ erreur_prec \in Erreurs
    /\ derivee \in -2 * ErreurMax .. 2 * ErreurMax
    /\ integrale \in -IntegraleMax .. IntegraleMax
    /\ Kp \in {Kp0, Kp_enerve}
    /\ vitesse_actuelle \in {VITESSE_BASE, VITESSE_BASE + Elan}
    /\ correction \in Int
    /\ commande \in [{"L", "R"} -> Moteur]

\* "Si Erreur > 0 (Gauche) [...] Correction positive" (lines 110-111): while
\* the line stays where it is, on one side, the car turns to that side.
VirageVersLaLigne ==
    derivee = 0 /\ erreur_prec # 0 => correction * erreur_prec >= 0

\* The proportional term of an error of 1 outweighs a saturated integral.
EnerveDomine == KiDen * Kp_enerve >= KiNum * IntegraleMax + KiDen

\* The derivative term of a move of 1 outweighs the two others.
FreinDomine ==
    \A kp \in {Kp0, Kp_enerve} :
        KiDen * Kd >= KiDen * (kp * ErreurMax) + KiNum * IntegraleMax + KiDen

\* The clamp leaves room above the speeds of both motors on a straight line.
MargeVitesse ==
    \A v \in {VITESSE_BASE, VITESSE_BASE + Elan} :
        \A x \in {v, Tronque(v * TRIM_DROIT, 100)} : HorsZoneMorte(x) < PWM_MAX

\* Once an error of 3 has raised Kp, the car turns to the side of a line that
\* stays where it is, or was lost there, whatever integral it has gathered.
VirageEnerve ==
    Kp = Kp_enerve /\ derivee = 0 /\ erreur_prec # 0
        => MemeSigne(correction, erreur_prec)

\* "Le Frein qui empeche de depasser la ligne" (line 19): when the line moves
\* under the bar, the correction opposes the move, whatever the error and the
\* integral.
Frein == derivee # 0 => MemeSigne(correction, derivee)

\* Trim, dead zone, clamp and 12-bit field: what reaches the register turns
\* each motor in the direction asked, outside its dead zone, or stops it.
TraductionFidele ==
    \A m \in {"L", "R"} :
        LET consigne == IF m = "L" THEN vitesse_actuelle - correction
                        ELSE vitesse_actuelle + correction
            mot == commande[m]
        IN  mot.go = 1 =>
                /\ MemeSigne(Signee(mot), consigne)
                /\ mot.vitesse = 0 \/ mot.vitesse \in DEADZONE + 1 .. PWM_MAX

\* "Correction positive doit ACCELERER Droite et RALENTIR Gauche" (line 111),
\* compared with the words written for no correction at the same speed.
Mixage ==
    LET droit == piloter_progressif(vitesse_actuelle, vitesse_actuelle)
    IN  commande["L"].go = 1 =>
          /\ correction > 0 => /\ Signee(commande["R"]) > Signee(droit["R"])
                               /\ Signee(commande["L"]) < Signee(droit["L"])
          /\ correction < 0 => /\ Signee(commande["R"]) < Signee(droit["R"])
                               /\ Signee(commande["L"]) > Signee(droit["L"])

\* When the line is lost for good to one side, the car ends up turning to
\* that side for ever, whatever the integral was when it was lost.
RechercheDuBonCote ==
    <>[](val_capt = {})
        => <>[](erreur_prec # 0 => MemeSigne(correction, erreur_prec))
=============================================================================
