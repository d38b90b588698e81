---------------------------- MODULE ControleurTP ----------------------------
(***************************************************************************)
(* TP/pid.c, the controller before the one of SuiviLigne: constant gains,  *)
(* an integral that is never reset, the motors mixed the other way, the    *)
(* command saturated before it is sent.  The float results are exact, as   *)
(* in SuiviLigne: Ki = KiNum_TP / KiDen_TP.                                *)
(***************************************************************************)
EXTENDS Pilotage

CONSTANTS
    Base_TP,                    \* VITESSE_BASE, 250
    TrimNum, TrimDen,           \* TRIM_DROIT, 1173 / 1000
    Kp_TP, Kd_TP,               \* 150 and 1000
    KiNum_TP, KiDen_TP,         \* 1 / 20
    Integrale_TP,               \* 500
    Vecteurs_TP,                \* the sensor vectors
    Restes_TP                   \* what the register may hold at the start

ASSUME TPAssumption ==
    /\ {Base_TP, Kp_TP, Kd_TP, TrimNum, KiNum_TP, Integrale_TP} \subseteq Nat
    /\ TrimDen \in Nat \ {0} /\ KiDen_TP \in Nat \ {0}
    /\ Vecteurs_TP \subseteq SUBSET (0 .. 6)

VARIABLES
    erreurTP, deriveeTP, integraleTP,
    correction_pid,             \* (int)correction_pid
    registreTP,                 \* the word in the PWM register
    lance                       \* a pass has been made

tpvars == <<erreurTP, deriveeTP, integraleTP, correction_pid, registreTP, lance>>

TPInit ==
    /\ erreurTP = 0 /\ deriveeTP = 0 /\ integraleTP = 0
    /\ correction_pid = 0
    /\ registreTP \in Restes_TP
    /\ lance = FALSE

\* Mutant: positions are counted from 1.
ErreurTPDe1(v) ==
    IF v = {} THEN {erreurTP}
    ELSE {PPU + PDU - 6 : PPU \in {k + 1 : k \in {i \in v : \A j \in v : i <= j}},
                          PDU \in {k + 1 : k \in {i \in v : \A j \in v : j <= i}}}

\* PPU + PDU - 6; the last error when no sensor sees the line.
ErreurTP(v) ==
    IF v = {} THEN {erreurTP}
    ELSE {PPU + PDU - 6 : PPU \in {k \in v : \A j \in v : k <= j},
                          PDU \in {k \in v : \A j \in v : j <= k}}

Serre(x, max) == IF x > max THEN max ELSE IF x < -max THEN -max ELSE x

Accumule(e) == Serre(integraleTP + e, Integrale_TP)

\* Mutants: the gain of the integral is 1; a derivative of
\* the wrong sign.
CorrectionTPKi1(e, i, d) == Kp_TP * e + Kd_TP * d + i
CorrectionTPInverse(e, i, d) ==
    Tronque(KiDen_TP * (Kp_TP * e - Kd_TP * d) + KiNum_TP * i, KiDen_TP)

CorrectionTP(e, i, d) ==
    Tronque(KiDen_TP * (Kp_TP * e + Kd_TP * d) + KiNum_TP * i, KiDen_TP)

piloter_moteurs(g, d) ==
    envoyer_commande_physique(
        Serre(HorsZoneMorte(g), PWM_MAX),
        Serre(HorsZoneMorte(Tronque(d * TrimNum, TrimDen)), PWM_MAX))

TourTP(v) ==
    \E e \in ErreurTP(v) :
        /\ erreurTP' = e
        /\ deriveeTP' = e - erreurTP
        /\ integraleTP' = Accumule(e)
        /\ correction_pid' = CorrectionTP(e, integraleTP', deriveeTP')
        /\ registreTP' = piloter_moteurs(Base_TP + correction_pid', Base_TP - correction_pid')
        /\ lance' = TRUE

TPNext == \E v \in Vecteurs_TP : TourTP(v)

TPSpec == TPInit /\ [][TPNext]_tpvars

-----------------------------------------------------------------------------
TPTypeOK ==
    /\ erreurTP \in -6 .. 6 /\ deriveeTP \in -12 .. 12
    /\ integraleTP \in -Integrale_TP .. Integrale_TP
    /\ correction_pid \in Int
    /\ registreTP \in Restes_TP \/ \A m \in {"L", "R"} : registreTP[m].go = 1
    /\ lance \in BOOLEAN

\* An error of 1 outweighs a full integral; a move of 1 outweighs both terms.
VirageDomine == KiDen_TP * Kp_TP >= KiNum_TP * Integrale_TP + KiDen_TP
MouvementDomine ==
    KiDen_TP * Kd_TP >= KiDen_TP * (Kp_TP * 6) + KiNum_TP * Integrale_TP + KiDen_TP

\* "Correction des erreurs persistantes" (line 14): whatever the integral has
\* gathered, a line that stays on one side gets the correction of that side.
\* The gains of the final program do not have this property.
VirageTP ==
    deriveeTP = 0 /\ erreurTP # 0 => MemeSigne(correction_pid, erreurTP)

\* "Amortissement (Anticipation)" (line 15): any move of the line under the
\* bar decides the sign, against the largest error and a full integral.
FreinTP == deriveeTP # 0 => MemeSigne(correction_pid, deriveeTP)

\* Trim, dead zone, saturation, clamp and field: from the first pass on each
\* motor turns in the direction asked, outside its dead zone, or is stopped.
TraductionTP ==
    lance => \A m \in {"L", "R"} :
        LET moteur == IF m = "L" THEN Base_TP + correction_pid
                      ELSE Base_TP - correction_pid
            mot == registreTP[m]
        IN  /\ mot.go = 1
            /\ MemeSigne(Signee(mot), moteur)
            /\ mot.vitesse = 0 \/ mot.vitesse \in DEADZONE + 1 .. PWM_MAX
=============================================================================
