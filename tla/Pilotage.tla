------------------------------ MODULE Pilotage ------------------------------
(***************************************************************************)
(* The low-level functions of Finaleversion/hello_world.c: from a signed   *)
(* speed for each motor to the fields of the word written to the PWM       *)
(* register.                                                               *)
(***************************************************************************)
EXTENDS Integers

CONSTANTS
    PWM_MAX,            \* 3125
    DEADZONE,           \* 1950
    TRIM_DROIT          \* 118: the right motor is given TRIM_DROIT / 100

ASSUME PilotageAssumption ==
    /\ PWM_MAX \in 1 .. 4095
    /\ DEADZONE \in Nat
    /\ TRIM_DROIT \in Nat

Abs(x) == IF x >= 0 THEN x ELSE -x

\* The conversion of a float n / d to int: towards zero.
Tronque(n, d) == IF n >= 0 THEN n \div d ELSE -((-n) \div d)

preparer_moteur(marche, arriere, vitesse) ==
    LET bornee == IF vitesse > PWM_MAX THEN PWM_MAX
                  ELSE IF vitesse < 0 THEN 0 ELSE vitesse
    IN  IF marche = 1
        THEN [go |-> 1, arriere |-> arriere, vitesse |-> bornee % 4096]
        ELSE [go |-> 0, arriere |-> 0, vitesse |-> 0]

CommandeDe(pwm) == preparer_moteur(1, IF pwm >= 0 THEN 0 ELSE 1, Abs(pwm))

envoyer_commande_physique(pwm_G, pwm_D) ==
    [m \in {"L", "R"} |-> CommandeDe(IF m = "L" THEN pwm_G ELSE pwm_D)]

\* Mutant: the dead zone is always added.
HorsZoneMorteSansSigne(cmd) == IF cmd # 0 THEN cmd + DEADZONE ELSE 0

\* The dead zone of a motor is skipped, in the direction of the command.
HorsZoneMorte(cmd) == IF cmd > 0 THEN cmd + DEADZONE
                      ELSE IF cmd < 0 THEN cmd - DEADZONE ELSE 0

\* Mutant: the motors are exchanged.
piloter_progressifCroise(cmd_G, cmd_D) ==
    envoyer_commande_physique(
        HorsZoneMorte(Tronque(cmd_D * TRIM_DROIT, 100)),
        HorsZoneMorte(cmd_G))

\* Exact for the float product: (int)(cmd_D * 1.18).
piloter_progressif(cmd_G, cmd_D) ==
    envoyer_commande_physique(
        HorsZoneMorte(cmd_G),
        HorsZoneMorte(Tronque(cmd_D * TRIM_DROIT, 100)))

----------------------------------------------------------------------------
(* For the properties of the programs.                                      *)

Champ  == 0 .. 4095
Moteur == [go : {0, 1}, arriere : {0, 1}, vitesse : Champ]

MemeSigne(x, y) == (x > 0 <=> y > 0) /\ (x < 0 <=> y < 0)

\* The speed of a motor as the bridge applies it, with its sign.
Signee(mot) == IF mot.arriere = 1 THEN -mot.vitesse ELSE mot.vitesse
============================================================================
