--------------------------- MODULE PwmGeneration ---------------------------
(***************************************************************************)
(* IP_Cores/PWM: the Avalon register pwm_avalon_interface.vhd and the      *)
(* generator PWM_generation.vhd, one step per rising edge of the clock.    *)
(* The command word is kept as its fields: bits 13 (go), 12 (arriere) and  *)
(* 11..0 (vitesse) for the right motor, the next 14 bits for the left one. *)
(***************************************************************************)
EXTENDS Integers

CONSTANTS
    total_dur,      \* freqfpga / freqpwm: 3125 in the code
    Commandes       \* the motor commands the programs write

Bit == {0, 1}
Bits12 == 0 .. 4095
CommandeMoteur == [go : Bit, arriere : Bit, vitesse : Bits12]
Zero == [go |-> 0, arriere |-> 0, vitesse |-> 0]

ASSUME TotalDurAssumption  == total_dur \in 1 .. 4095
ASSUME CommandesAssumption == Commandes \subseteq CommandeMoteur

Moteurs == {"R", "L"}

VARIABLES
    reset_n,
    s_command,      \* the command of each motor
    tick,
    PWM,            \* PWMr and PWMl
    haut,           \* history: cycles this period with the PWM high
    vmin, vmax      \* history: least and greatest speed commanded this period

hist == <<haut, vmin, vmax>>
vars == <<reset_n, s_command, tick, PWM, hist>>

\* Bits 11..0 of the command of a motor.
Vitesse(m) == s_command[m].vitesse

Min2(a, b) == IF a < b THEN a ELSE b
Max2(a, b) == IF a > b THEN a ELSE b

Init ==
    /\ reset_n = 0
    /\ s_command = [m \in Moteurs |-> Zero]
    /\ tick = 0
    /\ PWM  = [m \in Moteurs |-> 0]
    /\ haut = [m \in Moteurs |-> 0]
    /\ vmin = [m \in Moteurs |-> 0]
    /\ vmax = [m \in Moteurs |-> 0]

\* The Avalon write, or a cycle without one.
Registre ==
    \/ UNCHANGED s_command
    \/ \E r, l \in Commandes :
          s_command' = [m \in Moteurs |-> IF m = "R" THEN r ELSE l]

\* Mutant: the end of a period raises no output.
FinPeriodeMuette ==
    /\ tick >= total_dur
    /\ tick' = 0
    /\ UNCHANGED PWM
    /\ haut' = [m \in Moteurs |-> PWM[m]]
    /\ vmin' = [m \in Moteurs |-> Vitesse(m)']
    /\ vmax' = [m \in Moteurs |-> Vitesse(m)']

\* The end of a period raises both outputs ...
FinPeriode ==
    /\ tick >= total_dur
    /\ tick' = 0
    /\ PWM'  = [m \in Moteurs |-> 1]
    /\ haut' = [m \in Moteurs |-> 1]
    /\ vmin' = [m \in Moteurs |-> Vitesse(m)']
    /\ vmax' = [m \in Moteurs |-> Vitesse(m)']

\* Mutant: a tick more.
CompteDeTrop ==
    /\ tick <= total_dur
    /\ tick' = tick + 1
    /\ PWM'  = [m \in Moteurs |->
                   IF tick > Vitesse(m) THEN 0 ELSE PWM[m]]
    /\ haut' = [m \in Moteurs |-> haut[m] + PWM'[m]]
    /\ vmin' = [m \in Moteurs |-> Min2(vmin[m], Vitesse(m)')]
    /\ vmax' = [m \in Moteurs |-> Max2(vmax[m], Vitesse(m)')]

\* Mutant: the output falls a cycle early.
CompteEgal ==
    /\ tick < total_dur
    /\ tick' = tick + 1
    /\ PWM'  = [m \in Moteurs |->
                   IF tick >= Vitesse(m) THEN 0 ELSE PWM[m]]
    /\ haut' = [m \in Moteurs |-> haut[m] + PWM'[m]]
    /\ vmin' = [m \in Moteurs |-> Min2(vmin[m], Vitesse(m)')]
    /\ vmax' = [m \in Moteurs |-> Max2(vmax[m], Vitesse(m)')]

\* ... and each falls once tick has passed its speed.
Compte ==
    /\ tick < total_dur
    /\ tick' = tick + 1
    /\ PWM'  = [m \in Moteurs |->
                   IF tick > Vitesse(m) THEN 0 ELSE PWM[m]]
    /\ haut' = [m \in Moteurs |-> haut[m] + PWM'[m]]
    /\ vmin' = [m \in Moteurs |-> Min2(vmin[m], Vitesse(m)')]
    /\ vmax' = [m \in Moteurs |-> Max2(vmax[m], Vitesse(m)')]

Front ==
    /\ reset_n = 1
    /\ Registre
    /\ FinPeriode \/ Compte
    /\ UNCHANGED reset_n

\* The generator resets on a clock edge.
FrontReset ==
    /\ reset_n = 0
    /\ tick' = 0
    /\ PWM'  = [m \in Moteurs |-> 0]
    /\ haut' = [m \in Moteurs |-> 0]
    /\ vmin' = [m \in Moteurs |-> 0]
    /\ vmax' = [m \in Moteurs |-> 0]
    /\ UNCHANGED <<reset_n, s_command>>

\* The register resets at once.
Reset ==
    /\ reset_n = 1
    /\ reset_n' = 0
    /\ s_command' = [m \in Moteurs |-> Zero]
    /\ vmin' = [m \in Moteurs |-> 0]
    /\ UNCHANGED <<tick, PWM, haut, vmax>>

\* The button is held for longer than a clock period.
FinReset ==
    /\ reset_n = 0
    /\ tick = 0 /\ PWM = [m \in Moteurs |-> 0]
    /\ reset_n' = 1
    /\ UNCHANGED <<s_command, tick, PWM, hist>>

Next == Front \/ FrontReset \/ Reset \/ FinReset

Spec == Init /\ [][Next]_vars

FairSpec == Spec /\ WF_vars(Front) /\ WF_vars(FrontReset) /\ WF_vars(FinReset)

----------------------------------------------------------------------------
\* The inputs of the motor bridges, wired to the pins by TPSoC.vhd.
Avant(m)   == s_command[m].go = 1 /\ s_command[m].arriere = 0
Arriere(m) == s_command[m].go = 1 /\ s_command[m].arriere = 1

dc_motor_p_R == IF Avant("R")   THEN PWM["R"] ELSE 0
dc_motor_n_R == IF Arriere("R") THEN PWM["R"] ELSE 0
dc_motor_p_L == IF Avant("L")   THEN 0 ELSE PWM["L"]
dc_motor_n_L == IF Arriere("L") THEN 0 ELSE PWM["L"]

----------------------------------------------------------------------------
TypeOK ==
    /\ reset_n \in Bit
    /\ s_command \in [Moteurs -> CommandeMoteur]
    /\ tick \in 0 .. total_dur
    /\ PWM  \in [Moteurs -> Bit]
    /\ haut \in [Moteurs -> Nat]
    /\ vmin \in [Moteurs -> Nat]
    /\ vmax \in [Moteurs -> Nat]

\* However the program rewrites the speed during a period, the time the
\* output is high in it lies between what the least and the greatest of these
\* speeds would give, which is two cycles more than the speed; a period cut
\* by a reset, or the first after one, has no pulse to measure.
DureeEncadree ==
    \A m \in Moteurs :
        /\ PWM[m] = 1 => haut[m] = tick + 1 /\ tick <= vmax[m] + 1
        /\ PWM[m] = 0 /\ haut[m] > 0 =>
              vmin[m] + 2 <= haut[m] /\ haut[m] <= vmax[m] + 2

\* "Les bits 11 a 0: vitesse=duree etat haut" (line 17), read at the end of a
\* period during which the speed did not change.
DureeEtatHaut ==
    \A m \in Moteurs :
        tick = total_dur /\ haut[m] > 0 /\ vmin[m] = vmax[m]
            /\ vmax[m] <= total_dur
        => haut[m] = vmax[m]

\* The pulses never stop coming, unless the system is reset again.
Impulsions == <>[](reset_n = 1) => \A m \in Moteurs : []<>(PWM[m] = 1)
============================================================================
