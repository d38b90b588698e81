------------------------------- MODULE MC_Reel -------------------------------
(* The slave, the sensors and the time of a conversion at their real size:  *)
(* 8 channels, 64 cycles of wait, 25000 cycles between two scans.           *)
EXTENDS InterfaceCapteurs, MC_CapteursSolTemps

\* A scan takes 712 of the 12500 cycles of half a period, and 67 cycles of
\* 25 ns cover a conversion.
ASSUME DureesAssumption == ScanDansPeriode /\ ScanDansDemiPeriode /\ AttenteSuffit

RInit == IInit /\ depuis = TempsMax

\* Bound: no reset after power-up.
RNext ==
    \/ Cycle(UNCHANGED registres) /\ Compter
    \/ \E v \in Ecritures : Cycle(Ecrire(v)) /\ Compter
    \/ CycleReset /\ Compter
    \/ DemiCycle /\ UNCHANGED depuis
    \/ IFinReset /\ UNCHANGED depuis

RSpec == RInit /\ [][RNext]_<<ivars, depuis>>
=============================================================================
