------------------------ MODULE MC_InterfaceCapteurs ------------------------
(* The slave with sensors that give the bytes of the recorded calibrations: *)
(* white is 17 .. 38 (blanc.txt), black 202 .. 212 (couleur_noire.txt).     *)
EXTENDS InterfaceCapteurs

MotDe(s) == [j \in 0 .. DataBits - 1 |-> s[DataBits - j]]

Noir212  == MotDe(<<1,1,0,1,0,1,0,0,0,1,0,1>>)
Blanc38  == MotDe(<<0,0,1,0,0,1,1,0,1,0,0,1>>)
Blanc19  == MotDe(<<0,0,0,1,0,0,1,1,0,1,1,0>>)
Noir207  == MotDe(<<1,1,0,0,1,1,1,1,0,0,1,1>>)

MesuresFixes ==
    [c \in 0 .. 7 |-> CASE c = 0 -> {Noir212}
                        [] c = 1 -> {Blanc19}
                        [] c = 2 -> {Noir207}
                        [] OTHER -> {Blanc38}]

MesuresLigne == [MesuresFixes EXCEPT ![0] = {Noir212, Blanc38}]

\* The scaled clock leaves the room that the real one leaves, and that
\* InterfaceCapteurs_proof asks for.
ASSUME DureesAssumption == ScanDansPeriode /\ ScanDansDemiPeriode

\* Bound: a reset cuts at most one scan before the next publication.
MCNext == /\ INext
          /\ IReset => ~interrompu
MCSpec == IInit /\ [][MCNext]_ivars /\ IEquite
============================================================================
