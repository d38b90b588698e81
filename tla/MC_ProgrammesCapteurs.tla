----------------------- MODULE MC_ProgrammesCapteurs ------------------------
(* Both programs on the slave with three channels; bytes of the recorded    *)
(* calibrations (blanc.txt, couleur_noire.txt).                             *)
EXTENDS ProgrammesCapteurs

MotDe(s) == [j \in 0 .. DataBits - 1 |-> s[DataBits - j]]

MesuresFixes ==
    [c \in 0 .. 7 |->
        CASE c = 0 -> {MotDe(<<1,1,0,1,0,1,0,0,0,1,0,1>>)}      \* 212, black
          [] c = 1 -> {MotDe(<<0,0,0,1,0,0,1,1,0,1,1,0>>)}      \* 19, white
          [] OTHER -> {MotDe(<<0,0,1,0,0,1,1,0,1,0,0,1>>)}]     \* 38, white

\* The conditions of InterfaceCapteurs_proof.
ASSUME ProgrammesAssumption ==
    MotsDesProgrammes /\ Niveau \in NbCanaux - 1 .. 255 /\ ScanDansDemiPeriode

\* Bound: a reset cuts at most one scan before the next publication.
MCSpec == PInit /\ [][PNext /\ (PReset => ~interrompu)]_pvars
============================================================================
