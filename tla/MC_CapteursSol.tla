--------------------------- MODULE MC_CapteursSol ---------------------------
(* A small instance of CapteursSol, with the bytes of the recorded          *)
(* calibrations: white is 17 .. 38 (blanc.txt), black 202 .. 212            *)
(* (couleur_noire.txt).  A shifted word differs from all of them.           *)
EXTENDS CapteursSol

MotDe(s) == [j \in 0 .. DataBits - 1 |-> s[DataBits - j]]

Noir212  == MotDe(<<1,1,0,1,0,1,0,0,0,1,0,1>>)
Blanc38  == MotDe(<<0,0,1,0,0,1,1,0,1,0,0,1>>)
Blanc19  == MotDe(<<0,0,0,1,0,0,1,1,0,1,1,0>>)

\* Channel 0 sees the line come and go, channel 1 stays on white.
MesuresPetites ==
    [c \in 0 .. 7 |-> CASE c = 0 -> {Noir212, Blanc38}
                        [] c = 1 -> {Blanc19}
                        [] OTHER -> {Blanc38}]

\* Bound: a reset cuts at most one scan before the next publication.
MCNext == Montee \/ Descente \/ (DebutReset /\ ~interrompu) \/ RelacheReset
MCSpec == Init /\ [][MCNext]_vars /\ Equite
============================================================================
