------------------------ MODULE ProgrammesCapteurs -------------------------
(***************************************************************************)
(* The two programs that read the sensors through InterfaceCapteurs, as    *)
(* far as their bus accesses go: the line follower (hello_world.c), which  *)
(* writes the level once and then reads the vector for ever, and the       *)
(* calibration (seuil.c), which selects a sensor and reads its byte, one   *)
(* sensor after the other.  One is downloaded over the other through JTAG, *)
(* which does not reset the slave; the reset button restarts the program.  *)
(***************************************************************************)
EXTENDS InterfaceCapteurs

CONSTANT Niveau     \* the level the follower writes: 110

VARIABLES
    prog,       \* "suivi" (line follower) or "seuil" (calibration)
    pc,         \* "ecrire" or "lire": its next access
    i,          \* the sensor the calibration is at
    lu          \* the last word read, masked as the program masks it

progvars == <<prog, pc, i, lu>>
pvars == <<ivars, progvars>>

Depart == pc' = "ecrire" /\ i' = 0

PInit ==
    /\ IInit
    /\ prog \in {"suivi", "seuil"}
    /\ pc = "ecrire"
    /\ i = 0
    /\ lu = datar[0]

\* IOWR(ADC_CORE_0_BASE, 0, 110), before the loop of the follower.
EcrireNiveau ==
    /\ prog = "suivi" /\ pc = "ecrire"
    /\ Cycle(Ecrire(Niveau))
    /\ pc' = "lire"
    /\ UNCHANGED <<prog, i, lu>>

\* IORD(ADC_CORE_0_BASE, 0) & 0x7F
LireVecteur ==
    /\ prog = "suivi" /\ pc = "lire"
    /\ Cycle(UNCHANGED registres)
    /\ lu' = readdata.bas
    /\ UNCHANGED <<prog, pc, i>>

\* IOWR(ADDR_CAPTEURS, 0, i)
EcrireCanal ==
    /\ prog = "seuil" /\ pc = "ecrire"
    /\ Cycle(Ecrire(i))
    /\ pc' = "lire"
    /\ UNCHANGED <<prog, i, lu>>

\* Mutant: one sensor too many.
LireOctetDeTrop ==
    /\ prog = "seuil" /\ pc = "lire"
    /\ Cycle(UNCHANGED registres)
    /\ lu' = readdata.bas
    /\ pc' = "ecrire"
    /\ i' = (i + 1) % NbCanaux
    /\ UNCHANGED prog

\* valeurs_brutes[i] = IORD(ADDR_CAPTEURS, 0) & 0xFF
LireOctet ==
    /\ prog = "seuil" /\ pc = "lire"
    /\ Cycle(UNCHANGED registres)
    /\ lu' = readdata.bas
    /\ pc' = "ecrire"
    /\ i' = (i + 1) % (NbCanaux - 1)
    /\ UNCHANGED prog

\* Computation, usleep and printf: any number of cycles without an access.
Calcul == Cycle(UNCHANGED registres) /\ UNCHANGED progvars

\* The other program is downloaded and started.
Telecharger ==
    /\ Cycle(UNCHANGED registres)
    /\ prog' = IF prog = "suivi" THEN "seuil" ELSE "suivi"
    /\ Depart
    /\ UNCHANGED lu

PReset == IReset /\ Depart /\ UNCHANGED <<prog, lu>>

Horloge == (CycleReset \/ DemiCycle \/ IFinReset) /\ UNCHANGED progvars

PNext ==
    \/ EcrireNiveau \/ LireVecteur
    \/ EcrireCanal \/ LireOctet
    \/ Calcul \/ Telecharger
    \/ PReset
    \/ Horloge

PSpec == PInit /\ [][PNext]_pvars

----------------------------------------------------------------------------
PTypeOK ==
    /\ ITypeOK
    /\ prog \in {"suivi", "seuil"}
    /\ pc \in {"ecrire", "lire"}
    /\ i \in Capteurs
    /\ lu \in Octet \cup [Capteurs -> Bit]

\* What the programs write is what the environment of the slave may write.
MotsDesProgrammes == Capteurs \cup {Niveau} \subseteq Ecritures

\* Whatever ran before, and whenever the reset came, a program that is about
\* to read finds the slave in the mode it asked for: the follower the vector
\* at its own level, the calibration the byte of its own sensor.
ModeDemande ==
    pc = "lire" =>
        IF prog = "suivi"
        THEN s_channel_select = Vecteur /\ s_niveau = Niveau
        ELSE s_channel_select = i

\* A scan publishes all bytes at once, but the calibration reads them one by
\* one, and it never sees one in the making: an octet it reads is a byte the
\* sensor may give, or the zero of the power-up.
OctetsEntiers ==
    [][LireOctet => lu' \in {Haut(m) : m \in Mesures[i]}
                            \cup {[j \in 0 .. 7 |-> 0]}]_pvars

\* The follower reads the vector at any instant of a scan, from registers that
\* are shifting, and at most one of its bits is not what a sensor measured: the
\* bit of any sensor but the one being received is the threshold, at the level
\* asked for, of a byte this sensor may give (or of the zero of the power-up).
\* After a reset that cut a scan this is so of the sensors received since.
SeuillageFidele ==
    [][LireVecteur =>
         \A k \in Capteurs :
            \/ EnTrame /\ channel > k + 1
            \/ ~interrompu /\ ~(EnTrame /\ channel = k + 1 /\ adc_n > 0)
            => \E o \in {Haut(m) : m \in Mesures[k]} \cup {[j \in 0 .. 7 |-> 0]} :
                  lu'[k] = IF Valeur(o) > Niveau THEN 1 ELSE 0]_pvars
============================================================================
