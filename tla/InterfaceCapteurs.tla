------------------------- MODULE InterfaceCapteurs -------------------------
(***************************************************************************)
(* IP_Cores/CapteurSol/interface_capteurs.vhd: the Avalon slave around     *)
(* CapteursSol.  It turns the 2 kHz output of a PLL into the trigger of    *)
(* the scans, keeps the level of the thresholds and the choice of what a   *)
(* read returns, and has no wait state: a read returns what the registers  *)
(* show in its cycle.                                                      *)
(***************************************************************************)
EXTENDS CapteursSol

CONSTANTS
    DemiPeriode,    \* clock cycles in half a period of c1: 12500 for 2 kHz
    Ecritures       \* the words the programs write to the slave

ASSUME DemiPeriodeAssumption == DemiPeriode \in Nat \ {0}
ASSUME EcrituresAssumption == Ecritures \subseteq Nat

Vecteur == NbCanaux - 1     \* s_channel_select when reads return the vector

VARIABLES
    s_niveau,
    s_channel_select,
    s_clock_2Khz_prev,
    pll                     \* cycles since the last rise of c1

registres == <<s_niveau, s_channel_select>>
ivars == <<vars, registres, s_clock_2Khz_prev, pll>>

\* Output c1 of the PLL.
s_clock_2Khz == IF pll < DemiPeriode THEN 1 ELSE 0

\* Mutant: a read returns the shift register of the sensor.
readdataVif ==
    IF s_channel_select = Vecteur
    THEN [pret |-> 0, bas |-> [i \in Capteurs |-> vect_capt(i, s_niveau)]]
    ELSE [pret |-> data_ready, bas |-> Haut(data[s_channel_select])]

\* Bit 31 of the word, and its low bits: the vector or the byte of a sensor.
readdata ==
    IF s_channel_select = Vecteur
    THEN [pret |-> 0, bas |-> [i \in Capteurs |-> vect_capt(i, s_niveau)]]
    ELSE [pret |-> data_ready, bas |-> datar[s_channel_select]]

IInit ==
    /\ Init
    /\ s_niveau = 128
    /\ s_channel_select = Vecteur
    /\ s_clock_2Khz_prev = 0
    /\ pll = DemiPeriode

\* Mutant: a write of the level leaves a sensor selected.
EcrireSansVecteur(writedata) ==
    \/ /\ writedata \in Capteurs
       /\ s_channel_select' = writedata
       /\ UNCHANGED s_niveau
    \/ /\ writedata \notin Capteurs
       /\ s_niveau' = writedata % 256
       /\ UNCHANGED s_channel_select

\* A write of a sensor number selects its byte; any other word is a level,
\* of which 8 bits are kept, and selects the vector.
Ecrire(writedata) ==
    \/ /\ writedata \in Capteurs
       /\ s_channel_select' = writedata
       /\ UNCHANGED s_niveau
    \/ /\ writedata \notin Capteurs
       /\ s_niveau' = writedata % 256
       /\ s_channel_select' = Vecteur

\* Mutant: the trigger is the level of the clock.
CaptureNiveau ==
    /\ s_clock_2Khz_prev' = s_clock_2Khz
    /\ data_capture' = s_clock_2Khz

\* Mutant: the trigger is on the falls.
CaptureDescente ==
    /\ s_clock_2Khz_prev' = s_clock_2Khz
    /\ data_capture' = IF s_clock_2Khz_prev = 1 /\ s_clock_2Khz = 0 THEN 1 ELSE 0

\* Mutant: the previous level is updated before it is compared.
CaptureApres ==
    /\ s_clock_2Khz_prev' = s_clock_2Khz
    /\ data_capture' = IF s_clock_2Khz_prev' = 0 /\ s_clock_2Khz = 1 THEN 1 ELSE 0

\* A one-cycle trigger on each rise of the 2 kHz clock.
Capture ==
    /\ s_clock_2Khz_prev' = s_clock_2Khz
    /\ data_capture' = IF s_clock_2Khz_prev = 0 /\ s_clock_2Khz = 1 THEN 1 ELSE 0

\* A rising edge of the system clock, with the bus access Bus.
Cycle(Bus) ==
    /\ reset_n = 1
    /\ FrontMontant
    /\ Capture
    /\ Bus
    /\ pll' = (pll + 1) % (2 * DemiPeriode)

\* The slave, the sensors and the PLL are all held in reset.
CycleReset ==
    /\ reset_n = 0
    /\ FrontMontant
    /\ UNCHANGED <<data_capture, registres, s_clock_2Khz_prev, pll>>

DemiCycle ==
    /\ FrontDescendant
    /\ UNCHANGED <<data_capture, registres, s_clock_2Khz_prev, pll>>

IReset ==
    /\ Reset
    /\ s_niveau' = 128
    /\ s_channel_select' = Vecteur
    /\ s_clock_2Khz_prev' = 0
    /\ data_capture' = 0
    /\ pll' = DemiPeriode

IFinReset ==
    /\ FinReset
    /\ UNCHANGED <<data_capture, registres, s_clock_2Khz_prev, pll>>

INext ==
    \/ Cycle(UNCHANGED registres)
    \/ \E v \in Ecritures : Cycle(Ecrire(v))
    \/ CycleReset
    \/ DemiCycle
    \/ IReset
    \/ IFinReset

IEquite == /\ WF_ivars(Cycle(UNCHANGED registres)) /\ WF_ivars(CycleReset)
           /\ WF_ivars(DemiCycle) /\ WF_ivars(IFinReset)

ISpec == IInit /\ [][INext]_ivars

----------------------------------------------------------------------------
ITypeOK ==
    /\ TypeOK
    /\ s_niveau \in 0 .. 255
    /\ s_channel_select \in 0 .. Vecteur
    /\ s_clock_2Khz_prev \in Bit
    /\ pll \in 0 .. 2 * DemiPeriode - 1

\* The cycles of a frame (S1, the wait, the bits, S4), those of a scan with S5,
\* and the conditions that a scan fits in a period of the 2 kHz clock, or in
\* half of one.
DureeTrame == Attente + 15
DureeScan  == (NbCanaux + 1) * DureeTrame + 1
ScanDansPeriode     == DureeScan + 2 < 2 * DemiPeriode
ScanDansDemiPeriode == DureeScan < DemiPeriode

\* The machine looks at the trigger in its idle state only, and the pulse
\* lasts one cycle: no pulse may find a scan under way, so that every period
\* of the 2 kHz clock is a scan.
CaptureJamaisPerdue ==
    data_capture = 1 /\ clk = 0 /\ reset_n = 1 => state = "S0"

\* A scan is over well before the next one: in the second half of a period
\* of the 2 kHz clock nothing moves and the vector is that of the published
\* bytes.
ReposAvantCapture ==
    pll \in DemiPeriode .. 2 * DemiPeriode - 1 =>
        /\ ~EnTrame
        /\ data_capture = 0
        /\ ~interrompu => \A i \in Capteurs : Haut(data[i]) = datar[i]

\* data_ready is no handshake: nothing holds it until it is read.  Each half
\* period without a reset has its publication, at the same cycle of the 2 kHz
\* clock whatever happened before, and bit 31 shows it for two cycles; a reset
\* that falls on them leaves it up until the first cycle after the reset.
PublicationALHeure ==
    /\ data_ready = 1 => pll \in {DureeScan + 1, DureeScan + 2, DemiPeriode}
    /\ pll \in {DureeScan + 1, DureeScan + 2} /\ pll < DemiPeriode => data_ready = 1

\* Scans never stop coming, as long as the system is not reset for ever.
ScansRecurrents == <>[](reset_n = 1) => []<>(data_ready = 1)
============================================================================
