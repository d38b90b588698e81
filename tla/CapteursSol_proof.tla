------------------------- MODULE CapteursSol_proof -------------------------
(* CapteursSol for every number of channels, every wait and every measures: *)
(* the link keeps step, the block implements Acquisition, and a conversion  *)
(* is over before its bits are read.                                        *)
EXTENDS CapteursSolTemps, TLAPS

USE DEF DataBits, ConfigBits

----------------------------------------------------------------------------
\* Words and bytes.

LEMMA HautType == ASSUME NEW m \in Mot PROVE Haut(m) \in Octet
BY DEF Haut, Mot, Octet

LEMMA DecaleType ==
    ASSUME NEW m \in Mot, NEW b \in Bit
    PROVE  /\ Decale(m, b) \in Mot
           /\ Decale(m, b)[0] = b
           /\ \A j \in 1 .. 11 : Decale(m, b)[j] = m[j - 1]
BY DEF Decale, Mot

LEMMA MotEgal ==
    ASSUME NEW m \in Mot, NEW n \in Mot, \A j \in 0 .. 11 : m[j] = n[j]
    PROVE  m = n
BY DEF Mot

LEMMA MesuresType == \A c \in 0 .. 7 : Mesures[c] \subseteq Mot
BY MesuresAssumption

\* The words of the table are bits, and the converter reads in each of them
\* the channel the machine means.
LEMMA ConfigType ==
    ASSUME NEW c \in 0 .. NbCanaux
    PROVE  \A j \in 1 .. 6 : ChannelConfig(c)[j] \in Bit
BY NbCanauxAssumption DEF ChannelConfig, Bit

LEMMA ConfigCanal ==
    ASSUME NEW c \in 0 .. NbCanaux, c # NbCanaux
    PROVE  4 * ChannelConfig(c)[3] + 2 * ChannelConfig(c)[4] + ChannelConfig(c)[2] = c
BY NbCanauxAssumption DEF ChannelConfig

----------------------------------------------------------------------------
\* The inductive invariant: the link in step, and the machine idle for as long
\* as the reset is held.
IInv  == TypeOK /\ Alignement
Repos == reset_n = 0 => state = "S0"

LEMMA ZeroType ==
    /\ [j \in 0 .. DataBits - 1 |-> 0] \in Mot
    /\ [j \in 0 .. 7 |-> 0] \in Octet
    /\ [j \in 0 .. ConfigBits - 1 |-> 0] \in Config
BY DEF Mot, Octet, Config, Bit

LEMMA InitIInv == ASSUME Init PROVE IInv
<1>1. TypeOK
  <2>1. datar \in [Capteurs -> Octet] /\ data \in [Canaux -> Mot]
      BY ZeroType DEF Init
  <2>2. adc_sdi \in Config /\ adc_mot \in Mot
      BY ZeroType DEF Init
  <2>3. channel \in 0 .. NbCanaux + 1
      BY NbCanauxAssumption DEF Init
  <2>4. interrompu \in BOOLEAN
      BY DEF Init
  <2> QED
      BY <2>1, <2>2, <2>3, <2>4 DEF Init, TypeOK, Bit
<1>2. Alignement
    BY DEF Init, Alignement, CanalBorne, MesureEnVol, Rythme, ConfigRecue,
           MesureRecue, EnTrame
<1> QED
    BY <1>1, <1>2 DEF IInv

\* A conversion gives a word of one of the 8 channels of the converter.
LEMMA ConversionType ==
    ASSUME TypeOK, Conversion, adc_n >= ConfigBits => Selection(adc_sdi) \in 0 .. 7
    PROVE  adc_mot' \in Mot /\ adc_n' = 0 /\ adc_sdi' = adc_sdi
<1>1. \E c \in 0 .. 7 : adc_mot' \in Mesures[c]
    BY DEF Conversion
<1> QED
    BY <1>1, MesuresType DEF Conversion

\* Any complete word selects one of them.
LEMMA SelectionType ==
    ASSUME NEW b \in Config PROVE Selection(b) \in 0 .. 7
<1>1. b[1] \in {0, 1} /\ b[2] \in {0, 1} /\ b[3] \in {0, 1}
    BY DEF Config, Bit
<1> QED
    BY <1>1 DEF Selection


\* What all the steps of the machine on a rising edge have in common.
Haute ==
    /\ clk = 0 /\ clk' = 1
    /\ reset_n = 1 /\ reset_n' = 1
    /\ data' = data
    /\ data_capture' \in Bit

LEMMA S0Inv == ASSUME IInv, Haute, S0 PROVE IInv'
<1>1. CASE data_capture = 1
  <2>1. adc_mot' \in Mot /\ adc_n' = 0 /\ adc_sdi' = adc_sdi
      BY <1>1, ConversionType, SelectionType DEF IInv, TypeOK, S0
  <2>2. TypeOK'
      BY <1>1, <2>1, NbCanauxAssumption DEF IInv, TypeOK, S0, Haute, Bit
  <2>3. Alignement'
      BY <1>1, <2>1, NbCanauxAssumption
      DEF IInv, Alignement, S0, Haute, CanalBorne, MesureEnVol, Rythme,
          ConfigRecue, MesureRecue, EnTrame
  <2> QED
      BY <2>2, <2>3 DEF IInv
<1>2. CASE data_capture = 0
  <2>1. TypeOK'
      BY <1>2, NbCanauxAssumption DEF IInv, TypeOK, S0, Haute, Bit, adc
  <2>2. Alignement'
      BY <1>2
      DEF IInv, Alignement, S0, Haute, CanalBorne, MesureEnVol, Rythme,
          ConfigRecue, MesureRecue, EnTrame
  <2> QED
      BY <2>1, <2>2 DEF IInv
<1> QED
    BY <1>1, <1>2 DEF S0

LEMMA S1Inv == ASSUME IInv, Haute, S1 PROVE IInv'
<1>1. TypeOK'
    BY DEF IInv, TypeOK, S1, Haute, Bit, adc
<1>2. Alignement'
    BY DEF IInv, Alignement, S1, Haute, CanalBorne, MesureEnVol, Rythme,
           ConfigRecue, MesureRecue, EnTrame, adc
<1> QED
    BY <1>1, <1>2 DEF IInv

LEMMA S2Inv == ASSUME IInv, Haute, S2 PROVE IInv'
<1>1. TypeOK'
    BY DEF IInv, TypeOK, S2, Haute, Bit, adc
<1>2. Alignement'
    BY DEF IInv, Alignement, S2, Haute, CanalBorne, MesureEnVol, Rythme,
           ConfigRecue, MesureRecue, EnTrame, adc, TypeOK, Bit
<1> QED
    BY <1>1, <1>2 DEF IInv

LEMMA S3Inv == ASSUME IInv, Haute, S3 PROVE IInv'
<1>1. /\ state = "S3" /\ state' \in {"S3", "S4"}
      /\ state' = IF data_bit_index >= 11 THEN "S4" ELSE "S3"
      /\ channel' = channel /\ channel \in 0 .. NbCanaux
      /\ adc_n' = adc_n /\ adc_sdi' = adc_sdi /\ adc_mot' = adc_mot
      /\ data' = data /\ spi_clk_enable' = 1
    BY DEF S3, IInv, Alignement, CanalBorne, EnTrame, adc, Haute
<1>2. /\ data_bit_index \in 0 .. 11 /\ data_bit_index' = data_bit_index + 1
      /\ adc_n = data_bit_index
    BY DEF S3, IInv, Alignement, Rythme, TypeOK, Haute
<1>3. ADC_SDI' \in Bit
    BY <1>1, <1>2, ConfigType DEF S3, Bit
<1>4. TypeOK'
    BY <1>1, <1>2, <1>3 DEF IInv, TypeOK, S3, Haute, Bit
<1>5. CanalBorne' /\ MesureEnVol' /\ MesureRecue'
    BY <1>1 DEF IInv, Alignement, CanalBorne, MesureEnVol, MesureRecue, EnTrame
<1>6. Rythme'
    BY <1>1, <1>2 DEF Rythme, Haute
<1>7. ConfigRecue'
  <2>1. adc_n' < ConfigBits => ADC_SDI' = ChannelConfig(channel')[adc_n' + 1]
      BY <1>1, <1>2 DEF S3
  <2> QED
      BY <1>1, <2>1 DEF IInv, Alignement, ConfigRecue, EnTrame
<1> QED
    BY <1>4, <1>5, <1>6, <1>7 DEF IInv, Alignement

\* At the end of a frame the register holds the measure, and the converter
\* holds the number of the frame, complete.
LEMMA FinDeTrame ==
    ASSUME IInv, clk = 0, state = "S4"
    PROVE  /\ channel \in 0 .. NbCanaux
           /\ adc_n = DataBits
           /\ channel # NbCanaux => Selection(adc_sdi) = channel
           /\ channel > 0 => data[channel - 1] = adc_mot
<1>1. channel \in 0 .. NbCanaux /\ adc_n = DataBits
    BY DEF IInv, Alignement, CanalBorne, Rythme, EnTrame
<1>2. ASSUME channel # NbCanaux PROVE Selection(adc_sdi) = channel
  <2>1. \A j \in 0 .. 5 : adc_sdi[j] = ChannelConfig(channel)[j + 1]
      BY <1>1 DEF IInv, Alignement, ConfigRecue, EnTrame
  <2>2. /\ adc_sdi[1] = ChannelConfig(channel)[2]
        /\ adc_sdi[2] = ChannelConfig(channel)[3]
        /\ adc_sdi[3] = ChannelConfig(channel)[4]
      BY <2>1
  <2> QED
      BY <1>1, <1>2, <2>2, ConfigCanal DEF Selection
<1>3. ASSUME channel > 0 PROVE data[channel - 1] = adc_mot
  <2>1. \A j \in 0 .. 11 : data[channel - 1][j] = adc_mot[j]
      BY <1>1, <1>3 DEF IInv, Alignement, MesureRecue, EnTrame
  <2>2. data[channel - 1] \in Mot /\ adc_mot \in Mot
      BY <1>1, <1>3, NbCanauxAssumption DEF IInv, TypeOK, Canaux
  <2> QED
      BY <2>1, <2>2, MotEgal
<1> QED
    BY <1>1, <1>2, <1>3

LEMMA S4Inv == ASSUME IInv, Haute, S4 PROVE IInv'
<1>1. /\ channel \in 0 .. NbCanaux /\ adc_n = DataBits
      /\ channel # NbCanaux => Selection(adc_sdi) = channel
    BY FinDeTrame DEF S4, Haute
<1>2. channel' = channel + 1 /\ channel' \in 1 .. NbCanaux + 1
    BY <1>1, NbCanauxAssumption DEF S4
<1>3. CASE channel = NbCanaux
  <2>1. datar' \in [Capteurs -> Octet]
    <3>1. \A k \in Capteurs : data[k] \in Mot
        BY NbCanauxAssumption DEF IInv, TypeOK, Capteurs, Canaux
    <3>2. \A k \in Capteurs : Haut(data[k]) \in Octet
        BY <3>1, HautType
    <3>3. datar' = [k \in Capteurs |-> Haut(data[k])]
        BY <1>3 DEF S4
    <3> QED
        BY <3>2, <3>3
  <2>2. interrompu' \in BOOLEAN
      BY <1>3 DEF S4
  <2>3. TypeOK'
      BY <1>2, <1>3, <2>1, <2>2 DEF IInv, TypeOK, S4, Haute, Bit, adc
  <2>4. Alignement'
      BY <1>2, <1>3 DEF Alignement, S4, CanalBorne, MesureEnVol, Rythme,
                        ConfigRecue, MesureRecue, EnTrame
  <2> QED
      BY <2>3, <2>4 DEF IInv
<1>4. CASE channel # NbCanaux
  <2>1. adc_mot' \in Mesures[channel] /\ adc_n' = 0 /\ adc_sdi' = adc_sdi
      BY <1>1, <1>4 DEF S4, Conversion
  <2>2. adc_mot' \in Mot
      BY <1>1, <1>4, <2>1, MesuresType, NbCanauxAssumption
  <2>3. TypeOK'
      BY <1>2, <1>4, <2>1, <2>2 DEF IInv, TypeOK, S4, Haute, Bit
  <2>4. state' = "S1" /\ spi_clk_enable' = 0 /\ channel' - 1 = channel
      BY <1>1, <1>2, <1>4 DEF S4
  <2>5. CanalBorne' /\ MesureEnVol'
      BY <1>1, <1>2, <1>4, <2>1, <2>4, NbCanauxAssumption
      DEF CanalBorne, MesureEnVol
  <2>6. Rythme'
      BY <2>1, <2>4 DEF Rythme
  <2>7. ConfigRecue' /\ MesureRecue'
      BY <2>1, <2>4 DEF ConfigRecue, MesureRecue
  <2> QED
      BY <2>3, <2>5, <2>6, <2>7 DEF IInv, Alignement
<1> QED
    BY <1>3, <1>4

LEMMA S5Inv == ASSUME IInv, Haute, S5 PROVE IInv'
<1>1. TypeOK'
    BY DEF IInv, TypeOK, S5, Haute, Bit, adc
<1>2. Alignement'
    BY DEF IInv, Alignement, S5, Haute, CanalBorne, MesureEnVol, Rythme,
           ConfigRecue, MesureRecue, EnTrame, adc
<1> QED
    BY <1>1, <1>2 DEF IInv

\* A falling edge that shifts a bit: S3 after its first step, or S4.
LEMMA BitRecu ==
    ASSUME IInv, FrontDescendant, spi_clk_enable = 1, UNCHANGED data_capture
    PROVE  IInv'
<1>1. /\ state' = state /\ state \in {"S3", "S4"}
      /\ channel' = channel /\ channel \in 0 .. NbCanaux
      /\ data_bit_index' = data_bit_index
      /\ spi_clk_enable' = 1 /\ ADC_SDI' = ADC_SDI
      /\ adc_mot' = adc_mot /\ clk = 1 /\ clk' = 0
    BY DEF FrontDescendant, fsm, IInv, Alignement, Rythme, CanalBorne, EnTrame, TypeOK
<1>2. adc_n \in 0 .. 11 /\ adc_n' = adc_n + 1 /\ adc_n = data_bit_index - 1
    BY <1>1 DEF FrontDescendant, IInv, TypeOK, Alignement, Rythme
<1>3. /\ adc_sdi' = IF adc_n < ConfigBits
                    THEN [adc_sdi EXCEPT ![adc_n] = ADC_SDI] ELSE adc_sdi
      /\ adc_sdi \in Config /\ ADC_SDI \in Bit
      /\ adc_mot \in Mot /\ data \in [Canaux -> Mot]
    BY DEF FrontDescendant, IInv, TypeOK
<1>4. /\ adc_sdi' \in Config
      /\ \A j \in 0 .. 5 : adc_sdi'[j] = IF j = adc_n THEN ADC_SDI ELSE adc_sdi[j]
    BY <1>2, <1>3 DEF Config
<1>5. ADC_SDO \in Bit /\ ADC_SDO = adc_mot[11 - adc_n]
    BY <1>2, <1>3 DEF ADC_SDO, Mot
<1>6. ASSUME channel > 0
      PROVE  /\ channel - 1 \in Canaux
             /\ data' = [data EXCEPT ![channel - 1] = Decale(data[channel - 1], ADC_SDO)]
             /\ data[channel - 1] \in Mot
    BY <1>1, <1>3, <1>6, NbCanauxAssumption DEF FrontDescendant, Canaux
<1>7. data' \in [Canaux -> Mot]
  <2>1. CASE channel > 0
      BY <1>3, <1>5, <1>6, <2>1, DecaleType
  <2>2. CASE channel = 0
      BY <1>3, <2>2 DEF FrontDescendant
  <2> QED
      BY <1>1, <2>1, <2>2, NbCanauxAssumption
<1>8. TypeOK'
  <2>1. UNCHANGED <<reset_n, fsm, interrompu, adc_mot>>
      BY DEF FrontDescendant, adc
  <2>2. clk' \in Bit /\ adc_n' \in 0 .. DataBits
      BY <1>1, <1>2 DEF Bit
  <2> QED
      BY <1>4, <1>7, <2>1, <2>2 DEF IInv, TypeOK, fsm
<1>9. CanalBorne' /\ MesureEnVol'
    BY <1>1 DEF IInv, Alignement, CanalBorne, MesureEnVol, EnTrame
<1>10. Rythme'
    BY <1>1, <1>2 DEF IInv, Alignement, Rythme, TypeOK
<1>11. ConfigRecue'
  <2>1. EnTrame /\ EnTrame'
      BY <1>1 DEF EnTrame
  <2>2. adc_n < ConfigBits => ADC_SDI = ChannelConfig(channel)[adc_n + 1]
      BY <1>1, <2>1 DEF IInv, Alignement, ConfigRecue
  <2>3. \A j \in 0 .. 5 : j < adc_n => adc_sdi[j] = ChannelConfig(channel)[j + 1]
      BY <2>1 DEF IInv, Alignement, ConfigRecue
  <2>4. \A j \in 0 .. 5 : j < adc_n' => adc_sdi'[j] = ChannelConfig(channel')[j + 1]
      BY <1>1, <1>2, <1>4, <2>2, <2>3
  <2> QED
      BY <1>1, <2>4 DEF ConfigRecue
<1>12. MesureRecue'
  <2> SUFFICES ASSUME channel > 0, NEW j \in 0 .. 11, j < adc_n'
               PROVE  data'[channel - 1][j] = adc_mot[12 - adc_n' + j]
      BY <1>1 DEF MesureRecue
  <2>1. data'[channel - 1] = Decale(data[channel - 1], ADC_SDO)
      BY <1>3, <1>6
  <2>2. \A i \in 0 .. 11 : i < adc_n => data[channel - 1][i] = adc_mot[12 - adc_n + i]
      BY <1>1 DEF IInv, Alignement, MesureRecue, EnTrame
  <2>3. CASE j = 0
      BY <1>2, <1>5, <1>6, <2>1, <2>3, DecaleType
  <2>4. CASE j > 0
    <3>1. data'[channel - 1][j] = data[channel - 1][j - 1]
        BY <1>5, <1>6, <2>1, <2>4, DecaleType
    <3>2. data[channel - 1][j - 1] = adc_mot[12 - adc_n + (j - 1)]
        BY <1>2, <2>2, <2>4
    <3> QED
        BY <1>2, <3>1, <3>2
  <2> QED
      BY <2>3, <2>4
<1> QED
    BY <1>8, <1>9, <1>10, <1>11, <1>12 DEF IInv, Alignement

LEMMA DescenteInv == ASSUME IInv, Descente PROVE IInv'
<1>1. CASE spi_clk_enable = 1
  <2>1. FrontDescendant
      BY DEF Descente
  <2> QED
      BY <1>1, <2>1, BitRecu DEF Descente
<1>2. CASE spi_clk_enable = 0
  <2>1. /\ clk = 1 /\ clk' = 0 /\ UNCHANGED <<reset_n, fsm, data, adc, interrompu>>
        /\ UNCHANGED data_capture
      BY <1>2 DEF Descente, FrontDescendant
  <2>2. TypeOK'
      BY <2>1 DEF IInv, TypeOK, fsm, adc, Bit
  <2>3. CanalBorne' /\ MesureEnVol' /\ MesureRecue' /\ ConfigRecue'
      BY <1>2, <2>1 DEF IInv, Alignement, CanalBorne, MesureEnVol, MesureRecue,
                        ConfigRecue, EnTrame, fsm, adc
  <2>4. Rythme'
      BY <1>2, <2>1 DEF IInv, Alignement, Rythme, fsm, adc, TypeOK
  <2> QED
      BY <2>2, <2>3, <2>4 DEF IInv, Alignement
<1> QED
    BY <1>1, <1>2 DEF Descente, FrontDescendant

\* A rising edge, the machine running or held in reset.
LEMMA MonteeInv == ASSUME IInv, Repos, Montee PROVE IInv'
<1>1. CASE reset_n = 1
  <2>1. Haute /\ (S0 \/ S1 \/ S2 \/ S3 \/ S4 \/ S5)
      BY <1>1 DEF Montee, FrontMontant, Haute
  <2> QED
      BY <2>1, S0Inv, S1Inv, S2Inv, S3Inv, S4Inv, S5Inv
<1>2. CASE reset_n = 0
  <2>1. /\ clk' = 1 /\ UNCHANGED <<reset_n, fsm, data, adc, interrompu>>
        /\ data_capture' \in Bit
      BY <1>2 DEF Montee, FrontMontant
  <2>2. TypeOK'
      BY <2>1 DEF IInv, TypeOK, fsm, adc, Bit
  <2>3. state = "S0" /\ spi_clk_enable = 0
      BY <1>2 DEF Repos, IInv, Alignement, Rythme
  <2>4. Alignement'
      BY <2>1, <2>3 DEF Alignement, CanalBorne, MesureEnVol, Rythme, ConfigRecue,
                        MesureRecue, EnTrame, fsm
  <2> QED
      BY <2>2, <2>4 DEF IInv
<1> QED
    BY <1>1, <1>2 DEF Montee, FrontMontant

LEMMA ResetInv == ASSUME IInv, DebutReset PROVE IInv'
<1>1. /\ state' = "S0" /\ reset_n' = 0 /\ data_bit_index' = 0
      /\ wait_tick_cnt' = 0 /\ ADC_SDI' = 0 /\ ADC_CONVST' = 0
      /\ spi_clk_enable' = 0
      /\ data_capture' \in {0, data_capture}
      /\ UNCHANGED <<clk, channel, data_ready, datar, data, adc>>
    BY DEF DebutReset, Reset
<1>2. interrompu' \in BOOLEAN
    BY DEF DebutReset, Reset, IInv, TypeOK
<1>3. TypeOK'
    BY <1>1, <1>2 DEF IInv, TypeOK, adc, Bit
<1>4. Alignement'
    BY <1>1 DEF Alignement, CanalBorne, MesureEnVol, Rythme, ConfigRecue,
                MesureRecue, EnTrame
<1> QED
    BY <1>3, <1>4 DEF IInv

LEMMA RelacheInv == ASSUME IInv, RelacheReset PROVE IInv'
<1>1. /\ reset_n' = 1
      /\ UNCHANGED <<clk, fsm, data, adc, interrompu, data_capture>>
    BY DEF RelacheReset, FinReset
<1>2. TypeOK'
    BY <1>1 DEF IInv, TypeOK, fsm, adc, Bit
<1>3. Alignement'
    BY <1>1 DEF IInv, Alignement, CanalBorne, MesureEnVol, Rythme, ConfigRecue,
                MesureRecue, EnTrame, fsm, adc
<1> QED
    BY <1>2, <1>3 DEF IInv

LEMMA BegayeInv == ASSUME IInv, UNCHANGED vars PROVE IInv'
<1>1. TypeOK'
    BY DEF IInv, TypeOK, vars, fsm, adc
<1>2. Alignement'
    BY DEF IInv, Alignement, CanalBorne, MesureEnVol, Rythme, ConfigRecue,
           MesureRecue, EnTrame, vars, fsm, adc
<1> QED
    BY <1>1, <1>2 DEF IInv

LEMMA ReposInv == ASSUME Repos, [Next]_vars PROVE Repos'
<1>1. CASE Montee
    BY <1>1 DEF Repos, Montee, FrontMontant, fsm
<1>2. CASE Descente
    BY <1>2 DEF Repos, Descente, FrontDescendant, fsm
<1>3. CASE DebutReset
    BY <1>3 DEF Repos, DebutReset, Reset
<1>4. CASE RelacheReset
    BY <1>4 DEF Repos, RelacheReset, FinReset
<1>5. CASE UNCHANGED vars
    BY <1>5 DEF Repos, vars, fsm
<1> QED
    BY <1>1, <1>2, <1>3, <1>4, <1>5 DEF Next

\* In every behaviour of the block, for every number of channels, every wait
\* and every measures, the inductive invariant holds.
THEOREM Invariance == Spec => [](IInv /\ Repos)
<1>1. Init => IInv /\ Repos
    BY InitIInv DEF Init, Repos
<1>2. IInv /\ Repos /\ [Next]_vars => (IInv /\ Repos)'
    BY MonteeInv, DescenteInv, ResetInv, RelacheInv, BegayeInv, ReposInv DEF Next
<1> QED
    BY <1>1, <1>2, PTL DEF Spec

\* The counters and the shift registers of the machine keep their types: no
\* frame leaves more than 12 bits or a channel beyond NbCanaux + 1.
THEOREM TypeCorrect == Spec => []TypeOK
<1>1. IInv => TypeOK
    BY DEF IInv
<1> QED
    BY <1>1, Invariance, PTL

\* The configuration words, the conversions and the registers are never off by
\* a channel or by a bit, resets included.
THEOREM LinkInStep == Spec => []Alignement
<1>1. IInv => Alignement
    BY DEF IInv
<1> QED
    BY <1>1, Invariance, PTL

----------------------------------------------------------------------------
\* The vector: the register of a sensor changes in its own frame only, and the
\* publication copies all the registers.

\* VecteurPublie asks something of sensor i.
Montre(i) ==
    /\ ~interrompu
    /\ ~EnTrame \/ channel <= i \/ (channel = i + 1 /\ adc_n = 0)

LEMMA MonteeVecteur ==
    ASSUME IInv, Repos, Montee, NEW i \in Capteurs,
           Montre(i) => Haut(data[i]) = datar[i]
    PROVE  Montre(i)' => Haut(data[i])' = datar'[i]
<1>1. CASE reset_n = 0
    BY <1>1 DEF Montee, FrontMontant, Montre, EnTrame, Haut, fsm, adc
<1>2. CASE reset_n = 1
  <2>1. Haute /\ (S0 \/ S1 \/ S2 \/ S3 \/ S4 \/ S5)
      BY <1>2 DEF Montee, FrontMontant, Haute
  <2>2. CASE S0
      BY <2>1, <2>2 DEF S0, Haute, Montre, EnTrame, Haut
  <2>3. CASE S1 \/ S2 \/ S3 \/ S5
      BY <2>1, <2>3 DEF S1, S2, S3, S5, Haute, Montre, EnTrame, Haut, adc
  <2>4. CASE S4
    <3>1. channel \in 0 .. NbCanaux /\ EnTrame /\ i \in Int
        BY <2>4, NbCanauxAssumption
        DEF S4, IInv, Alignement, CanalBorne, EnTrame, Capteurs
    <3>2. channel' = channel + 1
        BY <2>4, <3>1, NbCanauxAssumption DEF S4
    <3>3. CASE channel = NbCanaux
        BY <2>1, <2>4, <3>3 DEF S4, Haute, Haut
    <3>4. CASE channel # NbCanaux
      <4>1. Montre(i)' => Montre(i)
          BY <2>4, <3>1, <3>2, <3>4 DEF S4, Montre, EnTrame
      <4>2. data' = data /\ datar' = datar
          BY <2>1, <2>4, <3>4 DEF S4, Haute
      <4> QED
          BY <4>1, <4>2 DEF Haut
    <3> QED
        BY <3>3, <3>4
  <2> QED
      BY <2>1, <2>2, <2>3, <2>4
<1> QED
    BY <1>1, <1>2 DEF Montee, FrontMontant

LEMMA DescenteVecteur ==
    ASSUME IInv, Descente, NEW i \in Capteurs,
           Montre(i) => Haut(data[i]) = datar[i]
    PROVE  Montre(i)' => Haut(data[i])' = datar'[i]
<1>1. /\ UNCHANGED <<interrompu, channel, datar, state>>
      /\ EnTrame' <=> EnTrame
    BY DEF Descente, FrontDescendant, fsm, EnTrame
<1>2. CASE spi_clk_enable = 0
    BY <1>1, <1>2 DEF Descente, FrontDescendant, Montre, Haut, adc
<1>3. CASE spi_clk_enable = 1
  <2>1. EnTrame /\ channel \in 0 .. NbCanaux /\ adc_n \in 0 .. DataBits
      BY <1>3 DEF IInv, TypeOK, Alignement, Rythme, CanalBorne, EnTrame
  <2>2. adc_n' # 0 /\ data \in [Canaux -> Mot] /\ i \in Int /\ NbCanaux \in Int
      BY <1>3, <2>1, NbCanauxAssumption
      DEF Descente, FrontDescendant, IInv, TypeOK, DataBits, Capteurs
  <2>3. Montre(i)' => channel <= i /\ Montre(i)
      BY <1>1, <2>1, <2>2 DEF Montre
  <2>4. channel <= i => data'[i] = data[i]
    <3>1. data' = IF channel \in 1 .. NbCanaux
                  THEN [data EXCEPT ![channel - 1] = Decale(@, ADC_SDO)]
                  ELSE data
        BY <1>3 DEF Descente, FrontDescendant
    <3>2. i \in Canaux
        BY NbCanauxAssumption DEF Capteurs, Canaux
    <3>3. channel <= i => channel - 1 # i
        BY <2>1, <2>2
    <3> QED
        BY <2>2, <3>1, <3>2, <3>3
  <2> QED
      BY <1>1, <2>3, <2>4 DEF Haut
<1> QED
    BY <1>2, <1>3 DEF Descente, FrontDescendant

LEMMA ResetVecteur ==
    ASSUME DebutReset \/ RelacheReset \/ UNCHANGED vars, NEW i \in Capteurs,
           Montre(i) => Haut(data[i]) = datar[i]
    PROVE  Montre(i)' => Haut(data[i])' = datar'[i]
<1>1. CASE DebutReset
    BY <1>1 DEF DebutReset, Reset, Montre, EnTrame, Haut, adc
<1>2. CASE RelacheReset \/ UNCHANGED vars
    BY <1>2 DEF RelacheReset, FinReset, vars, fsm, adc, Montre, EnTrame, Haut
<1> QED
    BY <1>1, <1>2

\* Whatever is read in the middle of a scan, only the sensors measured so far
\* in it may show anything else than their published bytes.
THEOREM PublishedVector == Spec => []VecteurPublie
<1> DEFINE V == \A i \in Capteurs : Montre(i) => Haut(data[i]) = datar[i]
<1>1. Init => V
  <2> SUFFICES ASSUME Init, NEW i \in Capteurs PROVE Haut(data[i]) = datar[i]
      BY DEF Init
  <2>1. i \in Canaux
      BY NbCanauxAssumption DEF Capteurs, Canaux
  <2> QED
      BY <2>1 DEF Init, Haut, DataBits
<1>2. IInv /\ Repos /\ V /\ [Next]_vars => V'
  <2> SUFFICES ASSUME IInv, Repos, V, [Next]_vars, NEW i \in Capteurs
               PROVE  Montre(i)' => Haut(data[i])' = datar'[i]
      BY DEF Haut
  <2>1. Montre(i) => Haut(data[i]) = datar[i]
      OBVIOUS
  <2> QED
      BY <2>1, MonteeVecteur, DescenteVecteur, ResetVecteur DEF Next
<1>3. V => VecteurPublie
    BY DEF VecteurPublie, Montre
<1> QED
    BY <1>1, <1>2, <1>3, Invariance, PTL DEF Spec

----------------------------------------------------------------------------
\* Refinement: the measures of the scan under way, step by step.

LEMMA LusVide == ASSUME ~EnTrame PROVE Lus = Acq!Vide
BY DEF Lus, Acq!Vide

LEMMA LusVideApres == ASSUME ~EnTrame' \/ channel' = 0 PROVE Lus' = Acq!Vide
<1>1. {k \in Capteurs : EnTrame' /\ k < channel'} = {}
    BY NbCanauxAssumption DEF Capteurs
<1> QED
    BY <1>1 DEF Lus, Acq!Vide

LEMMA LusInchange ==
    ASSUME EnTrame' <=> EnTrame, channel' = channel, adc_mot' = adc_mot,
           \A k \in Capteurs : k # channel - 1 => data'[k] = data[k]
    PROVE  Lus' = Lus
<1> DEFINE D == {k \in Capteurs : EnTrame /\ k < channel}
<1>1. {k \in Capteurs : EnTrame' /\ k < channel'} = D
    OBVIOUS
<1>2. \A k \in D : Haut(IF k = channel' - 1 THEN adc_mot' ELSE data'[k])
                    = Haut(IF k = channel - 1 THEN adc_mot ELSE data[k])
    OBVIOUS
<1> QED
    BY <1>1, <1>2 DEF Lus

\* A step that leaves the outputs and the measures of the scan is a stutter.
LEMMA Begaiement ==
    ASSUME EnTrame' <=> EnTrame, Lus' = Lus, UNCHANGED <<datar, data_ready>>
    PROVE  UNCHANGED Acq!vars
BY DEF Acq!vars

LEMMA InitRaffine == ASSUME Init PROVE Acq!Init
<1>1. ~EnTrame /\ data_ready = 0 /\ datar \in [Capteurs -> Octet]
    BY ZeroType DEF Init, EnTrame
<1> QED
    BY <1>1, LusVide DEF Acq!Init

LEMMA S0Raffine == ASSUME IInv, Haute, S0 PROVE [Acq!Next]_(Acq!vars)
<1>1. ~EnTrame /\ channel' = 0 /\ data_ready' = 0 /\ datar' = datar
    BY DEF S0, EnTrame
<1>2. Lus = Acq!Vide /\ Lus' = Acq!Vide
    BY <1>1, LusVide, LusVideApres
<1>3. CASE data_capture = 1
  <2>1. EnTrame'
      BY <1>3 DEF S0, EnTrame
  <2>2. Acq!Declencher
      BY <1>1, <1>2, <2>1 DEF Acq!Declencher
  <2> QED
      BY <2>2 DEF Acq!Next
<1>4. CASE data_capture = 0
  <2>1. ~EnTrame'
      BY <1>4 DEF S0, EnTrame
  <2>2. Acq!Acquitter
      BY <1>1, <1>2, <2>1 DEF Acq!Acquitter
  <2> QED
      BY <2>2 DEF Acq!Next
<1> QED
    BY <1>3, <1>4 DEF S0

LEMMA S1235Raffine ==
    ASSUME Haute, S1 \/ S2 \/ S3 \/ S5 PROVE UNCHANGED Acq!vars
<1>1. /\ EnTrame' <=> EnTrame
      /\ UNCHANGED <<channel, adc_mot, datar, data_ready>>
    BY DEF S1, S2, S3, S5, EnTrame, adc
<1>2. Lus' = Lus
    BY <1>1, LusInchange DEF Haute
<1> QED
    BY <1>1, <1>2, Begaiement

\* The end of a frame: a measure more, or the publication.
LEMMA S4Raffine == ASSUME IInv, Haute, S4 PROVE [Acq!Next]_(Acq!vars)
<1>1. /\ channel \in 0 .. NbCanaux /\ adc_n = DataBits
      /\ channel # NbCanaux => Selection(adc_sdi) = channel
      /\ channel > 0 => data[channel - 1] = adc_mot
    BY FinDeTrame DEF S4, Haute
<1>2. channel' = channel + 1 /\ EnTrame /\ data' = data
    BY <1>1, NbCanauxAssumption DEF S4, EnTrame, Haute
<1>3. \A k \in Capteurs : (IF k = channel - 1 THEN adc_mot ELSE data[k]) = data[k]
    BY <1>1, NbCanauxAssumption DEF Capteurs
<1>4. Lus = [k \in {k \in Capteurs : k < channel} |-> Haut(data[k])]
    BY <1>2, <1>3 DEF Lus
<1>5. CASE channel = NbCanaux
  <2>1. /\ ~EnTrame' /\ data_ready' = 1
        /\ datar' = [k \in Capteurs |-> Haut(data[k])]
      BY <1>5 DEF S4, EnTrame
  <2>2. {k \in Capteurs : k < channel} = Capteurs
      BY <1>5, NbCanauxAssumption DEF Capteurs
  <2>3. Lus = datar' /\ DOMAIN Lus = Capteurs
      BY <1>4, <2>1, <2>2
  <2>4. Acq!Publier
      BY <1>2, <2>1, <2>3, LusVideApres DEF Acq!Publier
  <2> QED
      BY <2>4 DEF Acq!Next
<1>6. CASE channel # NbCanaux
  <2>1. /\ EnTrame' /\ UNCHANGED <<datar, data_ready>>
        /\ adc_mot' \in Mesures[channel]
      BY <1>1, <1>6 DEF S4, Conversion, EnTrame
  <2>2. Lus' = [k \in {k \in Capteurs : k < channel + 1} |->
                   Haut(IF k = channel THEN adc_mot' ELSE data[k])]
    <3>1. channel' - 1 = channel
        BY <1>1, <1>2, NbCanauxAssumption
    <3> QED
        BY <1>2, <2>1, <3>1 DEF Lus
  <2>3. CASE channel \in Capteurs
    <3>1. {k \in Capteurs : k < channel + 1} = {k \in Capteurs : k < channel} \cup {channel}
        BY <2>3, NbCanauxAssumption DEF Capteurs
    <3>2. channel \notin {k \in Capteurs : k < channel}
        BY <1>1, NbCanauxAssumption
    <3>3. DOMAIN Lus = {k \in Capteurs : k < channel}
        BY <1>4
    <3>4. \A k \in DOMAIN Lus : Lus[k] = Haut(data[k])
        BY <1>4, <3>3
    <3>5. Lus' = [j \in DOMAIN Lus \cup {channel} |->
                     IF j = channel THEN Haut(adc_mot') ELSE Lus[j]]
        BY <2>2, <3>1, <3>3, <3>4
    <3>6. Haut(adc_mot') \in {Haut(m) : m \in Mesures[channel]}
        BY <2>1
    <3>7. Acq!Mesurer(channel)
        BY <1>2, <2>1, <2>3, <3>2, <3>3, <3>5, <3>6 DEF Acq!Mesurer
    <3> QED
        BY <2>3, <3>7 DEF Acq!Next
  <2>4. CASE channel \notin Capteurs
    <3>1. /\ {k \in Capteurs : k < channel + 1} = {k \in Capteurs : k < channel}
          /\ \A k \in Capteurs : k # channel
        BY <1>1, <2>4, NbCanauxAssumption DEF Capteurs
    <3>2. Lus' = Lus
        BY <1>4, <2>2, <3>1
    <3> QED
        BY <1>2, <2>1, <3>2, Begaiement
  <2> QED
      BY <2>3, <2>4
<1> QED
    BY <1>5, <1>6

LEMMA MonteeRaffine == ASSUME IInv, Repos, Montee PROVE [Acq!Next]_(Acq!vars)
<1>1. CASE reset_n = 1
  <2>1. Haute /\ (S0 \/ S1 \/ S2 \/ S3 \/ S4 \/ S5)
      BY <1>1 DEF Montee, FrontMontant, Haute
  <2> QED
      BY <2>1, S0Raffine, S1235Raffine, S4Raffine
<1>2. CASE reset_n = 0
  <2>1. /\ EnTrame' <=> EnTrame
        /\ UNCHANGED <<channel, adc_mot, data, datar, data_ready>>
      BY <1>2 DEF Montee, FrontMontant, fsm, adc, EnTrame
  <2> QED
      BY <2>1, LusInchange, Begaiement
<1> QED
    BY <1>1, <1>2 DEF Montee, FrontMontant

\* A shift changes the register of the frame, whose measure is still in the
\* converter.
LEMMA DescenteRaffine == ASSUME IInv, Descente PROVE UNCHANGED Acq!vars
<1>1. /\ EnTrame' <=> EnTrame
      /\ UNCHANGED <<channel, adc_mot, datar, data_ready>>
    BY DEF Descente, FrontDescendant, fsm, adc, EnTrame
<1>2. data \in [Canaux -> Mot]
    BY DEF IInv, TypeOK
<1>3. \A k \in Capteurs : k # channel - 1 => data'[k] = data[k]
    BY <1>2, NbCanauxAssumption DEF Descente, FrontDescendant, Capteurs, Canaux
<1> QED
    BY <1>1, <1>3, LusInchange, Begaiement

LEMMA ResetRaffine == ASSUME DebutReset PROVE [Acq!Next]_(Acq!vars)
<1>1. ~EnTrame' /\ UNCHANGED <<channel, adc_mot, data, datar, data_ready>>
    BY DEF DebutReset, Reset, EnTrame, adc
<1>2. CASE EnTrame
  <2>1. Acq!Abandonner
      BY <1>1, <1>2, LusVideApres DEF Acq!Abandonner
  <2> QED
      BY <2>1 DEF Acq!Next
<1>3. CASE ~EnTrame
    BY <1>1, <1>3, LusInchange, Begaiement
<1> QED
    BY <1>2, <1>3

LEMMA AutreRaffine ==
    ASSUME RelacheReset \/ UNCHANGED vars PROVE UNCHANGED Acq!vars
<1>1. /\ EnTrame' <=> EnTrame
      /\ UNCHANGED <<channel, adc_mot, data, datar, data_ready>>
    BY DEF RelacheReset, FinReset, vars, fsm, adc, EnTrame
<1> QED
    BY <1>1, LusInchange, Begaiement

\* The block implements Acquisition: whatever the number of channels, the wait
\* and the measures, the published bytes are one measure of each sensor, all of
\* the same scan, and they change together.
THEOREM Refinement == Spec => Acquiert
<1>1. Init => Acq!Init
    BY InitRaffine
<1>2. IInv /\ Repos /\ [Next]_vars => [Acq!Next]_(Acq!vars)
    BY MonteeRaffine, DescenteRaffine, ResetRaffine, AutreRaffine DEF Next
<1> QED
    BY <1>1, <1>2, Invariance, PTL DEF Spec, Acquiert, Acq!Spec

----------------------------------------------------------------------------
\* The time of a conversion.

LEMMA TempsConstantes ==
    /\ Periode \in Nat /\ Periode > 0
    /\ TempsMax \in Nat /\ TempsMax > TempsConversion
    /\ TempsConversion \in Nat
    /\ Attente \in Nat
BY TempsAssumption, AttenteAssumption DEF TempsConversion

\* n periods have passed since CONVST rose, or enough of them.
Passe(n) == depuis >= n * Periode \/ depuis >= TempsConversion

\* The wait counter follows the time, two cycles behind the rise of CONVST.
Chronometre ==
    /\ depuis \in 0 .. TempsMax
    /\ state = "S1" => ADC_CONVST = 1
    /\ state \in {"S0", "S3", "S4", "S5"} => ADC_CONVST = 0
    /\ state = "S2" => wait_tick_cnt <= Attente /\ Passe(wait_tick_cnt + 1)
    /\ state = "S3" => Passe(Attente + 2)
    /\ spi_clk_enable = 1 => depuis >= TempsConversion

TInv == IInv /\ Repos /\ Chronometre

\* An edge without a rise of CONVST counts one period.
LEMMA Avance ==
    ASSUME Chronometre, Compter, ADC_CONVST = 0 /\ ADC_CONVST' = 1 => FALSE
    PROVE  /\ depuis' \in 0 .. TempsMax
           /\ depuis >= TempsConversion => depuis' >= TempsConversion
           /\ \A n \in Nat : Passe(n) => Passe(n)' /\ Passe(n + 1)'
           /\ Passe(1)'
<1>1. depuis' = IF depuis + Periode < TempsMax THEN depuis + Periode ELSE TempsMax
    BY DEF Compter
<1>2. depuis \in 0 .. TempsMax
    BY DEF Chronometre
<1>3. depuis' >= depuis /\ (depuis' = depuis + Periode \/ depuis' >= TempsConversion)
    BY <1>1, <1>2, TempsConstantes
<1>4. ASSUME NEW n \in Nat, Passe(n) PROVE Passe(n)' /\ Passe(n + 1)'
  <2>1. (n + 1) * Periode = n * Periode + Periode /\ n * Periode \in Nat
      BY TempsConstantes
  <2> QED
      BY <1>1, <1>2, <1>3, <1>4, <2>1, TempsConstantes DEF Passe
<1>5. Passe(1)'
    BY <1>1, <1>2, <1>3, TempsConstantes DEF Passe
<1> QED
    BY <1>1, <1>2, <1>3, <1>4, <1>5, TempsConstantes

LEMMA MonteeChrono ==
    ASSUME AttenteSuffit, TInv, Montee, Compter
    PROVE  Chronometre'
<1> USE DEF TInv
<1>0. /\ wait_tick_cnt \in 0 .. 255 /\ ADC_CONVST \in {0, 1}
      /\ spi_clk_enable \in {0, 1}
      /\ state \in {"S0", "S1", "S2", "S3", "S4", "S5"}
      /\ state \in {"S0", "S1", "S2", "S5"} => spi_clk_enable = 0
      /\ state = "S4" => spi_clk_enable = 1
    BY DEF IInv, TypeOK, Bit, Alignement, Rythme
<1>1. CASE reset_n = 0
  <2>1. UNCHANGED fsm /\ state = "S0"
      BY <1>1 DEF Montee, FrontMontant, Repos, S0, S1, S2, S3, S4, S5
  <2>2. UNCHANGED <<state, wait_tick_cnt, ADC_CONVST, spi_clk_enable>>
      BY <2>1 DEF fsm
  <2> QED
      BY <1>0, <2>1, <2>2, Avance DEF Chronometre
<1>2. CASE S0
  <2>1. state = "S0" /\ ADC_CONVST = 0 /\ spi_clk_enable' = 0
      BY <1>0, <1>2 DEF S0, Chronometre
  <2>2. CASE data_capture = 1
    <3>1. state' = "S1" /\ ADC_CONVST' = 1
        BY <1>2, <2>2 DEF S0
    <3>2. depuis' = 0
        BY <2>1, <3>1 DEF Compter
    <3> QED
        BY <2>1, <3>1, <3>2, TempsConstantes DEF Chronometre
  <2>3. CASE data_capture = 0
    <3>1. state' = "S0" /\ ADC_CONVST' = 0
        BY <1>2, <2>1, <2>3 DEF S0
    <3> QED
        BY <2>1, <3>1, Avance DEF Chronometre
  <2> QED
      BY <1>2, <2>2, <2>3 DEF S0
<1>3. CASE S1
  <2>1. /\ state = "S1" /\ state' = "S2" /\ wait_tick_cnt' = 0
        /\ ADC_CONVST = 1 /\ ADC_CONVST' = 1 /\ spi_clk_enable' = 0
      BY <1>0, <1>3 DEF S1, Chronometre
  <2>2. depuis' \in 0 .. TempsMax /\ Passe(1)'
      BY <2>1, Avance
  <2> QED
      BY <2>1, <2>2, TempsConstantes DEF Chronometre, Passe
<1>4. CASE S2
  <2>1. /\ state = "S2" /\ ADC_CONVST' = 0 /\ spi_clk_enable' = 0
        /\ wait_tick_cnt' = (wait_tick_cnt + 1) % 256
        /\ state' = IF wait_tick_cnt >= Attente THEN "S3" ELSE "S2"
      BY <1>4 DEF S2
  <2>2. PICK w \in Nat : w = wait_tick_cnt /\ w <= Attente /\ Passe(w + 1)
      BY <1>0, <2>1 DEF Chronometre
  <2>3. depuis' \in 0 .. TempsMax /\ Passe(w + 1 + 1)'
      BY <2>1, <2>2, Avance
  <2>4. CASE w >= Attente
    <3>1. state' = "S3" /\ w + 1 + 1 = Attente + 2
        BY <2>1, <2>2, <2>4, TempsConstantes
    <3>2. Passe(Attente + 2)'
        BY <2>3, <3>1 DEF Passe
    <3> QED
        BY <2>1, <2>3, <3>1, <3>2 DEF Chronometre
  <2>5. CASE w < Attente
    <3>1. state' = "S2" /\ wait_tick_cnt' = w + 1 /\ wait_tick_cnt' <= Attente
        BY <2>1, <2>2, <2>5, AttenteAssumption
    <3>2. Passe(wait_tick_cnt + 1)'
        BY <2>3, <3>1 DEF Passe
    <3> QED
        BY <2>1, <2>3, <3>1, <3>2 DEF Chronometre
  <2> QED
      BY <2>4, <2>5, TempsConstantes
<1>5. CASE S3
  <2>1. /\ state = "S3" /\ ADC_CONVST = 0 /\ ADC_CONVST' = 0
        /\ state' \in {"S3", "S4"} /\ Passe(Attente + 2)
      BY <1>5 DEF S3, Chronometre
  <2>2. /\ depuis' \in 0 .. TempsMax
        /\ Passe(Attente + 2)' /\ Passe(Attente + 2 + 1)'
      BY <2>1, Avance, TempsConstantes
  <2>3. depuis' >= TempsConversion
    <3>1. Attente + 2 + 1 = Attente + 3
        BY TempsConstantes
    <3>2. depuis' >= (Attente + 3) * Periode \/ depuis' >= TempsConversion
        BY <2>2, <3>1 DEF Passe
    <3>3. (Attente + 3) * Periode \in Nat /\ depuis' \in Nat
        BY <2>2, TempsConstantes
    <3> QED
        BY <3>2, <3>3, TempsConstantes DEF AttenteSuffit
  <2> QED
      BY <2>1, <2>2, <2>3 DEF Chronometre
<1>6. CASE S4
  <2>1. /\ state = "S4" /\ state' \in {"S1", "S5"} /\ ADC_CONVST = 0
        /\ ADC_CONVST' = IF state' = "S1" THEN 1 ELSE 0
        /\ spi_clk_enable' = 0
      BY <1>6 DEF S4, Chronometre
  <2>2. CASE state' = "S1"
    <3>1. depuis' = 0 /\ ADC_CONVST' = 1
        BY <2>1, <2>2 DEF Compter
    <3> QED
        BY <2>1, <2>2, <3>1, TempsConstantes DEF Chronometre
  <2>3. CASE state' = "S5"
      BY <2>1, <2>3, Avance DEF Chronometre
  <2> QED
      BY <2>1, <2>2, <2>3
<1>7. CASE S5
  <2>1. /\ state = "S5" /\ state' \in {"S0", "S5"}
        /\ ADC_CONVST = 0 /\ ADC_CONVST' = 0 /\ spi_clk_enable' = 0
      BY <1>0, <1>7 DEF S5, Chronometre
  <2> QED
      BY <2>1, Avance DEF Chronometre
<1> QED
    BY <1>1, <1>2, <1>3, <1>4, <1>5, <1>6, <1>7 DEF Montee, FrontMontant

\* No bit of a conversion is clocked out before the converter has had its
\* 1.6 us, whatever the resets, as soon as the wait and three cycles cover them.
\* The 50 MHz clock of the system does not meet the condition.
THEOREM ConversionToujours ==
    ASSUME AttenteSuffit PROVE TSpec => []ConversionFinie
<1>1. TInit => TInv
  <2> SUFFICES ASSUME TInit PROVE TInv
      OBVIOUS
  <2>1. IInv /\ Repos
      BY InitIInv DEF TInit, Init, Repos
  <2> QED
      BY <2>1, TempsConstantes DEF TInit, Init, TInv, Chronometre
<1>2. TInv /\ [TNext]_tvars => TInv'
  <2> SUFFICES ASSUME TInv, [TNext]_tvars PROVE TInv'
      OBVIOUS
  <2>1. [Next]_vars
      BY DEF TNext, tvars, Next
  <2>2. (IInv /\ Repos)'
      BY <2>1, MonteeInv, DescenteInv, ResetInv, RelacheInv, BegayeInv, ReposInv
      DEF Next, TInv
  <2>3. CASE Montee /\ Compter
      BY <2>2, <2>3, MonteeChrono DEF TInv
  <2>4. CASE DebutReset /\ UNCHANGED depuis
    <3>1. state' = "S0" /\ ADC_CONVST' = 0 /\ spi_clk_enable' = 0
        BY <2>4 DEF DebutReset, Reset
    <3> QED
        BY <2>2, <2>4, <3>1 DEF TInv, Chronometre
  <2>5. CASE (Descente \/ RelacheReset \/ UNCHANGED vars) /\ UNCHANGED depuis
    <3>1. UNCHANGED <<state, ADC_CONVST, wait_tick_cnt, spi_clk_enable, depuis>>
        BY <2>5 DEF Descente, FrontDescendant, RelacheReset, FinReset, vars, fsm
    <3> QED
        BY <2>2, <3>1 DEF TInv, Chronometre, Passe
  <2> QED
      BY <2>3, <2>4, <2>5 DEF TNext, tvars
<1>3. TInv => ConversionFinie
    BY DEF TInv, Chronometre, ConversionFinie
<1> QED
    BY <1>1, <1>2, <1>3, PTL DEF TSpec
============================================================================
