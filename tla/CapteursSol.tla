---------------------------- MODULE CapteursSol ----------------------------
(***************************************************************************)
(* IP_Cores/CapteurSol/capteurs_sol_seuil.vhd: the state machine that      *)
(* scans the floor sensors through an LTC2308 converter, at the level of   *)
(* the two edges of its clock.  A scan is NbCanaux + 1 serial frames: the  *)
(* word sent in a frame selects the channel the NEXT conversion samples,   *)
(* so the bits received in frame c belong to channel c - 1 and those of    *)
(* frame 0 are dropped.                                                    *)
(***************************************************************************)
EXTENDS Integers, Sequences

CONSTANTS
    NbCanaux,   \* conversions kept in a scan: 8 in the code
    Attente,    \* CONVST_WAIT_CLOCK_NUM: 64 in the code
    Mesures     \* Mesures[c]: the words the converter may give for channel c

DataBits   == 12
ConfigBits == 6
Bit        == {0, 1}
Config     == [0 .. ConfigBits - 1 -> Bit]
Mot        == [0 .. DataBits - 1 -> Bit]
Octet      == [0 .. 7 -> Bit]
Canaux     == 0 .. NbCanaux - 1
Capteurs   == 0 .. NbCanaux - 2     \* the last channel is not a floor sensor

ASSUME NbCanauxAssumption == NbCanaux \in 2 .. 8
ASSUME AttenteAssumption  == Attente \in 0 .. 255
ASSUME MesuresAssumption  == Mesures \in [0 .. 7 -> SUBSET Mot]

VARIABLES
    clk,              \* level of the clock
    reset_n,
    data_capture,     \* the trigger, an input of the block
    state,
    channel,          \* number of the frame, 4 bits
    wait_tick_cnt,    \* 8 bits
    data_bit_index,   \* 4 bits
    spi_clk_enable,   \* ADC_SCK = not clk while it is 1
    ADC_SDI,
    ADC_CONVST,
    data_ready,
    datar,            \* data0r .. data6r, the published bytes
    data,             \* data0 .. data7, the shift registers
    adc_n,            \* rises of ADC_SCK seen by the converter in this frame
    adc_sdi,          \* the bits it received from ADC_SDI
    adc_mot,          \* the word it shifts out on ADC_SDO
    interrompu        \* history: a reset cut a scan, none was published since

fsm  == <<state, channel, wait_tick_cnt, data_bit_index, spi_clk_enable,
          ADC_SDI, ADC_CONVST, data_ready, datar>>
adc  == <<adc_n, adc_sdi, adc_mot>>
vars == <<clk, reset_n, data_capture, fsm, data, adc, interrompu>>

----------------------------------------------------------------------------
\* channel_config, most significant bit (the first one sent) first.
ChannelConfig(c) ==
    << <<1,0,0,0,1,0>>, <<1,1,0,0,1,0>>, <<1,0,0,1,1,0>>, <<1,1,0,1,1,0>>,
       <<1,0,1,0,1,0>>, <<1,1,1,0,1,0>>, <<1,0,1,1,1,0>>, <<1,1,1,1,1,0>>
    >>[(IF c = NbCanaux THEN 0 ELSE c) + 1]

\* Bits 11 downto 4 of a conversion.
Haut(m) == [j \in 0 .. 7 |-> m[j + 4]]

\* data <= data(10 downto 0) & ADC_SDO
Decale(m, b) == [j \in 0 .. DataBits - 1 |-> IF j = 0 THEN b ELSE m[j - 1]]

Valeur(o) == o[0] + 2*o[1] + 4*o[2] + 8*o[3]
             + 16*o[4] + 32*o[5] + 64*o[6] + 128*o[7]

\* The combinational thresholds, taken on the shift registers themselves.
vect_capt(i, NIVEAU) == IF Valeur(Haut(data[i])) > NIVEAU THEN 1 ELSE 0

----------------------------------------------------------------------------
\* The LTC2308.  The channel of a complete configuration word:
\* bits S/D, O/S, S1, S0, UNI, SLP.
Selection(b) == 4*b[2] + 2*b[3] + b[1]

\* A rise of CONVST samples the channel selected by the last complete word
\* (any channel when the last frame was cut) and loads the output register.
Conversion ==
    /\ \E c \in IF adc_n >= ConfigBits THEN {Selection(adc_sdi)} ELSE 0 .. 7 :
          adc_mot' \in Mesures[c]
    /\ adc_n' = 0
    /\ UNCHANGED adc_sdi

ADC_SDO == IF adc_n < DataBits THEN adc_mot[DataBits - 1 - adc_n] ELSE 0

----------------------------------------------------------------------------
Init ==
    /\ clk = 0
    /\ reset_n = 0
    /\ data_capture = 0
    /\ state = "S0"
    /\ channel = 0
    /\ wait_tick_cnt = 0
    /\ data_bit_index = 0
    /\ spi_clk_enable = 0
    /\ ADC_SDI = 0
    /\ ADC_CONVST = 0
    /\ data_ready = 0
    /\ datar = [k \in Capteurs |-> [j \in 0 .. 7 |-> 0]]
    /\ data = [k \in Canaux |-> [j \in 0 .. DataBits - 1 |-> 0]]
    /\ adc_n = 0
    /\ adc_sdi = [j \in 0 .. ConfigBits - 1 |-> 0]
    /\ adc_mot = [j \in 0 .. DataBits - 1 |-> 0]
    /\ interrompu = FALSE

\* Idle; the trigger raises CONVST for the first conversion.
S0 ==
    /\ state = "S0"
    /\ channel' = 0
    /\ data_ready' = 0
    /\ \/ data_capture = 1 /\ state' = "S1" /\ ADC_CONVST' = 1 /\ Conversion
       \/ data_capture = 0 /\ UNCHANGED <<state, ADC_CONVST, adc>>
    /\ UNCHANGED <<wait_tick_cnt, data_bit_index, spi_clk_enable, ADC_SDI,
                   datar, interrompu>>

\* Mutant: the wait counter is not reset.
S1SansRemise ==
    /\ state = "S1"
    /\ ADC_CONVST' = 1
    /\ state' = "S2"
    /\ UNCHANGED <<channel, wait_tick_cnt, data_bit_index, spi_clk_enable,
                   ADC_SDI, data_ready, datar, adc, interrompu>>

S1 ==
    /\ state = "S1"
    /\ wait_tick_cnt' = 0
    /\ ADC_CONVST' = 1
    /\ state' = "S2"
    /\ UNCHANGED <<channel, data_bit_index, spi_clk_enable, ADC_SDI,
                   data_ready, datar, adc, interrompu>>

\* Mutant: the bit counter is not reset.
S2SansRemise ==
    /\ state = "S2"
    /\ spi_clk_enable' = 0
    /\ ADC_CONVST' = 0
    /\ ADC_SDI' = 0
    /\ wait_tick_cnt' = (wait_tick_cnt + 1) % 256
    /\ state' = IF wait_tick_cnt >= Attente THEN "S3" ELSE "S2"
    /\ UNCHANGED <<channel, data_bit_index, data_ready, datar, adc, interrompu>>

\* Mutant: the wait counter is reset in the wait itself.
S2SansCompte ==
    /\ state = "S2"
    /\ spi_clk_enable' = 0
    /\ ADC_CONVST' = 0
    /\ ADC_SDI' = 0
    /\ wait_tick_cnt' = 0
    /\ data_bit_index' = 0
    /\ state' = IF wait_tick_cnt >= Attente THEN "S3" ELSE "S2"
    /\ UNCHANGED <<channel, data_ready, datar, adc, interrompu>>

\* Time given to the converter.
S2 ==
    /\ state = "S2"
    /\ spi_clk_enable' = 0
    /\ ADC_CONVST' = 0
    /\ ADC_SDI' = 0
    /\ wait_tick_cnt' = (wait_tick_cnt + 1) % 256
    /\ data_bit_index' = 0
    /\ state' = IF wait_tick_cnt >= Attente THEN "S3" ELSE "S2"
    /\ UNCHANGED <<channel, data_ready, datar, adc, interrompu>>

\* One bit of the serial frame.
S3 ==
    /\ state = "S3"
    /\ spi_clk_enable' = 1
    /\ ADC_SDI' = IF data_bit_index < ConfigBits
                  THEN ChannelConfig(channel)[data_bit_index + 1] ELSE 0
    /\ data_bit_index' = (data_bit_index + 1) % 16
    /\ state' = IF data_bit_index >= DataBits - 1 THEN "S4" ELSE "S3"
    /\ UNCHANGED <<channel, wait_tick_cnt, ADC_CONVST, data_ready, datar,
                   adc, interrompu>>

\* Mutant: bits 7 downto 0 of the conversions are published.
S4BitsBas ==
    /\ state = "S4"
    /\ spi_clk_enable' = 0
    /\ channel' = (channel + 1) % 16
    /\ \/ /\ channel = NbCanaux
          /\ state' = "S5"
          /\ data_ready' = 1
          /\ datar' = [k \in Capteurs |-> [j \in 0 .. 7 |-> data[k][j]]]
          /\ interrompu' = FALSE
          /\ UNCHANGED <<ADC_CONVST, adc>>
       \/ /\ channel # NbCanaux
          /\ state' = "S1"
          /\ ADC_CONVST' = 1
          /\ Conversion
          /\ UNCHANGED <<data_ready, datar, interrompu>>
    /\ UNCHANGED <<wait_tick_cnt, data_bit_index, ADC_SDI>>

\* Mutant: the bytes are published frame by frame.
S4AuFilDesTrames ==
    /\ state = "S4"
    /\ spi_clk_enable' = 0
    /\ channel' = (channel + 1) % 16
    /\ datar' = [k \in Capteurs |->
                    IF k = channel - 1 THEN Haut(data[k]) ELSE datar[k]]
    /\ \/ /\ channel = NbCanaux
          /\ state' = "S5"
          /\ data_ready' = 1
          /\ interrompu' = FALSE
          /\ UNCHANGED <<ADC_CONVST, adc>>
       \/ /\ channel # NbCanaux
          /\ state' = "S1"
          /\ ADC_CONVST' = 1
          /\ Conversion
          /\ UNCHANGED <<data_ready, interrompu>>
    /\ UNCHANGED <<wait_tick_cnt, data_bit_index, ADC_SDI>>

\* End of a frame: the next conversion, or the publication after the last.
S4 ==
    /\ state = "S4"
    /\ spi_clk_enable' = 0
    /\ channel' = (channel + 1) % 16
    /\ \/ /\ channel = NbCanaux
          /\ state' = "S5"
          /\ data_ready' = 1
          /\ datar' = [k \in Capteurs |-> Haut(data[k])]
          /\ interrompu' = FALSE
          /\ UNCHANGED <<ADC_CONVST, adc>>
       \/ /\ channel # NbCanaux
          /\ state' = "S1"
          /\ ADC_CONVST' = 1
          /\ Conversion
          /\ UNCHANGED <<data_ready, datar, interrompu>>
    /\ UNCHANGED <<wait_tick_cnt, data_bit_index, ADC_SDI>>

\* A trigger still high must fall before another one counts.
S5 ==
    /\ state = "S5"
    /\ state' = IF data_capture = 0 THEN "S0" ELSE "S5"
    /\ UNCHANGED <<channel, wait_tick_cnt, data_bit_index, spi_clk_enable,
                   ADC_SDI, ADC_CONVST, data_ready, datar, adc, interrompu>>

\* A rising edge of clk: the process v2v_pr_1.
FrontMontant ==
    /\ clk = 0
    /\ clk' = 1
    /\ \/ reset_n = 0 /\ UNCHANGED <<fsm, adc, interrompu>>
       \/ reset_n = 1 /\ (S0 \/ S1 \/ S2 \/ S3 \/ S4 \/ S5)
    /\ UNCHANGED <<reset_n, data>>

\* Mutant: the bits go to the register of the channel being selected, not to
\* that of the channel being read.
FrontDescendantDecale ==
    /\ clk = 1
    /\ clk' = 0
    /\ \/ /\ spi_clk_enable = 1
          /\ data' = IF channel \in Canaux
                     THEN [data EXCEPT ![channel] = Decale(@, ADC_SDO)]
                     ELSE data
          /\ adc_sdi' = IF adc_n < ConfigBits
                        THEN [adc_sdi EXCEPT ![adc_n] = ADC_SDI] ELSE adc_sdi
          /\ adc_n' = IF adc_n < DataBits THEN adc_n + 1 ELSE adc_n
          /\ UNCHANGED adc_mot
       \/ spi_clk_enable = 0 /\ UNCHANGED <<data, adc>>
    /\ UNCHANGED <<reset_n, fsm, interrompu>>

\* A falling edge of clk is a rising edge of ADC_SCK when it is enabled: the
\* register of this frame takes a bit, and the converter takes one too.
FrontDescendant ==
    /\ clk = 1
    /\ clk' = 0
    /\ \/ /\ spi_clk_enable = 1
          /\ data' = IF channel \in 1 .. NbCanaux
                     THEN [data EXCEPT ![channel - 1] = Decale(@, ADC_SDO)]
                     ELSE data
          /\ adc_sdi' = IF adc_n < ConfigBits
                        THEN [adc_sdi EXCEPT ![adc_n] = ADC_SDI] ELSE adc_sdi
          /\ adc_n' = IF adc_n < DataBits THEN adc_n + 1 ELSE adc_n
          /\ UNCHANGED adc_mot
       \/ spi_clk_enable = 0 /\ UNCHANGED <<data, adc>>
    /\ UNCHANGED <<reset_n, fsm, interrompu>>

\* The asynchronous reset; channel, data_ready and the data keep their value.
Reset ==
    /\ reset_n = 1
    /\ reset_n' = 0
    /\ state' = "S0"
    /\ data_bit_index' = 0
    /\ wait_tick_cnt' = 0
    /\ ADC_SDI' = 0
    /\ ADC_CONVST' = 0
    /\ spi_clk_enable' = 0
    /\ interrompu' = (interrompu \/ state \notin {"S0", "S5"})
    /\ UNCHANGED <<clk, channel, data_ready, datar, data, adc>>

FinReset ==
    /\ reset_n = 0
    /\ reset_n' = 1
    /\ UNCHANGED <<clk, fsm, data, adc, interrompu>>

\* The trigger is synchronous: it may take any value at a rising edge.  Its
\* register may be reset with the block.
Montee       == FrontMontant /\ data_capture' \in Bit
Descente     == FrontDescendant /\ UNCHANGED data_capture
DebutReset   == Reset /\ data_capture' \in {0, data_capture}
RelacheReset == FinReset /\ UNCHANGED data_capture

Next == Montee \/ Descente \/ DebutReset \/ RelacheReset

Spec == Init /\ [][Next]_vars

\* The oscillator never stops; the reset button is released.
Equite == WF_vars(Montee) /\ WF_vars(Descente) /\ WF_vars(RelacheReset)

----------------------------------------------------------------------------
TypeOK ==
    /\ clk \in Bit
    /\ reset_n \in Bit
    /\ data_capture \in Bit
    /\ state \in {"S0", "S1", "S2", "S3", "S4", "S5"}
    /\ channel \in 0 .. NbCanaux + 1
    /\ wait_tick_cnt \in 0 .. 255
    /\ data_bit_index \in 0 .. DataBits
    /\ spi_clk_enable \in Bit
    /\ ADC_SDI \in Bit
    /\ ADC_CONVST \in Bit
    /\ data_ready \in Bit
    /\ datar \in [Capteurs -> Octet]
    /\ data \in [Canaux -> Mot]
    /\ adc_n \in 0 .. DataBits
    /\ adc_sdi \in Config
    /\ adc_mot \in Mot
    /\ interrompu \in BOOLEAN

EnTrame == state \in {"S1", "S2", "S3", "S4"}

CanalBorne == EnTrame => channel \in 0 .. NbCanaux

\* In frame c the converter holds a measure of channel c - 1.
MesureEnVol == EnTrame /\ channel > 0 => adc_mot \in Mesures[channel - 1]

\* The rises of ADC_SCK follow the bits counted by the machine, half a clock
\* period later, and there is none outside S3 and S4.
Rythme ==
    /\ state \in {"S0", "S1", "S2", "S5"} => spi_clk_enable = 0
    /\ state \in {"S1", "S2"} => adc_n = 0
    /\ state = "S3" =>
          /\ data_bit_index < DataBits
          /\ spi_clk_enable = IF data_bit_index = 0 THEN 0 ELSE 1
          /\ adc_n = IF data_bit_index = 0 THEN 0 ELSE data_bit_index - clk
    /\ state = "S4" => /\ data_bit_index = DataBits
                       /\ spi_clk_enable = 1
                       /\ adc_n = DataBits - clk

\* The converter has received the first bits of the word of this frame, and
\* the next one is on the line before each rise.
ConfigRecue ==
    EnTrame =>
        /\ \A j \in 0 .. ConfigBits - 1 :
              j < adc_n => adc_sdi[j] = ChannelConfig(channel)[j + 1]
        /\ spi_clk_enable = 1 /\ clk = 1 /\ adc_n < ConfigBits =>
              ADC_SDI = ChannelConfig(channel)[adc_n + 1]

\* The register of the frame has received the first bits of the measure.
MesureRecue ==
    EnTrame /\ channel > 0 => \A j \in 0 .. DataBits - 1 :
        j < adc_n => data[channel - 1][j] = adc_mot[DataBits - adc_n + j]

\* The serial link keeps step with the machine: the configuration words, the
\* conversions and the registers are never off by a channel or by a bit.
Alignement == CanalBorne /\ MesureEnVol /\ Rythme /\ ConfigRecue /\ MesureRecue

\* The vector the processor reads: a sensor whose own frame has not begun, in
\* this scan, still shows its published byte, unless a reset cut a scan.
VecteurPublie ==
    \A i \in Capteurs :
        /\ ~interrompu
        /\ ~EnTrame \/ channel <= i \/ (channel = i + 1 /\ adc_n = 0)
        => Haut(data[i]) = datar[i]

\* "Seuillage des valeurs mesurees par les capteurs" (line 259): the bit of a
\* sensor that has been measured is the threshold of a value it can measure.
\* 110 is the level the line follower writes.
SeuillageDesMesures ==
    \A i \in Capteurs :
        ~interrompu /\ datar[i] \in {Haut(m) : m \in Mesures[i]}
        => \E m \in Mesures[i] :
              vect_capt(i, 110) = IF Valeur(Haut(m)) > 110 THEN 1 ELSE 0

\* A trigger seen by the idle machine ends in a publication, unless the
\* machine is reset.
BalayageAboutit ==
    state = "S1" /\ channel = 0 ~> state = "S5" \/ reset_n = 0

\* The measures of the scan under way: the last one is still in the converter.
Lus == [k \in {k \in Capteurs : EnTrame /\ k < channel} |->
           Haut(IF k = channel - 1 THEN adc_mot ELSE data[k])]

\* The published bytes are exactly one measure of each sensor, all made after
\* the trigger of the same scan, and they change together.
Acq == INSTANCE Acquisition WITH
    Capteurs <- Capteurs,
    Octets   <- Octet,
    Valeurs  <- [k \in Capteurs |-> {Haut(m) : m \in Mesures[k]}],
    phase    <- IF EnTrame THEN "balayage" ELSE "repos",
    lus      <- Lus,
    publie   <- datar,
    pret     <- data_ready

Acquiert == Acq!Spec
============================================================================
