----------------------- MODULE InterfaceCapteurs_proof -----------------------
(***************************************************************************)
(* The slave uses the block as CapteursSol allows, so that what is proved  *)
(* of the block holds inside the slave; and no trigger of the 2 kHz clock  *)
(* is lost, for every number of channels, every wait, and every half       *)
(* period that a scan fits in.                                             *)
(***************************************************************************)
EXTENDS ProgrammesCapteurs, CapteursSol_proof

-----------------------------------------------------------------------------
(* The slave implements the block.                                         *)

LEMMA PasDuBloc == TypeOK /\ [INext]_ivars => [Next]_vars
<1> SUFFICES ASSUME TypeOK, [INext]_ivars PROVE [Next]_vars
  OBVIOUS
<1>1. CASE Cycle(UNCHANGED registres)
  BY <1>1 DEF Cycle, Capture, Next, Montee, Bit
<1>2. ASSUME NEW v \in Ecritures, Cycle(Ecrire(v)) PROVE Next
  BY <1>2 DEF Cycle, Capture, Next, Montee, Bit
<1>3. CASE CycleReset
  <2>1. data_capture' \in Bit
    BY <1>3 DEF CycleReset, TypeOK
  <2> QED
    BY <1>3, <2>1 DEF CycleReset, Next, Montee
<1>4. CASE DemiCycle
  BY <1>4 DEF DemiCycle, Next, Descente
<1>5. CASE IReset
  BY <1>5 DEF IReset, Next, DebutReset
<1>6. CASE IFinReset
  BY <1>6 DEF IFinReset, Next, RelacheReset
<1>7. CASE UNCHANGED ivars
  BY <1>7 DEF ivars
<1> QED
  BY <1>1, <1>2, <1>3, <1>4, <1>5, <1>6, <1>7 DEF INext

LEMMA PasIInv == IInv /\ Repos /\ [Next]_vars => (IInv /\ Repos)'
BY MonteeInv, DescenteInv, ResetInv, RelacheInv, BegayeInv, ReposInv DEF Next

\* Inside the slave the block only ever sees the triggers, the resets and the
\* edges that CapteursSol lets it see.
THEOREM BlocDansEsclave == ISpec => Spec
<1>1. IInit => Init /\ IInv /\ Repos
  BY InitIInv DEF IInit, Init, Repos
<1>2. IInv /\ Repos /\ [INext]_ivars => [Next]_vars /\ (IInv /\ Repos)'
  BY PasDuBloc, PasIInv DEF IInv
<1> QED
  BY <1>1, <1>2, PTL DEF ISpec, Spec

LEMMA EcrireType ==
    ASSUME NEW v \in Nat, s_niveau \in 0 .. 255, s_channel_select \in 0 .. Vecteur,
           Ecrire(v)
    PROVE  s_niveau' \in 0 .. 255 /\ s_channel_select' \in 0 .. Vecteur
BY NbCanauxAssumption DEF Ecrire, Vecteur, Capteurs

\* Every word leaves a level of 8 bits and a mode: a sensor, or the vector.
THEOREM RegistresBornes == ISpec => []ITypeOK
<1>1. IInit => ITypeOK
  BY InitIInv, NbCanauxAssumption, DemiPeriodeAssumption
  DEF IInit, ITypeOK, IInv, Vecteur, Bit
<1>2. IInv /\ Repos /\ [INext]_ivars => (IInv /\ Repos)'
  BY PasDuBloc, PasIInv DEF IInv
<1>3. IInv /\ Repos /\ ITypeOK /\ [INext]_ivars => ITypeOK'
  <2> SUFFICES ASSUME IInv, Repos, ITypeOK, [INext]_ivars PROVE ITypeOK'
    OBVIOUS
  <2>1. TypeOK'
    BY <1>2 DEF IInv
  <2>2. DemiPeriode \in Nat \ {0} /\ NbCanaux \in 2 .. 8
    BY DemiPeriodeAssumption, NbCanauxAssumption
  <2>3. ASSUME pll' = (pll + 1) % (2 * DemiPeriode) PROVE pll' \in 0 .. 2 * DemiPeriode - 1
    <3>1. 2 * DemiPeriode \in Nat \ {0} /\ pll + 1 \in Nat
      BY <2>2 DEF ITypeOK
    <3> QED
      BY <2>3, <3>1
  <2>4. ASSUME Capture PROVE s_clock_2Khz_prev' \in Bit
    BY <2>4 DEF Capture, s_clock_2Khz, Bit
  <2>5. CASE Cycle(UNCHANGED registres)
    BY <2>1, <2>3, <2>4, <2>5 DEF ITypeOK, Cycle, registres
  <2>6. ASSUME NEW v \in Ecritures, Cycle(Ecrire(v)) PROVE ITypeOK'
    <3>1. s_niveau' \in 0 .. 255 /\ s_channel_select' \in 0 .. Vecteur
      BY <2>6, EcrireType, EcrituresAssumption DEF Cycle, ITypeOK
    <3> QED
      BY <2>1, <2>3, <2>4, <2>6, <3>1 DEF ITypeOK, Cycle
  <2>7. CASE CycleReset \/ DemiCycle \/ IFinReset \/ UNCHANGED ivars
    BY <2>1, <2>7, <2>2 DEF ITypeOK, CycleReset, DemiCycle, IFinReset, registres, ivars, Vecteur
  <2>8. CASE IReset
    BY <2>1, <2>2, <2>8 DEF ITypeOK, IReset, Vecteur, Bit
  <2> QED
    BY <2>5, <2>6, <2>7, <2>8 DEF INext
<1>4. IInit => IInv /\ Repos
  BY InitIInv DEF IInit, Init, Repos
<1> QED
  BY <1>1, <1>2, <1>3, <1>4, PTL DEF ISpec

-----------------------------------------------------------------------------
(* The time left in a scan.                                                *)

\* The cycles of the frames after frame c.
Trames(c) == (NbCanaux - c) * DureeTrame

\* The cycles left in the frame under way.
DansTrame ==
    IF state = "S1" THEN Attente + 15
    ELSE IF state = "S2" THEN Attente - wait_tick_cnt + 14
    ELSE IF state = "S3" THEN 13 - data_bit_index
    ELSE 1

\* The cycles left before the machine is idle.
Restant == IF state = "S0" THEN 0
           ELSE IF state = "S5" THEN 1
           ELSE Trames(channel) + DansTrame + 1

AttenteBornee == state = "S2" => wait_tick_cnt <= Attente

LEMMA TramesPas ==
    /\ DureeTrame \in Nat /\ DureeTrame = Attente + 15 /\ Attente \in 0 .. 255
    /\ \A c \in 0 .. NbCanaux : Trames(c) \in Nat
    /\ \A c \in 0 .. NbCanaux - 1 : Trames(c) = Trames(c + 1) + DureeTrame
    /\ Trames(NbCanaux) = 0
    /\ DureeScan = Trames(0) + DureeTrame + 1
<1>1. DureeTrame \in Nat /\ NbCanaux \in Nat /\ Attente \in 0 .. 255
  BY AttenteAssumption, NbCanauxAssumption DEF DureeTrame
<1>2. \A c \in 0 .. NbCanaux : Trames(c) \in Nat
  <2> SUFFICES ASSUME NEW c \in 0 .. NbCanaux PROVE Trames(c) \in Nat
    OBVIOUS
  <2>1. NbCanaux - c \in Nat
    BY <1>1
  <2> QED
    BY <1>1, <2>1 DEF Trames
<1>3. \A c \in 0 .. NbCanaux - 1 : Trames(c) = Trames(c + 1) + DureeTrame
  <2> SUFFICES ASSUME NEW c \in 0 .. NbCanaux - 1
               PROVE  (NbCanaux - c) * DureeTrame
                        = (NbCanaux - (c + 1)) * DureeTrame + DureeTrame
    BY DEF Trames
  <2> HIDE DEF DureeTrame
  <2> QED
    BY <1>1
<1>4. Trames(NbCanaux) = 0
  BY <1>1 DEF Trames
<1>5. DureeScan = Trames(0) + DureeTrame + 1
  BY <1>1 DEF Trames, DureeScan
<1> QED
  BY <1>1, <1>2, <1>3, <1>4, <1>5 DEF DureeTrame

LEMMA RestantPositif ==
    ASSUME IInv, AttenteBornee, state # "S0"
    PROVE  Restant \in Nat \ {0} /\ (EnTrame => Restant >= 2)
<1>1. wait_tick_cnt \in Int /\ data_bit_index \in Int
      /\ state \in {"S0", "S1", "S2", "S3", "S4", "S5"}
      /\ (state = "S3" => data_bit_index < 12)
      /\ (EnTrame => channel \in 0 .. NbCanaux)
  BY DEF IInv, TypeOK, Alignement, Rythme, CanalBorne, DataBits
<1> QED
  BY <1>1, TramesPas DEF AttenteBornee, Restant, DansTrame, EnTrame

\* Each cycle of a scan is one cycle less.
LEMMA UnDeMoins ==
    ASSUME IInv, AttenteBornee, Haute, state # "S0", EnTrame \/ data_capture = 0,
           S1 \/ S2 \/ S3 \/ S4 \/ S5
    PROVE  Restant' = Restant - 1 /\ AttenteBornee'
<1>1. wait_tick_cnt \in 0 .. 255 /\ data_bit_index \in 0 .. DataBits
      /\ NbCanaux \in 2 .. 8
      /\ (EnTrame => channel \in 0 .. NbCanaux)
      /\ (state = "S3" => data_bit_index < 12)
      /\ Attente \in 0 .. 255
  BY TramesPas, NbCanauxAssumption DEF IInv, TypeOK, Alignement, Rythme, CanalBorne, DataBits
<1>2. CASE S1
  BY <1>1, <1>2, TramesPas DEF S1, Restant, DansTrame, EnTrame, AttenteBornee, DureeTrame
<1>3. CASE S2
  <2>1. wait_tick_cnt <= Attente /\ channel' = channel /\ state = "S2"
        /\ state' = (IF wait_tick_cnt >= Attente THEN "S3" ELSE "S2")
        /\ data_bit_index' = 0 /\ wait_tick_cnt' = (wait_tick_cnt + 1) % 256
    BY <1>3 DEF S2, AttenteBornee
  <2>2. CASE wait_tick_cnt = Attente
    BY <1>1, <2>1, <2>2, TramesPas DEF Restant, DansTrame, EnTrame, AttenteBornee
  <2>3. CASE wait_tick_cnt < Attente
    <3>1. wait_tick_cnt' = wait_tick_cnt + 1
      BY <1>1, <2>1, <2>3
    <3> QED
      BY <1>1, <2>1, <2>3, <3>1, TramesPas DEF Restant, DansTrame, EnTrame, AttenteBornee
  <2> QED
    BY <1>1, <2>1, <2>2, <2>3
<1>4. CASE S3
  <2>1. data_bit_index' = data_bit_index + 1 /\ channel' = channel /\ state = "S3"
        /\ state' = (IF data_bit_index >= 11 THEN "S4" ELSE "S3")
    BY <1>1, <1>4 DEF S3, DataBits
  <2> QED
    BY <1>1, <2>1, TramesPas DEF Restant, DansTrame, EnTrame, AttenteBornee
<1>5. CASE S4
  <2>1. channel' = channel + 1 /\ channel \in 0 .. NbCanaux /\ state = "S4"
        /\ state' = (IF channel = NbCanaux THEN "S5" ELSE "S1")
    BY <1>1, <1>5 DEF S4, EnTrame
  <2>2. Restant = Trames(channel) + 2
    BY <1>1, <2>1, TramesPas DEF Restant, DansTrame
  <2>3. CASE channel = NbCanaux
    BY <2>1, <2>2, <2>3, TramesPas DEF Restant, AttenteBornee
  <2>4. CASE channel # NbCanaux
    <3>1. Trames(channel) = Trames(channel + 1) + DureeTrame
      BY <1>1, <2>1, <2>4, TramesPas
    <3>2. Trames(channel + 1) \in Nat /\ Trames(channel)' = Trames(channel + 1)
      BY <1>1, <2>1, <2>4, TramesPas DEF Trames
    <3> QED
      BY <1>1, <2>1, <2>2, <2>4, <3>1, <3>2, TramesPas
      DEF Restant, DansTrame, AttenteBornee, DureeTrame
  <2> QED
    BY <2>3, <2>4
<1>6. CASE S5
  BY <1>6 DEF S5, EnTrame, Restant, AttenteBornee
<1> QED
  BY <1>2, <1>3, <1>4, <1>5, <1>6

LEMMA TramesBornees == \A c \in 0 .. NbCanaux : Trames(c) <= Trames(0)
<1> SUFFICES ASSUME NEW c \in 0 .. NbCanaux PROVE Trames(c) <= Trames(0)
  OBVIOUS
<1>1. NbCanaux \in Nat /\ c \in Nat /\ DureeTrame \in Nat
  BY TramesPas, NbCanauxAssumption
<1>2. Trames(0) = Trames(c) + c * DureeTrame
  BY <1>1 DEF Trames
<1>3. c * DureeTrame \in Nat /\ Trames(c) \in Nat
  BY <1>1, TramesPas
<1> QED
  BY <1>2, <1>3

\* The time left in a scan is bounded by the length of a scan, and each rising
\* edge takes one cycle from it: a scan that no reset cuts is published, at the
\* edge that leaves one cycle, after DureeScan - 1 of them.
THEOREM BalayageDecompte ==
    Spec => /\ [](EnTrame => Restant \in 2 .. DureeScan)
            /\ [](state = "S1" /\ channel = 0 => Restant = DureeScan)
            /\ [][Montee /\ reset_n = 1 /\ EnTrame => Restant' = Restant - 1]_vars
            /\ [][EnTrame /\ ~EnTrame' => IF reset_n' = 1 THEN state' = "S5" /\ data_ready' = 1
                                          ELSE state' = "S0"]_vars
<1>1. IInv /\ AttenteBornee => (EnTrame => Restant \in 2 .. DureeScan)
  <2> SUFFICES ASSUME IInv, AttenteBornee, EnTrame PROVE Restant \in 2 .. DureeScan
    OBVIOUS
  <2>1. Restant \in Nat /\ Restant >= 2
    BY RestantPositif DEF EnTrame
  <2>2. Restant = Trames(channel) + DansTrame + 1
    BY DEF EnTrame, Restant
  <2>3. Trames(channel) <= Trames(0) /\ Trames(channel) \in Nat /\ Trames(0) \in Nat
    BY TramesBornees, TramesPas, NbCanauxAssumption DEF IInv, Alignement, CanalBorne
  <2>4. DansTrame \in Int /\ DansTrame <= Attente + 15
    BY TramesPas DEF DansTrame, EnTrame, IInv, TypeOK, DataBits
  <2> QED
    BY <2>1, <2>2, <2>3, <2>4, TramesPas
<1>2. state = "S1" /\ channel = 0 => Restant = DureeScan
  BY TramesPas, NbCanauxAssumption DEF Restant, DansTrame
<1>3. IInv /\ AttenteBornee
      => [Montee /\ reset_n = 1 /\ EnTrame => Restant' = Restant - 1]_vars
  <2> SUFFICES ASSUME IInv, AttenteBornee, Montee, reset_n = 1, EnTrame
               PROVE  Restant' = Restant - 1
    OBVIOUS
  <2>1. Haute /\ state # "S0" /\ (S1 \/ S2 \/ S3 \/ S4 \/ S5)
    BY DEF Montee, FrontMontant, Haute, EnTrame, S0
  <2> QED
    BY <2>1, UnDeMoins
<1>4. [Next]_vars
      => [EnTrame /\ ~EnTrame' => IF reset_n' = 1 THEN state' = "S5" /\ data_ready' = 1
                                  ELSE state' = "S0"]_vars
  <2> SUFFICES ASSUME Next, EnTrame, ~EnTrame'
               PROVE  IF reset_n' = 1 THEN state' = "S5" /\ data_ready' = 1 ELSE state' = "S0"
    OBVIOUS
  <2>1. CASE Montee
    BY <2>1 DEF Montee, FrontMontant, fsm, EnTrame, S0, S1, S2, S3, S4, S5
  <2>2. CASE Descente \/ RelacheReset
    BY <2>2 DEF Descente, FrontDescendant, RelacheReset, FinReset, fsm, EnTrame
  <2>3. CASE DebutReset
    BY <2>3 DEF DebutReset, Reset
  <2> QED
    BY <2>1, <2>2, <2>3 DEF Next
<1>5. Spec => [](IInv /\ AttenteBornee)
  <2>1. Init => AttenteBornee
    BY DEF Init, AttenteBornee
  <2>2. IInv /\ AttenteBornee /\ [Next]_vars => AttenteBornee'
    <3> SUFFICES ASSUME IInv, AttenteBornee, [Next]_vars PROVE AttenteBornee'
      OBVIOUS
    <3>1. wait_tick_cnt \in 0 .. 255 /\ Attente \in 0 .. 255
      BY AttenteAssumption DEF IInv, TypeOK
    <3>2. CASE Montee
      BY <3>1, <3>2 DEF Montee, FrontMontant, fsm, S0, S1, S2, S3, S4, S5, AttenteBornee
    <3>3. CASE Descente \/ RelacheReset \/ DebutReset \/ UNCHANGED vars
      BY <3>3 DEF Descente, FrontDescendant, RelacheReset, FinReset, DebutReset, Reset,
                  fsm, vars, AttenteBornee
    <3> QED
      BY <3>2, <3>3 DEF Next
  <2> QED
    BY <2>1, <2>2, Invariance, PTL DEF Spec
<1> QED
  BY <1>1, <1>2, <1>3, <1>4, <1>5, PTL DEF Spec

-----------------------------------------------------------------------------
(* The triggers.                                                           *)

\* The previous level of the 2 kHz clock follows it by a cycle, a trigger
\* comes in the cycle after its rise, and a scan is the cycles it takes.
Cadence ==
    /\ pll \in 0 .. 2 * DemiPeriode - 1
    /\ s_clock_2Khz_prev \in Bit
    /\ s_clock_2Khz_prev = 1 => pll \in 1 .. DemiPeriode
    /\ s_clock_2Khz_prev = 0 => pll = 0 \/ pll >= DemiPeriode
    /\ data_capture = 1 => pll = 1

Chrono == state # "S0" => pll >= 2 /\ pll + Restant = DureeScan + 2

LEMMA PeriodeBornee ==
    ASSUME ScanDansPeriode
    PROVE  /\ DemiPeriode \in Nat /\ DemiPeriode >= 2
           /\ DureeScan \in Nat /\ DureeScan + 2 < 2 * DemiPeriode
BY DemiPeriodeAssumption, TramesPas, NbCanauxAssumption DEF ScanDansPeriode

LEMMA CadenceCycle ==
    ASSUME ScanDansPeriode, Cadence, reset_n = 1, Capture,
           pll' = (pll + 1) % (2 * DemiPeriode)
    PROVE  Cadence' /\ pll' = IF pll + 1 = 2 * DemiPeriode THEN 0 ELSE pll + 1
<1>1. DemiPeriode \in Nat /\ DemiPeriode >= 2 /\ pll \in 0 .. 2 * DemiPeriode - 1
  BY PeriodeBornee DEF Cadence
<1>2. pll' = IF pll + 1 = 2 * DemiPeriode THEN 0 ELSE pll + 1
  <2> DEFINE D == 2 * DemiPeriode
  <2>1. D \in Nat \ {0} /\ pll + 1 \in 1 .. D /\ pll' = (pll + 1) % D
    BY <1>1
  <2> HIDE DEF D
  <2>2. pll' = IF pll + 1 = D THEN 0 ELSE pll + 1
    BY <2>1
  <2> QED
    BY <2>2 DEF D
<1> QED
  BY <1>1, <1>2 DEF Cadence, Capture, s_clock_2Khz, Bit

LEMMA ChronoCycle ==
    ASSUME ScanDansPeriode, IInv, AttenteBornee, Cadence, Chrono, reset_n = 1,
           FrontMontant, Capture, pll' = (pll + 1) % (2 * DemiPeriode)
    PROVE  AttenteBornee' /\ Chrono'
<1>1. Haute /\ (S0 \/ S1 \/ S2 \/ S3 \/ S4 \/ S5)
  BY DEF FrontMontant, Haute, Capture, Bit
<1>2. /\ DemiPeriode \in Nat /\ DemiPeriode >= 2 /\ pll \in 0 .. 2 * DemiPeriode - 1
      /\ DureeScan \in Nat /\ DureeScan + 2 < 2 * DemiPeriode
      /\ pll' = IF pll + 1 = 2 * DemiPeriode THEN 0 ELSE pll + 1
  BY PeriodeBornee, CadenceCycle DEF Cadence
<1>3. CASE S0 /\ data_capture = 1
  <2>1. pll' = 2 /\ state' = "S1" /\ channel' = 0
    BY <1>2, <1>3 DEF S0, Cadence
  <2>2. Trames(channel)' = Trames(0)
    BY <2>1 DEF Trames
  <2>3. Restant' = Trames(0) + Attente + 16
    BY <2>1, <2>2, TramesPas, NbCanauxAssumption DEF Restant, DansTrame
  <2> QED
    BY <1>2, <2>1, <2>3, TramesPas, NbCanauxAssumption DEF Chrono, AttenteBornee
<1>4. CASE S0 /\ data_capture # 1
  BY <1>4 DEF S0, Chrono, AttenteBornee, IInv, TypeOK, Bit
<1>5. CASE ~S0
  <2>1. state # "S0" /\ (S1 \/ S2 \/ S3 \/ S4 \/ S5)
    BY <1>1, <1>5 DEF S1, S2, S3, S4, S5
  <2>2. pll >= 2 /\ pll + Restant = DureeScan + 2 /\ Restant \in Nat \ {0}
    BY <2>1, RestantPositif DEF Chrono
  <2>3. data_capture = 0
    BY <1>2, <2>2 DEF Cadence, IInv, TypeOK, Bit
  <2>4. Restant' = Restant - 1 /\ AttenteBornee'
    BY <1>1, <2>1, <2>3, UnDeMoins
  <2>5. pll' = pll + 1
    BY <1>2, <2>2
  <2> QED
    BY <1>2, <2>2, <2>4, <2>5 DEF Chrono
<1> QED
  BY <1>3, <1>4, <1>5

\* All that the slave keeps true.
SlaveInv == IInv /\ Repos /\ AttenteBornee /\ Cadence /\ Chrono

LEMMA SlaveDebut == ScanDansPeriode /\ IInit => SlaveInv
<1> SUFFICES ASSUME ScanDansPeriode, IInit PROVE SlaveInv
  OBVIOUS
<1>1. IInv /\ Repos
  BY InitIInv DEF IInit, Init, Repos
<1> QED
  BY <1>1, PeriodeBornee
  DEF IInit, Init, SlaveInv, AttenteBornee, Cadence, Chrono, Bit

LEMMA SlavePas == ScanDansPeriode /\ SlaveInv /\ [INext]_ivars => SlaveInv'
<1> SUFFICES ASSUME ScanDansPeriode, SlaveInv, [INext]_ivars PROVE SlaveInv'
  OBVIOUS
<1>1. IInv' /\ Repos'
  BY PasDuBloc, PasIInv DEF SlaveInv, IInv
<1>2. CASE Cycle(UNCHANGED registres)
  BY <1>1, <1>2, CadenceCycle, ChronoCycle DEF Cycle, SlaveInv
<1>3. ASSUME NEW v \in Ecritures, Cycle(Ecrire(v)) PROVE SlaveInv'
  BY <1>1, <1>3, CadenceCycle, ChronoCycle DEF Cycle, SlaveInv
<1>4. CASE CycleReset
  <2>1. UNCHANGED <<state, channel, wait_tick_cnt, data_bit_index, data_capture,
                    s_clock_2Khz_prev, pll>>
    BY <1>4 DEF CycleReset, FrontMontant, fsm
  <2> QED
    BY <1>1, <2>1 DEF SlaveInv, AttenteBornee, Cadence, Chrono, Restant, Trames, DansTrame
<1>5. CASE DemiCycle \/ IFinReset \/ UNCHANGED ivars
  <2>1. UNCHANGED <<state, channel, wait_tick_cnt, data_bit_index, data_capture,
                    s_clock_2Khz_prev, pll>>
    BY <1>5 DEF DemiCycle, IFinReset, FrontDescendant, FinReset, fsm, ivars, vars
  <2> QED
    BY <1>1, <2>1 DEF SlaveInv, AttenteBornee, Cadence, Chrono, Restant, Trames, DansTrame
<1>6. CASE IReset
  <2>1. /\ state' = "S0" /\ s_clock_2Khz_prev' = 0 /\ data_capture' = 0
        /\ pll' = DemiPeriode
    BY <1>6 DEF IReset, Reset
  <2> QED
    BY <1>1, <2>1, PeriodeBornee DEF SlaveInv, AttenteBornee, Cadence, Chrono, Bit
<1> QED
  BY <1>2, <1>3, <1>4, <1>5, <1>6 DEF INext

THEOREM Esclave == ASSUME ScanDansPeriode PROVE ISpec => []SlaveInv
<1>1. IInit => SlaveInv
  BY SlaveDebut
<1>2. SlaveInv /\ [INext]_ivars => SlaveInv'
  BY SlavePas
<1> QED
  BY <1>1, <1>2, PTL DEF ISpec

\* If a scan is shorter than a period of the 2 kHz clock, by three cycles, each
\* trigger finds the machine idle: none is lost, resets included.
THEOREM AucunePerte ==
    ASSUME ScanDansPeriode PROVE ISpec => []CaptureJamaisPerdue
<1>1. SlaveInv => CaptureJamaisPerdue
  BY PeriodeBornee DEF SlaveInv, Cadence, Chrono, CaptureJamaisPerdue
<1>2. ISpec => []SlaveInv
  BY Esclave
<1> QED
  BY <1>1, <1>2, PTL

\* If it is shorter than half a period, the second half is quiet and the vector
\* is then that of the published bytes.
THEOREM SecondeMoitie ==
    ASSUME ScanDansDemiPeriode PROVE ISpec => []ReposAvantCapture
<1>1. ScanDansPeriode
  BY DemiPeriodeAssumption, TramesPas, NbCanauxAssumption
  DEF ScanDansDemiPeriode, ScanDansPeriode
<1>2. SlaveInv /\ VecteurPublie => ReposAvantCapture
  <2> SUFFICES ASSUME SlaveInv, VecteurPublie, pll \in DemiPeriode .. 2 * DemiPeriode - 1
               PROVE  /\ ~EnTrame /\ data_capture = 0
                      /\ ~interrompu => \A k \in Capteurs : Haut(data[k]) = datar[k]
    BY DEF ReposAvantCapture
  <2>1. DemiPeriode \in Nat /\ DemiPeriode >= 2 /\ DureeScan \in Nat
    BY <1>1, PeriodeBornee
  <2>2. ~EnTrame
    <3> SUFFICES ASSUME EnTrame PROVE FALSE
      OBVIOUS
    <3>1. Restant >= 2 /\ Restant \in Nat /\ state # "S0"
      BY RestantPositif DEF SlaveInv, EnTrame
    <3> QED
      BY <2>1, <3>1 DEF SlaveInv, Chrono, ScanDansDemiPeriode
  <2>3. data_capture = 0
    BY <2>1 DEF SlaveInv, Cadence, IInv, TypeOK, Bit
  <2> QED
    BY <2>2, <2>3 DEF VecteurPublie
<1>3. ISpec => []SlaveInv
  BY <1>1, Esclave
<1>4. ISpec => []VecteurPublie
  BY BlocDansEsclave, PublishedVector
<1> QED
  BY <1>2, <1>3, <1>4, PTL

-----------------------------------------------------------------------------
(* The instant of the publication.                                         *)

\* In the half period that follows a rise of the 2 kHz clock there has been no
\* reset, so that its trigger has been taken and its scan is under way or done.
Ponctuel ==
    /\ pll < DemiPeriode => reset_n = 1
    /\ pll = 1 => data_capture = 1
    /\ pll \in 2 .. DureeScan + 1 /\ pll < DemiPeriode => state # "S0"
    /\ state = "S5" => data_ready = 1
    /\ data_ready = 1 => state = "S5" \/ (state = "S0" /\ pll \in {DureeScan + 2, DemiPeriode})
    /\ pll = DureeScan + 2 /\ pll < DemiPeriode => data_ready = 1

LEMMA DemiPeriodeLarge ==
    ASSUME ScanDansDemiPeriode
    PROVE  ScanDansPeriode /\ DureeScan \in Nat /\ DemiPeriode \in Nat
           /\ DureeScan >= 46 /\ DureeScan < DemiPeriode
<1>1. DureeScan = Trames(0) + DureeTrame + 1 /\ DureeTrame \in Nat /\ DureeTrame >= 15
  BY TramesPas
<1>2. /\ Trames(0) = Trames(1) + DureeTrame /\ Trames(1) = Trames(2) + DureeTrame
      /\ Trames(2) \in Nat
  BY TramesPas, NbCanauxAssumption
<1> QED
  BY <1>1, <1>2, DemiPeriodeAssumption DEF ScanDansDemiPeriode, ScanDansPeriode

LEMMA PonctuelDebut == ScanDansDemiPeriode /\ IInit => Ponctuel
BY DemiPeriodeLarge DEF IInit, Init, Ponctuel

\* Only the state S5 has one cycle left.
LEMMA RestantUn ==
    ASSUME IInv, AttenteBornee, state # "S0"
    PROVE  Restant = 1 <=> state = "S5"
BY RestantPositif DEF Restant, EnTrame, IInv, TypeOK

LEMMA PonctuelCycle ==
    ASSUME ScanDansDemiPeriode, SlaveInv, Ponctuel, reset_n = 1,
           FrontMontant, Capture, pll' = (pll + 1) % (2 * DemiPeriode), Chrono'
    PROVE  Ponctuel'
<1>1. Haute /\ (S0 \/ S1 \/ S2 \/ S3 \/ S4 \/ S5) /\ reset_n' = 1
  BY DEF FrontMontant, Haute, Capture, Bit
<1>2. /\ DemiPeriode \in Nat /\ DureeScan \in Nat /\ DureeScan >= 46 /\ DureeScan < DemiPeriode
      /\ pll \in 0 .. 2 * DemiPeriode - 1
      /\ pll' = IF pll + 1 = 2 * DemiPeriode THEN 0 ELSE pll + 1
  BY DemiPeriodeLarge, CadenceCycle DEF SlaveInv, Cadence
<1>3. /\ data_capture = 1 => pll = 1
      /\ data_capture \in Bit /\ data_ready \in Bit
      /\ state \in {"S0", "S1", "S2", "S3", "S4", "S5"}
  BY DEF SlaveInv, Cadence, IInv, TypeOK
<1>4. pll' = 1 => data_capture' = 1
  BY <1>2 DEF Capture, SlaveInv, Cadence, s_clock_2Khz, Bit
<1>5. CASE state = "S0"
  <2>1. S0
    BY <1>1, <1>5 DEF S1, S2, S3, S4, S5
  <2>2. data_ready' = 0 /\ state' = (IF data_capture = 1 THEN "S1" ELSE "S0")
    BY <1>3, <1>5, <2>1 DEF S0, Bit
  <2>3. pll \notin 2 .. DureeScan + 1 \/ pll >= DemiPeriode
    BY <1>2, <1>5 DEF Ponctuel
  <2>4. pll = 1 => data_capture = 1
    BY DEF Ponctuel
  <2> QED
    BY <1>1, <1>2, <1>4, <2>2, <2>3, <2>4 DEF Ponctuel
<1>6. CASE state # "S0"
  <2>1. /\ pll >= 2 /\ pll + Restant = DureeScan + 2 /\ Restant \in Nat \ {0}
        /\ Restant = 1 <=> state = "S5"
    BY <1>6, RestantPositif, RestantUn DEF SlaveInv, Chrono
  <2>2. data_capture = 0 /\ pll' = pll + 1
    BY <1>2, <1>3, <2>1 DEF Bit
  <2>3. CASE state = "S5"
    <3>1. state' = "S0" /\ data_ready' = 1
      BY <1>1, <2>2, <2>3 DEF S0, S1, S2, S3, S4, S5, Ponctuel
    <3> QED
      BY <1>1, <1>2, <1>4, <2>1, <2>2, <2>3, <3>1 DEF Ponctuel
  <2>4. CASE state # "S5"
    <3>1. /\ state' # "S0" /\ (state' = "S5" => data_ready' = 1)
          /\ (state' # "S5" => data_ready' = data_ready)
      BY <1>1, <1>6, <2>4 DEF S0, S1, S2, S3, S4, S5
    <3>2. data_ready # 1
      BY <1>6, <2>4 DEF Ponctuel
    <3>3. pll < DureeScan + 1
      BY <1>2, <2>1, <2>4
    <3> QED
      BY <1>1, <1>2, <1>3, <1>4, <2>1, <2>2, <3>1, <3>2, <3>3 DEF Ponctuel
  <2> QED
    BY <2>3, <2>4
<1> QED
  BY <1>5, <1>6

LEMMA PonctuelPas ==
    ASSUME ScanDansDemiPeriode, SlaveInv, Ponctuel, [INext]_ivars, SlaveInv'
    PROVE  Ponctuel'
<1>1. CASE Cycle(UNCHANGED registres)
  BY <1>1, PonctuelCycle DEF Cycle, SlaveInv
<1>2. ASSUME NEW v \in Ecritures, Cycle(Ecrire(v)) PROVE Ponctuel'
  BY <1>2, PonctuelCycle DEF Cycle, SlaveInv
<1>3. CASE CycleReset
  BY <1>3 DEF CycleReset, FrontMontant, fsm, Ponctuel
<1>4. CASE DemiCycle \/ IFinReset \/ UNCHANGED ivars
  BY <1>4, DemiPeriodeLarge DEF DemiCycle, IFinReset, FrontDescendant, FinReset, fsm, ivars, vars, Ponctuel
<1>5. CASE IReset
  BY <1>5, DemiPeriodeLarge DEF IReset, Reset, Ponctuel
<1> QED
  BY <1>1, <1>2, <1>3, <1>4, <1>5 DEF INext

\* If a scan is shorter than half a period, each half period without a reset
\* has its publication at its cycle, and data_ready shows it for two.
THEOREM ALHeure ==
    ASSUME ScanDansDemiPeriode PROVE ISpec => []PublicationALHeure
<1>1. ScanDansPeriode
  BY DemiPeriodeLarge
<1>2. ISpec => []SlaveInv
  BY <1>1, Esclave
<1>3. IInit => Ponctuel
  BY PonctuelDebut
<1>4. SlaveInv /\ Ponctuel /\ [INext]_ivars /\ SlaveInv' => Ponctuel'
  BY PonctuelPas
<1>5. SlaveInv /\ Ponctuel => PublicationALHeure
  <2> SUFFICES ASSUME SlaveInv, Ponctuel PROVE PublicationALHeure
    OBVIOUS
  <2>1. state # "S0" => pll + Restant = DureeScan + 2 /\ Restant \in Nat \ {0}
                        /\ (Restant = 1 <=> state = "S5")
    BY RestantPositif, RestantUn DEF SlaveInv, Chrono
  <2>2. DureeScan \in Nat /\ DemiPeriode \in Nat /\ pll \in Nat /\ DureeScan >= 46
    BY DemiPeriodeLarge DEF SlaveInv, Cadence
  <2> QED
    BY <2>1, <2>2 DEF Ponctuel, PublicationALHeure
<1> QED
  BY <1>2, <1>3, <1>4, <1>5, PTL DEF ISpec

-----------------------------------------------------------------------------
(* The two programs on the slave.                                          *)

\* The program counter and the sensor of the calibration.
Programmes ==
    prog \in {"suivi", "seuil"} /\ pc \in {"ecrire", "lire"} /\ i \in Capteurs

LEMMA ProgrammesDebut == PInit => Programmes
BY NbCanauxAssumption DEF PInit, Programmes, Capteurs

LEMMA ProgrammesPas == Programmes /\ [PNext]_pvars => Programmes'
<1> SUFFICES ASSUME Programmes, [PNext]_pvars PROVE Programmes'
  OBVIOUS
<1>1. 0 \in Capteurs
  BY NbCanauxAssumption DEF Capteurs
<1>2. CASE EcrireNiveau \/ LireVecteur \/ EcrireCanal
  BY <1>2 DEF EcrireNiveau, LireVecteur, EcrireCanal, Programmes
<1>3. CASE LireOctet
  <2>1. (i + 1) % (NbCanaux - 1) \in Capteurs
    <3>1. i + 1 \in Nat /\ NbCanaux - 1 \in Nat \ {0}
      BY NbCanauxAssumption DEF Programmes, Capteurs
    <3>2. \A a \in Nat, b \in Nat \ {0} : a % b \in 0 .. b - 1
      OBVIOUS
    <3>3. (i + 1) % (NbCanaux - 1) \in 0 .. (NbCanaux - 1) - 1
      BY <3>1, <3>2
    <3> QED
      BY <3>3, NbCanauxAssumption DEF Capteurs
  <2> QED
    BY <1>3, <2>1 DEF LireOctet, Programmes
<1>4. CASE Telecharger \/ PReset
  BY <1>1, <1>4 DEF Telecharger, PReset, Depart, Programmes
<1>5. CASE Calcul \/ Horloge \/ UNCHANGED pvars
  BY <1>5 DEF Calcul, Horloge, progvars, pvars, Programmes
<1> QED
  BY <1>2, <1>3, <1>4, <1>5 DEF PNext

\* The programs use the slave as InterfaceCapteurs lets it be used: what is
\* proved of the slave holds while they run, are reset and replaced.
THEOREM ProgrammesSurEsclave == ASSUME MotsDesProgrammes PROVE PSpec => ISpec
<1>1. PInit => IInit /\ Programmes
  BY ProgrammesDebut DEF PInit
<1>2. Programmes /\ [PNext]_pvars => [INext]_ivars
  <2> SUFFICES ASSUME Programmes, [PNext]_pvars PROVE [INext]_ivars
    OBVIOUS
  <2>1. CASE EcrireNiveau
    BY <2>1 DEF EcrireNiveau, INext, MotsDesProgrammes
  <2>2. CASE EcrireCanal
    BY <2>2 DEF EcrireCanal, INext, MotsDesProgrammes, Programmes
  <2>3. CASE LireVecteur \/ LireOctet \/ Calcul \/ Telecharger
    BY <2>3 DEF LireVecteur, LireOctet, Calcul, Telecharger, INext
  <2>4. CASE PReset \/ Horloge
    BY <2>4 DEF PReset, Horloge, INext
  <2>5. CASE UNCHANGED pvars
    BY <2>5 DEF pvars
  <2> QED
    BY <2>1, <2>2, <2>3, <2>4, <2>5 DEF PNext
<1>3. Programmes /\ [PNext]_pvars => Programmes'
  BY ProgrammesPas
<1> QED
  BY <1>1, <1>2, <1>3, PTL DEF PSpec, ISpec

\* If the level is neither a sensor number nor wider than the register, a
\* program that is about to read finds the mode it asked for.
THEOREM ModeGaranti ==
    ASSUME Niveau \in NbCanaux - 1 .. 255 PROVE PSpec => []ModeDemande
<1>0. Niveau \notin Capteurs /\ Niveau % 256 = Niveau
  <2>1. Niveau \in 0 .. 255 /\ NbCanaux \in 2 .. 8 /\ Niveau >= NbCanaux - 1
    BY NbCanauxAssumption
  <2> QED
    BY <2>1 DEF Capteurs
<1>1. PInit => ModeDemande
  BY DEF PInit, ModeDemande
<1>2. Programmes /\ ModeDemande /\ [PNext]_pvars => ModeDemande'
  <2> SUFFICES ASSUME Programmes, ModeDemande, [PNext]_pvars PROVE ModeDemande'
    OBVIOUS
  <2> USE DEF ModeDemande
  <2>1. CASE EcrireNiveau
    BY <1>0, <2>1 DEF EcrireNiveau, Cycle, Ecrire, Vecteur
  <2>2. CASE EcrireCanal
    BY <2>2 DEF EcrireCanal, Cycle, Ecrire, Programmes
  <2>3. CASE LireVecteur
    BY <2>3 DEF LireVecteur, Cycle, registres, Vecteur
  <2>4. CASE LireOctet \/ Telecharger \/ PReset
    BY <2>4 DEF LireOctet, Telecharger, PReset, Depart
  <2>5. CASE Calcul \/ Horloge \/ UNCHANGED pvars
    BY <2>5 DEF Calcul, Horloge, Cycle, CycleReset, DemiCycle, IFinReset,
                registres, progvars, pvars, ivars, Vecteur
  <2> QED
    BY <2>1, <2>2, <2>3, <2>4, <2>5 DEF PNext
<1>3. PInit => Programmes
  BY ProgrammesDebut
<1>4. Programmes /\ [PNext]_pvars => Programmes'
  BY ProgrammesPas
<1> QED
  BY <1>1, <1>2, <1>3, <1>4, PTL DEF PSpec

LEMMA MotLu ==
    ASSUME ITypeOK PROVE readdata.bas \in Octet \cup [Capteurs -> Bit]
<1>1. /\ datar \in [Capteurs -> Octet] /\ s_channel_select \in 0 .. Vecteur
      /\ NbCanaux \in 2 .. 8
  BY NbCanauxAssumption DEF ITypeOK, TypeOK
<1>2. CASE s_channel_select = Vecteur
  <2>1. \A k \in Capteurs : vect_capt(k, s_niveau) \in Bit
    BY DEF vect_capt, Bit
  <2> QED
    BY <1>2, <2>1 DEF readdata
<1>3. CASE s_channel_select # Vecteur
  <2>1. s_channel_select \in Capteurs
    BY <1>1, <1>3 DEF Vecteur, Capteurs
  <2> QED
    BY <1>1, <1>3, <2>1 DEF readdata
<1> QED
  BY <1>2, <1>3

\* A program only ever reads a byte or a vector.
THEOREM TypesDesProgrammes == ASSUME MotsDesProgrammes PROVE PSpec => []PTypeOK
<1> DEFINE Lu == lu \in Octet \cup [Capteurs -> Bit]
<1>1. PInit /\ ITypeOK => Lu
  <2>1. 0 \in Capteurs
    BY NbCanauxAssumption DEF Capteurs
  <2> QED
    BY <2>1 DEF PInit, ITypeOK, TypeOK
<1>2. Lu /\ ITypeOK /\ [PNext]_pvars => Lu'
  <2> SUFFICES ASSUME Lu, ITypeOK, [PNext]_pvars PROVE Lu'
    OBVIOUS
  <2>1. lu' = lu \/ lu' = readdata.bas
    BY DEF PNext, EcrireNiveau, LireVecteur, EcrireCanal, LireOctet, Calcul,
           Telecharger, PReset, Horloge, progvars, pvars
  <2> QED
    BY <2>1, MotLu
<1>3. PSpec => []ITypeOK
  BY ProgrammesSurEsclave, RegistresBornes
<1>4. Programmes /\ [PNext]_pvars => Programmes'
  BY ProgrammesPas
<1>5. PInit => Programmes
  BY ProgrammesDebut
<1>6. Lu /\ ITypeOK /\ Programmes => PTypeOK
  BY DEF PTypeOK, Programmes
<1> QED
  BY <1>1, <1>2, <1>3, <1>4, <1>5, <1>6, PTL DEF PSpec

-----------------------------------------------------------------------------
(* What the calibration reads.                                             *)

Zero == [j \in 0 .. 7 |-> 0]

\* The measures of the scan under way and the published bytes are measures of
\* their sensors; the bytes are zeros from the power-up to the first scan.
OctetsVrais ==
    /\ \A k \in DOMAIN Lus : k \in Capteurs /\ Lus[k] \in {Haut(m) : m \in Mesures[k]}
    /\ \A k \in Capteurs : datar[k] \in {Haut(m) : m \in Mesures[k]} \cup {Zero}

\* It holds of Acquisition, which knows no bits and no frames.
LEMMA OctetsPas ==
    ASSUME OctetsVrais, [Acq!Next]_(Acq!vars)
    PROVE  OctetsVrais'
<1>1. CASE Acq!Declencher \/ Acq!Acquitter \/ UNCHANGED Acq!vars
  <2>1. Lus' = Lus /\ datar' = datar
    BY <1>1 DEF Acq!Declencher, Acq!Acquitter, Acq!vars
  <2> QED
    BY <2>1 DEF OctetsVrais
<1>2. ASSUME NEW k \in Capteurs, Acq!Mesurer(k) PROVE OctetsVrais'
  <2>1. PICK v \in {Haut(m) : m \in Mesures[k]} :
            Lus' = [j \in DOMAIN Lus \cup {k} |-> IF j = k THEN v ELSE Lus[j]]
    BY <1>2 DEF Acq!Mesurer
  <2>2. datar' = datar
    BY <1>2 DEF Acq!Mesurer
  <2> QED
    BY <2>1, <2>2 DEF OctetsVrais
<1>3. CASE Acq!Publier
  <2>1. DOMAIN Lus = Capteurs /\ datar' = Lus /\ Lus' = Acq!Vide
    BY <1>3 DEF Acq!Publier
  <2> QED
    BY <2>1 DEF OctetsVrais, Acq!Vide
<1>4. CASE Acq!Abandonner
  <2>1. datar' = datar /\ Lus' = Acq!Vide
    BY <1>4 DEF Acq!Abandonner
  <2> QED
    BY <2>1 DEF OctetsVrais, Acq!Vide
<1> QED
  BY <1>1, <1>2, <1>3, <1>4 DEF Acq!Next

LEMMA OctetsToujours == Spec => []OctetsVrais
<1>1. Init => OctetsVrais
  <2> SUFFICES ASSUME Init PROVE OctetsVrais
    OBVIOUS
  <2>1. Lus = Acq!Vide
    BY LusVide DEF Init, EnTrame
  <2> QED
    BY <2>1 DEF Init, OctetsVrais, Zero, Acq!Vide
<1>2. OctetsVrais /\ [Acq!Next]_(Acq!vars) => OctetsVrais'
  BY OctetsPas
<1> QED
  BY <1>1, <1>2, Refinement, PTL DEF Spec, Acquiert, Acq!Spec

LEMMA ModeToujours ==
    ASSUME Niveau \in NbCanaux - 1 .. 255 PROVE PSpec => [](Programmes /\ ModeDemande)
<1>1. Programmes /\ [PNext]_pvars => Programmes'
  BY ProgrammesPas
<1>2. PInit => Programmes
  BY ProgrammesDebut
<1> QED
  BY <1>1, <1>2, ModeGaranti, PTL DEF PSpec

\* The programs, the slave and the resets leave the block what it promises.
THEOREM AcquisitionSousProgrammes ==
    ASSUME MotsDesProgrammes PROVE PSpec => Acquiert /\ []VecteurPublie
<1>1. PSpec => Spec
  BY ProgrammesSurEsclave, BlocDansEsclave
<1> QED
  BY <1>1, Refinement, PublishedVector

\* Read in the middle of scans, between resets and after another program, a
\* byte that the calibration keeps is a whole measure of the sensor it asked
\* for, or the zero of the power-up.
THEOREM OctetsLus ==
    ASSUME MotsDesProgrammes, Niveau \in NbCanaux - 1 .. 255
    PROVE  PSpec => OctetsEntiers
<1>1. OctetsVrais /\ Programmes /\ ModeDemande
      => [LireOctet => lu' \in {Haut(m) : m \in Mesures[i]} \cup {[j \in 0 .. 7 |-> 0]}]_pvars
  <2> SUFFICES ASSUME OctetsVrais, Programmes, ModeDemande, LireOctet
               PROVE  lu' \in {Haut(m) : m \in Mesures[i]} \cup {[j \in 0 .. 7 |-> 0]}
    OBVIOUS
  <2>1. lu' = readdata.bas /\ s_channel_select = i /\ i \in Capteurs
    BY DEF LireOctet, ModeDemande, Programmes
  <2>2. i # Vecteur
    BY <2>1, NbCanauxAssumption DEF Capteurs, Vecteur
  <2> QED
    BY <2>1, <2>2 DEF readdata, OctetsVrais, Zero
<1>2. PSpec => []OctetsVrais
  <2>1. PSpec => Spec
    BY ProgrammesSurEsclave, BlocDansEsclave
  <2> QED
    BY <2>1, OctetsToujours, PTL
<1> QED
  BY <1>1, <1>2, ModeToujours, PTL DEF OctetsEntiers

\* A sensor whose bits are not being received shows a byte it has given, once
\* the scan has passed it or as long as no scan has been cut.
LEMMA BitVrai ==
    ASSUME OctetsVrais, VecteurPublie, NEW k \in Capteurs,
           \/ EnTrame /\ channel > k + 1
           \/ ~interrompu /\ ~(EnTrame /\ channel = k + 1 /\ adc_n > 0),
           CanalBorne, adc_n \in Nat
    PROVE  Haut(data[k]) \in {Haut(m) : m \in Mesures[k]} \cup {Zero}
<1>0. k \in Nat /\ NbCanaux \in 2 .. 8 /\ (EnTrame => channel \in 0 .. NbCanaux)
  BY NbCanauxAssumption DEF Capteurs, CanalBorne
<1>1. CASE EnTrame /\ channel > k + 1
  <2>1. k \in DOMAIN Lus /\ Lus[k] = Haut(data[k])
    BY <1>0, <1>1 DEF Lus
  <2>2. Lus[k] \in {Haut(m) : m \in Mesures[k]}
    BY <2>1 DEF OctetsVrais
  <2> QED
    BY <2>1, <2>2
<1>2. CASE ~(EnTrame /\ channel > k + 1)
  <2>1. ~interrompu /\ (~EnTrame \/ channel <= k \/ (channel = k + 1 /\ adc_n = 0))
    BY <1>0, <1>2
  <2>2. Haut(data[k]) = datar[k]
    BY <2>1 DEF VecteurPublie
  <2> QED
    BY <2>2 DEF OctetsVrais
<1> QED
  BY <1>1, <1>2

\* Whatever the instant of the read, each bit of the vector but that of the
\* sensor being received is the threshold of a byte its sensor has given.
THEOREM VecteurLu ==
    ASSUME MotsDesProgrammes, Niveau \in NbCanaux - 1 .. 255
    PROVE  PSpec => SeuillageFidele
<1> DEFINE Hypothese(k) ==
      \/ EnTrame /\ channel > k + 1
      \/ ~interrompu /\ ~(EnTrame /\ channel = k + 1 /\ adc_n > 0)
<1>1. PSpec => [](OctetsVrais /\ VecteurPublie /\ IInv)
  <2>1. PSpec => Spec
    BY ProgrammesSurEsclave, BlocDansEsclave
  <2> QED
    BY <2>1, OctetsToujours, PublishedVector, Invariance, PTL
<1>2. OctetsVrais /\ VecteurPublie /\ IInv /\ Programmes /\ ModeDemande
      => [LireVecteur =>
           \A k \in Capteurs :
              \/ EnTrame /\ channel > k + 1
              \/ ~interrompu /\ ~(EnTrame /\ channel = k + 1 /\ adc_n > 0)
              => \E o \in {Haut(m) : m \in Mesures[k]} \cup {[j \in 0 .. 7 |-> 0]} :
                    lu'[k] = IF Valeur(o) > Niveau THEN 1 ELSE 0]_pvars
  <2> SUFFICES ASSUME OctetsVrais, VecteurPublie, IInv, Programmes, ModeDemande,
                      LireVecteur, NEW k \in Capteurs, Hypothese(k)
               PROVE  \E o \in {Haut(m) : m \in Mesures[k]} \cup {Zero} :
                         lu'[k] = IF Valeur(o) > Niveau THEN 1 ELSE 0
    BY DEF Zero
  <2>1. lu' = readdata.bas /\ s_channel_select = Vecteur /\ s_niveau = Niveau
    BY DEF LireVecteur, ModeDemande
  <2>2. lu'[k] = IF Valeur(Haut(data[k])) > Niveau THEN 1 ELSE 0
    BY <2>1 DEF readdata, vect_capt
  <2>3. CanalBorne /\ adc_n \in Nat
    BY DEF IInv, TypeOK, Alignement, DataBits
  <2>4. Haut(data[k]) \in {Haut(m) : m \in Mesures[k]} \cup {Zero}
    BY <2>3, BitVrai
  <2> QED
    BY <2>2, <2>4
<1> QED
  BY <1>1, <1>2, ModeToujours, PTL DEF SeuillageFidele
=============================================================================
