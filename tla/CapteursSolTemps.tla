-------------------------- MODULE CapteursSolTemps --------------------------
(***************************************************************************)
(* CapteursSol with the time since the last conversion was started, to     *)
(* compare the wait of state S2 with what the converter needs.             *)
(***************************************************************************)
EXTENDS CapteursSol

CONSTANTS
    Periode,     \* of the clock, in ns: CLOCK_DUR = 25 in the block,
                 \* 20 for the 50 MHz clock the system gives it
    TempsMax     \* bound: the time counted saturates there, in ns

TempsConversion == 1600     \* "1.6 us = 1600 ns"

ASSUME TempsAssumption ==
    /\ Periode \in Nat \ {0}
    /\ TempsMax \in Nat /\ TempsMax > TempsConversion

VARIABLE depuis              \* ns since CONVST rose

tvars == <<vars, depuis>>

TInit == Init /\ depuis = TempsMax

Compter ==
    depuis' = IF ADC_CONVST = 0 /\ ADC_CONVST' = 1 THEN 0
              ELSE IF depuis + Periode < TempsMax THEN depuis + Periode
              ELSE TempsMax

TNext ==
    \/ Montee /\ Compter
    \/ Descente /\ UNCHANGED depuis
    \/ DebutReset /\ UNCHANGED depuis
    \/ RelacheReset /\ UNCHANGED depuis

TSpec == TInit /\ [][TNext]_tvars

\* From the rise of CONVST: state S1, Attente + 1 cycles of S2, the first of S3.
AttenteSuffit == (Attente + 3) * Periode >= TempsConversion

\* CONVST_WAIT_CLOCK_NUM (line 48) is there so that no bit is clocked out
\* before the 1.6 us of a conversion have passed.
ConversionFinie == spi_clk_enable = 1 => depuis >= TempsConversion
=============================================================================
