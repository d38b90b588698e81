# A verification development for the CUTE-CAR line follower

The repository holds a robot built on an Altera DE0-Nano: a Nios II system-on-chip with two
hand-written Avalon peripherals in VHDL (floor sensors, motor PWM) and the C programs that run
on it, over the vendor's HAL. `src/version5_1/` is the final version; `version1` .. `version5` are
earlier stages of the same files. This directory models in TLA+ the hand-written parts and the two
drivers of the HAL the programs depend on, checks small and real-size instances with TLC and
proves the main invariants with TLAPS.

The names of the models are those of the sources, French included.

## 1. Inventory

### Components

| Component | Source (under `src/version5_1/SoC/` unless said) | State | Operations |
|---|---|---|---|
| Floor-sensor block | `IP_Cores/CapteurSol/capteurs_sol_seuil.vhd` | machine state S0..S5, `channel`, wait and bit counters, SPI outputs, 8 shift registers, 7 published bytes | scan on a trigger: 9 serial frames, then a publication; asynchronous reset; combinational thresholds |
| Sensor slave | `IP_Cores/CapteurSol/interface_capteurs.vhd` | level, sensor selection, previous level of the 2 kHz clock, trigger | Avalon write (level or selection), Avalon read (vector or byte), one-cycle trigger per 2 kHz period |
| LTC2308 converter | outside the repository | selected channel, word being shifted out | sample on the rise of CONVST, shift on SCK |
| Calibration | `src/seuil.c` | index of the sensor | select a sensor, read its byte, print |
| Line follower | `Finaleversion/hello_world.c` | last error, integral, `Kp`, speed | read the vector, PID, mixing, trim, dead zone, write the PWM word |
| PWM register and generator | `IP_Cores/PWM/pwm_avalon_interface.vhd`, `PWM_generation.vhd` | command word, counter, two outputs | Avalon write, count, reset |
| Motor bench | `src/calibration.c` | two speeds, the PWM word | keyboard commands, clamps, write the PWM word |
| First PID controller | `src/TP/pid.c` | last error, integral | as the follower: constant gains, no reset of the integral, saturation |
| JTAG UART | `Finaleversion/BSP/drivers/src/altera_avalon_jtag_uart_*.c`, `nios_sys_jtag_uart.v` | two rings, the interrupt mask, the count of seconds without a host; two FIFOs and two bits in the core | write, read, close, ioctl; interrupt routine; callback of each second |
| HAL alarms | `Finaleversion/BSP/HAL/src/alt_alarm_start.c`, `alt_tick.c` | tick counter, list of alarms | start, stop, tick |
| Draft of the controller | `src/TP/pid_1.c` | | a loop body without its functions |
| Hard-coded PWM test | `Test_Robot_Hardcoded.vhd`, `PWM_generation.vhd` | counter, two outputs | count, never reset |
| Registers of the first exercise | `IP_Cores/reg_16/*.vhd`, `IP_Cores/PWM/reg32.vhd` | 16 or 32 bits | write with byte enables |
| Top level | `TPSoC.vhd` | none | wiring: 50 MHz clock, reset button, pins |
| Generated system | `nios_system/`, rest of `Finaleversion/BSP/` | Nios II, SDRAM, timers, rest of the HAL | generated by the vendor's tools |

### How they interact

```
 KEY0 --reset--+------------------+-----------------+
               |                  |                 |
 LTC2308 <-SPI-> capteurs_sol_seuil <-- interface_capteurs <-Avalon- program -Avalon-> pwm_avalon_interface -> bridges
                      ^ trigger          ^ 2 kHz (PLL)                  | printf, scanf
                                                                        |
                              host <-cable-> FIFOs <-interrupt-> rings of the JTAG UART driver
                                                                        ^ each second: HAL alarm
```

The program is `hello_world.c`, `pid.c`, `calibration.c` or `seuil.c`.


The block is driven by the slave (level, trigger) and read through it. The programs never wait
for a scan: they write and read registers whenever they get there, on the same clock as the
block. The programs are exchanged by a JTAG download that resets the processor but not the
peripherals; the button resets everything. What they print goes through the JTAG UART: the program
fills a ring that an interrupt routine empties, without a lock, and waits when it is full.

### What is hard in it

* **Two edges of one clock.** The machine steps on the rising edge of `clk`, the shift registers
  on the falling one (`ADC_SCK = not clk`), half a period after the bit counter.
* **A pipeline.** The word sent in frame *c* selects the channel converted for frame *c + 1*.
* **Torn reads.** The vector the follower reads is computed from the shift registers, the bytes the
  calibration reads from registers published at once.
* **Open-loop timing.** The conversion is waited for with a count of cycles; the trigger is a
  one-cycle pulse nobody records.
* **Resets anywhere**, which stop a scan but keep `channel`, `data_ready`, the data and the
  converter's state.
* **State left behind by another program** in the slave.
* **A speed rewritten at any cycle** of a PWM period.
* **Latches and wind-up** in the controller: a gain and a speed that only change one way, an
  integral cleared only by a direct change of sign.
* **Truncations, trim, dead zone, clamp and a bit field** in a row.
* **Rings without a lock**, shared by the program and the interrupt routine, each turning on and off
  the interrupts the other relies on.
* **A host that comes and goes**, found out by a callback of each second, when there is a clock.
* **A counter that turns over**, with alarms on both sides of the turn.

`PROJECT.json` lists each of these hazards at its line with the properties that watch it.

### What makes each component correct

* Block: the bits received belong to the channel and the position the machine believes
  (`Alignement`), a publication is one measure of each sensor of the same scan (`Acquiert`),
  scans end (`BalayageAboutit`), conversions are given their time (`ConversionFinie`).
* Slave: no trigger is lost (`CaptureJamaisPerdue`), a scan ends well before the next one
  (`ReposAvantCapture`), a publication comes in each half period and shows for two cycles
  (`PublicationALHeure`), scans keep coming (`ScansRecurrents`).
* Programs on the slave: a read is made in the mode the program asked for (`ModeDemande`), a byte
  is never read in the making (`OctetsEntiers`), and in the vector, which may be, at most the bit of
  the sensor being received is not that of a measure (`SeuillageFidele`).
* PWM: the high time follows the speeds written (`DureeEncadree`), pulses keep coming (`Impulsions`).
* Follower: the car turns to the line (`VirageEnerve`, `RechercheDuBonCote`), the derivative brakes
  (`Frein`), the word written means what the controller asked (`TraductionFidele`, `Mixage`).
* First controller: the same (`VirageTP`, `FreinTP`, `TraductionTP`), with gains that need no condition
  on the past.
* Motor bench: the speeds shown are those written (`AffichageVrai`), ramps keep the balance set, except
  that a bound may narrow it (`EquilibreGarde`).
* JTAG UART: each direction is a bounded channel that keeps the order (`EmissionFidele`,
  `ReceptionFidele`); no interrupt stays off with work to do and no wait misses the move it is for
  (`EmissionArmee`, `ReceptionRearmee`); calls come back and bytes arrive
  (`RetourEcriture`, `RetourLecture`, `Livraison`).
* Alarms: each one calls back at its tick (`Echeance`, `Ponctualite`).

## 2. The modules

### `Acquisition` — what the block promises

Idle or scanning; `lus`, the measures made in the scan under way; `publie`, the published bytes;
`pret`. A scan measures every sensor once and publishes all the measures in one step; a reset
abandons it. Nothing is said of the link, of frames or of clocks.

### `CapteursSol` — `capteurs_sol_seuil.vhd`

One action per state of the machine (`S0` .. `S5`), composed into `FrontMontant` (process
`v2v_pr_1`, with the asynchronous reset seen at the edge) and `FrontDescendant` (the process on
`ADC_SCK`); `Reset` and `FinReset` are the button, at any level of the clock. `data_capture` is an
input: `Montee` lets it take any value at each rising edge. The LTC2308 is the operators
`Selection`, `Conversion` and `ADC_SDO` and three variables: bits received in the frame, the
configuration received, the word being shifted out. When a reset has cut a frame before six
bits, the selection of the next conversion is any channel.

Words are functions from positions to bits: the alignment is what is at stake. `interrompu` is a
history variable: a reset cut a scan and none was published since; no action reads it.

`Acq` instantiates `Acquisition` with the refinement mapping: a scan is under way in S1..S4; the
measure of channel *k* has been made when `channel > k`, and is in the converter while
`channel = k + 1`, in the shift register after.

### `CapteursSolTemps`

`CapteursSol` with the time since `CONVST` rose (`depuis`), counted in periods of the clock and
saturated at `TempsMax`; resets included.

### `InterfaceCapteurs` — `interface_capteurs.vhd`

EXTENDS `CapteursSol`. A cycle is one rising edge for slave and block together: the block sees the
trigger registered in the previous cycle. `pll` counts the cycles of a 2 kHz period. A bus access
is at most one write per cycle; a read is the operator `readdata`, in any cycle:
bit 31 (`data_ready`) and the low bits, the vector or a byte. Both programs mask bit 31.

### `ProgrammesCapteurs` — bus accesses of `hello_world.c` and `seuil.c`

Each program is its sequence of accesses, with any number of cycles between two (`Calcul`: the
computation, `printf`, `usleep`). `Telecharger` starts the other program at any cycle and leaves
the slave alone; `PReset` is the button.

### `PwmGeneration` — `pwm_avalon_interface.vhd` and `PWM_generation.vhd`

One step per rising edge; the comparison uses the command registered before the edge. The
register resets at once, the generator on the next edge, as in the code. The history `haut`,
`vmin`, `vmax` counts the high cycles and the extreme speeds of the period under way.

### `Pilotage` and `SuiviLigne` — `hello_world.c`

`Pilotage` holds the low-level functions, as operators from signed commands to the fields of the
word. `SuiviLigne` has one action, a whole pass of the loop (`Tour`), because nothing else runs on
the processor: sensors as a set, error, derivative, integral, latches, correction, mixing, word.
Floats are exact rationals: `Ki = 1/5` and the conversions to `int` truncate towards zero. This
is exact for the values the program can reach: the correction was compared with single-precision
arithmetic for every gain, error, derivative and integral, and `(int)(cmd * 1.18)` with
double precision for every command.

`Pilotage` also has what both controllers' properties say of a word (`Signee`, `MemeSigne`).

### `BancMoteurs` — `calibration.c`

One action per key (`Touche`): `scanf` waits for it and nothing else runs. The register starts with what
the program before left there, because a download does not reset it: the first prompt shows 1600
whatever it holds, and `AffichageVrai` is claimed from the first key on.

### `ControleurTP` — `TP/pid.c`

One action, a pass of the loop (`TourTP`), with the low-level functions of `Pilotage` (the two programs
have the same ones) and its own saturation, gains and mixing. `correction_pid` is the value after the
conversion to `int`; it and the trim were compared with single- and double-precision arithmetic for
every error, derivative, integral and command. Its accesses to the sensors are those of
`hello_world.c` in `ProgrammesCapteurs`.

### `Canal` and `UartJtag` — the JTAG UART

`Canal` is what one direction promises: a bounded FIFO whose bytes are numbered modulo `K` as they are
accepted and are delivered in that order, several at a time.

`UartJtag` is the interrupt-driven driver of the BSP. A call is a sequence of actions, one per access to
what the interrupt routine shares: the reading of `tx_out` and `tx_in`, the copy, the publication of the
index, the enabling of the interrupt, the busy wait, the second look at `tx_out`. The interrupt routine is
another sequence, from the reading of the control register; while it runs the program does not. `Seconde`
is the callback of each second. The core is its two FIFOs, the condition of each interrupt (`RI`, `WI`)
and the bits `ac` and `pause_irq`. The host takes a byte, sends one, pauses, comes and goes between any two
accesses of either side. `IsrLireCroise` is a byte that arrives in the cycle of a read: the core answers
that it is not valid (`rvalid` is registered before) but counts it in `RAVAIL`, so that receive
interrupts are turned off with room in the ring, which the comment at `init.c:158` excludes;
`ReceptionRearmee` shows that it does no harm, because some byte was read before it.

The words `host_inactive` and `timeout` are not `volatile`, but the build reads them again in each turn of
the busy waits (`Finaleversion/hello_world.objdump`, 0x4005040, 0x4004e8c, 0x4004b50), so the waits are modelled
as written. `horloge` tells a BSP with a system clock (`software/HAL/v1`, 8 ticks a second) from one
without (`Finaleversion`, `ALT_SYS_CLK none` in `system.h:285`), where `alt_alarm_start` fails and `timeout` is
`INT_MAX`. `prochain_*` and `sorti_*` are history variables, the numbers of the bytes accepted and those
last delivered. Bytes are named by these numbers. A download or the button restarts the driver on FIFOs
that still hold bytes, so `Init` lets both start with any number of them.

### `Minuteries` and `Alarmes` — the alarms of the HAL

`Minuteries` promises timers that count down and call back when no tick is left. `Alarmes` is the code:
a counter modulo `N`, a time and a flag per alarm. A tick handles the whole list, as in the code;
what each callback returns is an input. The refinement gives each alarm the ticks it has left.
The delay `N - 1` is left out of `ANext`: its time is the present count, no flag is set and it comes at the
next tick, against the comment at `alt_alarm_start.c:84`. No driver asks for it.

### Mutants

Beside the definitions, operators marked `Mutant:` are the plausible bugs that each property is
tested against (a missing reset, an edge for a level, an off-by-one, exchanged motors). No
specification uses them; `PROJECT.json` says which run and property each of them breaks.

## 3. The runs

| Run | Instance | Checks | Result |
|---|---|---|---|
| `capteurs` | 3 channels, wait 2 | `TypeOK`, `Alignement`, `VecteurPublie`, `Acquiert`, `BalayageAboutit` | holds |
| `capteurs_seuillage` | same | `SeuillageDesMesures` | violated |
| `reel` | 8 channels, wait 64, 25 ns, half period 12500 | `ConversionFinie`, `PublicationALHeure` | holds |
| `capteurs_50MHz` | 8 channels, wait 64, 20 ns | `ConversionFinie` | violated |
| `interface` | 3 channels, half period 64, writes and resets | `CaptureJamaisPerdue`, `ReposAvantCapture`, `ScansRecurrents` | holds |
| `programmes` | both programs on 3 channels | `PTypeOK` (with the slave's `ITypeOK`), `ModeDemande`, `OctetsEntiers`, `SeuillageFidele` | holds |
| `pwm` | period of 6 cycles | `TypeOK`, `DureeEncadree`, `Impulsions` | holds |
| `pwm_duree` | same | `DureeEtatHaut` | violated |
| `suivi` | constants of the three motor programs | `TypeOK`, `VirageEnerve`, `Frein`, `TraductionFidele`, `Mixage`, `RechercheDuBonCote`; `AffichageVrai`, `EquilibreGarde`; `TPTypeOK`, `VirageTP`, `FreinTP`, `TraductionTP` | holds |
| `suivi_virage` | constants of `hello_world.c` | `VirageVersLaLigne` | violated |
| `hal` | rings of 3, FIFOs of 2; counter of 5, 2 alarms | `TypeOK`, `EmissionArmee`, `ReceptionRearmee`, `EmissionFidele`, `ReceptionFidele`; `ATypeOK`, `Echeance`, `Ponctualite` | holds |
| `hal_retour` | rings of 3, FIFOs of 1 and 2 | `RetourEcriture`, `RetourLecture`, `Livraison` | holds |

`MC_Moteurs` and `MC_Hal` hold programs, or drivers, that share no state in the code: a behaviour is that
of one of them, chosen at the start, and the others keep their initial state. Their invariants are then
checked on the behaviours where they move. The MC modules also assert, as `ASSUME`s that TLC evaluates,
that the constants meet the hypotheses of the theorems of section 5.

Run one with `tlc -workers 2 -config MC_CapteursSol.cfg MC_CapteursSol`.

### Bounds

* **Channels.** 3 channels give every kind of frame: the first, whose bits are dropped, one of a
  sensor with a sensor before it, the one of the channel that is not a sensor, and the last. A wait
  of 2 has a first, a middle and a last cycle. `reel` has the real 8 and 64, without resets.
* **Measures.** The words are built on bytes of the recorded calibrations (`blanc.txt`,
  `couleur_noire.txt`), with the four low bits chosen so that a word shifted by a bit, or of another
  channel, is not a measure of the channel. One channel sees the line come and go.
* **Resets.** A reset that cuts a scan is taken only if none has cut one since the last publication:
  without this the state between two publications has no more interesting values, only more of them.
* **2 kHz clock.** The scaled half period is 64 cycles for a scan of about 50, in place of 12500 for
  about 700: the margin is the tighter one. The real one is `reel`.
* **PWM.** A period of 6 cycles, stopped motors, speeds 0, 2, `total_dur - 2` and `total_dur - 1` in
  both directions, written at any cycle. The counter and the history are bounded by the period; the
  theorem of section 5 removes the bound.
* **Follower.** The constants are those of the program. The vector may change to any other in a pass:
  one sensor, two adjacent ones, or none. Nine of the 13 errors are covered: 0, those up to 3, where
  the speed and the gains change, and 6, the largest. The integral runs through its whole range.
* **First controller.** The errors 0, 1, 2 and 6 of each side and no line; its gains do not depend on the
  error.
* **Motor bench.** A step of 125 in place of 10: the bounds are reached from 1600 in 13 steps, with and
  without a remainder (1600 and 3125 - 1600 are not multiples of 125), in every combination of keys.
* **JTAG UART.** Rings of 3 slots (2 usable), which turn over after three bytes; a FIFO of 2 with a
  threshold of 1, and of 2 with a threshold of 0, in place of 64 and 8; calls of up to 2 bytes, longer than
  what may be left in the ring; bytes numbered modulo 6, more than ring and FIFO hold together. A count of seconds
  up to 2, time-outs of 2, `INT_MAX - 1` and `INT_MAX` with `INT_MAX = 4`. A behaviour prints or reads, so that the
  two directions do not multiply each other's states; they share only the interrupt routine, which serves
  one after the other. `hal_retour` drops the numbers (`K = 1`) and has a FIFO of 1 on the way out, which fills
  more often. Both FIFOs may start with any number of bytes, except that of the direction the
  behaviour does not use, whose bytes nothing would take.
* **Alarms.** A counter of 5 values, two alarms, every delay and every answer of the callbacks.

### Fairness

* `Equite` (and `IEquite`): the oscillator never stops, so both edges keep coming; the reset
  button, once pressed, is released. No fairness is asked of the trigger, of the bus or of the
  programs. `ScansRecurrents` is conditional on the resets ending.
* `FairSpec` of `PwmGeneration`: the same clock and the same button.
* `FairSpec` of `SuiviLigne`, and `MCSpec` of `MC_Moteurs`: the loop of the program has no blocking call but
  `usleep`, so passes keep coming. It is said of the pass on the vector last read, so that a line that
  stays put, or a car on the floor without a line, is a fair behaviour. Nothing is asked of the
  two other motor programs, which wait for a key or a ring.
* `Equite` of `UartJtag`: the program runs between interrupts, a pending interrupt is served, the clock
  ticks when there is one, and a host that stays connected takes the bytes it is sent and signals its
  pauses (`t_pause`). Nothing is asked of its coming, going or typing. The last two are assumptions on
  the host, stated where they are used: `RetourLecture` and `Livraison` are about a host that stays,
  `RetourEcriture` also about one that leaves for good while there is a clock. Without either, a write to a
  full ring never comes back: the second part of `RetourEcriture` (`SansRetour`) says so of a BSP without a clock.

## 4. What the violated runs show

1. `SeuillageDesMesures`: the thresholds are combinational on the shift registers
   (`capteurs_sol_seuil.vhd:255-263`), so the vector shows transient values while a frame is received:
   a sensor that measures 19 in every scan passes above the level 110 while a new 19 is shifted in
   over the old one. `VecteurPublie` bounds the effect: only the sensor being received is affected, and
   between scans the vector is that of the published bytes. `SeuillageFidele` is the true
   counterpart, of what the follower reads: every other bit is the threshold of a byte its sensor gave,
   also after a reset, for the sensors received since. `ReposAvantCapture` shows that this is more
   than half of the time.
2. `ConversionFinie` at 20 ns: `CONVST_WAIT_CLOCK_NUM` was computed for 40 MHz (`:45-48`), the system
   gives the block 50 MHz (`TPSoC.vhd:61`).
3. `DureeEtatHaut`: the high time is two cycles more than the speed (`PWM_generation.vhd:17` and `:42-53`).
   The theorem `DureeExacte` says what it is for every speed.
4. `VirageVersLaLigne`: while `Kp` is still 40, a saturated integral gathered on one side, kept
   through an error of 0, turns the car away from a line that stays at an error of 1 on the other.
   `VirageEnerve` shows that this cannot happen once an error of 3 has raised `Kp` to 120.
   The theorem `ViragePrecis` gives the exact condition: with the gains of the program a contrary integral of
   205 for an error of 1, of 405 for an error of 2, and none for a larger error.

## 5. The proofs

Checked by `tlapm` on the eight modules `*_proof.tla`, each of which EXTENDS the modules it is about.

**`CapteursSol_proof`**, for every `NbCanaux \in 2 .. 8`, every wait that fits the 8-bit counter and every
set of measures (`NbCanauxAssumption`, `AttenteAssumption`, `MesuresAssumption`):

* `Invariance`: `IInv == TypeOK /\ Alignement` and `Repos` (the machine is in S0 while the reset is
  held) are invariants. Each part needs the others. `Rythme` ties the number of bits received to the
  bit counter, the state and the level of the clock; `ConfigRecue` and `MesureRecue` say which bits have
  arrived; `MesureEnVol` says whose they are. At the end of a frame (`FinDeTrame`) the three give that the
  converter will sample the channel the machine means, and that the register holds the whole measure:
  that is what `S4` needs to keep `MesureEnVol`. `Repos` is needed because an edge with the reset held
  advances the clock and nothing else, which breaks `Rythme` in any state but an idle one.
* `TypeCorrect`, `LinkInStep`: the two parts of `IInv`.
* `Refinement`: `Spec => Acquiert`. `S0` is `Declencher` or `Acquitter`; `S4` is `Mesurer(channel)`, a stutter in
  the frame of the channel that is not a sensor, or `Publier`; the reset is `Abandonner` or a stutter; all
  other steps stutter, a shift included, because the mapping reads the measure under way in the
  converter.
* `PublishedVector`: `Spec => []VecteurPublie`. Alignment gives the step of the publication; elsewhere the
  vector shown and the bytes do not change, except in a scan, where nothing is claimed.
* `ConversionToujours`: `TSpec => []ConversionFinie` under `AttenteSuffit`, that the wait and three cycles cover
  1.6 us. The invariant `Chronometre` bounds the time since the rise of `CONVST` from below by the wait
  counter, two cycles behind it; a time that has saturated covers the conversion in any case. TLC evaluates
  the condition for the 25 ns the block was written for; at 20 ns it fails, which is the violated run
  `capteurs_50MHz`.

**`InterfaceCapteurs_proof`**, on the slave and the programs, with every period of the trigger and every set of
writes:

* `BlocDansEsclave`: a cycle of the slave is a rising edge of the block with some trigger, so that
  `ISpec => Spec` and every theorem above holds of the block in its slave.
* `RegistresBornes`: `ISpec => []ITypeOK`.
* `Esclave`: the invariant `SlaveInv`, which ties the cycles since the last trigger to a variant, the cycles the
  scan has left (`Chrono`): each cycle of the slave takes one from it, a trigger sets it to the
  length of a scan. The tie is an equality, without which a publication could not be given its cycle.
* `BalayageDecompte`: in the block alone, that variant stays below the length of a scan and each edge takes one
  from it, until the scan is published or cut. It is the safety half of `BalayageAboutit`: what is left to
  TLC is that edges keep coming.
* `AucunePerte`: if a scan and two cycles fit in a period (`ScanDansPeriode`), `[]CaptureJamaisPerdue`;
  `SecondeMoitie`: if a scan fits in half a period (`ScanDansDemiPeriode`), `[]ReposAvantCapture`,
  and `ALHeure`: `[]PublicationALHeure`, the cycle of each publication and how long bit 31 shows it. At the real
  size, a scan takes 712 of 12500 cycles.
* `ProgrammesSurEsclave`: the two programs write only words that the slave's specification lets the bus write
  (`MotsDesProgrammes`), so `PSpec => ISpec`.
* `ModeGaranti`: for every level from `NbCanaux - 1` to 255, `PSpec => []ModeDemande`. Lower levels would be
  taken for the number of a sensor: the condition is the hazard of `interface_capteurs.vhd:84`.
* `TypesDesProgrammes`, and `AcquisitionSousProgrammes`: `PSpec => Acquiert /\ []VecteurPublie`.
* `OctetsLus`: under the two conditions above, `PSpec => OctetsEntiers`. That each published byte is a measure
  of its sensor is an invariant of `Acquisition`, proved there without a bit or a frame and carried to the
  programs by `Refinement`, `BlocDansEsclave` and `ProgrammesSurEsclave`; `ModeGaranti` says whose byte is read.
* `VecteurLu`: under the same conditions, `PSpec => SeuillageFidele`. `VecteurPublie` ties the registers that are not
  shifting to published bytes or to the scan under way, the invariant of `Acquisition` both of them to
  measures; `ModeGaranti` gives that the level is the one asked for.

**`PwmGeneration_proof`**, for every period `total_dur \in 1 .. 4095` and every set of commands of 12-bit speeds:

* `PulseWidth`: `Spec => []DureeEncadree`. The inductive invariant adds that the extreme speeds bracket the speed
  in the register while the generator runs, and that an output that is high was raised by this period.
* `TypeCorrect`, and `PleineVitesse`: from the speed `total_dur - 1` on, the output has no low time.
* `DureeExacte`: at the end of a period of constant speed the high time is the speed plus two, or the whole
  period if that is less: never the speed, so that the violation of `pwm_duree` is not an accident of its
  constants.

**`SuiviLigne_proof`**, for every gain, base speed, number of sensors and set of vectors
(`SuiviAssumption`, `PilotageAssumption`):

* `Invariance`: the types, with `correction` the formula of the last pass and `commande` the words made
  from it (or the register at rest). The two equations are what makes the invariant inductive for the
  properties: none of them mentions the pass that computed the correction.
* `Virage`: `EnerveDomine => []VirageEnerve`. `EnerveDomine` says that the proportional term of an error of 1
  exceeds the saturated integral by a whole unit, the one the truncation may take away.
* `Freinage`: `FreinDomine => []Frein`. `FreinDomine` says the same of the derivative term of a move of 1 against
  the largest error and the saturated integral together.
* `Traduction`: if the dead zone is below the clamp and the trim does not slow the right motor, then
  `[]TraductionFidele`. A trim below 1 could truncate a small command to a stop.
* `MixageFidele`: for a trim of at least 100 % and a clamp above what both base speeds come to
  (`MargeVitesse`), `[]Mixage`. Without the margin a correction would be lost in the clamp.
* `Recherche`: if both gains are at least 1, `[][RechercheAvance]_vars`: a pass without the line brings a contrary
  integral strictly nearer to 0, and once it is not contrary the car turns to the side where the line was
  lost. It is the safety half of `RechercheDuBonCote`, and bounds it: `IntegraleMax` passes.
* `ViragePrecis`: a steady line is turned away from if and only if the contrary integral outweighs the proportional
  term by a whole unit.
* `TypeCorrect`.

`Pilotage_proof` has the lemmas both controllers rest on: truncation keeps sign and order, a term that
dominates decides the sign of a truncated sum, the dead zone is crossed in the direction asked.

The program's gains meet all these conditions: `GainsDominent` of `MC_SuiviLigne`, evaluated by TLC. With
the initial gain the condition of `Virage` would fail (`5 * 40 < 500 + 5`), which is the violated run
`suivi_virage`.

**`Moteurs_proof`**, for every constant:

* `Affichage`, `Equilibre`: the speeds stay within the bounds, which is what makes the clamp of
  `preparer_moteur` idle and the word equal to what is shown; clamping changes a
  difference only when it acts, and never widens it.
* `Virage` under `VirageDomine`, `FreinDuTP` under `MouvementDomine`, `TraductionDuTP` under a clamp above the dead zone
  and a trim of at least 1, `TypesTP`: the same arguments as for the follower, without the latched gain.
  The gains of `pid.c` meet the conditions (`GainsTP`, evaluated by TLC).

**`UartJtag_proof`**, for every size of the rings and FIFOs, every threshold and every call (`UartAssumption`):

* `EmissionToujours`: `Spec => []EmissionArmee`. That the interrupt is enabled or about to be is inductive as it stands
  (`Armee`): the routine turns it off only when the ring is empty, and a byte enters it only inside a call
  that has yet to reach `e_irq`. That a write cannot miss the move it waits for is not: between the reading
  of `tx_out` and the wait the routine might have gone round the ring, back to the index that was read. `AttenteTx` says that it has not: a
  write that gets there has found the ring full (`PlaceNulle`), so that the index it has read is the one after
  `tx_in`, which the routine, stopped by `tx_in`, cannot reach again. It rests on `TxInv` below.
* `ReceptionToujours`: `Spec => []ReceptionRearmee`. The invariant adds that a read that has emptied the ring with the
  interrupt off has bytes to return (`Rearme`), so that it goes through `l_irq`; that the routine turns the
  interrupt off only with a byte in the ring, which needs that it enters its loop with a byte to take
  (`LectureUtile`), hence that the pause bit is up only with a byte in the FIFO (`PauseUtile`); and that a read in
  progress has something left to ask for (`CompteUtile`). `AttenteRx` is the same as `AttenteTx` for a read, which
  waits on an empty ring only.
* `EmissionEnOrdre`: `Spec => EmissionFidele`, the refinement of `Canal` by the transmit ring and FIFO. The ring is
  read as a sequence (`Anneau`): `AnneauAllonge` and `AnneauRaccourci` say what it becomes when an index
  advances, wrap included, and `AnneauEgal` that a store outside its bytes changes none. The invariant `TxInv`
  says that a copy in progress still fits, though the routine moves `tx_out` meanwhile (`CopieEmise`), that the
  bytes stored and not yet published are those of the call (`CopieFaite`), and that the space read from
  the control register is there when the routine uses it (`Espace`), without which the core would drop a byte.
* `ReceptionEnOrdre`: `Spec => ReceptionFidele`, in the same way: the bytes that a read copies stay in the ring
  while the routine adds others (`CopieLue`, `TamponFidele`).
* `AttenteServie`: the program, the routine and the host never all wait for one another. Whoever waits has its
  interrupt enabled, and then either the routine has something to do or the host has bytes to take or a FIFO to
  fill. It follows from the invariants above; that the routine and the host do act is fairness, and is left
  to `RetourEcriture` and `RetourLecture`.
* `SansHorloge`: `Spec => SansRetour`. Without a clock the time-out is `INT_MAX` and no second is counted
  (`HoteSuppose`), so that a write that waits over a full FIFO, for which the routine has no space to use
  (`Espace`), leaves its wait only when the host takes a byte.
* `TypesUart`: the type invariant, from the same two.

**`Alarmes_proof`**, for every `N >= 2` and every set of alarms:

* `TypesAlarmes`, `EcheanceToujours`: the type invariant and `Echeance`. The invariant says which values of time and flag
  go together; the tick that brings the counter to 0 is a case of its own.
* `PonctualiteToujours`: `ASpec => Ponctualite`, the refinement of `Minuteries`.
* `DelaiMaximal`: what `alt_alarm_start` does with the delay that `ANext` leaves out: the alarm is called back at
  the next tick, unless the counter is at its last value.

Every invariant and every action property that a passing run checks is stated by one of these theorems. What is
left to TLC alone is liveness (`BalayageAboutit`, `ScansRecurrents`, `Impulsions`, `RechercheDuBonCote`,
`RetourEcriture`, `RetourLecture`, `Livraison`): the prover does not treat `ENABLED`. For the first and the fourth
the decreasing measure is proved (`BalayageDecompte`, `Recherche`), for the fifth and the sixth the absence of
deadlock (`AttenteServie`).

## 6. Not modelled

* Voltage levels, metastability, the duration of a bus access. The PLL is exact.
* The robot's mechanics: the follower is checked against every sequence of vectors.
* The processor, its memories and the interconnect, which are generated; the rest of the HAL (file
  descriptors, boot, caches, exception entry, logging, timer driver), which is vendor code: the programs
  depend on `stdout`, `stdin` and one alarm, which are modelled.
* The variants of the JTAG UART driver that are not built: small systems, several threads.
* The level written by a program other than the two above; the levels 0 to 6, which no program
  writes and the slave cannot receive.
* `TP/pid_1.c`: a loop body without its functions. `Test_Robot_Hardcoded.vhd`: a constant command on a
  generator never reset, with no event but the clock. The registers with byte enables: one
  assignment per byte, used by no version of the robot that follows a line.
* Older versions of the same files. Most of the repository's lines are copies: the BSP of the vendor appears
  in eight places and the hand-written files in six versions, so that the modules, which model the
  final version of each file once, stand for a small share of the lines.

## 7. Plan

Done: `Acquisition`, `CapteursSol`, `CapteursSolTemps`, `InterfaceCapteurs`, `ProgrammesCapteurs`,
`PwmGeneration`, `Pilotage`, `SuiviLigne`, `BancMoteurs`, `ControleurTP`, `Canal`, `UartJtag`, `Minuteries`, `Alarmes`;
proofs of the safety of each.

Left: `Robot`, the follower on the slave and the PWM, vector read in the middle of scans, command written in
the middle of a period; the net drive of each motor over a period against what the controller asked.
