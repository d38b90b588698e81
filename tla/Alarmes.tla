------------------------------ MODULE Alarmes ------------------------------
(***************************************************************************)
(* The alarms of the HAL (alt_alarm_start.c, alt_tick.c): the tick of the  *)
(* system clock increments a counter of 32 bits and calls back the alarms  *)
(* whose time has come.  A time that is past the end of the counter is     *)
(* marked by a flag that the return of the counter to 0 takes away.        *)
(***************************************************************************)
EXTENDS Integers

CONSTANTS
    N,              \* 2^32
    Alarme          \* the alarm structures of the drivers and programs

ASSUME AlarmesAssumption == N \in Nat /\ N >= 2

Temps == 0 .. N - 1

VARIABLES
    nticks,         \* _alt_nticks
    liste,          \* the alarms in alt_alarm_list
    time, rollover, \* the fields of each alarm structure
    rappels         \* history: the alarms called back in the last tick

avars == <<nticks, liste, time, rollover, rappels>>

AInit ==
    /\ nticks = 0
    /\ liste = {}
    /\ time = [a \in Alarme |-> 0]
    /\ rollover = [a \in Alarme |-> 0]
    /\ rappels = {}

\* Mutant: the tick under way is counted as a whole one.
alt_alarm_start_tot(a, delai) ==
    LET t == (delai + nticks) % N IN
    /\ a \notin liste
    /\ liste' = liste \cup {a}
    /\ time' = [time EXCEPT ![a] = t]
    /\ rollover' = [rollover EXCEPT ![a] = IF t < nticks THEN 1 ELSE 0]
    /\ UNCHANGED <<nticks, rappels>>

\* Mutant: the sum is wider than the counter.
alt_alarm_start_large(a, delai) ==
    LET t == delai + nticks + 1 IN
    /\ a \notin liste
    /\ liste' = liste \cup {a}
    /\ time' = [time EXCEPT ![a] = t]
    /\ rollover' = [rollover EXCEPT ![a] = IF t < nticks THEN 1 ELSE 0]
    /\ UNCHANGED <<nticks, rappels>>

\* Interrupts are disabled meanwhile.  An alarm is started when it is not in
\* the list.
alt_alarm_start(a, delai) ==
    LET t == (delai + nticks + 1) % N IN
    /\ a \notin liste
    /\ liste' = liste \cup {a}
    /\ time' = [time EXCEPT ![a] = t]
    /\ rollover' = [rollover EXCEPT ![a] = IF t < nticks THEN 1 ELSE 0]
    /\ UNCHANGED <<nticks, rappels>>

alt_alarm_stop(a) ==
    /\ liste' = liste \ {a}
    /\ UNCHANGED <<nticks, time, rollover, rappels>>

\* Mutant: the flag stays when the counter comes back to 0.
DrapeauGarde(a, t) == rollover[a]

\* The flag of alarm a once the counter is t.
Drapeau(a, t) == IF t = 0 THEN 0 ELSE rollover[a]

\* Alarm a is called back by the tick that brings the counter to t.
Echue(a, t) == a \in liste /\ time[a] <= t /\ Drapeau(a, t) = 0

\* suite[a] is what the callback of a returns.
alt_tick(suite) ==
    /\ nticks' = (nticks + 1) % N
    /\ rappels' = {a \in Alarme : Echue(a, nticks')}
    /\ liste' = liste \ {a \in rappels' : suite[a] = 0}
    /\ time' = [a \in Alarme |->
           IF a \in rappels' THEN (time[a] + suite[a]) % N ELSE time[a]]
    /\ rollover' = [a \in Alarme |->
           IF a \notin liste THEN rollover[a]
           ELSE IF a \in rappels' /\ suite[a] # 0 /\ time'[a] < nticks' THEN 1
           ELSE Drapeau(a, nticks')]

\* The delay N - 1 is left out: see Echeance.
ANext ==
    \/ \E a \in Alarme, delai \in 0 .. N - 2 : alt_alarm_start(a, delai)
    \/ \E a \in Alarme : alt_alarm_stop(a)
    \/ \E suite \in [Alarme -> Temps] : alt_tick(suite)

ASpec == AInit /\ [][ANext]_avars

-----------------------------------------------------------------------------
(* Properties.                                                             *)

ATypeOK ==
    /\ nticks \in Temps
    /\ liste \subseteq Alarme
    /\ time \in [Alarme -> Temps]
    /\ rollover \in [Alarme -> {0, 1}]
    /\ rappels \subseteq Alarme

\* The ticks left before the callback of a registered alarm.
Reste(a) == time[a] - nticks + (IF rollover[a] = 1 THEN N ELSE 0)

\* The time of a registered alarm is always ahead, by less than one turn of
\* the counter, whatever the counter and the flag: no alarm is ever left
\* behind to wait for a whole turn.  (With a delay of N - 1, N ticks are left,
\* time is nticks, the flag stays at 0 and the next tick calls back.)
Echeance == \A a \in liste : Reste(a) \in 1 .. N - 1

\* Every callback comes at its tick, through the turns of the counter.
restes == [a \in Alarme |-> IF a \in liste THEN Reste(a) ELSE 0]

M == INSTANCE Minuteries WITH reste <- restes
Ponctualite == M!MSpec
=============================================================================
