--------------------------- MODULE Alarmes_proof ---------------------------
(***************************************************************************)
(* The alarms of the HAL keep their ticks for every size of the counter    *)
(* and every set of alarms: the invariant, then the refinement.            *)
(***************************************************************************)
EXTENDS Alarmes, TLAPS

\* The sum of two numbers of the counter, one more at most, wraps once.
LEMMA Tour ==
    ASSUME NEW x \in 0 .. 2 * N - 1
    PROVE  x % N = IF x < N THEN x ELSE x - N
<1>1. N \in Nat \ {0}
  BY AlarmesAssumption
<1>2. CASE x < N
  <2>1. x = 0 * N + x /\ x \in 0 .. N - 1
    BY <1>1, <1>2
  <2> QED
    BY <1>1, <1>2, <2>1
<1>3. CASE x >= N
  <2>1. x - N \in 0 .. N - 1 /\ x = 1 * N + (x - N)
    BY <1>1, <1>3
  <2> QED
    BY <1>1, <1>3, <2>1
<1> QED
  BY <1>1, <1>2, <1>3

\* The inductive invariant: each registered alarm is ahead of the counter, by
\* less than one turn.
Invariant == ATypeOK /\ Echeance

USE DEF Temps

LEMMA DebutInvariant == AInit => Invariant
<1> QED
  BY AlarmesAssumption DEF AInit, Invariant, ATypeOK, Echeance

LEMMA DemarrageInvariant ==
    ASSUME Invariant, NEW a \in Alarme, NEW delai \in 0 .. N - 2,
           alt_alarm_start(a, delai)
    PROVE  Invariant'
<1> DEFINE t == (delai + nticks + 1) % N
<1>1. nticks \in Temps /\ liste \subseteq Alarme /\ time \in [Alarme -> Temps]
      /\ rollover \in [Alarme -> {0, 1}] /\ N \in Nat /\ N >= 2
  BY AlarmesAssumption DEF Invariant, ATypeOK
<1>2. delai + nticks + 1 \in 0 .. 2 * N - 1
  BY <1>1
<1>3. t = IF delai + nticks + 1 < N THEN delai + nticks + 1 ELSE delai + nticks + 1 - N
  BY <1>1, <1>2, Tour
<1>4. t \in Temps
  BY <1>1, <1>2, <1>3
<1> HIDE DEF t
<1>5. /\ nticks' = nticks /\ rappels' = rappels
      /\ liste' = liste \cup {a}
      /\ time' = [time EXCEPT ![a] = t]
      /\ rollover' = [rollover EXCEPT ![a] = IF t < nticks THEN 1 ELSE 0]
  BY DEF alt_alarm_start, t
<1>6. ATypeOK'
  <2>1. rappels' \subseteq Alarme
    BY <1>5 DEF Invariant, ATypeOK
  <2>2. time' \in [Alarme -> Temps]
    BY <1>1, <1>4, <1>5
  <2>3. rollover' \in [Alarme -> {0, 1}]
    BY <1>1, <1>5
  <2> QED
    BY <1>1, <1>5, <2>1, <2>2, <2>3 DEF ATypeOK
<1>7. ASSUME NEW b \in liste' PROVE Reste(b)' \in 1 .. N - 1
  <2>1. CASE b = a
    <3>1. time'[a] = t /\ rollover'[a] = IF t < nticks THEN 1 ELSE 0
      BY <1>1, <1>5
    <3> QED
      BY <1>1, <1>3, <1>5, <2>1, <3>1 DEF Reste
  <2>2. CASE b # a
    <3>1. b \in liste /\ time'[b] = time[b] /\ rollover'[b] = rollover[b]
      BY <1>1, <1>5, <1>7, <2>2
    <3> QED
      BY <1>5, <3>1 DEF Invariant, Echeance, Reste
  <2> QED
    BY <2>1, <2>2
<1> QED
  BY <1>6, <1>7 DEF Invariant, Echeance

\* The heart of the matter: what one tick does to a registered alarm.
LEMMA EffetDuTop ==
    ASSUME Invariant, NEW suite \in [Alarme -> Temps], alt_tick(suite),
           NEW a \in liste
    PROVE  /\ nticks' = IF nticks + 1 < N THEN nticks + 1 ELSE 0
           /\ a \in rappels' <=> Reste(a) = 1
           /\ a \in rappels' => time[a] = nticks' /\ Drapeau(a, nticks') = 0
<1>1. /\ nticks \in Temps /\ a \in Alarme /\ time[a] \in Temps
      /\ rollover[a] \in {0, 1} /\ N \in Nat /\ N >= 2
      /\ Reste(a) \in 1 .. N - 1
  BY AlarmesAssumption DEF Invariant, ATypeOK, Echeance
<1>2. nticks + 1 \in 0 .. 2 * N - 1
  BY <1>1
<1>3. nticks' = IF nticks + 1 < N THEN nticks + 1 ELSE 0
  BY <1>1, <1>2, Tour DEF alt_tick
<1>4. a \in rappels' <=> time[a] <= nticks' /\ Drapeau(a, nticks') = 0
  BY <1>1 DEF alt_tick, Echue
<1>5. Drapeau(a, nticks') = IF nticks' = 0 THEN 0 ELSE rollover[a]
  BY DEF Drapeau
<1>6. a \in rappels' <=> Reste(a) = 1
  BY <1>1, <1>3, <1>4, <1>5 DEF Reste
<1>7. ASSUME a \in rappels' PROVE time[a] = nticks' /\ Drapeau(a, nticks') = 0
  BY <1>1, <1>3, <1>4, <1>5, <1>6, <1>7 DEF Reste
<1> QED
  BY <1>3, <1>6, <1>7

\* An alarm that waits is one tick nearer.
LEMMA ResteAttente ==
    ASSUME Invariant, NEW suite \in [Alarme -> Temps], alt_tick(suite),
           NEW a \in liste, a \notin rappels'
    PROVE  Reste(a)' = Reste(a) - 1
<1>1. /\ nticks \in Temps /\ a \in Alarme /\ time[a] \in Temps
      /\ rollover[a] \in {0, 1} /\ N \in Nat /\ N >= 2
      /\ Reste(a) \in 1 .. N - 1
  BY AlarmesAssumption DEF Invariant, ATypeOK, Echeance
<1>2. /\ nticks' = IF nticks + 1 < N THEN nticks + 1 ELSE 0
      /\ Reste(a) # 1
  BY EffetDuTop
<1>3. time'[a] = time[a] /\ rollover'[a] = IF nticks' = 0 THEN 0 ELSE rollover[a]
  BY <1>1 DEF alt_tick, Drapeau
<1> QED
  BY <1>1, <1>2, <1>3 DEF Reste

\* An alarm that is called back has the delay that its callback returned.
LEMMA EffetRappel ==
    ASSUME Invariant, NEW suite \in [Alarme -> Temps], alt_tick(suite),
           NEW a \in liste, a \in rappels'
    PROVE  time'[a] = IF nticks' + suite[a] < N THEN nticks' + suite[a]
                      ELSE nticks' + suite[a] - N
<1>1. nticks \in Temps /\ a \in Alarme /\ suite[a] \in Temps /\ N \in Nat /\ N >= 2
  BY AlarmesAssumption DEF Invariant, ATypeOK
<1>2. nticks' \in Temps /\ time[a] = nticks'
  BY <1>1, EffetDuTop
<1>3. nticks' + suite[a] \in 0 .. 2 * N - 1
  BY <1>1, <1>2
<1>4. time'[a] = (nticks' + suite[a]) % N
  BY <1>1, <1>2 DEF alt_tick
<1> QED
  BY <1>1, <1>2, <1>3, <1>4, Tour

LEMMA ResteRappel ==
    ASSUME Invariant, NEW suite \in [Alarme -> Temps], alt_tick(suite),
           NEW a \in liste, a \in rappels', suite[a] # 0
    PROVE  Reste(a)' = suite[a]
<1>1. nticks \in Temps /\ a \in Alarme /\ suite[a] \in Temps /\ N \in Nat /\ N >= 2
  BY AlarmesAssumption DEF Invariant, ATypeOK
<1>2. nticks' \in Temps /\ Drapeau(a, nticks') = 0
  BY <1>1, EffetDuTop
<1>3. time'[a] = IF nticks' + suite[a] < N THEN nticks' + suite[a]
                 ELSE nticks' + suite[a] - N
  BY EffetRappel
<1>4. rollover'[a] = IF time'[a] < nticks' THEN 1 ELSE 0
  BY <1>1, <1>2 DEF alt_tick
<1> QED
  BY <1>1, <1>2, <1>3, <1>4 DEF Reste

LEMMA TopInvariant ==
    ASSUME Invariant, NEW suite \in [Alarme -> Temps], alt_tick(suite)
    PROVE  Invariant'
<1>1. nticks \in Temps /\ liste \subseteq Alarme /\ time \in [Alarme -> Temps]
      /\ rollover \in [Alarme -> {0, 1}] /\ N \in Nat /\ N >= 2
  BY AlarmesAssumption DEF Invariant, ATypeOK
<1>2. nticks' \in Temps
  <2>1. nticks' = (nticks + 1) % N /\ nticks + 1 \in 0 .. 2 * N - 1
    BY <1>1 DEF alt_tick
  <2> QED
    BY <1>1, <2>1, Tour
<1>3. rappels' \subseteq liste /\ rappels' \subseteq Alarme /\ liste' \subseteq liste
  BY DEF alt_tick, Echue
<1>4. time' \in [Alarme -> Temps]
  <2>1. ASSUME NEW a \in Alarme
        PROVE  (IF a \in rappels' THEN (time[a] + suite[a]) % N ELSE time[a]) \in Temps
    <3>1. CASE a \in rappels'
      <4>1. a \in liste
        BY <1>3, <3>1
      <4>2. time'[a] = IF nticks' + suite[a] < N THEN nticks' + suite[a]
                       ELSE nticks' + suite[a] - N
        BY <3>1, <4>1, EffetRappel
      <4>3. time'[a] = (time[a] + suite[a]) % N
        BY <2>1, <3>1 DEF alt_tick
      <4> QED
        BY <1>1, <1>2, <2>1, <3>1, <4>2, <4>3
    <3>2. CASE a \notin rappels'
      BY <1>1, <2>1, <3>2
    <3> QED
      BY <3>1, <3>2
  <2> QED
    BY <2>1 DEF alt_tick
<1>5. rollover' \in [Alarme -> {0, 1}]
  <2>1. ASSUME NEW a \in Alarme PROVE Drapeau(a, nticks') \in {0, 1}
    BY <1>1, <2>1 DEF Drapeau
  <2> QED
    BY <1>1, <2>1 DEF alt_tick
<1>6. ASSUME NEW a \in liste' PROVE Reste(a)' \in 1 .. N - 1
  <2>1. a \in liste /\ a \in Alarme /\ suite[a] \in Temps
    BY <1>1, <1>3, <1>6
  <2>2. Reste(a) \in 1 .. N - 1
    BY <2>1 DEF Invariant, Echeance
  <2>3. CASE a \in rappels'
    <3>1. suite[a] # 0
      BY <1>6, <2>1, <2>3 DEF alt_tick
    <3>2. Reste(a)' = suite[a]
      BY <2>1, <2>3, <3>1, ResteRappel
    <3> QED
      BY <1>1, <2>1, <3>1, <3>2
  <2>4. CASE a \notin rappels'
    <3>1. Reste(a)' = Reste(a) - 1
      BY <2>1, <2>4, ResteAttente
    <3>2. Reste(a) # 1
      BY <2>1, <2>4, EffetDuTop
    <3> QED
      BY <1>1, <2>2, <3>1, <3>2
  <2> QED
    BY <2>3, <2>4
<1> QED
  BY <1>1, <1>2, <1>3, <1>4, <1>5, <1>6 DEF Invariant, ATypeOK, Echeance

LEMMA ArretInvariant ==
    ASSUME Invariant, NEW a \in Alarme, alt_alarm_stop(a)
    PROVE  Invariant'
<1> QED
  BY DEF Invariant, ATypeOK, Echeance, Reste, alt_alarm_stop

LEMMA InvariantToujours == ASpec => []Invariant
<1>1. AInit => Invariant
  BY DebutInvariant
<1>2. Invariant /\ [ANext]_avars => Invariant'
  <2> SUFFICES ASSUME Invariant, [ANext]_avars PROVE Invariant'
    OBVIOUS
  <2>1. ASSUME NEW a \in Alarme, NEW delai \in 0 .. N - 2, alt_alarm_start(a, delai)
        PROVE  Invariant'
    BY <2>1, DemarrageInvariant
  <2>2. ASSUME NEW a \in Alarme, alt_alarm_stop(a) PROVE Invariant'
    BY <2>2, ArretInvariant
  <2>3. ASSUME NEW suite \in [Alarme -> Temps], alt_tick(suite) PROVE Invariant'
    BY <2>3, TopInvariant
  <2>4. CASE UNCHANGED avars
    BY <2>4 DEF avars, Invariant, ATypeOK, Echeance, Reste
  <2> QED
    BY <2>1, <2>2, <2>3, <2>4 DEF ANext
<1> QED
  BY <1>1, <1>2, PTL DEF ASpec

\* The counter, the times and the flags keep their widths, and only registered
\* structures are in the list.
THEOREM TypesAlarmes == ASpec => []ATypeOK
<1>1. Invariant => ATypeOK
  BY DEF Invariant
<1> QED
  BY <1>1, InvariantToujours, PTL

\* Every registered alarm stays ahead of the counter by less than a turn: none
\* is left behind when the counter wraps.
THEOREM EcheanceToujours == ASpec => []Echeance
<1>1. Invariant => Echeance
  BY DEF Invariant
<1> QED
  BY <1>1, InvariantToujours, PTL

\* Why the delay N - 1 is left out of ANext.  The sum comes back to the counter
\* and the flag stays at 0, so that the very next tick calls the alarm back,
\* N - 1 ticks too early, unless the counter is at its last value.
THEOREM DelaiMaximal ==
    ASSUME Invariant, NEW a \in Alarme, alt_alarm_start(a, N - 1)
    PROVE  /\ time'[a] = nticks' /\ rollover'[a] = 0
           /\ Echue(a, (nticks + 1) % N)' <=> nticks' # N - 1
<1>1. /\ nticks \in Temps /\ N \in Nat /\ N >= 2
      /\ time \in [Alarme -> Temps] /\ rollover \in [Alarme -> {0, 1}]
  BY AlarmesAssumption DEF Invariant, ATypeOK
<1>2. (N - 1 + nticks + 1) % N = nticks
  <2>1. N - 1 + nticks + 1 \in 0 .. 2 * N - 1
    BY <1>1
  <2> QED
    BY <1>1, <2>1, Tour
<1>3. /\ nticks' = nticks /\ a \in liste'
      /\ time'[a] = nticks /\ rollover'[a] = 0
  BY <1>1, <1>2 DEF alt_alarm_start
<1>4. (nticks + 1) % N = IF nticks + 1 < N THEN nticks + 1 ELSE 0
  <2>1. nticks + 1 \in 0 .. 2 * N - 1
    BY <1>1
  <2> QED
    BY <1>1, <2>1, Tour
<1>5. Drapeau(a, (nticks + 1) % N)' = 0
  BY <1>3 DEF Drapeau
<1>6. Echue(a, (nticks + 1) % N)' <=> nticks <= (nticks + 1) % N
  BY <1>3, <1>5 DEF Echue
<1> QED
  BY <1>1, <1>3, <1>4, <1>6

-----------------------------------------------------------------------------
(* The refinement.                                                         *)

LEMMA DebutRaffine == AInit => M!MInit
<1> SUFFICES ASSUME AInit PROVE M!MInit
  OBVIOUS
<1>1. restes = [a \in Alarme |-> 0]
  BY DEF AInit, restes
<1> QED
  BY <1>1 DEF AInit, M!MInit

LEMMA DemarrageRaffine ==
    ASSUME Invariant, NEW a \in Alarme, NEW delai \in 0 .. N - 2,
           alt_alarm_start(a, delai)
    PROVE  M!Armer(a, delai)
<1>1. nticks \in Temps /\ liste \subseteq Alarme /\ time \in [Alarme -> Temps]
      /\ rollover \in [Alarme -> {0, 1}] /\ N \in Nat /\ N >= 2
  BY AlarmesAssumption DEF Invariant, ATypeOK
<1>2. a \notin liste /\ liste' = liste \cup {a} /\ nticks' = nticks /\ rappels' = rappels
  BY DEF alt_alarm_start
<1>3. Reste(a)' = delai + 1
  <2> DEFINE t == (delai + nticks + 1) % N
  <2>1. t = IF delai + nticks + 1 < N THEN delai + nticks + 1 ELSE delai + nticks + 1 - N
    <3>1. delai + nticks + 1 \in 0 .. 2 * N - 1
      BY <1>1
    <3> QED
      BY <1>1, <3>1, Tour
  <2>2. time'[a] = t /\ rollover'[a] = IF t < nticks THEN 1 ELSE 0
    BY <1>1 DEF alt_alarm_start
  <2> HIDE DEF t
  <2> QED
    BY <1>1, <1>2, <2>1, <2>2 DEF Reste
<1>4. ASSUME NEW b \in liste, b # a PROVE Reste(b)' = Reste(b)
  <2>1. time'[b] = time[b] /\ rollover'[b] = rollover[b]
    BY <1>1, <1>4 DEF alt_alarm_start
  <2> QED
    BY <1>2, <2>1 DEF Reste
<1>5. ASSUME NEW b \in Alarme
      PROVE  restes'[b] = IF b = a THEN delai + 1 ELSE restes[b]
  <2>1. restes[b] = IF b \in liste THEN Reste(b) ELSE 0
    BY <1>5 DEF restes
  <2>2. restes'[b] = IF b \in liste' THEN Reste(b)' ELSE 0
    BY <1>5 DEF restes
  <2> QED
    BY <1>2, <1>3, <1>4, <2>1, <2>2
<1>6. restes' = [restes EXCEPT ![a] = delai + 1]
  <2>1. restes = [b \in Alarme |-> restes[b]] /\ restes' = [b \in Alarme |-> restes'[b]]
    BY DEF restes
  <2> QED
    BY <1>5, <2>1
<1> QED
  BY <1>2, <1>6 DEF M!Armer

LEMMA ArretRaffine ==
    ASSUME NEW a \in Alarme, alt_alarm_stop(a)
    PROVE  M!Desarmer(a)
<1>1. ASSUME NEW b \in Alarme
      PROVE  restes'[b] = IF b = a THEN 0 ELSE restes[b]
  BY <1>1 DEF restes, Reste, alt_alarm_stop
<1>2. restes' = [restes EXCEPT ![a] = 0]
  <2>1. restes = [b \in Alarme |-> restes[b]] /\ restes' = [b \in Alarme |-> restes'[b]]
    BY DEF restes
  <2> QED
    BY <1>1, <2>1
<1> QED
  BY <1>2 DEF M!Desarmer, alt_alarm_stop

LEMMA TopRaffine ==
    ASSUME Invariant, NEW suite \in [Alarme -> Temps], alt_tick(suite)
    PROVE  M!Top(suite)
<1>1. liste \subseteq Alarme /\ rappels' \subseteq liste
  BY DEF Invariant, ATypeOK, alt_tick, Echue
<1>2. ASSUME NEW a \in liste PROVE restes[a] = Reste(a)
  BY <1>1, <1>2 DEF restes
<1>3. rappels' = {a \in liste : restes[a] = 1}
  <2>1. ASSUME NEW a \in liste PROVE a \in rappels' <=> restes[a] = 1
    BY <1>2, <2>1, EffetDuTop
  <2> QED
    BY <1>1, <2>1
<1>4. liste' = liste \ {a \in rappels' : suite[a] = 0}
  BY DEF alt_tick
<1>5. ASSUME NEW a \in Alarme
      PROVE  restes'[a] = IF a \in rappels' THEN suite[a]
                          ELSE IF a \in liste THEN restes[a] - 1 ELSE 0
  <2>1. restes'[a] = IF a \in liste' THEN Reste(a)' ELSE 0
    BY <1>5 DEF restes
  <2>2. CASE a \notin liste
    BY <1>1, <1>4, <2>1, <2>2
  <2>3. CASE a \in liste /\ a \notin rappels'
    <3>1. a \in liste'
      BY <1>4, <2>3
    <3>2. Reste(a)' = Reste(a) - 1
      BY <2>3, ResteAttente
    <3> QED
      BY <1>2, <2>1, <2>3, <3>1, <3>2
  <2>4. CASE a \in liste /\ a \in rappels' /\ suite[a] = 0
    BY <1>4, <2>1, <2>4
  <2>5. CASE a \in liste /\ a \in rappels' /\ suite[a] # 0
    <3>1. a \in liste'
      BY <1>4, <2>5
    <3>2. Reste(a)' = suite[a]
      BY <2>5, ResteRappel
    <3> QED
      BY <2>1, <2>5, <3>1, <3>2
  <2> QED
    BY <2>2, <2>3, <2>4, <2>5
<1>6. restes' = [a \in Alarme |->
         IF a \in rappels' THEN suite[a]
         ELSE IF a \in liste THEN restes[a] - 1 ELSE 0]
  <2>1. restes' = [a \in Alarme |-> restes'[a]]
    BY DEF restes
  <2> QED
    BY <1>5, <2>1
<1> QED
  BY <1>3, <1>4, <1>6 DEF M!Top

\* Each callback comes at its tick, through the turns of the counter.
THEOREM PonctualiteToujours == ASpec => Ponctualite
<1>1. AInit => M!MInit
  BY DebutRaffine
<1>2. Invariant /\ [ANext]_avars => [M!MNext]_(M!mvars)
  <2> SUFFICES ASSUME Invariant, [ANext]_avars PROVE [M!MNext]_(M!mvars)
    OBVIOUS
  <2>1. ASSUME NEW a \in Alarme, NEW delai \in 0 .. N - 2, alt_alarm_start(a, delai)
        PROVE  M!MNext
    BY <2>1, DemarrageRaffine DEF M!MNext
  <2>2. ASSUME NEW a \in Alarme, alt_alarm_stop(a) PROVE M!MNext
    BY <2>2, ArretRaffine DEF M!MNext
  <2>3. ASSUME NEW suite \in [Alarme -> Temps], alt_tick(suite) PROVE M!MNext
    BY <2>3, TopRaffine DEF M!MNext
  <2>4. CASE UNCHANGED avars
    BY <2>4 DEF avars, M!mvars, restes, Reste
  <2> QED
    BY <2>1, <2>2, <2>3, <2>4 DEF ANext
<1> QED
  BY <1>1, <1>2, InvariantToujours, PTL DEF ASpec, Ponctualite, M!MSpec
=============================================================================
