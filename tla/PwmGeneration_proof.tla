------------------------ MODULE PwmGeneration_proof ------------------------
(* The pulse widths of PwmGeneration, for every period and every set of     *)
(* commands.                                                                *)
EXTENDS PwmGeneration, TLAPS

\* The speed in force is one of those counted in vmin and vmax, also when the
\* reset has put zero in the register; the output cannot have been high for
\* longer than the period has lasted.
Vitesses ==
    \A m \in Moteurs :
        /\ vmin[m] <= Vitesse(m)
        /\ Vitesse(m) <= vmax[m]
        /\ reset_n = 0 => Vitesse(m) = 0
        /\ haut[m] <= tick + PWM[m]

IInv == TypeOK /\ Vitesses /\ DureeEncadree

LEMMA InitIInv == Init => IInv
<1> SUFFICES ASSUME Init PROVE IInv
    OBVIOUS
<1>1. s_command \in [Moteurs -> CommandeMoteur]
  <2>1. Zero \in CommandeMoteur
      BY DEF Zero, CommandeMoteur, Bit, Bits12
  <2> QED
      BY <2>1 DEF Init
<1>2. \A m \in Moteurs : Vitesse(m) = 0
    BY DEF Init, Vitesse, Zero
<1>3. TypeOK
    BY <1>1, TotalDurAssumption DEF Init, TypeOK, Bit
<1>4. Vitesses /\ DureeEncadree
    BY <1>2 DEF Init, Vitesses, DureeEncadree
<1> QED
    BY <1>3, <1>4 DEF IInv

LEMMA ChampVitesse == \A c \in CommandeMoteur : c.vitesse \in Nat
<1> SUFFICES ASSUME NEW c \in CommandeMoteur PROVE c.vitesse \in Nat
    OBVIOUS
<1>1. c.vitesse \in Bits12
    BY DEF CommandeMoteur
<1>2. Bits12 \subseteq Nat
    BY DEF Bits12
<1> QED
    BY <1>1, <1>2

LEMMA VitesseType ==
    ASSUME s_command \in [Moteurs -> CommandeMoteur]
    PROVE  \A m \in Moteurs : Vitesse(m) \in Nat
<1>1. \A m \in Moteurs : s_command[m] \in CommandeMoteur
    OBVIOUS
<1> QED
    BY <1>1, ChampVitesse, Zenon DEF Vitesse

\* The register after a clock edge.
LEMMA RegistreType ==
    ASSUME s_command \in [Moteurs -> CommandeMoteur], Registre
    PROVE  /\ s_command' \in [Moteurs -> CommandeMoteur]
           /\ \A m \in Moteurs : Vitesse(m)' \in Nat
<1>1. s_command' \in [Moteurs -> CommandeMoteur]
  <2>1. CASE UNCHANGED s_command
      BY <2>1
  <2>2. ASSUME NEW r \in Commandes, NEW l \in Commandes,
               s_command' = [m \in Moteurs |-> IF m = "R" THEN r ELSE l]
        PROVE  s_command' \in [Moteurs -> CommandeMoteur]
      BY <2>2, CommandesAssumption
  <2> QED
      BY <2>1, <2>2 DEF Registre
<1>3. \A m \in Moteurs : s_command'[m] \in CommandeMoteur
    BY <1>1
<1>4. \A m \in Moteurs : Vitesse(m)' \in Nat
    BY <1>3, ChampVitesse, Zenon DEF Vitesse
<1> QED
    BY <1>1, <1>4

\* What IInv says of one motor, as the steps below use it.
LEMMA ParMoteur ==
    ASSUME IInv, NEW m \in Moteurs
    PROVE  /\ PWM[m] \in {0, 1} /\ haut[m] \in Nat
           /\ vmin[m] \in Nat /\ vmax[m] \in Nat /\ Vitesse(m) \in Nat
           /\ vmin[m] <= Vitesse(m) /\ Vitesse(m) <= vmax[m]
           /\ haut[m] <= tick + PWM[m]
           /\ PWM[m] = 1 => haut[m] = tick + 1 /\ tick <= vmax[m] + 1
           /\ PWM[m] = 0 /\ haut[m] > 0 =>
                 vmin[m] + 2 <= haut[m] /\ haut[m] <= vmax[m] + 2
<1>1. TypeOK /\ Vitesses /\ DureeEncadree
    BY DEF IInv
<1>2. /\ PWM[m] \in {0, 1} /\ haut[m] \in Nat
      /\ vmin[m] \in Nat /\ vmax[m] \in Nat
    BY <1>1 DEF TypeOK, Bit
<1>3. Vitesse(m) \in Nat
    BY <1>1, VitesseType DEF TypeOK
<1> QED
    BY <1>1, <1>2, <1>3 DEF Vitesses, DureeEncadree

LEMMA TickType ==
    ASSUME IInv
    PROVE  tick \in Nat /\ tick <= total_dur /\ total_dur \in Nat \ {0}
BY TotalDurAssumption DEF IInv, TypeOK

LEMMA FrontIInv == ASSUME IInv, Front PROVE IInv'
<1>1. /\ s_command' \in [Moteurs -> CommandeMoteur]
      /\ \A m \in Moteurs : Vitesse(m)' \in Nat
    BY RegistreType DEF IInv, TypeOK, Front
<1>2. reset_n = 1 /\ reset_n' = 1
    BY DEF Front
<1>3. CASE FinPeriode
  <2>1. /\ tick' = 0
        /\ PWM' \in [Moteurs -> {0, 1}] /\ haut' \in [Moteurs -> Nat]
        /\ vmin' \in [Moteurs -> Nat] /\ vmax' \in [Moteurs -> Nat]
      BY <1>1, <1>3 DEF FinPeriode
  <2>2. \A m \in Moteurs : /\ PWM'[m] = 1 /\ haut'[m] = 1
                           /\ vmin'[m] = Vitesse(m)' /\ vmax'[m] = Vitesse(m)'
      BY <1>3 DEF FinPeriode
  <2>3. TypeOK'
      BY <1>1, <1>2, <2>1, TickType DEF TypeOK, Bit
  <2>4. Vitesses'
      BY <1>1, <1>2, <2>1, <2>2 DEF Vitesses
  <2>5. DureeEncadree'
      BY <1>1, <2>1, <2>2 DEF DureeEncadree
  <2> QED
      BY <2>3, <2>4, <2>5 DEF IInv
<1>4. CASE Compte
  <2>1. tick < total_dur /\ tick' = tick + 1
      BY <1>4 DEF Compte
  <2>2. ASSUME NEW m \in Moteurs
        PROVE  /\ PWM'[m] = IF tick > Vitesse(m) THEN 0 ELSE PWM[m]
               /\ haut'[m] = haut[m] + PWM'[m]
               /\ vmin'[m] = Min2(vmin[m], Vitesse(m)')
               /\ vmax'[m] = Max2(vmax[m], Vitesse(m)')
      BY <1>4 DEF Compte
  <2>3. ASSUME NEW m \in Moteurs
        PROVE  /\ PWM'[m] \in {0, 1} /\ haut'[m] \in Nat
               /\ vmin'[m] \in Nat /\ vmax'[m] \in Nat
               /\ vmin'[m] <= vmin[m] /\ vmin'[m] <= Vitesse(m)'
               /\ vmax'[m] >= vmax[m] /\ vmax'[m] >= Vitesse(m)'
      BY <1>1, <2>2, ParMoteur DEF Min2, Max2
  <2>4. ASSUME NEW m \in Moteurs
        PROVE  /\ haut'[m] <= tick' + PWM'[m]
               /\ PWM'[m] = 1 => haut'[m] = tick' + 1 /\ tick' <= vmax'[m] + 1
               /\ PWM'[m] = 0 /\ haut'[m] > 0 =>
                     vmin'[m] + 2 <= haut'[m] /\ haut'[m] <= vmax'[m] + 2
    <3> USE ParMoteur, TickType, <2>1, <2>2, <2>3
    <3>1. CASE PWM[m] = 0
        BY <3>1
    <3>2. CASE PWM[m] = 1 /\ tick > Vitesse(m)
        BY <3>2
    <3>3. CASE PWM[m] = 1 /\ ~(tick > Vitesse(m))
        BY <3>3
    <3> QED
        BY <3>1, <3>2, <3>3
  <2>5. TypeOK'
    <3>1. /\ PWM' \in [Moteurs -> {0, 1}] /\ haut' \in [Moteurs -> Nat]
      <4>1. PWM' = [m \in Moteurs |-> PWM'[m]] /\ haut' = [m \in Moteurs |-> haut'[m]]
          BY <1>4 DEF Compte
      <4> QED
          BY <2>3, <4>1
    <3>2. /\ vmin' \in [Moteurs -> Nat] /\ vmax' \in [Moteurs -> Nat]
      <4>1. vmin' = [m \in Moteurs |-> vmin'[m]] /\ vmax' = [m \in Moteurs |-> vmax'[m]]
          BY <1>4 DEF Compte
      <4> QED
          BY <2>3, <4>1
    <3> QED
        BY <1>1, <1>2, <2>1, <3>1, <3>2, TickType DEF TypeOK, Bit
  <2>6. Vitesses'
      BY <1>2, <2>3, <2>4 DEF Vitesses
  <2>7. DureeEncadree'
      BY <2>4 DEF DureeEncadree
  <2> QED
      BY <2>5, <2>6, <2>7 DEF IInv
<1> QED
    BY <1>3, <1>4 DEF Front

LEMMA ResetIInv ==
    ASSUME IInv, FrontReset \/ Reset \/ FinReset PROVE IInv'
<1>1. CASE FrontReset
  <2>1. /\ tick' = 0 /\ reset_n = 0 /\ reset_n' = 0 /\ s_command' = s_command
        /\ PWM' \in [Moteurs -> {0, 1}] /\ haut' \in [Moteurs -> Nat]
        /\ vmin' \in [Moteurs -> Nat] /\ vmax' \in [Moteurs -> Nat]
      BY <1>1 DEF FrontReset
  <2>2. \A m \in Moteurs : /\ PWM'[m] = 0 /\ haut'[m] = 0
                           /\ vmin'[m] = 0 /\ vmax'[m] = 0
                           /\ Vitesse(m)' = 0
    <3>1. \A m \in Moteurs : Vitesse(m) = 0
        BY <2>1 DEF IInv, Vitesses
    <3> QED
        BY <1>1, <2>1, <3>1 DEF FrontReset, Vitesse
  <2>3. TypeOK'
      BY <2>1, TickType DEF IInv, TypeOK, Bit
  <2>4. Vitesses' /\ DureeEncadree'
      BY <2>1, <2>2 DEF Vitesses, DureeEncadree
  <2> QED
      BY <2>3, <2>4 DEF IInv
<1>2. CASE Reset
  <2>1. /\ tick' = tick /\ reset_n' = 0
        /\ PWM' = PWM /\ haut' = haut /\ vmax' = vmax
        /\ vmin' \in [Moteurs -> Nat]
      BY <1>2 DEF Reset
  <2>2. \A m \in Moteurs : vmin'[m] = 0 /\ Vitesse(m)' = 0
      BY <1>2 DEF Reset, Vitesse, Zero
  <2>3. s_command' \in [Moteurs -> CommandeMoteur]
    <3>1. Zero \in CommandeMoteur
        BY DEF Zero, CommandeMoteur, Bit, Bits12
    <3> QED
        BY <1>2, <3>1 DEF Reset
  <2>4. TypeOK'
      BY <2>1, <2>3 DEF IInv, TypeOK, Bit
  <2>5. Vitesses'
      BY <2>1, <2>2, ParMoteur DEF Vitesses
  <2>6. DureeEncadree'
    <3>1. \A m \in Moteurs : vmin[m] \in Nat /\ vmin'[m] <= vmin[m]
        BY <2>2, ParMoteur
    <3> QED
        BY <2>1, <2>2, <3>1, ParMoteur DEF DureeEncadree
  <2> QED
      BY <2>4, <2>5, <2>6 DEF IInv
<1>3. CASE FinReset
  <2>1. /\ s_command' = s_command /\ tick' = tick /\ PWM' = PWM /\ reset_n' = 1
        /\ haut' = haut /\ vmin' = vmin /\ vmax' = vmax
      BY <1>3 DEF FinReset, hist
  <2>2. \A m \in Moteurs : Vitesse(m)' = Vitesse(m)
      BY <2>1 DEF Vitesse
  <2>3. TypeOK'
      BY <2>1 DEF IInv, TypeOK, Bit
  <2>4. Vitesses'
      BY <2>1, <2>2, ParMoteur DEF Vitesses
  <2>5. DureeEncadree'
      BY <2>1, <2>2 DEF IInv, DureeEncadree
  <2> QED
      BY <2>3, <2>4, <2>5 DEF IInv
<1> QED
    BY <1>1, <1>2, <1>3

\* The inductive invariant.
THEOREM Invariance == Spec => []IInv
<1>1. IInv /\ [Next]_vars => IInv'
  <2> SUFFICES ASSUME IInv, [Next]_vars PROVE IInv'
      OBVIOUS
  <2>1. CASE Front
      BY <2>1, FrontIInv
  <2>2. CASE FrontReset \/ Reset \/ FinReset
      BY <2>2, ResetIInv
  <2>3. CASE UNCHANGED vars
    <3>1. \A m \in Moteurs : Vitesse(m)' = Vitesse(m)
        BY <2>3 DEF vars, Vitesse
    <3> QED
        BY <2>3, <3>1 DEF vars, hist, IInv, TypeOK, Vitesses, DureeEncadree
  <2> QED
      BY <2>1, <2>2, <2>3 DEF Next
<1> QED
    BY InitIInv, <1>1, PTL DEF Spec

\* Type correctness of the register and of the generator.
THEOREM TypeCorrect == Spec => []TypeOK
<1>1. IInv => TypeOK
    BY DEF IInv
<1> QED
    BY Invariance, <1>1, PTL

\* For every period and every sequence of writes, a pulse lasts two cycles
\* more than a speed between the least and the greatest one commanded in it.
THEOREM PulseWidth == Spec => []DureeEncadree
<1>1. IInv => DureeEncadree
    BY DEF IInv
<1> QED
    BY Invariance, <1>1, PTL

\* A speed of at least total_dur - 1 all through a period leaves no low time.
THEOREM PleineVitesse ==
    Spec => [](\A m \in Moteurs :
                  haut[m] > 0 /\ vmin[m] >= total_dur - 1 => PWM[m] = 1)
<1>1. IInv => \A m \in Moteurs :
                  haut[m] > 0 /\ vmin[m] >= total_dur - 1 => PWM[m] = 1
    BY ParMoteur, TickType
<1> QED
    BY Invariance, <1>1, PTL

\* The comment of line 17 read exactly: at a constant speed the time high is
\* two cycles more than the speed, or the whole period, never the speed.
THEOREM DureeExacte ==
    Spec => [](\A m \in Moteurs :
                  tick = total_dur /\ haut[m] > 0 /\ vmin[m] = vmax[m] =>
                      haut[m] = Min2(vmax[m] + 2, total_dur + 1))
<1>1. IInv => \A m \in Moteurs :
                  tick = total_dur /\ haut[m] > 0 /\ vmin[m] = vmax[m] =>
                      haut[m] = Min2(vmax[m] + 2, total_dur + 1)
    BY ParMoteur, TickType DEF Min2
<1> QED
    BY Invariance, <1>1, PTL
=============================================================================
