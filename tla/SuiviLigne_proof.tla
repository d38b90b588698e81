-------------------------- MODULE SuiviLigne_proof --------------------------
(***************************************************************************)
(* SuiviLigne for every gain, speed, bar of sensors and set of vectors:    *)
(* between which gains the car turns to the line and the derivative brakes *)
(* (EnerveDomine, FreinDomine), and when a command means its word.         *)
(***************************************************************************)
EXTENDS SuiviLigne, Pilotage_proof

----------------------------------------------------------------------------
\* The types of one pass.

LEMMA Constantes ==
    /\ NbCapteurs \in Nat \ {0} /\ ErreurMax \in Nat
    /\ VITESSE_BASE \in Nat /\ Elan \in Nat /\ Kp0 \in Nat /\ Kp_enerve \in Nat
    /\ KiNum \in Nat /\ KiDen \in Nat \ {0} /\ Kd \in Nat /\ IntegraleMax \in Nat
BY SuiviAssumption DEF ErreurMax

LEMMA ErreurType ==
    ASSUME erreur_prec \in Erreurs, NEW v \in SUBSET Capteurs, NEW e \in Erreur(v)
    PROVE  e \in Erreurs
<1>1. CASE v = {}
    BY <1>1 DEF Erreur
<1>2. CASE v # {}
  <2>1. PICK PPU \in v, PDU \in v : e = PPU + PDU - ErreurMax
      BY <1>2 DEF Erreur
  <2>2. PPU \in 0 .. ErreurMax /\ PDU \in 0 .. ErreurMax
      BY Constantes DEF Capteurs, ErreurMax
  <2> QED
      BY <2>1, <2>2, Constantes DEF Erreurs
<1> QED
    BY <1>1, <1>2

LEMMA BorneType ==
    ASSUME NEW x \in Int PROVE Borne(x) \in -IntegraleMax .. IntegraleMax
BY Constantes DEF Borne

\* The number whose fifth is the correction.
Numerateur(kp, e, d, i) == KiDen * (kp * e + Kd * d) + KiNum * i

LEMMA NumerateurType ==
    ASSUME NEW kp \in Nat, NEW e \in Int, NEW d \in Int, NEW i \in Int
    PROVE  /\ Numerateur(kp, e, d, i) \in Int
           /\ Numerateur(kp, e, d, i) = KiDen * (kp * e) + KiDen * (Kd * d) + KiNum * i
           /\ Correction(kp, e, d, i) = Tronque(Numerateur(kp, e, d, i), KiDen)
<1>1. kp * e \in Int /\ Kd * d \in Int /\ KiNum * i \in Int /\ KiDen \in Int
    BY Constantes
<1>2. KiDen * (kp * e + Kd * d) = KiDen * (kp * e) + KiDen * (Kd * d)
    BY <1>1
<1>3. KiDen * (kp * e) \in Int /\ KiDen * (Kd * d) \in Int
    BY <1>1
<1> QED
    BY <1>1, <1>2, <1>3 DEF Numerateur, Correction

LEMMA CorrectionType ==
    ASSUME NEW kp \in Nat, NEW e \in Int, NEW d \in Int, NEW i \in Int
    PROVE  Correction(kp, e, d, i) \in Int
<1>1. Numerateur(kp, e, d, i) \in Int
    BY NumerateurType
<1>2. Correction(kp, e, d, i) = Tronque(Numerateur(kp, e, d, i), KiDen)
    BY NumerateurType
<1> QED
    BY <1>1, <1>2, TronqueSigne, Constantes

----------------------------------------------------------------------------
\* The sign of the correction.

\* With the raised gain, a steady error decides, whatever the integral.
LEMMA SigneEnerve ==
    ASSUME EnerveDomine, NEW e \in Int, e # 0,
           NEW i \in -IntegraleMax .. IntegraleMax
    PROVE  MemeSigne(Correction(Kp_enerve, e, 0, i), e)
<1> DEFINE n == Numerateur(Kp_enerve, e, 0, i)
           p == KiDen * Kp_enerve
<1>0. Kp_enerve \in Nat /\ i \in Int
    BY Constantes
<1>1. n \in Int /\ n = KiDen * (Kp_enerve * e) + KiDen * (Kd * 0) + KiNum * i
      /\ Correction(Kp_enerve, e, 0, i) = Tronque(n, KiDen)
    BY <1>0, NumerateurType
<1>2. p \in Nat /\ KiDen * (Kp_enerve * e) = p * e /\ p * e \in Int
      /\ KiDen * (Kd * 0) = 0
    BY Constantes
<1>3. -(KiNum * IntegraleMax) <= KiNum * i /\ KiNum * i <= KiNum * IntegraleMax
      /\ KiNum * i \in Int /\ KiNum * IntegraleMax \in Int
    BY ProduitEncadre, Constantes
<1>4. p >= KiNum * IntegraleMax + KiDen
    BY DEF EnerveDomine
<1>5. n = p * e + KiNum * i
    BY <1>1, <1>2, <1>3
<1>6. CASE e > 0
  <2>1. p <= p * e
      BY <1>2, <1>6
  <2>2. n >= KiDen
      BY <1>2, <1>3, <1>4, <1>5, <2>1, Constantes
  <2> QED
      BY <1>1, <1>6, <2>2, TronqueSigne, Constantes DEF MemeSigne
<1>7. CASE e < 0
  <2>1. p * e <= -p
      BY <1>2, <1>7
  <2>2. n <= -KiDen
      BY <1>2, <1>3, <1>4, <1>5, <2>1, Constantes
  <2> QED
      BY <1>1, <1>7, <2>2, TronqueSigne, Constantes DEF MemeSigne
<1> QED
    BY <1>6, <1>7

\* A move of the line decides, whatever the error, the integral and the gain.
LEMMA SigneFrein ==
    ASSUME FreinDomine, NEW kp \in {Kp0, Kp_enerve}, NEW e \in Erreurs,
           NEW d \in Int, d # 0, NEW i \in -IntegraleMax .. IntegraleMax
    PROVE  MemeSigne(Correction(kp, e, d, i), d)
<1> DEFINE n == Numerateur(kp, e, d, i)
           q == KiDen * Kd
           r == KiDen * (kp * ErreurMax)
<1>0. kp \in Nat /\ e \in Int /\ e \in -ErreurMax .. ErreurMax
    BY Constantes DEF Erreurs
<1>1. n \in Int /\ n = KiDen * (kp * e) + KiDen * (Kd * d) + KiNum * i
      /\ Correction(kp, e, d, i) = Tronque(n, KiDen)
    BY <1>0, NumerateurType
<1>2. q \in Nat /\ KiDen * (Kd * d) = q * d /\ q * d \in Int
    BY Constantes
<1>3. -(KiNum * IntegraleMax) <= KiNum * i /\ KiNum * i <= KiNum * IntegraleMax
      /\ KiNum * i \in Int /\ KiNum * IntegraleMax \in Int
    BY ProduitEncadre, Constantes
<1>4. -r <= KiDen * (kp * e) /\ KiDen * (kp * e) <= r
      /\ KiDen * (kp * e) \in Int /\ r \in Int
  <2>1. KiDen * kp \in Nat /\ KiDen * (kp * e) = (KiDen * kp) * e
        /\ r = (KiDen * kp) * ErreurMax
      BY <1>0, Constantes
  <2> HIDE DEF r
  <2> QED
      BY <1>0, <2>1, ProduitEncadre, Constantes
<1>5. q >= r + KiNum * IntegraleMax + KiDen
    BY DEF FreinDomine
<1>6. CASE d > 0
  <2>1. q <= q * d
      BY <1>2, <1>6
  <2>2. n >= KiDen
      BY <1>1, <1>2, <1>3, <1>4, <1>5, <2>1, Constantes
  <2> QED
      BY <1>1, <1>6, <2>2, TronqueSigne, Constantes DEF MemeSigne
<1>7. CASE d < 0
  <2>1. q * d <= -q
      BY <1>2, <1>7
  <2>2. n <= -KiDen
      BY <1>1, <1>2, <1>3, <1>4, <1>5, <2>1, Constantes
  <2> QED
      BY <1>1, <1>7, <2>2, TronqueSigne, Constantes DEF MemeSigne
<1> QED
    BY <1>6, <1>7

----------------------------------------------------------------------------
\* The inductive invariant: the types of TypeOK, the correction as the formula
\* of the last pass, and the words as those of that correction.
Arret == [m \in {"L", "R"} |-> [go |-> 0, arriere |-> 0, vitesse |-> 0]]

Types ==
    /\ val_capt \in SUBSET Capteurs
    /\ erreur_prec \in Erreurs
    /\ derivee \in -2 * ErreurMax .. 2 * ErreurMax
    /\ integrale \in -IntegraleMax .. IntegraleMax
    /\ Kp \in {Kp0, Kp_enerve}
    /\ vitesse_actuelle \in {VITESSE_BASE, VITESSE_BASE + Elan}

IInv ==
    /\ Types
    /\ correction = Correction(Kp, erreur_prec, derivee, integrale)
    /\ \/ commande = Arret
       \/ commande = piloter_progressif(vitesse_actuelle - correction,
                                        vitesse_actuelle + correction)

LEMMA EnEntiers ==
    ASSUME Types
    PROVE  /\ erreur_prec \in Int /\ derivee \in Int /\ integrale \in Int
           /\ Kp \in Nat /\ vitesse_actuelle \in Nat
<1>1. vitesse_actuelle \in Nat /\ Kp \in Nat
    BY Constantes DEF Types
<1>2. erreur_prec \in Int /\ derivee \in Int /\ integrale \in Int
    BY Constantes DEF Types, Erreurs
<1> QED
    BY <1>1, <1>2

LEMMA InitIInv == Init => IInv
<1> SUFFICES ASSUME Init PROVE IInv
    OBVIOUS
<1>1. Types
    BY Constantes DEF Init, Types, Erreurs
<1>2. Correction(Kp0, 0, 0, 0) = 0
  <2>1. Kp0 * 0 + Kd * 0 = 0 /\ KiNum * 0 = 0 /\ KiDen * 0 = 0
      BY Constantes
  <2>2. Numerateur(Kp0, 0, 0, 0) = 0
      BY <2>1 DEF Numerateur
  <2>3. Correction(Kp0, 0, 0, 0) = Tronque(0, KiDen)
    <3>1. Kp0 \in Nat /\ 0 \in Int
        BY Constantes
    <3> QED
        BY ONLY <2>2, <3>1, NumerateurType, SMT
  <2> QED
      BY <2>3, TronqueSigne, Constantes
<1> QED
    BY <1>1, <1>2 DEF Init, IInv, Arret

LEMMA TourIInv ==
    ASSUME IInv, NEW v \in Vecteurs, Tour(v)
    PROVE  IInv'
<1>1. v \in SUBSET Capteurs
    BY SuiviAssumption
<1>2. erreur_prec \in Erreurs /\ integrale \in Int /\ Types
    BY EnEntiers DEF IInv, Types
<1>3. PICK e \in Erreur(v) :
        /\ val_capt' = v
        /\ derivee' = e - erreur_prec
        /\ integrale' = IF e * erreur_prec < 0 THEN 0 ELSE Borne(integrale + e)
        /\ Kp' = IF Abs(e) >= 3 THEN Kp_enerve ELSE Kp
        /\ vitesse_actuelle' = IF Abs(e) <= 1 THEN VITESSE_BASE + Elan
                               ELSE vitesse_actuelle
        /\ correction' = Correction(Kp', e, derivee', integrale')
        /\ erreur_prec' = e
        /\ commande' = piloter_progressif(vitesse_actuelle' - correction',
                                          vitesse_actuelle' + correction')
    BY DEF Tour
<1>4. e \in Erreurs
    BY <1>1, <1>2, ErreurType
<1>5. derivee' \in -2 * ErreurMax .. 2 * ErreurMax
    BY <1>2, <1>3, <1>4, Constantes DEF Erreurs
<1>6. integrale' \in -IntegraleMax .. IntegraleMax
  <2>1. integrale + e \in Int
      BY <1>2, <1>4, Constantes DEF Erreurs
  <2>2. Borne(integrale + e) \in -IntegraleMax .. IntegraleMax
      BY <2>1, BorneType
  <2> QED
      BY <1>3, <2>2, Constantes
<1>7. Kp' \in {Kp0, Kp_enerve}
    BY <1>2, <1>3 DEF Types
<1>8. vitesse_actuelle' \in {VITESSE_BASE, VITESSE_BASE + Elan}
    BY <1>2, <1>3 DEF Types
<1>9. Types'
    BY <1>1, <1>3, <1>4, <1>5, <1>6, <1>7, <1>8 DEF Types
<1>10. correction' = Correction(Kp', erreur_prec', derivee', integrale')
    BY <1>3
<1> QED
    BY <1>3, <1>9, <1>10 DEF IInv

\* Every pass of the loop keeps the invariant, from the values of the start.
THEOREM Invariance == Spec => []IInv
<1>1. Init => IInv
    BY InitIInv
<1>2. IInv /\ [Next]_vars => IInv'
  <2> SUFFICES ASSUME IInv, [Next]_vars PROVE IInv'
      OBVIOUS
  <2>1. CASE Next
      BY <2>1, TourIInv DEF Next
  <2>2. CASE UNCHANGED vars
      BY <2>2 DEF vars, IInv, Types
  <2> QED
      BY <2>1, <2>2
<1> QED
    BY <1>1, <1>2, PTL DEF Spec

----------------------------------------------------------------------------
\* The properties of the runs.

LEMMA CorrectionEntiere ==
    ASSUME IInv
    PROVE  correction \in Int /\ vitesse_actuelle - correction \in Int
           /\ vitesse_actuelle + correction \in Int
<1>1. Types
    BY DEF IInv
<1>2. correction \in Int
    BY <1>1, EnEntiers, CorrectionType DEF IInv
<1> QED
    BY <1>1, <1>2, EnEntiers

LEMMA ArretType == Arret \in [{"L", "R"} -> Moteur]
<1>1. 0 \in Champ
    BY DEF Champ
<1>2. [go |-> 0, arriere |-> 0, vitesse |-> 0] \in Moteur
    BY <1>1 DEF Moteur
<1> QED
    BY <1>2 DEF Arret

\* The variables keep their types: the integral within its bounds, the words
\* within the fields of the PWM register (lines 79-131 of the program).
THEOREM TypeCorrect == Spec => []TypeOK
<1>1. IInv => TypeOK
  <2> SUFFICES ASSUME IInv PROVE TypeOK
      OBVIOUS
  <2>1. commande \in [{"L", "R"} -> Moteur]
      BY CorrectionEntiere, PilotageMots, ArretType DEF IInv
  <2> QED
      BY <2>1, CorrectionEntiere DEF IInv, Types, TypeOK
<1> QED
    BY <1>1, Invariance, PTL

\* When the raised gain dominates the integral, a line that stays on one side
\* is turned to, whatever the passes before (lines 98-118 of the program).
THEOREM Virage ==
    ASSUME EnerveDomine
    PROVE  Spec => []VirageEnerve
<1>1. IInv => VirageEnerve
  <2> SUFFICES ASSUME IInv, Kp = Kp_enerve, derivee = 0, erreur_prec # 0
               PROVE  MemeSigne(correction, erreur_prec)
      BY DEF VirageEnerve
  <2>1. correction = Correction(Kp_enerve, erreur_prec, 0, integrale)
      BY DEF IInv
  <2>2. erreur_prec \in Int /\ integrale \in -IntegraleMax .. IntegraleMax
      BY EnEntiers DEF IInv, Types
  <2> QED
      BY <2>1, <2>2, SigneEnerve
<1> QED
    BY <1>1, Invariance, PTL

\* When the derivative dominates the two other terms, the correction opposes
\* every move of the line (lines 98-118 of the program).
THEOREM Freinage ==
    ASSUME FreinDomine
    PROVE  Spec => []Frein
<1>1. IInv => Frein
  <2> SUFFICES ASSUME IInv, derivee # 0
               PROVE  MemeSigne(correction, derivee)
      BY DEF Frein
  <2>1. correction = Correction(Kp, erreur_prec, derivee, integrale)
      BY DEF IInv
  <2>2. /\ erreur_prec \in Erreurs /\ derivee \in Int
        /\ integrale \in -IntegraleMax .. IntegraleMax
        /\ Kp \in {Kp0, Kp_enerve}
      BY EnEntiers DEF IInv, Types
  <2> QED
      BY <2>1, <2>2, SigneFrein
<1> QED
    BY <1>1, Invariance, PTL

\* With a dead zone below the clamp and a trim that does not slow the right
\* motor, each word in the register turns its motor as the pass asked, outside
\* its dead zone, or stops it (lines 31-72 of the program).
THEOREM Traduction ==
    ASSUME DEADZONE < PWM_MAX, TRIM_DROIT >= 100
    PROVE  Spec => []TraductionFidele
<1>1. IInv => TraductionFidele
  <2> DEFINE g == vitesse_actuelle - correction
             d == vitesse_actuelle + correction
             t == Tronque(d * TRIM_DROIT, 100)
  <2> SUFFICES ASSUME IInv PROVE TraductionFidele
      OBVIOUS
  <2>1. CASE commande = Arret
      BY <2>1 DEF Arret, TraductionFidele
  <2>2. CASE commande = piloter_progressif(g, d)
    <3>1. g \in Int /\ d \in Int
        BY CorrectionEntiere
    <3>2. t \in Int /\ MemeSigne(t, d)
        BY <3>1, TrimFidele
    <3> HIDE DEF t
    <3>3. commande["L"] = CommandeDe(HorsZoneMorte(g))
          /\ commande["R"] = CommandeDe(HorsZoneMorte(t))
        BY <2>2, <3>1, PilotageMots DEF t
    <3> HIDE DEF g, d
    <3>4. /\ MemeSigne(Signee(commande["L"]), g)
          /\ \/ commande["L"].vitesse = 0
             \/ commande["L"].vitesse \in DEADZONE + 1 .. PWM_MAX
        BY <3>1, <3>3, CommandeFidele
    <3>5. /\ MemeSigne(Signee(commande["R"]), t)
          /\ \/ commande["R"].vitesse = 0
             \/ commande["R"].vitesse \in DEADZONE + 1 .. PWM_MAX
        BY <3>2, <3>3, CommandeFidele
    <3>6. MemeSigne(Signee(commande["R"]), d)
        BY <3>2, <3>5, MemeSigneTransitif
    <3> QED
        BY <3>4, <3>5, <3>6 DEF TraductionFidele, g, d
  <2> QED
      BY <2>1, <2>2 DEF IInv
<1> QED
    BY <1>1, Invariance, PTL

\* A correction makes its motor faster and the other slower than on a straight
\* line, in what the bridge applies.
LEMMA MixageDunMoteur ==
    ASSUME NEW x \in Int, NEW v \in Nat, HorsZoneMorte(v) < PWM_MAX
    PROVE  /\ x < v => Signee(CommandeDe(HorsZoneMorte(x)))
                         < Signee(CommandeDe(HorsZoneMorte(v)))
           /\ x > v => Signee(CommandeDe(HorsZoneMorte(x)))
                         > Signee(CommandeDe(HorsZoneMorte(v)))
<1>1. PWM_MAX \in 1 .. 4095 /\ DEADZONE \in Nat
    BY PilotageAssumption
<1>2. HorsZoneMorte(v) \in Nat
    BY <1>1 DEF HorsZoneMorte
<1>3. CASE x < v
  <2>1. HorsZoneMorte(x) < PWM_MAX
      BY <1>1, <1>3 DEF HorsZoneMorte
  <2> QED
      BY <1>1, <1>2, <1>3, <2>1, CommandeStricte
<1>4. CASE x > v
  <2>1. HorsZoneMorte(x) > -PWM_MAX
      BY <1>1, <1>4 DEF HorsZoneMorte
  <2>2. Signee(CommandeDe(HorsZoneMorte(v))) < Signee(CommandeDe(HorsZoneMorte(x)))
      BY <1>1, <1>4, <2>1, CommandeStricte
  <2>3. Signee(CommandeDe(HorsZoneMorte(v))) \in Int /\ Signee(CommandeDe(HorsZoneMorte(x))) \in Int
    <3>1. HorsZoneMorte(v) \in Int /\ HorsZoneMorte(x) \in Int
        BY <1>1 DEF HorsZoneMorte
    <3> QED
        BY <1>1, <3>1, SigneeCommande
  <2> QED
      BY <1>4, <2>2, <2>3
<1> QED
    BY <1>3, <1>4

\* "Correction positive doit ACCELERER Droite et RALENTIR Gauche" (line 111),
\* for every trim that does not slow the right motor and a clamp above the
\* speeds of a straight line.
THEOREM MixageFidele ==
    ASSUME TRIM_DROIT >= 100, MargeVitesse PROVE Spec => []Mixage
<1>1. IInv => Mixage
  <2> DEFINE v == vitesse_actuelle
             g == v - correction
             d == v + correction
             td == Tronque(d * TRIM_DROIT, 100)
             tv == Tronque(v * TRIM_DROIT, 100)
  <2> SUFFICES ASSUME IInv PROVE Mixage
      OBVIOUS
  <2>1. CASE commande = Arret
      BY <2>1 DEF Arret, Mixage
  <2>2. CASE commande = piloter_progressif(g, d)
    <3>1. g \in Int /\ d \in Int /\ correction \in Int
        BY CorrectionEntiere
    <3>2. v \in Nat /\ v \in {VITESSE_BASE, VITESSE_BASE + Elan}
        BY Constantes DEF IInv, Types
    <3>3. td \in Int /\ tv \in Int
        BY <3>1, <3>2, TrimFidele
    <3>4. tv \in Nat
      <4>1. MemeSigne(tv, v)
          BY <3>2, TrimFidele
      <4> QED
          BY <3>2, <3>3, <4>1 DEF MemeSigne
    <3>5. HorsZoneMorte(v) < PWM_MAX /\ HorsZoneMorte(tv) < PWM_MAX
        BY <3>2 DEF MargeVitesse
    <3>6. (d > v => td > tv) /\ (d < v => td < tv)
      <4>1. d > v => tv < td
          BY <3>1, <3>2, TrimStrict
      <4>2. d < v => td < tv
          BY <3>1, <3>2, TrimStrict
      <4> QED
          BY <3>3, <4>1, <4>2
    <3> HIDE DEF td, tv
    <3>7. /\ commande["L"] = CommandeDe(HorsZoneMorte(g))
          /\ commande["R"] = CommandeDe(HorsZoneMorte(td))
        BY <2>2, <3>1, PilotageMots DEF td
    <3>8. /\ piloter_progressif(v, v)["L"] = CommandeDe(HorsZoneMorte(v))
          /\ piloter_progressif(v, v)["R"] = CommandeDe(HorsZoneMorte(tv))
        BY <3>2, PilotageMots DEF tv
    <3>9. /\ g < v => Signee(commande["L"]) < Signee(piloter_progressif(v, v)["L"])
          /\ g > v => Signee(commande["L"]) > Signee(piloter_progressif(v, v)["L"])
        BY <3>1, <3>2, <3>5, <3>7, <3>8, MixageDunMoteur
    <3>10. /\ td < tv => Signee(commande["R"]) < Signee(piloter_progressif(v, v)["R"])
           /\ td > tv => Signee(commande["R"]) > Signee(piloter_progressif(v, v)["R"])
        BY <3>3, <3>4, <3>5, <3>7, <3>8, MixageDunMoteur
    <3>11. (correction > 0 => g < v /\ d > v) /\ (correction < 0 => g > v /\ d < v)
        BY <3>1, <3>2
    <3> QED
        BY <3>6, <3>9, <3>10, <3>11 DEF Mixage
  <2> QED
      BY <2>1, <2>2 DEF IInv
<1> QED
    BY <1>1, Invariance, PTL

----------------------------------------------------------------------------
\* The search for a lost line: the safety half of RechercheDuBonCote.

\* How far the integral still pulls to the other side than the error.
Contraire == IF erreur_prec > 0 THEN -integrale ELSE integrale

\* A pass without the line keeps the error, brings a contrary integral strictly
\* nearer to 0 and never makes it contrary again; once it is not, the car turns
\* to the side where the line was lost.
RechercheAvance ==
    val_capt' = {} /\ erreur_prec # 0 =>
        /\ erreur_prec' = erreur_prec /\ derivee' = 0
        /\ Contraire > 0 => Contraire' < Contraire
        /\ Contraire <= 0 => Contraire' <= 0
        /\ Contraire' <= 0 => MemeSigne(correction', erreur_prec')

\* The sign of the correction of a steady error and of an integral on its side.
LEMMA SigneConcordant ==
    ASSUME NEW kp \in Nat, kp >= 1, NEW e \in Int, e # 0, NEW i \in Int,
           IF e > 0 THEN i >= 0 ELSE i <= 0
    PROVE  MemeSigne(Correction(kp, e, 0, i), e)
<1> DEFINE n == Numerateur(kp, e, 0, i)
           p == KiDen * kp
<1>1. n \in Int /\ n = KiDen * (kp * e) + KiDen * (Kd * 0) + KiNum * i
      /\ Correction(kp, e, 0, i) = Tronque(n, KiDen)
    BY NumerateurType
<1>2. p \in Nat /\ KiDen * (kp * e) = p * e /\ p * e \in Int /\ KiDen * (Kd * 0) = 0
      /\ KiNum * i \in Int /\ p >= KiDen
    BY Constantes
<1>3. n = p * e + KiNum * i
    BY <1>1, <1>2
<1>4. CASE e > 0
  <2>1. p <= p * e
      BY <1>2, <1>4
  <2>2. KiNum * i >= 0
      BY <1>4, Constantes
  <2>3. n >= KiDen
      BY <1>2, <1>3, <2>1, <2>2, Constantes
  <2> QED
      BY <1>1, <1>4, <2>3, TronqueSigne, Constantes DEF MemeSigne
<1>5. CASE e < 0
  <2>1. p * e <= -p
      BY <1>2, <1>5
  <2>2. KiNum * i <= 0
      BY <1>5, Constantes
  <2>3. n <= -KiDen
      BY <1>2, <1>3, <2>1, <2>2, Constantes
  <2> QED
      BY <1>1, <1>5, <2>3, TronqueSigne, Constantes DEF MemeSigne
<1> QED
    BY <1>4, <1>5

LEMMA TourPerdu ==
    ASSUME Kp0 >= 1, Kp_enerve >= 1, IInv, NEW v \in Vecteurs, Tour(v)
    PROVE  RechercheAvance
<1> SUFFICES ASSUME v = {}, erreur_prec # 0
             PROVE  /\ erreur_prec' = erreur_prec /\ derivee' = 0
                    /\ Contraire > 0 => Contraire' < Contraire
                    /\ Contraire <= 0 => Contraire' <= 0
                    /\ Contraire' <= 0 => MemeSigne(correction', erreur_prec')
    BY DEF RechercheAvance, Tour
<1>1. /\ erreur_prec \in Int /\ integrale \in Int /\ Kp \in {Kp0, Kp_enerve}
      /\ integrale \in -IntegraleMax .. IntegraleMax /\ Kp0 \in Nat /\ Kp_enerve \in Nat
      /\ IntegraleMax \in Nat
    BY EnEntiers, Constantes DEF IInv, Types
<1>2. /\ derivee' = erreur_prec - erreur_prec /\ erreur_prec' = erreur_prec
      /\ integrale' = IF erreur_prec * erreur_prec < 0 THEN 0
                      ELSE Borne(integrale + erreur_prec)
      /\ Kp' = IF Abs(erreur_prec) >= 3 THEN Kp_enerve ELSE Kp
      /\ correction' = Correction(Kp', erreur_prec, derivee', integrale')
    BY DEF Tour, Erreur
<1>3. derivee' = 0 /\ Kp' \in Nat /\ Kp' >= 1
    BY <1>1, <1>2
<1>4. integrale' = Borne(integrale + erreur_prec)
  <2>1. ~(erreur_prec * erreur_prec < 0)
      BY <1>1
  <2> QED
      BY <1>2, <2>1
<1>5. integrale' \in Int
    BY <1>1, <1>4 DEF Borne
<1>6. /\ Contraire > 0 => Contraire' < Contraire
      /\ Contraire <= 0 => Contraire' <= 0
    BY <1>1, <1>2, <1>4 DEF Contraire, Borne
<1>7. ASSUME Contraire' <= 0 PROVE MemeSigne(correction', erreur_prec')
  <2>1. IF erreur_prec > 0 THEN integrale' >= 0 ELSE integrale' <= 0
      BY <1>1, <1>2, <1>5, <1>7 DEF Contraire
  <2>2. MemeSigne(Correction(Kp', erreur_prec, 0, integrale'), erreur_prec)
      BY <1>1, <1>3, <1>5, <2>1, SigneConcordant
  <2> QED
      BY <1>2, <1>3, <2>2
<1> QED
    BY <1>2, <1>3, <1>6, <1>7

\* A line lost on one side is looked for on that side, after IntegraleMax passes
\* at most: the number of passes needed decreases at each (lines 98-118).
THEOREM Recherche ==
    ASSUME Kp0 >= 1, Kp_enerve >= 1
    PROVE  Spec => [][RechercheAvance]_vars
<1>1. IInv /\ [Next]_vars => [RechercheAvance]_vars
    BY TourPerdu DEF Next
<1> QED
    BY <1>1, Invariance, PTL DEF Spec

\* Exactly when the car turns away from a line that does not move: the contrary
\* integral outweighs the proportional term by one unit of the correction.
LEMMA SigneContraire ==
    ASSUME NEW kp \in Nat, NEW e \in Int, e # 0, NEW i \in Int
    PROVE  LET c == Correction(kp, e, 0, i)
           IN  IF e > 0 THEN c < 0 <=> KiNum * (-i) >= KiDen * (kp * e) + KiDen
               ELSE c > 0 <=> KiNum * i >= KiDen * (kp * (-e)) + KiDen
<1> DEFINE n == Numerateur(kp, e, 0, i)
           c == Correction(kp, e, 0, i)
<1>1. n \in Int /\ n = KiDen * (kp * e) + KiDen * (Kd * 0) + KiNum * i
      /\ c = Tronque(n, KiDen)
    BY NumerateurType
<1>2. /\ KiDen * (kp * e) \in Int /\ KiDen * (Kd * 0) = 0 /\ KiNum * i \in Int
      /\ KiNum * (-i) = -(KiNum * i)
      /\ KiDen * (kp * (-e)) = -(KiDen * (kp * e))
      /\ KiDen \in Nat \ {0}
  <2>1. kp * (-e) = -(kp * e) /\ kp * e \in Int
      OBVIOUS
  <2>2. KiDen * (-(kp * e)) = -(KiDen * (kp * e))
      BY <2>1, Constantes
  <2>3. KiNum * (-i) = -(KiNum * i) /\ KiNum * i \in Int
      BY Constantes
  <2> QED
      BY <2>1, <2>2, <2>3, Constantes
<1>3. n = KiDen * (kp * e) + KiNum * i
    BY <1>1, <1>2
<1>4. c \in Int /\ (c < 0 <=> n <= -KiDen) /\ (c > 0 <=> n >= KiDen)
  <2> HIDE DEF n, c
  <2> QED
    BY <1>1, <1>2, TronqueExact
<1> HIDE DEF n, c
<1>5. IF e > 0 THEN c < 0 <=> KiNum * (-i) >= KiDen * (kp * e) + KiDen
      ELSE c > 0 <=> KiNum * i >= KiDen * (kp * (-e)) + KiDen
    BY <1>1, <1>2, <1>3, <1>4
<1> QED
    BY <1>5 DEF c

\* The comment of lines 110-111 read exactly: a steady line is turned away from
\* if, and only if, the integral is contrary and that large.  With the gains of
\* the program it takes 205 for an error of 1 and 405 for an error of 2, and no
\* integral is enough for a larger error.
THEOREM ViragePrecis ==
    Spec => [](derivee = 0 /\ erreur_prec # 0 =>
                  (IF erreur_prec > 0 THEN correction < 0 ELSE correction > 0)
                  <=> KiNum * Contraire >= KiDen * (Kp * Abs(erreur_prec)) + KiDen)
<1>1. IInv => (derivee = 0 /\ erreur_prec # 0 =>
                  (IF erreur_prec > 0 THEN correction < 0 ELSE correction > 0)
                  <=> KiNum * Contraire >= KiDen * (Kp * Abs(erreur_prec)) + KiDen)
  <2> SUFFICES ASSUME IInv, derivee = 0, erreur_prec # 0
               PROVE  (IF erreur_prec > 0 THEN correction < 0 ELSE correction > 0)
                      <=> KiNum * Contraire >= KiDen * (Kp * Abs(erreur_prec)) + KiDen
      OBVIOUS
  <2>1. /\ correction = Correction(Kp, erreur_prec, 0, integrale)
        /\ erreur_prec \in Int /\ integrale \in Int /\ Kp \in Nat
      BY EnEntiers DEF IInv
  <2>2. CASE erreur_prec > 0
    <3>1. correction < 0 <=> KiNum * (-integrale) >= KiDen * (Kp * erreur_prec) + KiDen
        BY <2>1, <2>2, SigneContraire
    <3>2. Contraire = -integrale /\ Abs(erreur_prec) = erreur_prec
        BY <2>1, <2>2 DEF Contraire, Abs
    <3> QED
        BY ONLY <2>2, <3>1, <3>2, Zenon
  <2>3. CASE ~(erreur_prec > 0)
    <3>1. correction > 0 <=> KiNum * integrale >= KiDen * (Kp * (-erreur_prec)) + KiDen
        BY <2>1, <2>3, SigneContraire
    <3>2. Contraire = integrale /\ Abs(erreur_prec) = -erreur_prec
        BY <2>1, <2>3 DEF Contraire, Abs
    <3> QED
        BY ONLY <2>3, <3>1, <3>2, Zenon
  <2> QED
      BY <2>2, <2>3
<1> QED
    BY <1>1, Invariance, PTL
=============================================================================
