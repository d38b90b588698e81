---------------------------- MODULE Moteurs_proof ----------------------------
(***************************************************************************)
(* The bench and the first controller: what their registers hold, for      *)
(* every dead zone, clamp, trim, gain, step and starting speed.            *)
(***************************************************************************)
EXTENDS BancMoteurs, ControleurTP, Pilotage_proof

-----------------------------------------------------------------------------
(* The bench.                                                              *)

Vitesses == vG \in 0 .. PWM_MAX /\ vD \in 0 .. PWM_MAX

LEMMA BorneesType ==
    ASSUME NEW x \in Int PROVE Bornees(x) \in 0 .. PWM_MAX
BY PilotageAssumption DEF Bornees

LEMMA PasEntiers ==
    ASSUME NEW k PROVE PasGauche(k) \in Int /\ PasDroit(k) \in Int
BY BancAssumption DEF PasGauche, PasDroit

LEMMA ToucheVitesses ==
    ASSUME Vitesses, NEW k, Touche(k) PROVE Vitesses'
<1>1. vG \in Int /\ vD \in Int /\ PWM_MAX \in Nat
  BY PilotageAssumption DEF Vitesses
<1>2. Bornees(vG + PasGauche(k)) \in 0 .. PWM_MAX
  BY <1>1, PasEntiers, BorneesType
<1>3. Bornees(vD + PasDroit(k)) \in 0 .. PWM_MAX
  BY <1>1, PasEntiers, BorneesType
<1>4. 0 \in 0 .. PWM_MAX
  BY <1>1
<1> QED
  BY <1>2, <1>3, <1>4 DEF Touche, Vitesses

LEMMA MotAvant ==
    ASSUME NEW x \in 0 .. PWM_MAX
    PROVE  preparer_moteur(1, 0, x) = [go |-> 1, arriere |-> 0, vitesse |-> x]
<1>1. x \in Nat /\ x <= PWM_MAX /\ PWM_MAX \in Nat
  BY PilotageAssumption
<1>2. PICK b \in 0 .. PWM_MAX :
        /\ preparer_moteur(1, 0, x) = Mot14(0, b)
        /\ b = IF x > PWM_MAX THEN PWM_MAX ELSE x
  BY <1>1, Preparer
<1> QED
  BY <1>1, <1>2 DEF Mot14

LEMMA ToucheAffiche ==
    ASSUME Vitesses', NEW k, Touche(k) PROVE AffichageVrai'
<1>1. /\ preparer_moteur(1, 0, vG') = [go |-> 1, arriere |-> 0, vitesse |-> vG']
      /\ preparer_moteur(1, 0, vD') = [go |-> 1, arriere |-> 0, vitesse |-> vD']
  BY MotAvant DEF Vitesses
<1>2. registre' = [m \in {"L", "R"} |-> preparer_moteur(1, 0, IF m = "L" THEN vG' ELSE vD')]
  BY DEF Touche, envoyer_commande
<1> QED
  BY <1>1, <1>2 DEF AffichageVrai

\* The speeds at the prompt are those of the register, from the first key on.
THEOREM Affichage == BSpec => [](Vitesses /\ AffichageVrai)
<1>1. BInit => Vitesses /\ AffichageVrai
  BY BancAssumption DEF BInit, Vitesses, AffichageVrai
<1>2. Vitesses /\ AffichageVrai /\ [BNext]_bvars => (Vitesses /\ AffichageVrai)'
  <2> SUFFICES ASSUME Vitesses, AffichageVrai, [BNext]_bvars
               PROVE  Vitesses' /\ AffichageVrai'
    OBVIOUS
  <2>1. ASSUME NEW k \in Touches, Touche(k) PROVE Vitesses' /\ AffichageVrai'
    BY <2>1, ToucheVitesses, ToucheAffiche
  <2>2. CASE UNCHANGED bvars
    BY <2>2 DEF bvars, Vitesses, AffichageVrai
  <2> QED
    BY <2>1, <2>2 DEF BNext
<1> QED
  BY <1>1, <1>2, PTL DEF BSpec

\* The same step on both motors, then the same bounds.
LEMMA RampeBornee ==
    ASSUME NEW a \in 0 .. PWM_MAX, NEW b \in 0 .. PWM_MAX, NEW p \in Int
    PROVE  LET ap == Bornees(a + p)
               bp == Bornees(b + p)
           IN  /\ ap - bp # a - b => {ap, bp} \cap {0, PWM_MAX} # {}
               /\ Abs(ap - bp) <= Abs(a - b)
               /\ (a > b => ap >= bp) /\ (a < b => ap <= bp)
<1> DEFINE ap == Bornees(a + p)
           bp == Bornees(b + p)
<1>1. PWM_MAX \in Nat
  BY PilotageAssumption
<1>2. /\ Abs(ap - bp) <= Abs(a - b)
      /\ (a > b => ap >= bp) /\ (a < b => ap <= bp)
  BY <1>1 DEF Bornees, Abs
<1>3. ASSUME ap \notin {0, PWM_MAX}, bp \notin {0, PWM_MAX} PROVE ap - bp = a - b
  <2>1. ap = a + p /\ bp = b + p
    BY <1>1, <1>3 DEF Bornees
  <2> QED
    BY <2>1
<1> QED
  BY <1>2, <1>3

\* A ramp keeps the balance of the motors away from the bounds of the speed, and
\* a bound may only narrow it.
THEOREM Equilibre == BSpec => EquilibreGarde
<1> DEFINE Garde == /\ vG' - vD' # vG - vD => {vG', vD'} \cap {0, PWM_MAX} # {}
                    /\ Abs(vG' - vD') <= Abs(vG - vD)
                    /\ (vG > vD => vG' >= vD') /\ (vG < vD => vG' <= vD')
<1>1. Vitesses /\ [BNext]_bvars => [Touche("z") \/ Touche("s") => Garde]_bvars
  <2> SUFFICES ASSUME Vitesses, NEW k \in {"z", "s"}, Touche(k) PROVE Garde
    OBVIOUS
  <2>1. PICK p \in Int : vG' = Bornees(vG + p) /\ vD' = Bornees(vD + p)
    <3>1. PasGauche(k) = PasDroit(k) /\ PasGauche(k) \in Int
      BY PasEntiers DEF PasGauche, PasDroit
    <3> QED
      BY <3>1 DEF Touche
  <2> QED
    BY <2>1, RampeBornee DEF Vitesses
<1>2. BSpec => []Vitesses
  BY Affichage, PTL
<1> QED
  BY <1>1, <1>2, PTL DEF BSpec, EquilibreGarde

-----------------------------------------------------------------------------
(* The controller.                                                         *)

LEMMA ConstantesTP ==
    /\ Base_TP \in Nat /\ Kp_TP \in Nat /\ Kd_TP \in Nat /\ Integrale_TP \in Nat
    /\ KiNum_TP \in Nat /\ KiDen_TP \in Nat \ {0}
    /\ TrimNum \in Nat /\ TrimDen \in Nat \ {0}
    /\ PWM_MAX \in 1 .. 4095 /\ DEADZONE \in Nat
BY TPAssumption, PilotageAssumption

\* The state: the correction is the formula of the last pass, the word that of
\* the correction.
TPInv ==
    /\ erreurTP \in -6 .. 6
    /\ deriveeTP \in -12 .. 12
    /\ integraleTP \in -Integrale_TP .. Integrale_TP
    /\ correction_pid = CorrectionTP(erreurTP, integraleTP, deriveeTP)
    /\ lance \in BOOLEAN
    /\ IF lance THEN registreTP = piloter_moteurs(Base_TP + correction_pid,
                                                  Base_TP - correction_pid)
       ELSE registreTP \in Restes_TP

LEMMA CorrectionTPForme ==
    ASSUME NEW e \in Int, NEW i \in Int, NEW d \in Int
    PROVE  /\ CorrectionTP(e, i, d) \in Int
           /\ CorrectionTP(e, i, d)
                = Tronque((KiDen_TP * Kp_TP) * e + (KiDen_TP * Kd_TP) * d + KiNum_TP * i,
                          KiDen_TP)
<1>1. Kp_TP * e \in Int /\ Kd_TP * d \in Int /\ KiNum_TP * i \in Int /\ KiDen_TP \in Int
  BY ConstantesTP
<1>2. KiDen_TP * (Kp_TP * e + Kd_TP * d) = (KiDen_TP * Kp_TP) * e + (KiDen_TP * Kd_TP) * d
  BY <1>1, ConstantesTP
<1>3. (KiDen_TP * Kp_TP) * e + (KiDen_TP * Kd_TP) * d + KiNum_TP * i \in Int
  BY <1>1, ConstantesTP
<1> QED
  BY <1>2, <1>3, ConstantesTP, TronqueSigne DEF CorrectionTP

LEMMA ErreurTPType ==
    ASSUME erreurTP \in -6 .. 6, NEW v \in SUBSET (0 .. 6), NEW e \in ErreurTP(v)
    PROVE  e \in -6 .. 6
<1>1. CASE v = {}
  BY <1>1 DEF ErreurTP
<1>2. CASE v # {}
  <2> DEFINE Premiers == {k \in v : \A j \in v : k <= j}
             Derniers == {k \in v : \A j \in v : j <= k}
             Valeurs == {PPU + PDU - 6 : PPU \in Premiers, PDU \in Derniers}
  <2>1. e \in Valeurs
    <3>1. ErreurTP(v) = IF v = {} THEN {erreurTP} ELSE Valeurs
      BY DEF ErreurTP
    <3> HIDE DEF Valeurs
    <3> QED
      BY <1>2, <3>1
  <2>2. Premiers \subseteq 0 .. 6 /\ Derniers \subseteq 0 .. 6
    OBVIOUS
  <2> HIDE DEF Premiers, Derniers
  <2>3. PICK PPU \in Premiers, PDU \in Derniers : e = PPU + PDU - 6
    BY <2>1
  <2> QED
    BY <2>2, <2>3
<1> QED
  BY <1>1, <1>2

LEMMA TPInvariant == TPSpec => []TPInv
<1>1. TPInit => TPInv
  <2> SUFFICES ASSUME TPInit PROVE TPInv
    OBVIOUS
  <2>1. CorrectionTP(0, 0, 0) = 0
    <3>1. KiDen_TP * (Kp_TP * 0 + Kd_TP * 0) + KiNum_TP * 0 = 0
      BY ConstantesTP
    <3> QED
      BY <3>1, ConstantesTP, TronqueSigne DEF CorrectionTP
  <2>2. /\ erreurTP \in -6 .. 6 /\ deriveeTP \in -12 .. 12
        /\ integraleTP \in -Integrale_TP .. Integrale_TP
    BY ConstantesTP DEF TPInit
  <2>3. correction_pid = CorrectionTP(erreurTP, integraleTP, deriveeTP)
    BY <2>1 DEF TPInit
  <2>4. lance = FALSE /\ registreTP \in Restes_TP
    BY DEF TPInit
  <2> QED
    BY <2>2, <2>3, <2>4, Zenon DEF TPInv
<1>2. TPInv /\ [TPNext]_tpvars => TPInv'
  <2> SUFFICES ASSUME TPInv, [TPNext]_tpvars PROVE TPInv'
    OBVIOUS
  <2>1. ASSUME NEW v \in Vecteurs_TP, NEW e \in ErreurTP(v),
               erreurTP' = e, deriveeTP' = e - erreurTP,
               integraleTP' = Accumule(e),
               correction_pid' = CorrectionTP(e, integraleTP', deriveeTP'),
               registreTP' = piloter_moteurs(Base_TP + correction_pid',
                                             Base_TP - correction_pid'),
               lance' = TRUE
        PROVE  TPInv'
    <3>1. e \in -6 .. 6
      BY ErreurTPType, TPAssumption DEF TPInv
    <3>2. deriveeTP' \in -12 .. 12
      BY <2>1, <3>1 DEF TPInv
    <3>3. integraleTP' \in -Integrale_TP .. Integrale_TP
      BY <2>1, <3>1, ConstantesTP DEF TPInv, Accumule, Serre
    <3> QED
      BY <2>1, <3>1, <3>2, <3>3 DEF TPInv
  <2>2. CASE UNCHANGED tpvars
    BY <2>2 DEF tpvars, TPInv
  <2> QED
    BY <2>1, <2>2 DEF TPNext, TourTP
<1> QED
  BY <1>1, <1>2, PTL DEF TPSpec

LEMMA TPEntiers ==
    ASSUME TPInv
    PROVE  /\ erreurTP \in Int /\ deriveeTP \in Int /\ integraleTP \in Int
           /\ correction_pid \in Int
           /\ correction_pid
                = Tronque((KiDen_TP * Kp_TP) * erreurTP + (KiDen_TP * Kd_TP) * deriveeTP
                            + KiNum_TP * integraleTP, KiDen_TP)
<1>1. erreurTP \in Int /\ deriveeTP \in Int /\ integraleTP \in Int
  BY ConstantesTP DEF TPInv
<1>2. correction_pid = CorrectionTP(erreurTP, integraleTP, deriveeTP)
  BY DEF TPInv
<1> QED
  BY <1>1, <1>2, CorrectionTPForme

LEMMA TermeIntegral ==
    ASSUME NEW i \in -Integrale_TP .. Integrale_TP
    PROVE  /\ KiNum_TP * i \in -(KiNum_TP * Integrale_TP) .. KiNum_TP * Integrale_TP
           /\ KiNum_TP * Integrale_TP \in Nat
BY ProduitEncadre, ConstantesTP

\* If an error of 1 outweighs a full integral, a line that stays on one side is
\* corrected to that side, though nothing ever resets the integral.
THEOREM Virage == ASSUME VirageDomine PROVE TPSpec => []VirageTP
<1>1. TPInv => VirageTP
  <2> SUFFICES ASSUME TPInv, deriveeTP = 0, erreurTP # 0
               PROVE  MemeSigne(correction_pid, erreurTP)
    BY DEF VirageTP
  <2> DEFINE p == KiDen_TP * Kp_TP
             r == KiNum_TP * integraleTP
             b == KiNum_TP * Integrale_TP
  <2>1. p \in Nat /\ b \in Int /\ r \in -b .. b /\ p >= b + KiDen_TP
    BY ConstantesTP, TermeIntegral DEF TPInv, VirageDomine
  <2>2. correction_pid = Tronque(p * erreurTP + (KiDen_TP * Kd_TP) * 0 + r, KiDen_TP)
    BY TPEntiers, ConstantesTP
  <2>3. p * erreurTP + (KiDen_TP * Kd_TP) * 0 + r = p * erreurTP + r
    BY <2>1, ConstantesTP DEF TPInv
  <2> HIDE DEF p, r, b
  <2>4. erreurTP \in Int /\ KiDen_TP \in Nat \ {0}
    BY TPEntiers, ConstantesTP
  <2>5. MemeSigne(Tronque(p * erreurTP + r, KiDen_TP), erreurTP)
    BY <2>1, <2>4, TermeDominant
  <2> QED
    BY <2>2, <2>3, <2>5
<1> QED
  BY <1>1, TPInvariant, PTL

\* If a move of 1 outweighs the largest error and a full integral, the
\* correction always opposes the move of the line.
THEOREM FreinDuTP == ASSUME MouvementDomine PROVE TPSpec => []FreinTP
<1>1. TPInv => FreinTP
  <2> SUFFICES ASSUME TPInv, deriveeTP # 0 PROVE MemeSigne(correction_pid, deriveeTP)
    BY DEF FreinTP
  <2> DEFINE q == KiDen_TP * Kd_TP
             p == KiDen_TP * Kp_TP
             i == KiNum_TP * integraleTP
             b == KiNum_TP * Integrale_TP
  <2>1. p \in Nat /\ q \in Nat /\ b \in Nat /\ i \in -b .. b
    BY ConstantesTP, TermeIntegral DEF TPInv
  <2>2. KiDen_TP * (Kp_TP * 6) = p * 6
    BY ConstantesTP
  <2>3. q >= p * 6 + b + KiDen_TP
    BY <2>2 DEF MouvementDomine
  <2>4. correction_pid = Tronque(p * erreurTP + q * deriveeTP + i, KiDen_TP)
    BY TPEntiers, ConstantesTP
  <2> HIDE DEF p, q, i, b
  <2>5. p * erreurTP \in Int /\ -(p * 6) <= p * erreurTP /\ p * erreurTP <= p * 6
    BY <2>1, ProduitEncadre DEF TPInv
  <2>6. p * erreurTP + i \in -(p * 6 + b) .. (p * 6 + b)
    BY <2>1, <2>5
  <2>7. p * erreurTP + q * deriveeTP + i = q * deriveeTP + (p * erreurTP + i)
    <3>1. q * deriveeTP \in Int
      BY <2>1 DEF TPInv
    <3> QED
      BY <2>1, <2>5, <3>1
  <2>8. p * 6 + b \in Int
    BY <2>1
  <2>9. deriveeTP \in Int /\ KiDen_TP \in Nat \ {0} /\ q >= (p * 6 + b) + KiDen_TP
    BY <2>3, TPEntiers, ConstantesTP
  <2>10. MemeSigne(Tronque(q * deriveeTP + (p * erreurTP + i), KiDen_TP), deriveeTP)
    BY <2>1, <2>6, <2>8, <2>9, TermeDominant
  <2> QED
    BY <2>4, <2>7, <2>10
<1> QED
  BY <1>1, TPInvariant, PTL

-----------------------------------------------------------------------------
(* The words of the controller.                                            *)

\* The saturation of the program and the clamp of the word are the same.
LEMMA SerreFidele ==
    ASSUME NEW x \in Int, DEADZONE < PWM_MAX
    PROVE  LET mot == CommandeDe(Serre(HorsZoneMorte(x), PWM_MAX))
           IN  /\ mot.go = 1
               /\ MemeSigne(Signee(mot), x)
               /\ mot.vitesse = 0 \/ mot.vitesse \in DEADZONE + 1 .. PWM_MAX
<1> DEFINE h == HorsZoneMorte(x)
           s == Serre(h, PWM_MAX)
<1>1. h \in Int /\ s \in Int /\ Abs(h) \in Nat /\ Abs(s) \in Nat
  BY ConstantesTP DEF HorsZoneMorte, Serre, Abs
<1>2. PICK b \in 0 .. PWM_MAX :
        /\ preparer_moteur(1, IF h >= 0 THEN 0 ELSE 1, Abs(h))
             = Mot14(IF h >= 0 THEN 0 ELSE 1, b)
        /\ b = IF Abs(h) > PWM_MAX THEN PWM_MAX ELSE Abs(h)
  BY <1>1, Preparer
<1>3. PICK c \in 0 .. PWM_MAX :
        /\ preparer_moteur(1, IF s >= 0 THEN 0 ELSE 1, Abs(s))
             = Mot14(IF s >= 0 THEN 0 ELSE 1, c)
        /\ c = IF Abs(s) > PWM_MAX THEN PWM_MAX ELSE Abs(s)
  BY <1>1, Preparer
<1>4. b = c /\ (h >= 0 <=> s >= 0)
  <2> HIDE DEF h
  <2> QED
    BY <1>1, <1>2, <1>3, ConstantesTP DEF Serre, Abs
<1>5. CommandeDe(s) = CommandeDe(h)
  BY <1>2, <1>3, <1>4 DEF CommandeDe
<1> QED
  BY <1>1, <1>5, CommandeFidele, CommandeType

\* What reaches the register turns each motor as the pass asked, or stops it.
THEOREM TraductionDuTP ==
    ASSUME DEADZONE < PWM_MAX, TrimNum >= TrimDen PROVE TPSpec => []TraductionTP
<1>1. TPInv => TraductionTP
  <2> DEFINE g == Base_TP + correction_pid
             d == Base_TP - correction_pid
             t == Tronque(d * TrimNum, TrimDen)
  <2> SUFFICES ASSUME TPInv, lance PROVE TraductionTP
    BY DEF TraductionTP
  <2>1. g \in Int /\ d \in Int
    BY TPEntiers, ConstantesTP
  <2>2. t \in Int /\ MemeSigne(t, d)
    BY <2>1, ConstantesTP, RapportFidele
  <2>3. /\ registreTP["L"] = CommandeDe(Serre(HorsZoneMorte(g), PWM_MAX))
        /\ registreTP["R"] = CommandeDe(Serre(HorsZoneMorte(t), PWM_MAX))
    BY DEF TPInv, piloter_moteurs, envoyer_commande_physique
  <2> HIDE DEF t, g, d
  <2>4. /\ registreTP["L"].go = 1
        /\ MemeSigne(Signee(registreTP["L"]), g)
        /\ \/ registreTP["L"].vitesse = 0
           \/ registreTP["L"].vitesse \in DEADZONE + 1 .. PWM_MAX
    BY <2>1, <2>3, SerreFidele
  <2>5. /\ registreTP["R"].go = 1
        /\ MemeSigne(Signee(registreTP["R"]), t)
        /\ \/ registreTP["R"].vitesse = 0
           \/ registreTP["R"].vitesse \in DEADZONE + 1 .. PWM_MAX
    BY <2>2, <2>3, SerreFidele
  <2>6. MemeSigne(Signee(registreTP["R"]), d)
    BY <2>2, <2>5, MemeSigneTransitif
  <2> QED
    BY <2>4, <2>5, <2>6 DEF TraductionTP, g, d
<1> QED
  BY <1>1, TPInvariant, PTL

THEOREM TypesTP == TPSpec => []TPTypeOK
<1>1. TPInv => TPTypeOK
  <2> SUFFICES ASSUME TPInv PROVE TPTypeOK
    OBVIOUS
  <2>1. correction_pid \in Int
    BY TPEntiers
  <2>2. ASSUME NEW x \in Int
        PROVE  CommandeDe(Serre(HorsZoneMorte(x), PWM_MAX)).go = 1
    <3>1. Serre(HorsZoneMorte(x), PWM_MAX) \in Int
      BY ConstantesTP DEF Serre, HorsZoneMorte
    <3> QED
      BY <3>1, CommandeType
  <2>3. ASSUME lance PROVE \A m \in {"L", "R"} : registreTP[m].go = 1
    <3> DEFINE g == Base_TP + correction_pid
               d == Base_TP - correction_pid
               t == Tronque(d * TrimNum, TrimDen)
    <3>1. g \in Int /\ d \in Int /\ d * TrimNum \in Int
      BY <2>1, ConstantesTP
    <3>2. t \in Int
      BY <3>1, ConstantesTP, TronqueSigne
    <3>3. /\ registreTP["L"] = CommandeDe(Serre(HorsZoneMorte(g), PWM_MAX))
          /\ registreTP["R"] = CommandeDe(Serre(HorsZoneMorte(t), PWM_MAX))
      BY <2>3 DEF TPInv, piloter_moteurs, envoyer_commande_physique
    <3> HIDE DEF t, g, d
    <3> QED
      BY <2>2, <3>1, <3>2, <3>3
  <2>4. registreTP \in Restes_TP \/ \A m \in {"L", "R"} : registreTP[m].go = 1
    BY <2>3 DEF TPInv
  <2>5. /\ erreurTP \in -6 .. 6 /\ deriveeTP \in -12 .. 12
        /\ integraleTP \in -Integrale_TP .. Integrale_TP
        /\ lance \in BOOLEAN
    BY DEF TPInv
  <2> QED
    BY <2>1, <2>4, <2>5, Zenon DEF TPTypeOK
<1> QED
  BY <1>1, TPInvariant, PTL
=============================================================================
