--------------------------- MODULE Pilotage_proof ---------------------------
(***************************************************************************)
(* What the low-level functions do with every command, trim, dead zone and *)
(* clamp.                                                                  *)
(***************************************************************************)
EXTENDS Pilotage, TLAPS

----------------------------------------------------------------------------
\* Arithmetic.

LEMMA DivPositif ==
    ASSUME NEW n \in Nat, NEW d \in Nat \ {0}
    PROVE  n \div d \in Nat /\ (n >= d => n \div d >= 1)
OBVIOUS

LEMMA TronqueSigne ==
    ASSUME NEW n \in Int, NEW d \in Nat \ {0}
    PROVE  /\ Tronque(n, d) \in Int
           /\ n >= d => Tronque(n, d) > 0
           /\ n <= -d => Tronque(n, d) < 0
           /\ n = 0 => Tronque(n, d) = 0
<1>1. CASE n >= 0
    BY <1>1, DivPositif DEF Tronque
<1>2. CASE n < 0
  <2>1. -n \in Nat /\ Tronque(n, d) = -((-n) \div d)
      BY <1>2 DEF Tronque
  <2> QED
      BY <1>2, <2>1, DivPositif
<1> QED
    BY <1>1, <1>2

\* The cast to int takes away what is less than a unit, and nothing else.
LEMMA TronqueExact ==
    ASSUME NEW n \in Int, NEW d \in Nat \ {0}
    PROVE  /\ Tronque(n, d) \in Int
           /\ Tronque(n, d) < 0 <=> n <= -d
           /\ Tronque(n, d) > 0 <=> n >= d
<1>1. \A x \in Nat : x < d => x \div d = 0
    OBVIOUS
<1>2. CASE -d < n /\ n < d
    BY <1>1, <1>2 DEF Tronque
<1>3. CASE n <= -d \/ n >= d
    BY <1>3, TronqueSigne
<1> QED
    BY <1>2, <1>3

LEMMA ProduitMonotone ==
    ASSUME NEW a \in Nat, NEW x \in Int, NEW y \in Int, x <= y
    PROVE  a * x <= a * y
OBVIOUS

LEMMA ProduitEncadre ==
    ASSUME NEW a \in Nat, NEW b \in Nat, NEW x \in -b .. b
    PROVE  a * x \in Int /\ -(a * b) <= a * x /\ a * x <= a * b
<1>1. a * x <= a * b
    BY ProduitMonotone
<1>2. a * (-b) <= a * x
    BY ProduitMonotone
<1>3. a * (-b) = -(a * b)
    OBVIOUS
<1> QED
    BY <1>1, <1>2, <1>3

----------------------------------------------------------------------------
\* The words.

Mot14(arriere, vitesse) == [go |-> 1, arriere |-> arriere, vitesse |-> vitesse]

LEMMA DansChamp ==
    ASSUME NEW b \in 0 .. PWM_MAX
    PROVE  b \in Champ
BY PilotageAssumption DEF Champ

LEMMA MotChamps ==
    ASSUME NEW s \in {0, 1}, NEW b \in Champ
    PROVE  /\ Mot14(s, b) \in Moteur
           /\ Mot14(s, b).go = 1 /\ Mot14(s, b).vitesse = b
           /\ Mot14(s, b).arriere = s
<1>1. /\ Mot14(s, b).go = 1 /\ Mot14(s, b).vitesse = b
      /\ Mot14(s, b).arriere = s
    BY DEF Mot14
<1>2. 1 \in {0, 1}
    OBVIOUS
<1>3. Mot14(s, b) \in Moteur
    BY <1>2 DEF Mot14, Moteur
<1> QED
    BY <1>1, <1>3

LEMMA MotSigne ==
    ASSUME NEW s \in {0, 1}, NEW b \in Champ
    PROVE  Signee(Mot14(s, b)) = IF s = 1 THEN -b ELSE b
BY MotChamps DEF Signee

LEMMA Preparer ==
    ASSUME NEW s \in {0, 1}, NEW x \in Nat
    PROVE  \E b \in 0 .. PWM_MAX :
              /\ preparer_moteur(1, s, x) = Mot14(s, b)
              /\ b = IF x > PWM_MAX THEN PWM_MAX ELSE x
<1> DEFINE b == IF x > PWM_MAX THEN PWM_MAX ELSE x
<1>1. b \in 0 .. PWM_MAX /\ b % 4096 = b
    BY PilotageAssumption
<1>2. preparer_moteur(1, s, x) = Mot14(s, b % 4096)
    BY PilotageAssumption DEF preparer_moteur, Mot14
<1> QED
    BY <1>1, <1>2

LEMMA CommandeType ==
    ASSUME NEW x \in Int
    PROVE  CommandeDe(x) \in Moteur /\ CommandeDe(x).go = 1
<1>1. PICK s \in {0, 1} : CommandeDe(x) = preparer_moteur(1, s, Abs(x))
    BY DEF CommandeDe
<1>2. Abs(x) \in Nat
    BY DEF Abs
<1>3. PICK b \in 0 .. PWM_MAX : preparer_moteur(1, s, Abs(x)) = Mot14(s, b)
    BY <1>2, Preparer
<1>4. b \in Champ
    BY DansChamp
<1>5. CommandeDe(x) = Mot14(s, b)
    BY <1>1, <1>3
<1> QED
    BY <1>4, <1>5, MotChamps

\* Out of the dead zone, clamped, in the direction asked.
LEMMA CommandeFidele ==
    ASSUME NEW x \in Int, DEADZONE < PWM_MAX
    PROVE  /\ MemeSigne(Signee(CommandeDe(HorsZoneMorte(x))), x)
           /\ \/ CommandeDe(HorsZoneMorte(x)).vitesse = 0
              \/ CommandeDe(HorsZoneMorte(x)).vitesse \in DEADZONE + 1 .. PWM_MAX
<1> DEFINE h == HorsZoneMorte(x)
<1>1. h \in Int /\ Abs(h) \in Nat /\ DEADZONE \in Nat /\ PWM_MAX \in Nat
    BY PilotageAssumption DEF HorsZoneMorte, Abs
<1>2. CASE x > 0
  <2>1. h = x + DEADZONE /\ h >= 0 /\ Abs(h) = h
      BY <1>1, <1>2 DEF HorsZoneMorte, Abs
  <2>2. CommandeDe(h) = preparer_moteur(1, 0, h)
      BY <2>1 DEF CommandeDe
  <2>3. PICK b \in 0 .. PWM_MAX : /\ CommandeDe(h) = Mot14(0, b)
                                 /\ b = IF h > PWM_MAX THEN PWM_MAX ELSE h
      BY <1>1, <2>1, <2>2, Preparer
  <2>4. b \in Champ
      BY DansChamp
  <2>5. b \in DEADZONE + 1 .. PWM_MAX
      BY <1>1, <1>2, <2>1, <2>3
  <2>6. Signee(CommandeDe(h)) = b /\ CommandeDe(h).vitesse = b
      BY <2>3, <2>4, MotChamps, MotSigne
  <2> QED
      BY <1>1, <1>2, <2>5, <2>6 DEF MemeSigne
<1>3. CASE x < 0
  <2>1. h = x - DEADZONE /\ h < 0 /\ Abs(h) = DEADZONE - x
      BY <1>1, <1>3 DEF HorsZoneMorte, Abs
  <2>2. CommandeDe(h) = preparer_moteur(1, 1, Abs(h))
      BY <1>1, <2>1 DEF CommandeDe
  <2>3. PICK b \in 0 .. PWM_MAX : /\ CommandeDe(h) = Mot14(1, b)
                                 /\ b = IF Abs(h) > PWM_MAX THEN PWM_MAX ELSE Abs(h)
      BY <1>1, <2>1, <2>2, Preparer
  <2>4. b \in Champ
      BY DansChamp
  <2>5. b \in DEADZONE + 1 .. PWM_MAX
      BY <1>1, <1>3, <2>1, <2>3
  <2>6. Signee(CommandeDe(h)) = -b /\ CommandeDe(h).vitesse = b
      BY <2>3, <2>4, MotChamps, MotSigne
  <2> QED
      BY <1>1, <1>3, <2>5, <2>6 DEF MemeSigne
<1>4. CASE x = 0
  <2>1. h = 0 /\ Abs(h) = 0
      BY <1>4 DEF HorsZoneMorte, Abs
  <2>2. CommandeDe(h) = preparer_moteur(1, 0, 0)
      BY <2>1 DEF CommandeDe
  <2>3. PICK b \in 0 .. PWM_MAX : CommandeDe(h) = Mot14(0, b) /\ b = 0
      BY <1>1, <2>2, Preparer
  <2>4. b \in Champ
      BY DansChamp
  <2>5. Signee(CommandeDe(h)) = 0 /\ CommandeDe(h).vitesse = 0
      BY <2>3, <2>4, MotChamps, MotSigne
  <2> QED
      BY <1>4, <2>5 DEF MemeSigne
<1> QED
    BY <1>2, <1>3, <1>4

\* A trim of at least 1 keeps the sign of a command through the truncation.
LEMMA TrimFidele ==
    ASSUME NEW x \in Int, TRIM_DROIT >= 100
    PROVE  /\ Tronque(x * TRIM_DROIT, 100) \in Int
           /\ MemeSigne(Tronque(x * TRIM_DROIT, 100), x)
<1>1. TRIM_DROIT \in Nat /\ x * TRIM_DROIT \in Int
    BY PilotageAssumption
<1>2. x > 0 => x * TRIM_DROIT >= 100
    BY <1>1
<1>3. x < 0 => x * TRIM_DROIT <= -100
    BY <1>1
<1>4. x = 0 => x * TRIM_DROIT = 0
    BY <1>1
<1> HIDE DEF Tronque
<1> QED
    BY <1>1, <1>2, <1>3, <1>4, TronqueSigne DEF MemeSigne

LEMMA PilotageMots ==
    ASSUME NEW g \in Int, NEW d \in Int
    PROVE  /\ piloter_progressif(g, d)["L"] = CommandeDe(HorsZoneMorte(g))
           /\ piloter_progressif(g, d)["R"] =
                  CommandeDe(HorsZoneMorte(Tronque(d * TRIM_DROIT, 100)))
           /\ piloter_progressif(g, d) \in [{"L", "R"} -> Moteur]
<1> DEFINE l == HorsZoneMorte(g)
           r == HorsZoneMorte(Tronque(d * TRIM_DROIT, 100))
<1>1. d * TRIM_DROIT \in Int
    BY PilotageAssumption
<1>2. Tronque(d * TRIM_DROIT, 100) \in Int
    BY <1>1, TronqueSigne
<1>3. l \in Int /\ r \in Int
    BY <1>2, PilotageAssumption DEF HorsZoneMorte
<1>4. CommandeDe(l) \in Moteur /\ CommandeDe(r) \in Moteur
    BY <1>3, CommandeType
<1>5. piloter_progressif(g, d) =
          [m \in {"L", "R"} |-> CommandeDe(IF m = "L" THEN l ELSE r)]
    BY DEF piloter_progressif, envoyer_commande_physique
<1> HIDE DEF l, r
<1>6. \A m \in {"L", "R"} : CommandeDe(IF m = "L" THEN l ELSE r) \in Moteur
    BY <1>4
<1> QED
    BY <1>5, <1>6 DEF l, r

LEMMA MemeSigneTransitif ==
    ASSUME NEW x, NEW y, NEW z, MemeSigne(x, y), MemeSigne(y, z)
    PROVE  MemeSigne(x, z)
BY DEF MemeSigne

----------------------------------------------------------------------------
\* Order.

\* What the bridge applies: the command, between the clamps.
LEMMA SigneeCommande ==
    ASSUME NEW x \in Int
    PROVE  Signee(CommandeDe(x)) = IF x > PWM_MAX THEN PWM_MAX
                                   ELSE IF x < -PWM_MAX THEN -PWM_MAX ELSE x
<1>1. PWM_MAX \in Nat /\ Abs(x) \in Nat
    BY PilotageAssumption DEF Abs
<1>2. PICK b \in 0 .. PWM_MAX :
          /\ preparer_moteur(1, IF x >= 0 THEN 0 ELSE 1, Abs(x))
                 = Mot14(IF x >= 0 THEN 0 ELSE 1, b)
          /\ b = IF Abs(x) > PWM_MAX THEN PWM_MAX ELSE Abs(x)
    BY <1>1, Preparer
<1>3. Signee(CommandeDe(x)) = IF x >= 0 THEN b ELSE -b
  <2>1. b \in Champ
      BY DansChamp
  <2>2. CommandeDe(x) = Mot14(IF x >= 0 THEN 0 ELSE 1, b)
      BY <1>2 DEF CommandeDe
  <2> QED
      BY <2>1, <2>2, MotSigne
<1> QED
    BY <1>1, <1>2, <1>3 DEF Abs

\* A larger command is a larger speed, as long as the clamps do not hide it.
LEMMA CommandeStricte ==
    ASSUME NEW x \in Int, NEW y \in Int, x < y,
           HorsZoneMorte(x) < PWM_MAX, HorsZoneMorte(y) > -PWM_MAX
    PROVE  Signee(CommandeDe(HorsZoneMorte(x))) < Signee(CommandeDe(HorsZoneMorte(y)))
<1>1. /\ HorsZoneMorte(x) \in Int /\ HorsZoneMorte(y) \in Int
      /\ HorsZoneMorte(x) < HorsZoneMorte(y)
      /\ PWM_MAX \in 1 .. 4095
    BY PilotageAssumption DEF HorsZoneMorte
<1> QED
    BY <1>1, SigneeCommande

LEMMA DivStricte ==
    ASSUME NEW m \in Nat, NEW n \in Nat, NEW d \in Nat \ {0}, m + d <= n
    PROVE  m \div d < n \div d
<1>1. (m + d) \div d = m \div d + 1
    OBVIOUS
<1>2. (m + d) \div d <= n \div d
    OBVIOUS
<1> QED
    BY <1>1, <1>2

\* The trim keeps the order of two commands through the truncation.
LEMMA TrimStrict ==
    ASSUME NEW x \in Int, NEW y \in Int, x < y, TRIM_DROIT >= 100
    PROVE  Tronque(x * TRIM_DROIT, 100) < Tronque(y * TRIM_DROIT, 100)
<1> DEFINE m == x * TRIM_DROIT
           n == y * TRIM_DROIT
<1>1. TRIM_DROIT \in Nat /\ m \in Int /\ n \in Int
    BY PilotageAssumption
<1>2. m + 100 <= n
  <2>1. n = m + (y - x) * TRIM_DROIT
      BY <1>1
  <2>2. y - x \in Nat /\ y - x >= 1
      OBVIOUS
  <2>3. (y - x) * TRIM_DROIT >= TRIM_DROIT
      BY <1>1, <2>2
  <2> QED
      BY <1>1, <2>1, <2>3
<1>3. CASE x >= 0
  <2>1. m \in Nat /\ n \in Nat
      BY <1>1, <1>2, <1>3
  <2> HIDE DEF m, n
  <2>2. Tronque(m, 100) < Tronque(n, 100)
      BY <1>2, <2>1, DivStricte DEF Tronque
  <2> QED
      BY <2>2 DEF m, n
<1>4. CASE x < 0 /\ y < 0
  <2>1. -m \in Nat /\ -n \in Nat /\ m < 0 /\ n < 0
      BY <1>1, <1>4
  <2> HIDE DEF m, n
  <2>2. (-n) \div 100 < (-m) \div 100
      BY <1>1, <1>2, <2>1, DivStricte
  <2>3. Tronque(m, 100) = -((-m) \div 100)
      BY <1>1, <2>1 DEF Tronque
  <2>4. Tronque(n, 100) = -((-n) \div 100)
      BY <1>1, <2>1 DEF Tronque
  <2>5. (-m) \div 100 \in Nat /\ (-n) \div 100 \in Nat
      BY <2>1, DivPositif
  <2>6. Tronque(m, 100) < Tronque(n, 100)
      BY <2>2, <2>3, <2>4, <2>5
  <2> QED
      BY <2>6 DEF m, n
<1>5. CASE x < 0 /\ y >= 0
  <2>1. m <= -100 /\ (n >= 100 \/ n = 0)
      BY <1>1, <1>5
  <2> HIDE DEF m, n
  <2>2. Tronque(m, 100) < 0 /\ (Tronque(n, 100) > 0 \/ Tronque(n, 100) = 0)
      BY <1>1, <2>1, TronqueSigne
  <2>3. Tronque(m, 100) \in Int /\ Tronque(n, 100) \in Int
      BY <1>1, TronqueSigne
  <2> QED
      BY <2>2, <2>3 DEF m, n
<1> QED
    BY <1>3, <1>4, <1>5

\* A term that outweighs the rest decides the sign of the truncated sum.
LEMMA TermeDominant ==
    ASSUME NEW p \in Nat, NEW x \in Int, x # 0, NEW b \in Int, NEW r \in -b .. b,
           NEW d \in Nat \ {0}, p >= b + d
    PROVE  MemeSigne(Tronque(p * x + r, d), x)
<1>1. p * x \in Int /\ p * x + r \in Int
    OBVIOUS
<1>2. CASE x > 0
  <2>1. p <= p * x
      BY <1>2
  <2>2. p * x + r >= d
      BY <1>1, <2>1
  <2> QED
      BY <1>1, <1>2, <2>2, TronqueSigne DEF MemeSigne
<1>3. CASE x < 0
  <2>1. p * x <= -p
      BY <1>3
  <2>2. p * x + r <= -d
      BY <1>1, <2>1
  <2> QED
      BY <1>1, <1>3, <2>2, TronqueSigne DEF MemeSigne
<1> QED
    BY <1>2, <1>3

\* A ratio of at least 1 keeps the sign through the truncation.
LEMMA RapportFidele ==
    ASSUME NEW x \in Int, NEW n \in Nat, NEW d \in Nat \ {0}, n >= d
    PROVE  /\ Tronque(x * n, d) \in Int
           /\ MemeSigne(Tronque(x * n, d), x)
<1>1. x * n \in Int
    OBVIOUS
<1>2. (x > 0 => x * n >= n) /\ (x < 0 => x * n <= -n) /\ (x = 0 => x * n = 0)
    OBVIOUS
<1>3. (x > 0 => x * n >= d) /\ (x < 0 => x * n <= -d) /\ (x = 0 => x * n = 0)
    BY <1>1, <1>2
<1> QED
    BY <1>1, <1>3, TronqueSigne DEF MemeSigne
=============================================================================
