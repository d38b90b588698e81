--------------------------- MODULE UartJtag_proof ---------------------------
(***************************************************************************)
(* For every size of the rings and FIFOs, every threshold and every call:  *)
(* no interrupt of the JTAG UART is left disabled with work to do, and     *)
(* each direction is a channel that loses, repeats and reorders nothing.   *)
(***************************************************************************)
EXTENDS UartJtag, SequenceTheorems, TLAPS

-----------------------------------------------------------------------------
(* Transmission.                                                           *)

\* A ring that holds a byte has the interrupt, or a call about to enable it.
Armee ==
    tx_in # tx_out =>
        "WE" \in irq_enable \/ pc \in {"e_calcul", "e_copie", "e_publie", "e_irq"}

\* No step takes the interrupt away from a ring that holds a byte, and none
\* but the copy puts one in.
LEMMA ArmeePas == Armee /\ [Next]_vars => Armee'
<1> SUFFICES ASSUME Armee, [Next]_vars PROVE Armee'
  OBVIOUS
<1>1. CASE Appel
  BY <1>1 DEF Appel, AppelEcrire, AppelLire, AppelFermer, Ioctl, Appeler, Armee,
       txVars, appelVars
<1>2. CASE Ecrire
  BY <1>2 DEF Ecrire, EcrireCalcul, EcrireCopie, EcrirePublie, EcrireIrq, EcrireAttente,
       EcrireVerif, Revenir, Armee, txVars
<1>3. CASE Lire \/ FermerAttente
  BY <1>3 DEF Lire, LireCalcul, LireCopie, LirePublie, LireAttente, LireVerif, LireEchec,
       LireIrq, FermerAttente, Revenir, Armee, txVars
<1>4. CASE Isr
  BY <1>4 DEF Isr, IsrEntree, IsrControle, IsrLirePlein, IsrLireOctet, IsrLireVide,
       IsrLireCroise, IsrEcrireOctet, IsrEcrireFin, FinLecture, Armee,
       txVars, appelVars
<1>5. CASE Seconde \/ Hote
  BY <1>5 DEF Seconde, Hote, HoteBranche, HoteLit, HoteEcrit, HotePause, Armee,
       txVars, appelVars
<1>6. CASE UNCHANGED vars
  BY <1>6 DEF vars, Armee, txVars, appelVars
<1> QED
  BY <1>1, <1>2, <1>3, <1>4, <1>5, <1>6 DEF Next, Programme

-----------------------------------------------------------------------------
(* Reception.                                                              *)

LEMMA Tailles ==
    /\ BUF_LEN \in Nat /\ BUF_LEN >= 2
    /\ ProfR \in Nat /\ SeuilR \in Nat /\ SeuilR < ProfR
BY UartAssumption

LEMMA SuivantIndex ==
    ASSUME NEW i \in Index
    PROVE  Suivant(i) \in Index /\ Suivant(i) # i
<1>1. BUF_LEN \in Nat /\ BUF_LEN >= 2
  BY Tailles
<1>2. CASE i + 1 < BUF_LEN
  <2>1. (i + 1) % BUF_LEN = i + 1
    BY <1>1, <1>2 DEF Index
  <2> QED
    BY <1>1, <1>2, <2>1 DEF Index, Suivant
<1>3. CASE i + 1 = BUF_LEN
  <2>1. (i + 1) % BUF_LEN = 0
    BY <1>1, <1>3
  <2> QED
    BY <1>1, <1>3, <2>1 DEF Index, Suivant
<1> QED
  BY <1>1, <1>2, <1>3 DEF Index

Rangs ==
    /\ rx_in \in Index /\ rx_out \in Index
    /\ rfifo \in Seq(Int) /\ prochain_rx \in Int

\* Between two pauses the pause bit is gone with the last byte.
PauseUtile == pause_irq => rfifo # <<>>

\* The receive loop is entered with a byte to take and stays with one taken.
LectureUtile == isr = "lire" /\ rx_in = rx_out => rfifo # <<>>

\* A read that has emptied the ring with the interrupt off knows that it has
\* bytes to return, so that it does not wait.
Rearme ==
    "RE" \notin irq_enable =>
        \/ rx_in # rx_out
        \/ pc = "l_calcul" /\ rendu
        \/ pc = "l_irq"

\* A read has bytes left to fetch.
CompteUtile ==
    /\ pc \in {"l_calcul", "l_attente", "l_verif"} => count \in Int /\ count > 0
    /\ pc \in {"l_copie", "l_publie"} => n \in Int /\ count \in Int

\* A read waits for the end of an emptiness that it has seen.
AttenteRx == pc \in {"l_attente", "l_verif"} => vu = rx_out

RInv == Rangs /\ PauseUtile /\ LectureUtile /\ Rearme /\ CompteUtile /\ AttenteRx

rvars == <<rx_in, rx_out, n, vu, count, rfifo, prochain_rx, pause_irq, isr, irq_enable, pc,
           rendu>>

\* The bytes that a FIFO may hold at the start.
LEMMA LotType ==
    ASSUME NEW p \in Int, NEW m \in Nat
    PROVE  /\ Lot(p, m) \in Seq(Octet) /\ Len(Lot(p, m)) = m
           /\ \A i \in 1 .. m : Lot(p, m)[i] = (p + i - 1) % K
<1>1. K \in Nat \ {0}
  BY UartAssumption
<1>2. \A i \in 1 .. m : (p + i - 1) % K \in Octet
  BY <1>1 DEF Octet
<1> QED
  BY <1>2 DEF Lot

LEMMA RInvDebut == Init => RInv
<1> SUFFICES ASSUME Init PROVE RInv
  OBVIOUS
<1>1. rfifo \in Seq(Int) /\ prochain_rx \in Int
  <2>1. PICK m \in 0 .. ProfR : rfifo = Lot(0, m) /\ prochain_rx = m % K
    BY DEF Init
  <2>2. m \in Nat /\ \A i \in 1 .. m : (0 + i - 1) % K \in Int
    BY UartAssumption
  <2>3. Lot(0, m) \in Seq(Int)
    BY <2>2 DEF Lot
  <2> QED
    BY <2>1, <2>3, UartAssumption
<1>2. /\ rx_in = 0 /\ rx_out = 0 /\ irq_enable = {"RE"} /\ isr = "repos" /\ pc = "libre"
      /\ pause_irq \in {FALSE, rfifo # <<>>}
  BY DEF Init
<1>3. 0 \in Index
  BY Tailles DEF Index
<1>4. PauseUtile
  BY <1>2, Zenon DEF PauseUtile
<1> QED
  BY <1>1, <1>2, <1>3, <1>4 DEF RInv, Rangs, LectureUtile, Rearme, CompteUtile, AttenteRx

LEMMA ReceptionInchangee ==
    ASSUME RInv, UNCHANGED rvars
    PROVE  RInv'
BY DEF RInv, rvars, Rangs, PauseUtile, LectureUtile, Rearme, CompteUtile, AttenteRx

LEMMA AppelRInv ==
    ASSUME RInv, Appel
    PROVE  RInv'
<1>1. CompteMax \in Nat
  BY UartAssumption
<1>2. CASE Ioctl
  BY <1>2, ReceptionInchangee DEF Ioctl, rvars, rxVars, histRx, coeurVars, isrVars, appelVars
<1>3. ASSUME NEW debut \in {"e_calcul", "l_calcul", "f_attente"},
             NEW taille \in 0 .. CompteMax, NEW nb,
             Appeler(debut, taille, nb), debut = "l_calcul" => taille > 0
      PROVE  RInv'
  <2>1. /\ isr = "repos" /\ isr' = isr /\ pc = "libre" /\ pc' = debut /\ count' = taille
        /\ UNCHANGED <<rx_in, rx_out, n, vu, rfifo, prochain_rx, pause_irq, irq_enable, rendu>>
    BY <1>3 DEF Appeler, rxVars, histRx, coeurVars, isrVars
  <2> QED
    BY <1>1, <1>3, <2>1 DEF RInv, Rangs, PauseUtile, LectureUtile, Rearme, CompteUtile,
         AttenteRx
<1>4. CASE AppelEcrire
  BY <1>1, <1>3, <1>4 DEF AppelEcrire
<1>5. CASE AppelLire
  BY <1>1, <1>3, <1>5 DEF AppelLire
<1>6. CASE AppelFermer
  BY <1>1, <1>3, <1>6 DEF AppelFermer
<1> QED
  BY <1>2, <1>4, <1>5, <1>6 DEF Appel

LEMMA EcrireRInv ==
    ASSUME RInv, Ecrire \/ FermerAttente
    PROVE  RInv'
<1>1. /\ isr = "repos" /\ isr' = isr
      /\ UNCHANGED <<rx_in, rx_out, rfifo, prochain_rx, pause_irq>>
      /\ irq_enable' \in {irq_enable, irq_enable \cup {"WE"}}
      /\ pc \notin {"l_calcul", "l_irq"}
      /\ pc' \in {"libre", "e_calcul", "e_copie", "e_publie", "e_irq", "e_attente", "e_verif"}
  BY DEF Ecrire, EcrireCalcul, EcrireCopie, EcrirePublie, EcrireIrq, EcrireAttente,
       EcrireVerif, FermerAttente, Revenir, rxVars, histRx, coeurVars, isrVars
<1> QED
  BY <1>1 DEF RInv, Rangs, PauseUtile, LectureUtile, Rearme, CompteUtile,
         AttenteRx

LEMMA LireRInv ==
    ASSUME RInv, Lire
    PROVE  RInv'
<1>1. /\ isr = "repos" /\ isr' = isr
      /\ UNCHANGED <<rx_in, rfifo, prochain_rx, pause_irq>>
  BY DEF Lire, LireCalcul, LireCopie, LirePublie, LireAttente, LireVerif, LireEchec, LireIrq,
       rxVars, histRx, coeurVars, isrVars
<1>2. CASE LireCalcul
  <2>1. /\ pc = "l_calcul" /\ count > 0 /\ count \in Int
        /\ rx_in \in Index /\ rx_out \in Index /\ BUF_LEN \in Nat
    BY <1>2, Tailles DEF LireCalcul, RInv, Rangs, CompteUtile
  <2>2. /\ n' = Moindre(Dispo(rx_in, rx_out), count) /\ vu' = rx_in
        /\ pc' = IF n' > 0 THEN "l_copie"
                 ELSE IF rendu THEN "l_irq"
                 ELSE IF nonbloc THEN "l_echec" ELSE "l_attente"
        /\ UNCHANGED <<count, rendu, rx_out, irq_enable>>
    BY <1>2 DEF LireCalcul, rxVars
  <2>3. n' \in Int /\ (n' > 0 <=> rx_in # rx_out)
    BY <2>1, <2>2 DEF Moindre, Dispo, Index
  <2> QED
    BY <1>1, <2>1, <2>2, <2>3 DEF RInv, Rangs, PauseUtile, LectureUtile, Rearme, CompteUtile,
         AttenteRx
<1>3. CASE LirePublie
  <2>1. rx_out \in Index /\ n \in Int /\ count \in Int /\ BUF_LEN \in Nat /\ BUF_LEN >= 2
    BY <1>3, Tailles DEF LirePublie, RInv, Rangs, CompteUtile
  <2>2. /\ rx_out' = (rx_out + n) % BUF_LEN /\ count' = count - n /\ rendu' = TRUE
        /\ n' = 0 /\ pc' = IF count' > 0 THEN "l_calcul" ELSE "l_irq"
        /\ irq_enable' = irq_enable
    BY <1>3 DEF LirePublie
  <2>3. rx_out' \in Index
    BY <2>1, <2>2 DEF Index
  <2> QED
    BY <1>1, <2>1, <2>2, <2>3 DEF RInv, Rangs, PauseUtile, LectureUtile, Rearme, CompteUtile,
         AttenteRx
<1>4. CASE LireVerif
  <2>1. /\ UNCHANGED <<count, rendu, n, rx_out, irq_enable>>
        /\ pc = "l_verif" /\ pc' = IF vu = rx_in THEN "l_echec" ELSE "l_calcul"
    BY <1>4 DEF LireVerif, rxVars
  <2> QED
    BY <1>1, <2>1 DEF RInv, Rangs, PauseUtile, LectureUtile, Rearme, CompteUtile,
         AttenteRx
<1>5. CASE LireCopie \/ LireAttente
  BY <1>1, <1>5 DEF LireCopie, LireAttente, RInv, Rangs, PauseUtile, LectureUtile, Rearme,
       CompteUtile, AttenteRx, rxVars
<1>6. CASE LireEchec
  BY <1>1, <1>6 DEF LireEchec, Revenir, RInv, Rangs, PauseUtile, LectureUtile, Rearme,
       CompteUtile, AttenteRx, rxVars
<1>7. CASE LireIrq
  BY <1>1, <1>7 DEF LireIrq, Revenir, RInv, Rangs, PauseUtile, LectureUtile, Rearme,
       CompteUtile, AttenteRx, rxVars
<1> QED
  BY <1>2, <1>3, <1>4, <1>5, <1>6, <1>7 DEF Lire

\* The conditions of a receive interrupt each mean that the FIFO holds a byte.
LEMMA DemandeUtile == RInv /\ RI => rfifo # <<>>
<1> SUFFICES ASSUME RInv, RI, rfifo = <<>> PROVE FALSE
  OBVIOUS
<1>1. Len(rfifo) = 0
  OBVIOUS
<1>2. ProfR - Len(rfifo) <= SeuilR
  BY DEF RI, RInv, PauseUtile
<1> QED
  BY <1>1, <1>2, Tailles

LEMMA IsrRInv ==
    ASSUME RInv, Isr
    PROVE  RInv'
<1> USE DEF RInv, Rangs, PauseUtile, LectureUtile, Rearme, CompteUtile,
         AttenteRx
<1>1. CASE IsrEntree
  BY <1>1 DEF IsrEntree, rxVars, coeurVars, appelVars, histRx
<1>2. CASE IsrControle
  <2>1. /\ UNCHANGED <<rx_in, rx_out, n, vu, count, rfifo, prochain_rx, pause_irq, irq_enable,
                        pc, rendu>>
        /\ isr' = "lire" => RI
    BY <1>2 DEF IsrControle, rxVars, coeurVars, appelVars, histRx
  <2> QED
    BY <2>1, DemandeUtile
<1>3. CASE IsrLirePlein
  <2>1. rx_in # rx_out
    BY <1>3, SuivantIndex DEF IsrLirePlein
  <2>2. /\ UNCHANGED <<rx_in, rx_out, n, vu, count, rfifo, prochain_rx, pause_irq, pc, rendu>>
        /\ isr' # "lire"
    BY <1>3 DEF IsrLirePlein, FinLecture, rxVars, coeurVars, appelVars, histRx
  <2> QED
    BY <2>1, <2>2
<1>4. CASE IsrLireOctet
  <2>1. /\ rx_in' = Suivant(rx_in) /\ Suivant(rx_in) # rx_out /\ rx_out' = rx_out
        /\ rfifo # <<>> /\ rfifo' = Tail(rfifo) /\ pause_irq' = FALSE
        /\ UNCHANGED <<n, vu, count, prochain_rx, irq_enable, pc, rendu>>
    BY <1>4 DEF IsrLireOctet, appelVars, histRx
  <2>2. rx_in' \in Index /\ rx_out' \in Index /\ rx_in' # rx_out'
    BY <2>1, SuivantIndex
  <2>3. rfifo' \in Seq(Int)
    BY <2>1
  <2> QED
    BY <2>1, <2>2, <2>3
<1>5. CASE IsrLireVide
  <2>1. /\ UNCHANGED <<rx_in, rx_out, n, vu, count, rfifo, prochain_rx, irq_enable, pc, rendu>>
        /\ isr' # "lire" /\ pause_irq' = FALSE
    BY <1>5 DEF IsrLireVide, FinLecture, rxVars, appelVars, histRx
  <2> QED
    BY <2>1
<1>6. CASE IsrLireCroise
  <2>1. /\ isr = "lire" /\ rfifo = <<>> /\ rfifo' = <<prochain_rx>>
        /\ prochain_rx' = (prochain_rx + 1) % K
        /\ UNCHANGED <<rx_in, rx_out, n, vu, count, pc, rendu>>
        /\ isr' # "lire" /\ pause_irq' = FALSE
    BY <1>6 DEF IsrLireCroise, FinLecture, rxVars, appelVars
  <2>2. rx_in # rx_out
    BY <2>1
  <2>3. rfifo' \in Seq(Int) /\ prochain_rx' \in Int
    BY <2>1, UartAssumption
  <2> QED
    BY <2>1, <2>2, <2>3
<1>7. CASE IsrEcrireOctet
  BY <1>7 DEF IsrEcrireOctet, rxVars, coeurVars, appelVars, histRx
<1>8. CASE IsrEcrireFin
  <2>1. /\ UNCHANGED <<rx_in, rx_out, n, vu, count, rfifo, prochain_rx, pause_irq, pc, rendu>>
        /\ isr' = "controle" /\ ("RE" \notin irq_enable' => "RE" \notin irq_enable)
    BY <1>8 DEF IsrEcrireFin, rxVars, coeurVars, appelVars, histRx
  <2> QED
    BY <2>1
<1> QED
  BY <1>1, <1>2, <1>3, <1>4, <1>5, <1>6, <1>7, <1>8 DEF Isr

LEMMA HoteRInv ==
    ASSUME RInv, Hote \/ Seconde
    PROVE  RInv'
<1>1. /\ UNCHANGED <<rx_in, rx_out, n, vu, count, irq_enable, isr, pc, rendu>>
  BY DEF Hote, HoteBranche, HoteLit, HoteEcrit, HotePause, Seconde, rxVars, isrVars, appelVars
<1>2. CASE HoteEcrit
  <2>1. /\ rfifo' = Append(rfifo, prochain_rx) /\ prochain_rx' = (prochain_rx + 1) % K
        /\ pause_irq' = pause_irq
    BY <1>2 DEF HoteEcrit
  <2>2. rfifo' \in Seq(Int) /\ rfifo' # <<>> /\ prochain_rx' \in Int
    BY <2>1, UartAssumption DEF RInv, Rangs
  <2> QED
    BY <1>1, <2>1, <2>2 DEF RInv, Rangs, PauseUtile, LectureUtile, Rearme, CompteUtile,
         AttenteRx
<1>3. CASE HotePause
  BY <1>1, <1>3 DEF HotePause, histRx, RInv, Rangs, PauseUtile, LectureUtile, Rearme,
       CompteUtile, AttenteRx
<1>4. CASE HoteBranche \/ HoteLit \/ Seconde
  BY <1>1, <1>4 DEF HoteBranche, HoteLit, Seconde, histRx, coeurVars, RInv, Rangs,
       PauseUtile, LectureUtile, Rearme, CompteUtile, AttenteRx
<1> QED
  BY <1>2, <1>3, <1>4 DEF Hote

LEMMA RInvToujours == Spec => []RInv
<1>1. RInv /\ [Next]_vars => RInv'
  <2> SUFFICES ASSUME RInv, [Next]_vars PROVE RInv'
    OBVIOUS
  <2>1. CASE UNCHANGED vars
    BY <2>1, ReceptionInchangee DEF vars, rvars, rxVars, coeurVars, isrVars, appelVars, histRx
  <2> QED
    BY <2>1, AppelRInv, EcrireRInv, LireRInv, IsrRInv, HoteRInv DEF Next, Programme
<1> QED
  BY <1>1, RInvDebut, PTL DEF Spec

\* A program that waits for the keyboard never waits for an interrupt that is
\* disabled: one is off only while the ring holds bytes, or while the read that
\* has just emptied it is on its way to turn it on again.  And it waits on an
\* empty ring: no byte can have come and gone behind its back.
THEOREM ReceptionToujours == Spec => []ReceptionRearmee
<1>1. RInv => ReceptionRearmee
  BY DEF RInv, Rearme, AttenteRx, ReceptionRearmee
<1> QED
  BY <1>1, RInvToujours, PTL

-----------------------------------------------------------------------------
(* Rings.                                                                  *)

LEMMA Anneaux == BUF_LEN \in Nat /\ BUF_LEN >= 2
BY UartAssumption

\* The bytes of a ring, and the place of the i-th one.
Occupe(out, in) == IF in >= out THEN in - out ELSE in - out + BUF_LEN
Rang(out, i) == IF out + i < BUF_LEN THEN out + i ELSE out + i - BUF_LEN

LEMMA Modulos ==
    /\ \A out, in \in Index : (in - out) % BUF_LEN = Occupe(out, in)
    /\ \A out \in Index, i \in 0 .. BUF_LEN : (out + i) % BUF_LEN = Rang(out, i)
    /\ \A i \in Index : Suivant(i) = Rang(i, 1)
    /\ \A out, in \in Index : Occupe(out, in) \in 0 .. BUF_LEN - 1
    /\ \A out \in Index, i \in 0 .. BUF_LEN : Rang(out, i) \in Index
<1> BUF_LEN \in Nat /\ BUF_LEN >= 2
  BY Anneaux
<1>1. ASSUME NEW x \in 0 .. BUF_LEN - 1 PROVE x % BUF_LEN = x
  BY <1>1
<1>2. ASSUME NEW x \in BUF_LEN .. 2 * BUF_LEN - 1 PROVE x % BUF_LEN = x - BUF_LEN
  BY <1>2
<1>3. ASSUME NEW x \in -(BUF_LEN - 1) .. -1 PROVE x % BUF_LEN = x + BUF_LEN
  BY <1>3
<1>4. \A out, in \in Index : (in - out) % BUF_LEN = Occupe(out, in)
  BY <1>1, <1>3 DEF Index, Occupe
<1>5. \A out \in Index, i \in 0 .. BUF_LEN : (out + i) % BUF_LEN = Rang(out, i)
  BY <1>1, <1>2 DEF Index, Rang
<1>6. \A i \in Index : Suivant(i) = Rang(i, 1)
  BY <1>5 DEF Suivant
<1> QED
  BY <1>4, <1>5, <1>6 DEF Index, Occupe, Rang

\* Two sequences of bytes put end to end.
LEMMA Recolle ==
    ASSUME NEW s \in Seq(Octet), NEW t \in Seq(Octet), NEW u \in Seq(Octet),
           Len(u) = Len(s) + Len(t),
           \A i \in 1 .. Len(s) : u[i] = s[i],
           \A i \in 1 .. Len(t) : u[Len(s) + i] = t[i]
    PROVE  u = s \o t
<1>1. /\ s \o t \in Seq(Octet) /\ Len(s \o t) = Len(s) + Len(t)
      /\ \A i \in 1 .. Len(s) + Len(t) :
            (s \o t)[i] = IF i <= Len(s) THEN s[i] ELSE t[i - Len(s)]
  BY ConcatProperties, ZenonT(30)
<1>2. Len(s) \in Nat /\ Len(t) \in Nat
  OBVIOUS
<1>3. ASSUME NEW i \in 1 .. Len(u) PROVE u[i] = (s \o t)[i]
  <2>1. CASE i <= Len(s)
    BY <1>1, <1>2, <1>3, <2>1
  <2>2. CASE i > Len(s)
    <3>1. i - Len(s) \in 1 .. Len(t) /\ i = Len(s) + (i - Len(s))
      BY <1>2, <1>3, <2>2
    <3>2. u[i] = t[i - Len(s)]
      BY <3>1
    <3>3. (s \o t)[i] = t[i - Len(s)]
      BY <1>1, <1>2, <1>3, <2>2
    <3> QED
      BY <3>2, <3>3
  <2> QED
    BY <1>2, <1>3, <2>1, <2>2
<1>4. Len(u) = Len(s \o t)
  BY <1>1
<1> QED
  BY <1>1, <1>3, <1>4, SeqEqual, ZenonT(30)

LEMMA AnneauDe ==
    ASSUME NEW buf \in [Index -> Octet], NEW out \in Index, NEW in \in Index
    PROVE  /\ Anneau(buf, out, in) \in Seq(Octet)
           /\ Len(Anneau(buf, out, in)) = Occupe(out, in)
           /\ \A i \in 1 .. Occupe(out, in) : Anneau(buf, out, in)[i] = buf[Rang(out, i - 1)]
<1> DEFINE c == Occupe(out, in)
<1>1. c \in 0 .. BUF_LEN - 1 /\ BUF_LEN \in Nat
  BY Modulos, Anneaux
<1>2. Anneau(buf, out, in) = [i \in 1 .. c |-> buf[(out + i - 1) % BUF_LEN]]
  BY Modulos DEF Anneau
<1>3. ASSUME NEW i \in 1 .. c PROVE (out + i - 1) % BUF_LEN = Rang(out, i - 1)
  <2>1. i - 1 \in 0 .. BUF_LEN /\ out + i - 1 = out + (i - 1)
    BY <1>1, <1>3 DEF Index
  <2> QED
    BY <2>1, Modulos
<1>4. ASSUME NEW i \in 1 .. c PROVE Rang(out, i - 1) \in Index
  <2>1. i - 1 \in 0 .. BUF_LEN
    BY <1>1, <1>4
  <2> QED
    BY <2>1, Modulos
<1>5. \A i \in 1 .. c : Anneau(buf, out, in)[i] = buf[Rang(out, i - 1)]
  BY <1>2, <1>3
<1>6. \A i \in 1 .. c : Anneau(buf, out, in)[i] \in Octet
  BY <1>4, <1>5
<1> QED
  BY <1>1, <1>2, <1>5, <1>6

\* Writing outside the bytes of the ring does not change them.
LEMMA AnneauEgal ==
    ASSUME NEW buf \in [Index -> Octet], NEW buf2 \in [Index -> Octet],
           NEW out \in Index, NEW in \in Index,
           \A i \in 0 .. Occupe(out, in) - 1 : buf2[Rang(out, i)] = buf[Rang(out, i)]
    PROVE  Anneau(buf2, out, in) = Anneau(buf, out, in)
<1> DEFINE c == Occupe(out, in)
<1> DEFINE a == Anneau(buf, out, in)
           b == Anneau(buf2, out, in)
<1>1. c \in 0 .. BUF_LEN - 1 /\ BUF_LEN \in Nat
  BY Modulos, Anneaux
<1>2. \A i \in 1 .. c : i - 1 \in 0 .. c - 1
  BY <1>1
<1>3. /\ a \in Seq(Octet) /\ Len(a) = c /\ \A i \in 1 .. c : a[i] = buf[Rang(out, i - 1)]
      /\ b \in Seq(Octet) /\ Len(b) = c /\ \A i \in 1 .. c : b[i] = buf2[Rang(out, i - 1)]
  BY AnneauDe
<1>4. \A i \in 1 .. c : b[i] = a[i]
  BY <1>2, <1>3
<1> HIDE DEF a, b, c
<1>5. b = a
  BY <1>3, <1>4, SeqEqual, ZenonT(30)
<1> QED
  BY <1>5 DEF a, b

\* Publishing m bytes that follow in.
LEMMA AnneauAllonge ==
    ASSUME NEW buf \in [Index -> Octet], NEW out \in Index, NEW in \in Index,
           NEW m \in Nat, NEW p \in Int,
           in + m <= BUF_LEN, m + Occupe(out, in) < BUF_LEN,
           \A i \in 0 .. m - 1 : buf[in + i] = (p + i) % K
    PROVE  /\ (in + m) % BUF_LEN \in Index
           /\ Anneau(buf, out, (in + m) % BUF_LEN) = Anneau(buf, out, in) \o Lot(p, m)
<1> DEFINE c == Occupe(out, in)
           in2 == (in + m) % BUF_LEN
           a == Anneau(buf, out, in)
           b == Anneau(buf, out, in2)
<1>0. BUF_LEN \in Nat /\ BUF_LEN >= 2 /\ c \in 0 .. BUF_LEN - 1 /\ m \in 0 .. BUF_LEN
  BY Modulos, Anneaux DEF Index
<1>1. in2 = Rang(in, m) /\ in2 \in Index
  BY <1>0, Modulos
<1>2. Occupe(out, in2) = c + m
  BY <1>0, <1>1 DEF Occupe, Rang, Index
<1>3. /\ b \in Seq(Octet) /\ Len(b) = c + m
      /\ a \in Seq(Octet) /\ Len(a) = c
      /\ \A i \in 1 .. c : a[i] = buf[Rang(out, i - 1)]
      /\ \A i \in 1 .. c + m : b[i] = buf[Rang(out, i - 1)]
  BY <1>1, <1>2, AnneauDe
<1>4. /\ Lot(p, m) \in Seq(Octet) /\ Len(Lot(p, m)) = m
      /\ \A i \in 1 .. m : Lot(p, m)[i] = (p + i - 1) % K
  BY LotType
<1>5. ASSUME NEW i \in 1 .. m PROVE b[c + i] = Lot(p, m)[i]
  <2>1. i - 1 \in 0 .. m - 1 /\ c + i \in 1 .. c + m /\ p + (i - 1) = p + i - 1
    BY <1>0, <1>5
  <2>2. Rang(out, c + i - 1) = in + (i - 1)
    BY <1>0, <2>1 DEF Rang, Occupe, Index
  <2>3. buf[in + (i - 1)] = (p + (i - 1)) % K
    BY <2>1
  <2>4. b[c + i] = buf[Rang(out, c + i - 1)]
    BY <1>3, <2>1
  <2> QED
    BY <1>4, <1>5, <2>1, <2>2, <2>3, <2>4
<1> DEFINE l == Lot(p, m)
<1>6. l \in Seq(Octet) /\ Len(l) = m /\ \A i \in 1 .. m : b[c + i] = l[i]
  BY <1>4, <1>5
<1> HIDE DEF a, b, c, in2, l
<1>7. \A i \in 1 .. c : b[i] = a[i]
  <2> SUFFICES ASSUME NEW i \in 1 .. c PROVE b[i] = a[i]
    OBVIOUS
  <2>1. i \in 1 .. c + m
    BY <1>0
  <2> QED
    BY <1>3, <2>1
<1>8. /\ Len(b) = Len(a) + Len(l)
      /\ \A i \in 1 .. Len(a) : b[i] = a[i]
      /\ \A i \in 1 .. Len(l) : b[Len(a) + i] = l[i]
  BY <1>3, <1>6, <1>7
<1>9. b = a \o l
  BY <1>3, <1>6, <1>8, Recolle
<1> QED
  BY <1>1, <1>9 DEF a, b, in2, l

\* Taking the m oldest bytes.
LEMMA AnneauRaccourci ==
    ASSUME NEW buf \in [Index -> Octet], NEW out \in Index, NEW in \in Index,
           NEW m \in Nat, out + m <= BUF_LEN, m <= Occupe(out, in)
    PROVE  /\ (out + m) % BUF_LEN \in Index
           /\ Occupe((out + m) % BUF_LEN, in) = Occupe(out, in) - m
           /\ Anneau(buf, out, in) =
                [i \in 1 .. m |-> buf[out + i - 1]] \o Anneau(buf, (out + m) % BUF_LEN, in)
           /\ [i \in 1 .. m |-> buf[out + i - 1]] \in Seq(Octet)
           /\ Len([i \in 1 .. m |-> buf[out + i - 1]]) = m
<1> DEFINE c == Occupe(out, in)
           out2 == (out + m) % BUF_LEN
           a == Anneau(buf, out, in)
           b == Anneau(buf, out2, in)
           t == [i \in 1 .. m |-> buf[out + i - 1]]
<1>0. BUF_LEN \in Nat /\ BUF_LEN >= 2 /\ c \in 0 .. BUF_LEN - 1 /\ m \in 0 .. BUF_LEN
  BY Modulos, Anneaux DEF Index
<1>1. out2 = Rang(out, m) /\ out2 \in Index
  BY <1>0, Modulos
<1>2. Occupe(out2, in) = c - m
  BY <1>0, <1>1 DEF Occupe, Rang, Index
<1>3. /\ b \in Seq(Octet) /\ Len(b) = c - m
      /\ a \in Seq(Octet) /\ Len(a) = c
      /\ \A i \in 1 .. c : a[i] = buf[Rang(out, i - 1)]
      /\ \A i \in 1 .. c - m : b[i] = buf[Rang(out2, i - 1)]
  <2> HIDE DEF out2
  <2>1. b \in Seq(Octet) /\ Len(b) = Occupe(out2, in)
        /\ \A i \in 1 .. Occupe(out2, in) : b[i] = buf[Rang(out2, i - 1)]
    BY <1>1, AnneauDe
  <2> QED
    BY <1>2, <2>1, AnneauDe
<1>4. t \in Seq(Octet) /\ Len(t) = m /\ \A i \in 1 .. m : t[i] = buf[out + i - 1]
  <2>1. \A i \in 1 .. m : out + i - 1 \in Index
    BY <1>0 DEF Index
  <2> QED
    BY <2>1
<1>5. \A i \in 1 .. m : a[i] = t[i]
  <2> SUFFICES ASSUME NEW i \in 1 .. m PROVE a[i] = t[i]
    OBVIOUS
  <2>1. i \in 1 .. c /\ Rang(out, i - 1) = out + i - 1
    BY <1>0 DEF Rang, Index
  <2> QED
    BY <1>3, <1>4, <2>1
<1>6. \A i \in 1 .. c - m : a[m + i] = b[i]
  <2> SUFFICES ASSUME NEW i \in 1 .. c - m PROVE a[m + i] = b[i]
    OBVIOUS
  <2>1. m + i \in 1 .. c /\ Rang(out, m + i - 1) = Rang(out2, i - 1)
    BY <1>0, <1>1 DEF Rang, Occupe, Index
  <2> HIDE DEF a, b, c, out2, t
  <2>2. b[i] = buf[Rang(out2, i - 1)]
    BY <1>3
  <2>3. a[m + i] = buf[Rang(out, (m + i) - 1)]
    BY <1>3, <2>1
  <2> QED
    BY <2>1, <2>2, <2>3
<1> HIDE DEF a, b, c, out2, t
<1>7. a = t \o b
  <2>1. /\ Len(a) = Len(t) + Len(b)
        /\ \A i \in 1 .. Len(t) : a[i] = t[i]
        /\ \A i \in 1 .. Len(b) : a[Len(t) + i] = b[i]
    BY <1>0, <1>3, <1>4, <1>5, <1>6
  <2> QED
    BY <1>3, <1>4, <2>1, Recolle
<1> QED
  BY <1>1, <1>2, <1>4, <1>7 DEF a, b, c, out2, t

-----------------------------------------------------------------------------
(* Transmission: the ring and the FIFO are a channel.                      *)

OctetsTx ==
    /\ tx_buf \in [Index -> Octet] /\ tx_in \in Index /\ tx_out \in Index
    /\ wfifo \in Seq(Octet) /\ prochain_tx \in Octet
    /\ EnEcriture => count \in Nat

\* The space that the routine has read is there when it uses it: only the
\* routine puts bytes in, and the host takes them out.
Espace == space \in Nat /\ space + Len(wfifo) <= ProfW

\* A copy fits in the ring without a wrap, whatever the routine has taken since.
CopieEmise ==
    pc \in {"e_copie", "e_publie"} =>
        /\ n \in 1 .. count /\ tx_in + n <= BUF_LEN
        /\ n + Occupe(tx_out, tx_in) < BUF_LEN
CopieFaite == pc = "e_publie" => \A i \in 0 .. n - 1 : tx_buf[tx_in + i] = (prochain_tx + i) % K

TxInv == OctetsTx /\ Espace /\ CopieEmise /\ CopieFaite

tvars == <<tx_buf, tx_in, tx_out, wfifo, prochain_tx, count, n, pc, space>>

LEMMA TxInchangee ==
    ASSUME TxInv, UNCHANGED tvars
    PROVE  TxInv'
BY DEF TxInv, tvars, OctetsTx, Espace, CopieEmise, CopieFaite, EnEcriture

\* Nothing in progress of a write but its count.
LEMMA TxHorsCopie ==
    ASSUME TxInv, UNCHANGED <<tx_buf, tx_in, tx_out, wfifo, prochain_tx, space>>,
           pc' \notin {"e_copie", "e_publie"}, EnEcriture' => count' \in Nat
    PROVE  TxInv'
BY DEF TxInv, OctetsTx, Espace, CopieEmise, CopieFaite

LEMMA TxDebut == Init => TxInv
<1> SUFFICES ASSUME Init PROVE TxInv
  OBVIOUS
<1>1. wfifo \in Seq(Octet) /\ Len(wfifo) <= ProfW /\ Len(wfifo) \in Nat
      /\ prochain_tx \in Octet
  <2>1. PICK m \in 0 .. ProfW : wfifo = Lot(0, m) /\ prochain_tx = m % K
    BY DEF Init
  <2>2. Lot(0, m) \in Seq(Octet) /\ Len(Lot(0, m)) = m
    BY LotType
  <2> QED
    BY <2>1, <2>2, UartAssumption DEF Octet
<1>2. 0 \in Octet /\ 0 \in Index
  BY UartAssumption DEF Octet, Index
<1> QED
  BY <1>1, <1>2, UartAssumption DEF Init, TxInv, OctetsTx, Espace, CopieEmise, CopieFaite,
     EnEcriture

LEMMA AppelTx ==
    ASSUME TxInv, Appel \/ Lire \/ FermerAttente
    PROVE  TxInv'
<1>1. UNCHANGED <<tx_buf, tx_in, tx_out, wfifo, prochain_tx, space>>
  BY DEF Appel, AppelEcrire, AppelLire, AppelFermer, Ioctl, Appeler, Lire, LireCalcul,
       LireCopie, LirePublie, LireAttente, LireVerif, LireEchec, LireIrq, FermerAttente,
       txVars, histTx, isrVars
<1>2. CASE Ioctl
  BY <1>2, TxInchangee DEF Ioctl, tvars, txVars, histTx, isrVars, appelVars
<1>3. ASSUME NEW c \in Nat, NEW nb, Appeler("e_calcul", c, nb)
      PROVE  pc' \notin {"e_copie", "e_publie"} /\ count' \in Nat
  BY <1>3 DEF Appeler
<1>4. CASE AppelEcrire
  <2>1. \A c \in 0 .. CompteMax : c \in Nat
    BY UartAssumption
  <2> QED
    BY <1>1, <1>3, <1>4, <2>1, TxHorsCopie DEF AppelEcrire
<1>5. CASE AppelLire \/ AppelFermer
  <2>1. pc' \in {"l_calcul", "f_attente"}
    BY <1>5 DEF AppelLire, AppelFermer, Appeler
  <2> QED
    BY <1>1, <2>1, TxHorsCopie DEF EnEcriture
<1>6. CASE Lire \/ FermerAttente
  <2>1. pc' \in {"libre", "l_calcul", "l_copie", "l_publie", "l_attente", "l_verif",
                 "l_echec", "l_irq"}
    BY <1>6 DEF Lire, LireCalcul, LireCopie, LirePublie, LireAttente, LireVerif, LireEchec,
         LireIrq, FermerAttente, Revenir
  <2> QED
    BY <1>1, <2>1, TxHorsCopie DEF EnEcriture
<1> QED
  BY <1>2, <1>4, <1>5, <1>6 DEF Appel

\* The room computed fits before the end of the ring and leaves a slot empty.
LEMMA PlaceTient ==
    ASSUME NEW in \in Index, NEW out \in Index, NEW c \in Nat,
           NEW m, m = Moindre(Place(in, out), c), m > 0
    PROVE  m \in 1 .. c /\ in + m <= BUF_LEN /\ m + Occupe(out, in) < BUF_LEN
BY Anneaux DEF Moindre, Place, Occupe, Index

LEMMA EcrireTx ==
    ASSUME TxInv, Ecrire
    PROVE  TxInv'
<1>1. UNCHANGED <<tx_out, wfifo, space>>
  BY DEF Ecrire, EcrireCalcul, EcrireCopie, EcrirePublie, EcrireIrq, EcrireAttente,
       EcrireVerif, txVars, isrVars
<1>2. CASE EcrireCalcul
  <2>1. /\ UNCHANGED <<tx_buf, tx_in, prochain_tx, count>>
        /\ pc = "e_calcul" /\ n' = Moindre(Place(tx_in, tx_out), count)
        /\ pc' = IF n' > 0 THEN "e_copie" ELSE "e_irq"
    BY <1>2 DEF EcrireCalcul, txVars, histTx
  <2>2. tx_in \in Index /\ tx_out \in Index /\ count \in Nat
    BY <2>1 DEF TxInv, OctetsTx, EnEcriture
  <2>3. n' > 0 => /\ n' \in 1 .. count /\ tx_in + n' <= BUF_LEN
                  /\ n' + Occupe(tx_out, tx_in) < BUF_LEN
    BY <2>1, <2>2, PlaceTient
  <2> QED
    BY <1>1, <2>1, <2>2, <2>3 DEF TxInv, OctetsTx, Espace, CopieEmise, CopieFaite
<1>3. CASE EcrireCopie
  <2>1. /\ UNCHANGED <<tx_in, prochain_tx, count, n>> /\ pc = "e_copie" /\ pc' = "e_publie"
        /\ tx_buf' = [i \in Index |->
               IF i \in tx_in .. tx_in + n - 1 THEN (prochain_tx + i - tx_in) % K
               ELSE tx_buf[i]]
    BY <1>3 DEF EcrireCopie, histTx
  <2>2. /\ n \in 1 .. count /\ tx_in + n <= BUF_LEN /\ n + Occupe(tx_out, tx_in) < BUF_LEN
        /\ count \in Nat /\ tx_in \in Index /\ prochain_tx \in Int /\ BUF_LEN \in Nat
    BY <2>1, Anneaux DEF TxInv, OctetsTx, CopieEmise, EnEcriture, Octet
  <2>3. \A x \in Int : x % K \in Octet
    BY UartAssumption DEF Octet
  <2>4. tx_buf' \in [Index -> Octet]
    <3>1. ASSUME NEW i \in Index PROVE tx_buf[i] \in Octet /\ prochain_tx + i - tx_in \in Int
      BY <2>2 DEF TxInv, OctetsTx, Index
    <3> QED
      BY <2>1, <2>3, <3>1
  <2>5. ASSUME NEW i \in 0 .. n - 1 PROVE tx_buf'[tx_in + i] = (prochain_tx + i) % K
    <3>1. /\ tx_in + i \in Index /\ tx_in + i \in tx_in .. tx_in + n - 1
          /\ prochain_tx + (tx_in + i) - tx_in = prochain_tx + i
      BY <2>2, <2>5 DEF Index
    <3> QED
      BY <2>1, <3>1
  <2> QED
    BY <1>1, <2>1, <2>2, <2>4, <2>5 DEF TxInv, OctetsTx, Espace, CopieEmise, CopieFaite,
         EnEcriture
<1>4. CASE EcrirePublie
  <2>1. /\ tx_in' = (tx_in + n) % BUF_LEN /\ count' = count - n /\ tx_buf' = tx_buf
        /\ prochain_tx' = (prochain_tx + n) % K /\ pc = "e_publie" /\ pc' = "e_calcul"
    BY <1>4 DEF EcrirePublie
  <2>2. n \in 1 .. count /\ count \in Nat /\ tx_in \in Index /\ prochain_tx \in Int
    BY <2>1 DEF TxInv, OctetsTx, CopieEmise, EnEcriture, Octet
  <2>3. tx_in' \in Index /\ prochain_tx' \in Octet
    BY <2>1, <2>2, UartAssumption DEF Index, Octet
  <2>4. count' \in Nat
    BY <2>1, <2>2
  <2> QED
    BY <1>1, <2>1, <2>3, <2>4 DEF TxInv, OctetsTx, Espace, CopieEmise, CopieFaite
<1>5. CASE EcrireIrq \/ EcrireAttente \/ EcrireVerif
  <2>1. /\ UNCHANGED <<tx_buf, tx_in, prochain_tx>> /\ EnEcriture
        /\ pc' \in {"libre", "e_calcul", "e_attente", "e_verif"}
        /\ count' = count \/ count' = 0
    BY <1>5 DEF EcrireIrq, EcrireAttente, EcrireVerif, Revenir, EnEcriture, txVars, histTx
  <2> QED
    BY <1>1, <2>1, TxHorsCopie DEF TxInv, OctetsTx
<1> QED
  BY <1>2, <1>3, <1>4, <1>5 DEF Ecrire

\* The first byte of a ring.
LEMMA PremierOctet ==
    ASSUME NEW buf \in [Index -> Octet], NEW out \in Index, NEW in \in Index, out # in
    PROVE  /\ Suivant(out) \in Index /\ buf[out] \in Octet
           /\ Occupe(Suivant(out), in) = Occupe(out, in) - 1
           /\ Anneau(buf, out, in) = <<buf[out]>> \o Anneau(buf, Suivant(out), in)
<1>1. 1 \in Nat /\ out + 1 <= BUF_LEN /\ 1 <= Occupe(out, in)
  BY Anneaux DEF Index, Occupe
<1>2. (out + 1) % BUF_LEN = Suivant(out)
  BY DEF Suivant
<1>3. [i \in 1 .. 1 |-> buf[out + i - 1]] = <<buf[out]>>
  <2>1. \A i \in 1 .. 1 : out + i - 1 = out
    BY DEF Index
  <2> QED
    BY <2>1
<1> QED
  BY <1>1, <1>2, <1>3, AnneauRaccourci

LEMMA IsrTx ==
    ASSUME TxInv, Isr
    PROVE  TxInv'
<1>1. CASE IsrControle
  <2>1. /\ UNCHANGED <<tx_buf, tx_in, tx_out, wfifo, prochain_tx, count, n, pc>>
        /\ space' = IF WI THEN ProfW - Len(wfifo) ELSE 0
    BY <1>1 DEF IsrControle, txVars, appelVars, histTx
  <2>2. space' \in Nat /\ space' + Len(wfifo) <= ProfW
    BY <2>1, UartAssumption DEF TxInv, OctetsTx, Espace
  <2> QED
    BY <2>1, <2>2 DEF TxInv, OctetsTx, Espace, CopieEmise, CopieFaite, EnEcriture
<1>2. CASE IsrEcrireOctet
  <2>1. /\ UNCHANGED <<tx_buf, tx_in, prochain_tx, count, n, pc>>
        /\ space > 0 /\ space' = space - 1
        /\ tx_out # tx_in /\ tx_out' = Suivant(tx_out)
        /\ wfifo' = IF Len(wfifo) < ProfW THEN Append(wfifo, tx_buf[tx_out]) ELSE wfifo
    BY <1>2 DEF IsrEcrireOctet, appelVars, histTx
  <2>2. /\ tx_buf \in [Index -> Octet] /\ tx_in \in Index /\ tx_out \in Index
        /\ wfifo \in Seq(Octet) /\ Len(wfifo) \in Nat /\ ProfW \in Nat
    BY UartAssumption DEF TxInv, OctetsTx
  <2>3. /\ tx_out' \in Index /\ tx_buf[tx_out] \in Octet
        /\ Occupe(tx_out', tx_in) = Occupe(tx_out, tx_in) - 1
    BY <2>1, <2>2, PremierOctet
  <2>4. wfifo' \in Seq(Octet) /\ space' \in Nat /\ space' + Len(wfifo') <= ProfW
    <3>1. Len(wfifo) < ProfW
      BY <2>1, <2>2 DEF TxInv, Espace
    <3>2. wfifo' \in Seq(Octet) /\ Len(wfifo') = Len(wfifo) + 1
      BY <2>1, <2>2, <2>3, <3>1
    <3> QED
      BY <2>1, <2>2, <3>2 DEF TxInv, Espace
  <2>5. Occupe(tx_out, tx_in) \in 0 .. BUF_LEN - 1 /\ BUF_LEN \in Nat
    BY <2>2, Modulos, Anneaux
  <2>6. CopieEmise'
    <3> SUFFICES ASSUME pc' \in {"e_copie", "e_publie"}
                 PROVE  /\ n' \in 1 .. count' /\ tx_in' + n' <= BUF_LEN
                        /\ n' + Occupe(tx_out', tx_in') < BUF_LEN
      BY DEF CopieEmise, Occupe
    <3>1. /\ n \in 1 .. count /\ tx_in + n <= BUF_LEN
          /\ n + Occupe(tx_out, tx_in) < BUF_LEN
      BY <2>1 DEF TxInv, CopieEmise
    <3> QED
      BY <2>1, <2>3, <2>5, <3>1
  <2>7. OctetsTx' /\ Espace'
    BY <2>1, <2>2, <2>3, <2>4 DEF TxInv, OctetsTx, Espace, EnEcriture
  <2>8. CopieFaite'
    BY <2>1 DEF TxInv, CopieFaite
  <2> QED
    BY <2>6, <2>7, <2>8 DEF TxInv
<1>3. CASE IsrEcrireFin
  <2>1. /\ UNCHANGED <<tx_buf, tx_in, tx_out, wfifo, prochain_tx, count, n, pc>>
        /\ space' = 0
    BY <1>3 DEF IsrEcrireFin, txVars, appelVars, histTx
  <2>2. Espace'
    <3>1. Len(wfifo) \in Nat /\ ProfW \in Nat
      BY UartAssumption DEF TxInv, OctetsTx
    <3> QED
      BY <2>1, <3>1 DEF TxInv, Espace
  <2> QED
    BY <2>1, <2>2 DEF TxInv, OctetsTx, CopieEmise, CopieFaite, EnEcriture
<1>4. CASE IsrEntree \/ IsrLirePlein \/ IsrLireOctet \/ IsrLireVide \/ IsrLireCroise
  <2>1. UNCHANGED tvars
    BY <1>4 DEF IsrEntree, IsrLirePlein, IsrLireOctet, IsrLireVide, IsrLireCroise, FinLecture,
         tvars, txVars, appelVars, histTx
  <2> QED
    BY <2>1, TxInchangee
<1> QED
  BY <1>1, <1>2, <1>3, <1>4 DEF Isr

LEMMA HoteTx ==
    ASSUME TxInv, Hote \/ Seconde
    PROVE  TxInv'
<1>1. CASE HoteLit
  <2>1. /\ UNCHANGED <<tx_buf, tx_in, tx_out, prochain_tx, count, n, pc, space>>
        /\ wfifo # <<>> /\ wfifo' = Tail(wfifo)
    BY <1>1 DEF HoteLit, txVars, isrVars, appelVars
  <2>2. wfifo' \in Seq(Octet) /\ Len(wfifo') = Len(wfifo) - 1 /\ Len(wfifo) \in Nat
    BY <2>1 DEF TxInv, OctetsTx
  <2>3. space' + Len(wfifo') <= ProfW
    BY <2>1, <2>2, UartAssumption DEF TxInv, Espace
  <2> QED
    BY <2>1, <2>2, <2>3 DEF TxInv, OctetsTx, Espace, CopieEmise, CopieFaite, EnEcriture
<1>2. CASE Seconde \/ HoteBranche \/ HoteEcrit \/ HotePause
  <2>1. UNCHANGED tvars
    BY <1>2 DEF Seconde, HoteBranche, HoteEcrit, HotePause, tvars, txVars, isrVars,
         appelVars, histTx
  <2> QED
    BY <2>1, TxInchangee
<1> QED
  BY <1>1, <1>2 DEF Hote

LEMMA TxPas == TxInv /\ [Next]_vars => TxInv'
<1> SUFFICES ASSUME TxInv, [Next]_vars PROVE TxInv'
  OBVIOUS
<1>1. CASE UNCHANGED vars
  BY <1>1, TxInchangee DEF vars, tvars, txVars, isrVars, appelVars, histTx
<1> QED
  BY <1>1, AppelTx, EcrireTx, IsrTx, HoteTx DEF Next, Programme

-----------------------------------------------------------------------------
(* Its steps are those of a channel.                                       *)

LEMMA FileTx ==
    /\ file_tx = wfifo \o Anneau(tx_buf, tx_out, tx_in)
    /\ file_tx' = wfifo' \o Anneau(tx_buf', tx_out', tx_in')
BY DEF file_tx, Anneau

LEMMA TxImmobile ==
    ASSUME UNCHANGED <<tx_buf, tx_in, tx_out, wfifo, prochain_tx, sorti_tx>>
    PROVE  UNCHANGED TX!cvars
BY FileTx DEF TX!cvars

\* Two sequences put end to end, taken apart again.
LEMMA Decolle ==
    ASSUME NEW s \in Seq(Octet), NEW t \in Seq(Octet)
    PROVE  /\ SubSeq(s \o t, 1, Len(s)) = s
           /\ SubSeq(s \o t, Len(s) + 1, Len(s \o t)) = t
           /\ s \o t \in Seq(Octet) /\ Len(s \o t) = Len(s) + Len(t)
<1> DEFINE u == s \o t
<1>1. /\ u \in Seq(Octet) /\ Len(u) = Len(s) + Len(t)
      /\ \A i \in 1 .. Len(s) + Len(t) : u[i] = IF i <= Len(s) THEN s[i] ELSE t[i - Len(s)]
  BY ConcatProperties, ZenonT(30)
<1>2. Len(s) \in Nat /\ Len(t) \in Nat
  OBVIOUS
<1>3. /\ \A i \in 1 .. Len(s) : u[i] = s[i]
      /\ \A i \in 1 .. Len(t) : u[Len(s) + i] = t[i]
  <2>1. ASSUME NEW i \in 1 .. Len(s) PROVE u[i] = s[i]
    BY <1>1, <1>2, <2>1
  <2>2. ASSUME NEW i \in 1 .. Len(t) PROVE u[Len(s) + i] = t[i]
    <3>1. Len(s) + i \in 1 .. Len(s) + Len(t) /\ ~(Len(s) + i <= Len(s))
          /\ Len(s) + i - Len(s) = i
      BY <1>2, <2>2
    <3> HIDE DEF u
    <3> QED
      BY <1>1, <3>1
  <2> QED
    BY <2>1, <2>2
<1> HIDE DEF u
<1>4. SubSeq(u, 1, Len(s)) = s
  <2>1. SubSeq(u, 1, Len(s)) \in Seq(Octet) /\ Len(SubSeq(u, 1, Len(s))) = Len(s)
        /\ \A i \in 1 .. Len(s) : SubSeq(u, 1, Len(s))[i] = s[i]
    BY <1>1, <1>2, <1>3
  <2> QED
    BY <2>1, SeqEqual, ZenonT(30)
<1>5. SubSeq(u, Len(s) + 1, Len(u)) = t
  <2>1. SubSeq(u, Len(s) + 1, Len(u)) \in Seq(Octet)
        /\ Len(SubSeq(u, Len(s) + 1, Len(u))) = Len(t)
    BY <1>1, <1>2
  <2>2. ASSUME NEW i \in 1 .. Len(t) PROVE SubSeq(u, Len(s) + 1, Len(u))[i] = t[i]
    <3>1. SubSeq(u, Len(s) + 1, Len(u))[i] = u[Len(s) + i]
      BY <1>1, <1>2, <2>2
    <3> QED
      BY <1>3, <3>1
  <2> QED
    BY <2>1, <2>2, SeqEqual, ZenonT(30)
<1> QED
  BY <1>1, <1>4, <1>5 DEF u

LEMMA Associe ==
    ASSUME NEW s \in Seq(Octet), NEW t \in Seq(Octet), NEW u \in Seq(Octet)
    PROVE  (s \o t) \o u = s \o (t \o u)
<1> HIDE DEF Octet
<1> QED
  BY ConcatAssociative

\* The ring, the FIFO and their lengths.
LEMMA ContenuTx ==
    ASSUME TxInv
    PROVE  /\ Anneau(tx_buf, tx_out, tx_in) \in Seq(Octet)
           /\ Len(Anneau(tx_buf, tx_out, tx_in)) = Occupe(tx_out, tx_in)
           /\ Occupe(tx_out, tx_in) \in Nat /\ Occupe(tx_out, tx_in) <= BUF_LEN - 1
           /\ file_tx \in Seq(Octet)
           /\ Len(file_tx) = Len(wfifo) + Occupe(tx_out, tx_in)
           /\ Len(wfifo) \in Nat /\ Len(wfifo) <= ProfW
           /\ BUF_LEN \in Nat /\ ProfW \in Nat
<1>1. /\ tx_buf \in [Index -> Octet] /\ tx_in \in Index /\ tx_out \in Index
      /\ wfifo \in Seq(Octet) /\ ProfW \in Nat
  BY UartAssumption DEF TxInv, OctetsTx
<1>2. /\ Anneau(tx_buf, tx_out, tx_in) \in Seq(Octet)
      /\ Len(Anneau(tx_buf, tx_out, tx_in)) = Occupe(tx_out, tx_in)
  BY <1>1, AnneauDe
<1>3. Occupe(tx_out, tx_in) \in 0 .. BUF_LEN - 1 /\ BUF_LEN \in Nat
  BY <1>1, Modulos, Anneaux
<1>4. file_tx \in Seq(Octet) /\ Len(file_tx) = Len(wfifo) + Occupe(tx_out, tx_in)
  BY <1>1, <1>2, FileTx, Decolle
<1>5. Len(wfifo) \in Nat /\ Len(wfifo) <= ProfW
  BY <1>1 DEF TxInv, Espace
<1> QED
  BY <1>1, <1>2, <1>3, <1>4, <1>5

\* write publishes its copy.
LEMMA PublieAccepte ==
    ASSUME TxInv, EcrirePublie
    PROVE  TX!CNext
<1> DEFINE a == Anneau(tx_buf, tx_out, tx_in)
           l == Lot(prochain_tx, n)
<1>1. /\ tx_in' = (tx_in + n) % BUF_LEN /\ prochain_tx' = (prochain_tx + n) % K
      /\ UNCHANGED <<tx_buf, tx_out, wfifo, sorti_tx>> /\ pc = "e_publie"
  BY DEF EcrirePublie
<1>2. /\ tx_buf \in [Index -> Octet] /\ tx_in \in Index /\ tx_out \in Index
      /\ wfifo \in Seq(Octet) /\ prochain_tx \in Int
      /\ n \in Nat /\ n >= 1 /\ tx_in + n <= BUF_LEN /\ n + Occupe(tx_out, tx_in) < BUF_LEN
      /\ \A i \in 0 .. n - 1 : tx_buf[tx_in + i] = (prochain_tx + i) % K
  BY <1>1 DEF TxInv, OctetsTx, CopieEmise, CopieFaite, EnEcriture, Octet
<1>3. Anneau(tx_buf, tx_out, (tx_in + n) % BUF_LEN) = a \o l
  BY <1>2, AnneauAllonge
<1>4. a \in Seq(Octet) /\ l \in Seq(Octet)
  BY <1>2, ContenuTx, LotType
<1>5. file_tx' = wfifo \o (a \o l) /\ file_tx = wfifo \o a
  BY <1>1, <1>3, FileTx
<1> HIDE DEF a, l
<1>6. wfifo \o (a \o l) = (wfifo \o a) \o l
  BY <1>2, <1>4, Associe
<1>7. file_tx' = file_tx \o l
  BY <1>5, <1>6
<1>8. TX!Lot(prochain_tx, n) = l
  BY DEF l, Lot, TX!Lot
<1>9. n \in 1 .. BUF_LEN - 1 + ProfW /\ Len(file_tx) + n <= BUF_LEN - 1 + ProfW
  BY <1>2, ContenuTx
<1>10. TX!Accepter(n)
  BY <1>1, <1>7, <1>8, <1>9 DEF TX!Accepter
<1> QED
  BY <1>9, <1>10 DEF TX!CNext

\* The host takes the oldest byte.
LEMMA LitLivre ==
    ASSUME TxInv, HoteLit
    PROVE  TX!CNext
<1> DEFINE a == Anneau(tx_buf, tx_out, tx_in)
           h == Head(wfifo)
           q == Tail(wfifo)
<1>1. /\ wfifo # <<>> /\ wfifo' = q /\ sorti_tx' = <<h>>
      /\ UNCHANGED <<tx_buf, tx_in, tx_out, prochain_tx>>
  BY DEF HoteLit, txVars
<1>2. /\ wfifo \in Seq(Octet) /\ a \in Seq(Octet) /\ BUF_LEN \in Nat /\ BUF_LEN >= 2
      /\ ProfW \in Nat /\ Len(file_tx) = Len(wfifo) + Occupe(tx_out, tx_in)
      /\ Occupe(tx_out, tx_in) \in Nat
  BY ContenuTx, Anneaux DEF TxInv, OctetsTx
<1>3. h \in Octet /\ q \in Seq(Octet) /\ Len(wfifo) \in Nat /\ Len(wfifo) >= 1
  BY <1>1, <1>2
<1>4. wfifo = <<h>> \o q
  BY <1>1, <1>2
<1>5. file_tx = wfifo \o a /\ file_tx' = q \o a
  BY <1>1, FileTx
<1> HIDE DEF a, h, q
<1>6. <<h>> \in Seq(Octet) /\ Len(<<h>>) = 1
  BY <1>3
<1>7. (<<h>> \o q) \o a = <<h>> \o (q \o a)
  BY <1>2, <1>3, <1>6, Associe
<1>8. q \o a \in Seq(Octet)
  BY <1>2, <1>3, Decolle
<1>9. file_tx = <<h>> \o (q \o a)
  BY <1>4, <1>5, <1>7
<1>10. /\ SubSeq(file_tx, 1, 1) = <<h>>
       /\ SubSeq(file_tx, 1 + 1, Len(file_tx)) = q \o a
  BY <1>6, <1>8, <1>9, Decolle
<1>11. 1 \in 1 .. BUF_LEN - 1 + ProfW /\ 1 <= Len(file_tx)
  BY <1>2, <1>3
<1>12. TX!Livrer(1)
  BY <1>1, <1>5, <1>10, <1>11 DEF TX!Livrer
<1> QED
  BY <1>11, <1>12 DEF TX!CNext

\* The bytes that the routine moves from the ring to the FIFO stay in order.
LEMMA TransfertInvisible ==
    ASSUME TxInv, IsrEcrireOctet
    PROVE  UNCHANGED TX!cvars
<1> DEFINE a == Anneau(tx_buf, Suivant(tx_out), tx_in)
           o == tx_buf[tx_out]
<1>1. /\ UNCHANGED <<tx_buf, tx_in, prochain_tx, sorti_tx>> /\ space > 0
      /\ tx_out # tx_in /\ tx_out' = Suivant(tx_out)
      /\ wfifo' = IF Len(wfifo) < ProfW THEN Append(wfifo, o) ELSE wfifo
  BY DEF IsrEcrireOctet, histTx
<1>2. /\ tx_buf \in [Index -> Octet] /\ tx_in \in Index /\ tx_out \in Index
      /\ wfifo \in Seq(Octet)
  BY DEF TxInv, OctetsTx
<1>3. wfifo' = Append(wfifo, o)
  BY <1>1, ContenuTx DEF TxInv, Espace
<1>4. /\ Suivant(tx_out) \in Index /\ o \in Octet
      /\ Anneau(tx_buf, tx_out, tx_in) = <<o>> \o a
  BY <1>1, <1>2, PremierOctet
<1>5. a \in Seq(Octet)
  BY <1>2, <1>4, AnneauDe
<1>6. file_tx = wfifo \o (<<o>> \o a) /\ file_tx' = Append(wfifo, o) \o a
  BY <1>1, <1>3, <1>4, FileTx
<1> HIDE DEF a, o
<1>7. <<o>> \in Seq(Octet) /\ Append(wfifo, o) = wfifo \o <<o>>
  BY <1>2, <1>4, AppendIsConcat
<1>8. (wfifo \o <<o>>) \o a = wfifo \o (<<o>> \o a)
  BY <1>2, <1>5, <1>7, Associe
<1> QED
  BY <1>1, <1>6, <1>7, <1>8 DEF TX!cvars

\* A copy writes after the bytes of the ring.
LEMMA CopieInvisible ==
    ASSUME TxInv, EcrireCopie
    PROVE  UNCHANGED TX!cvars
<1>1. /\ UNCHANGED <<tx_in, tx_out, wfifo, prochain_tx, sorti_tx>> /\ pc = "e_copie"
      /\ tx_buf' = [i \in Index |->
             IF i \in tx_in .. tx_in + n - 1 THEN (prochain_tx + i - tx_in) % K
             ELSE tx_buf[i]]
  BY DEF EcrireCopie, histTx
<1>2. /\ tx_buf \in [Index -> Octet] /\ tx_in \in Index /\ tx_out \in Index
      /\ n \in Nat /\ tx_in + n <= BUF_LEN /\ n + Occupe(tx_out, tx_in) < BUF_LEN
  BY <1>1 DEF TxInv, OctetsTx, CopieEmise, EnEcriture
<1>3. tx_buf' \in [Index -> Octet]
  BY EcrireTx DEF Ecrire, TxInv, OctetsTx
<1>4. ASSUME NEW i \in 0 .. Occupe(tx_out, tx_in) - 1
      PROVE  tx_buf'[Rang(tx_out, i)] = tx_buf[Rang(tx_out, i)]
  <2>1. Rang(tx_out, i) \in Index /\ Rang(tx_out, i) \notin tx_in .. tx_in + n - 1
    BY <1>2, <1>4, Anneaux DEF Rang, Occupe, Index
  <2> QED
    BY <1>1, <2>1
<1>5. Anneau(tx_buf', tx_out, tx_in) = Anneau(tx_buf, tx_out, tx_in)
  BY <1>2, <1>3, <1>4, AnneauEgal
<1> QED
  BY <1>1, <1>5, FileTx DEF TX!cvars

LEMMA TxRaffine == TxInv /\ [Next]_vars => [TX!CNext]_(TX!cvars)
<1> SUFFICES ASSUME TxInv, [Next]_vars PROVE TX!CNext \/ UNCHANGED TX!cvars
  OBVIOUS
<1>1. CASE Appel \/ Lire \/ FermerAttente \/ Seconde
  BY <1>1, TxImmobile DEF Appel, AppelEcrire, AppelLire, AppelFermer, Ioctl, Appeler, Lire,
       LireCalcul, LireCopie, LirePublie, LireAttente, LireVerif, LireEchec, LireIrq,
       FermerAttente, Seconde, txVars, histTx
<1>2. CASE EcrireCalcul \/ EcrireIrq \/ EcrireAttente \/ EcrireVerif
  BY <1>2, TxImmobile DEF EcrireCalcul, EcrireIrq, EcrireAttente, EcrireVerif, txVars, histTx
<1>3. CASE IsrEntree \/ IsrControle \/ IsrLirePlein \/ IsrLireOctet \/ IsrLireVide
              \/ IsrLireCroise \/ IsrEcrireFin
  BY <1>3, TxImmobile DEF IsrEntree, IsrControle, IsrLirePlein, IsrLireOctet, IsrLireVide,
       IsrLireCroise, IsrEcrireFin, FinLecture, txVars, histTx
<1>4. CASE HoteBranche \/ HoteEcrit \/ HotePause \/ UNCHANGED vars
  BY <1>4, TxImmobile DEF HoteBranche, HoteEcrit, HotePause, vars, txVars, histTx
<1> QED
  BY <1>1, <1>2, <1>3, <1>4, PublieAccepte, LitLivre, TransfertInvisible, CopieInvisible
     DEF Next, Programme, Ecrire, Isr, Hote

\* What the program prints reaches the host once and in order.
THEOREM EmissionEnOrdre == Spec => EmissionFidele
<1>1. Init => TX!CInit
  <2> SUFFICES ASSUME Init PROVE TX!CInit
    OBVIOUS
  <2>1. PICK m \in 0 .. ProfW : wfifo = Lot(0, m) /\ prochain_tx = m % K
    BY DEF Init
  <2> DEFINE a == Anneau(tx_buf, tx_out, tx_in)
  <2>2. a = <<>> /\ wfifo \in Seq(Octet)
    <3>1. Occupe(tx_out, tx_in) = 0
      BY DEF Init, Occupe
    <3> QED
      BY <3>1, TxDebut, ContenuTx DEF TxInv, OctetsTx
  <2>3. file_tx = wfifo
    <3> HIDE DEF a
    <3> QED
      BY <2>2, FileTx DEF a
  <2>4. TX!Lot(0, m) = Lot(0, m) /\ m \in 0 .. BUF_LEN - 1 + ProfW
    BY UartAssumption DEF TX!Lot, Lot
  <2> QED
    BY <2>1, <2>3, <2>4 DEF Init, TX!CInit
<1> QED
  BY <1>1, TxDebut, TxPas, TxRaffine, PTL DEF Spec, EmissionFidele, TX!CSpec

-----------------------------------------------------------------------------
(* The wait of a write.                                                    *)

\* A write that gets to its wait has found the ring full, with the tx_out that
\* it has read; the ring has moved since if, and only if, tx_out has.
AttenteTx ==
    /\ pc = "e_irq" /\ count > 0 => vu = Suivant(tx_in)
    /\ pc \in {"e_attente", "e_verif"} => vu = Suivant(tx_in)

LEMMA PlaceNulle ==
    ASSUME NEW in \in Index, NEW out \in Index, NEW c \in Nat, c > 0,
           ~(Moindre(Place(in, out), c) > 0)
    PROVE  Suivant(in) = out
<1>1. Suivant(in) = IF in + 1 < BUF_LEN THEN in + 1 ELSE in + 1 - BUF_LEN
  BY Modulos, Anneaux DEF Rang
<1> QED
  BY <1>1, Anneaux DEF Moindre, Place, Index

LEMMA AttentePas == TxInv /\ AttenteTx /\ [Next]_vars => AttenteTx'
<1> SUFFICES ASSUME TxInv, AttenteTx, [Next]_vars PROVE AttenteTx'
  OBVIOUS
<1>1. CASE pc' \notin {"e_irq", "e_attente", "e_verif"}
  BY <1>1 DEF AttenteTx
<1>2. CASE UNCHANGED <<pc, count, vu, tx_in>>
  BY <1>2 DEF AttenteTx, Suivant
<1>3. CASE Appel
  BY <1>1, <1>2, <1>3 DEF Appel, AppelEcrire, AppelLire, AppelFermer, Ioctl, Appeler,
     txVars, appelVars
<1>4. CASE EcrireCalcul
  <2>1. /\ pc = "e_calcul" /\ count' = count /\ tx_in' = tx_in
        /\ vu' = IF count > 0 THEN tx_out ELSE 0
        /\ n' = Moindre(Place(tx_in, tx_out), count)
        /\ pc' = IF n' > 0 THEN "e_copie" ELSE "e_irq"
    BY <1>4 DEF EcrireCalcul, txVars
  <2>2. tx_in \in Index /\ tx_out \in Index /\ count \in Nat
    BY <2>1 DEF TxInv, OctetsTx, EnEcriture
  <2>3. pc' = "e_irq" /\ count > 0 => Suivant(tx_in) = tx_out
    BY <2>1, <2>2, PlaceNulle
  <2> QED
    BY <2>1, <2>3 DEF AttenteTx, Suivant
<1>5. CASE EcrireIrq
  <2>1. /\ pc = "e_irq" /\ tx_in' = tx_in
        /\ pc' = "libre" \/ (pc' = "e_attente" /\ count # 0 /\ UNCHANGED <<count, vu>>)
    BY <1>5 DEF EcrireIrq, Revenir, txVars
  <2>2. count \in Nat
    BY <2>1 DEF TxInv, OctetsTx, EnEcriture
  <2> QED
    BY <2>1, <2>2 DEF AttenteTx, Suivant
<1>6. CASE EcrireAttente
  BY <1>6 DEF EcrireAttente, AttenteTx, Suivant, txVars
<1>7. CASE EcrireCopie \/ EcrirePublie \/ EcrireVerif
  BY <1>1, <1>7 DEF EcrireCopie, EcrirePublie, EcrireVerif, Revenir
<1>8. CASE Lire \/ FermerAttente
  BY <1>1, <1>8 DEF Lire, LireCalcul, LireCopie, LirePublie, LireAttente, LireVerif,
     LireEchec, LireIrq, FermerAttente, Revenir
<1>9. CASE Isr
  BY <1>2, <1>9 DEF Isr, IsrEntree, IsrControle, IsrLirePlein, IsrLireOctet, IsrLireVide,
     IsrLireCroise, IsrEcrireOctet, IsrEcrireFin, txVars, appelVars
<1>10. CASE Seconde \/ Hote \/ UNCHANGED vars
  BY <1>2, <1>10 DEF Seconde, Hote, HoteBranche, HoteLit, HoteEcrit, HotePause, vars, txVars,
     appelVars
<1> QED
  BY <1>3, <1>4, <1>5, <1>6, <1>7, <1>8, <1>9, <1>10 DEF Next, Programme, Ecrire

LEMMA AttenteToujours == Spec => [](TxInv /\ AttenteTx /\ Armee)
<1>1. Init => AttenteTx /\ Armee
  BY DEF Init, AttenteTx, Armee
<1> QED
  BY <1>1, TxDebut, TxPas, AttentePas, ArmeePas, PTL DEF Spec

\* What is printed never waits for an interrupt that nothing will enable, and a
\* write waits on a full ring only: the routine cannot have gone round it.
THEOREM EmissionToujours == Spec => []EmissionArmee
<1>1. TxInv /\ AttenteTx /\ Armee => EmissionArmee
  BY DEF AttenteTx, Armee, EmissionArmee
<1> QED
  BY <1>1, AttenteToujours, PTL

-----------------------------------------------------------------------------
(* Reception: the same, from the FIFO to the ring and from there to read.  *)

OctetsRx ==
    /\ rx_buf \in [Index -> Octet] /\ rx_in \in Index /\ rx_out \in Index
    /\ rfifo \in Seq(Octet) /\ Len(rfifo) <= ProfR /\ prochain_rx \in Octet
    /\ EnLecture => count \in Nat

\* The bytes that a read copies are in the ring, without a wrap, and the
\* routine, which only adds bytes, leaves them there.
CopieLue ==
    pc \in {"l_copie", "l_publie"} =>
        n \in 1 .. count /\ rx_out + n <= BUF_LEN /\ n <= Occupe(rx_out, rx_in)
TamponFidele == pc = "l_publie" => tampon = [i \in 1 .. n |-> rx_buf[rx_out + i - 1]]

RxInv == OctetsRx /\ CopieLue /\ TamponFidele

xvars == <<rx_buf, rx_in, rx_out, rfifo, prochain_rx, count, n, pc, tampon>>

LEMMA RxInchangee ==
    ASSUME RxInv, UNCHANGED xvars
    PROVE  RxInv'
BY DEF RxInv, xvars, OctetsRx, CopieLue, TamponFidele, EnLecture

LEMMA RxHorsCopie ==
    ASSUME RxInv, UNCHANGED <<rx_buf, rx_in, rx_out, rfifo, prochain_rx>>,
           pc' \notin {"l_copie", "l_publie"}, EnLecture' => count' \in Nat
    PROVE  RxInv'
BY DEF RxInv, OctetsRx, CopieLue, TamponFidele

LEMMA RxDebut == Init => RxInv
<1> SUFFICES ASSUME Init PROVE RxInv
  OBVIOUS
<1>1. rfifo \in Seq(Octet) /\ Len(rfifo) <= ProfR /\ prochain_rx \in Octet
  <2>1. PICK m \in 0 .. ProfR : rfifo = Lot(0, m) /\ prochain_rx = m % K
    BY DEF Init
  <2>2. Lot(0, m) \in Seq(Octet) /\ Len(Lot(0, m)) = m
    BY LotType
  <2> QED
    BY <2>1, <2>2, UartAssumption DEF Octet
<1>2. 0 \in Octet /\ 0 \in Index
  BY UartAssumption DEF Octet, Index
<1> QED
  BY <1>1, <1>2, UartAssumption DEF Init, RxInv, OctetsRx, CopieLue, TamponFidele, EnLecture

LEMMA AppelRx ==
    ASSUME RxInv, Appel \/ Ecrire \/ FermerAttente
    PROVE  RxInv'
<1>1. UNCHANGED <<rx_buf, rx_in, rx_out, rfifo, prochain_rx>>
  BY DEF Appel, AppelEcrire, AppelLire, AppelFermer, Ioctl, Appeler, Ecrire, EcrireCalcul,
       EcrireCopie, EcrirePublie, EcrireIrq, EcrireAttente, EcrireVerif, FermerAttente,
       rxVars, histRx
<1>2. CASE Ioctl
  BY <1>2, RxInchangee DEF Ioctl, xvars, rxVars, histRx, appelVars
<1>3. CASE AppelLire
  <2>1. \A c \in 1 .. CompteMax : c \in Nat
    BY UartAssumption
  <2>2. pc' = "l_calcul" /\ count' \in Nat
    BY <1>3, <2>1 DEF AppelLire, Appeler
  <2> QED
    BY <1>1, <2>2, RxHorsCopie
<1>4. CASE AppelEcrire \/ AppelFermer
  <2>1. pc' \in {"e_calcul", "f_attente"}
    BY <1>4 DEF AppelEcrire, AppelFermer, Appeler
  <2> QED
    BY <1>1, <2>1, RxHorsCopie DEF EnLecture
<1>5. CASE Ecrire \/ FermerAttente
  <2>1. pc' \in {"libre", "e_calcul", "e_copie", "e_publie", "e_irq", "e_attente", "e_verif"}
    BY <1>5 DEF Ecrire, EcrireCalcul, EcrireCopie, EcrirePublie, EcrireIrq, EcrireAttente,
         EcrireVerif, FermerAttente, Revenir
  <2> QED
    BY <1>1, <2>1, RxHorsCopie DEF EnLecture
<1> QED
  BY <1>2, <1>3, <1>4, <1>5 DEF Appel

\* The bytes at hand end before the end of the ring.
LEMMA DispoTient ==
    ASSUME NEW in \in Index, NEW out \in Index, NEW c \in Nat,
           NEW m, m = Moindre(Dispo(in, out), c), m > 0
    PROVE  m \in 1 .. c /\ out + m <= BUF_LEN /\ m <= Occupe(out, in)
BY Anneaux DEF Moindre, Dispo, Occupe, Index

LEMMA LireRx ==
    ASSUME RxInv, Lire
    PROVE  RxInv'
<1>1. UNCHANGED <<rx_buf, rx_in, rfifo, prochain_rx>>
  BY DEF Lire, LireCalcul, LireCopie, LirePublie, LireAttente, LireVerif, LireEchec, LireIrq,
       rxVars, histRx
<1>2. CASE LireCalcul
  <2>1. /\ UNCHANGED <<rx_out, count>>
        /\ pc = "l_calcul" /\ n' = Moindre(Dispo(rx_in, rx_out), count)
        /\ pc' \in {"l_copie", "l_irq", "l_echec", "l_attente"} /\ (pc' = "l_copie" => n' > 0)
    BY <1>2 DEF LireCalcul, rxVars
  <2>2. rx_in \in Index /\ rx_out \in Index /\ count \in Nat
    BY <2>1 DEF RxInv, OctetsRx, EnLecture
  <2>3. n' > 0 => n' \in 1 .. count /\ rx_out + n' <= BUF_LEN /\ n' <= Occupe(rx_out, rx_in)
    BY <2>1, <2>2, DispoTient
  <2> QED
    BY <1>1, <2>1, <2>2, <2>3 DEF RxInv, OctetsRx, CopieLue, TamponFidele
<1>3. CASE LireCopie
  <2>1. /\ UNCHANGED <<rx_out, count, n>> /\ pc = "l_copie" /\ pc' = "l_publie"
        /\ tampon' = [i \in 1 .. n |-> rx_buf[rx_out + i - 1]]
    BY <1>3 DEF LireCopie, rxVars
  <2> QED
    BY <1>1, <2>1 DEF RxInv, OctetsRx, CopieLue, TamponFidele, EnLecture
<1>4. CASE LirePublie
  <2>1. /\ rx_out' = (rx_out + n) % BUF_LEN /\ count' = count - n
        /\ pc = "l_publie" /\ pc' \in {"l_calcul", "l_irq"}
    BY <1>4 DEF LirePublie
  <2>2. n \in 1 .. count /\ count \in Nat /\ rx_out \in Index
    BY <2>1 DEF RxInv, OctetsRx, CopieLue, EnLecture
  <2>3. rx_out' \in Index
    BY <2>1, <2>2, UartAssumption DEF Index
  <2>4. count' \in Nat
    BY <2>1, <2>2
  <2> QED
    BY <1>1, <2>1, <2>3, <2>4 DEF RxInv, OctetsRx, CopieLue, TamponFidele
<1>5. CASE LireAttente \/ LireVerif \/ LireEchec \/ LireIrq
  <2>1. /\ rx_out' = rx_out /\ EnLecture
        /\ pc' \in {"libre", "l_calcul", "l_verif", "l_echec"}
        /\ count' = count \/ count' = 0
    BY <1>5 DEF LireAttente, LireVerif, LireEchec, LireIrq, Revenir, EnLecture, rxVars
  <2> QED
    BY <1>1, <2>1, RxHorsCopie DEF RxInv, OctetsRx
<1> QED
  BY <1>2, <1>3, <1>4, <1>5 DEF Lire

LEMMA AnneauAjoute ==
    ASSUME NEW buf \in [Index -> Octet], NEW out \in Index, NEW in \in Index,
           1 + Occupe(out, in) < BUF_LEN
    PROVE  Anneau(buf, out, (in + 1) % BUF_LEN) = Anneau(buf, out, in) \o <<buf[in]>>
<1> DEFINE h == buf[in]
<1>1. h \in Int /\ K \in Nat \ {0} /\ h < K /\ h >= 0
  BY UartAssumption DEF Octet
<1>2. \A i \in 0 .. 1 - 1 : buf[in + i] = (h + i) % K
  <2>1. h % K = h /\ in + 0 = in /\ h + 0 = h
    BY <1>1 DEF Index
  <2> QED
    BY <2>1
<1>3. Lot(h, 1) = <<h>>
  <2>1. \A i \in 1 .. 1 : (h + i - 1) % K = h
    BY <1>1
  <2> QED
    BY <2>1 DEF Lot
<1>4. in + 1 <= BUF_LEN /\ 1 \in Nat
  BY Anneaux DEF Index
<1>5. h \in Int
  BY <1>1
<1> HIDE DEF h
<1>6. Anneau(buf, out, (in + 1) % BUF_LEN) = Anneau(buf, out, in) \o Lot(h, 1)
  BY <1>2, <1>4, <1>5, AnneauAllonge
<1> QED
  BY <1>3, <1>6 DEF h

LEMMA OccupeAjoute ==
    ASSUME NEW out \in Index, NEW in \in Index, Suivant(in) # out
    PROVE  /\ Suivant(in) \in Index /\ (in + 1) % BUF_LEN = Suivant(in)
           /\ Occupe(out, Suivant(in)) = Occupe(out, in) + 1
           /\ 1 + Occupe(out, in) < BUF_LEN
<1>1. BUF_LEN \in Nat /\ BUF_LEN >= 2
  BY Anneaux
<1>2. Suivant(in) = Rang(in, 1) /\ Suivant(in) \in Index /\ (in + 1) % BUF_LEN = Suivant(in)
  BY <1>1, Modulos DEF Suivant
<1> QED
  BY <1>1, <1>2 DEF Occupe, Rang, Index

\* A byte added to a ring that has room, after those that it holds.
LEMMA DernierOctet ==
    ASSUME NEW buf \in [Index -> Octet], NEW buf2 \in [Index -> Octet],
           NEW out \in Index, NEW in \in Index, Suivant(in) # out,
           \A i \in Index : i # in => buf2[i] = buf[i]
    PROVE  /\ \A i \in 0 .. Occupe(out, in) - 1 : buf2[Rang(out, i)] = buf[Rang(out, i)]
           /\ Anneau(buf2, out, Suivant(in)) = Anneau(buf, out, in) \o <<buf2[in]>>
<1>1. BUF_LEN \in Nat /\ BUF_LEN >= 2
  BY Anneaux
<1>2. (in + 1) % BUF_LEN = Suivant(in) /\ 1 + Occupe(out, in) < BUF_LEN
  BY OccupeAjoute
<1>3. ASSUME NEW i \in 0 .. Occupe(out, in) - 1
      PROVE  buf2[Rang(out, i)] = buf[Rang(out, i)]
  <2>1. Rang(out, i) \in Index /\ Rang(out, i) # in
    BY <1>1, <1>2, <1>3 DEF Rang, Occupe, Index
  <2> QED
    BY <2>1
<1>4. Anneau(buf2, out, in) = Anneau(buf, out, in)
  BY <1>3, AnneauEgal
<1>5. Anneau(buf2, out, (in + 1) % BUF_LEN) = Anneau(buf2, out, in) \o <<buf2[in]>>
  BY <1>2, AnneauAjoute
<1> QED
  BY <1>2, <1>3, <1>4, <1>5

LEMMA IsrRx ==
    ASSUME RxInv, Isr
    PROVE  RxInv'
<1>1. CASE IsrLireOctet
  <2> DEFINE h == Head(rfifo)
  <2>1. /\ Suivant(rx_in) # rx_out /\ rfifo # <<>>
        /\ rx_buf' = [rx_buf EXCEPT ![rx_in] = h] /\ rx_in' = Suivant(rx_in)
        /\ rfifo' = Tail(rfifo)
        /\ UNCHANGED <<rx_out, prochain_rx, pc, n, count, tampon>>
    BY <1>1 DEF IsrLireOctet, appelVars, histRx
  <2>2. /\ rx_buf \in [Index -> Octet] /\ rx_in \in Index /\ rx_out \in Index
        /\ rfifo \in Seq(Octet) /\ Len(rfifo) <= ProfR /\ ProfR \in Nat
    BY UartAssumption DEF RxInv, OctetsRx
  <2>3. h \in Octet /\ rfifo' \in Seq(Octet) /\ Len(rfifo') = Len(rfifo) - 1
        /\ Len(rfifo) \in Nat
    BY <2>1, <2>2
  <2>9. rx_buf' \in [Index -> Octet] /\ \A i \in Index : i # rx_in => rx_buf'[i] = rx_buf[i]
    BY <2>1, <2>2, <2>3
  <2>4. /\ rx_in' \in Index
        /\ Occupe(rx_out, rx_in') = Occupe(rx_out, rx_in) + 1
        /\ \A i \in 0 .. Occupe(rx_out, rx_in) - 1 :
              rx_buf'[Rang(rx_out, i)] = rx_buf[Rang(rx_out, i)]
    <3>1. /\ Suivant(rx_in) # rx_out /\ rx_buf \in [Index -> Octet]
          /\ rx_in \in Index /\ rx_out \in Index
      BY <2>1, <2>2
    <3>2. rx_in' = Suivant(rx_in)
      BY <2>1
    <3>3. /\ Suivant(rx_in) \in Index
          /\ Occupe(rx_out, Suivant(rx_in)) = Occupe(rx_out, rx_in) + 1
      BY <3>1, OccupeAjoute
    <3>4. \A i \in 0 .. Occupe(rx_out, rx_in) - 1 :
              rx_buf'[Rang(rx_out, i)] = rx_buf[Rang(rx_out, i)]
      BY <2>9, <3>1, DernierOctet
    <3> QED
      BY <3>2, <3>3, <3>4
  <2>5. OctetsRx'
    BY <2>1, <2>2, <2>3, <2>4, <2>9 DEF RxInv, OctetsRx, EnLecture
  <2>6. Occupe(rx_out, rx_in) \in Int
    BY <2>2, Modulos
  <2>7. CASE pc \notin {"l_copie", "l_publie"}
    BY <2>1, <2>5, <2>7 DEF RxInv, CopieLue, TamponFidele
  <2>8. CASE pc \in {"l_copie", "l_publie"}
    <3>1. /\ n \in 1 .. count /\ rx_out + n <= BUF_LEN /\ n <= Occupe(rx_out, rx_in)
          /\ n \in Nat
      BY <2>8 DEF RxInv, CopieLue, OctetsRx, EnLecture
    <3>2. CopieLue'
      <4>1. n <= Occupe(rx_out', rx_in')
        BY <2>1, <2>4, <2>6, <3>1
      <4> QED
        BY <2>1, <3>1, <4>1 DEF CopieLue, Occupe
    <3>3. ASSUME NEW i \in 1 .. n PROVE rx_buf'[rx_out + i - 1] = rx_buf[rx_out + i - 1]
      <4>1. i - 1 \in 0 .. Occupe(rx_out, rx_in) - 1
        BY <2>6, <3>1, <3>3
      <4>2. Rang(rx_out, i - 1) = rx_out + i - 1
        BY <2>2, <3>1, <3>3, Anneaux DEF Rang, Index
      <4> QED
        BY <2>4, <4>1, <4>2
    <3>4. [i \in 1 .. n |-> rx_buf'[rx_out + i - 1]] = [i \in 1 .. n |-> rx_buf[rx_out + i - 1]]
      BY <3>3
    <3>5. TamponFidele'
      BY <2>1, <3>4 DEF RxInv, TamponFidele
    <3> QED
      BY <2>5, <3>2, <3>5 DEF RxInv
  <2> QED
    BY <2>7, <2>8
<1>2. CASE IsrLireCroise
  <2>1. /\ UNCHANGED <<rx_buf, rx_in, rx_out, pc, n, count, tampon>>
        /\ rfifo' = <<prochain_rx>> /\ prochain_rx' = (prochain_rx + 1) % K
    BY <1>2 DEF IsrLireCroise, rxVars, appelVars
  <2>2. prochain_rx \in Octet /\ prochain_rx \in Int
    BY DEF RxInv, OctetsRx, Octet
  <2>3. prochain_rx' \in Octet
    BY <2>1, <2>2, UartAssumption DEF Octet
  <2>4. rfifo' \in Seq(Octet) /\ Len(rfifo') <= ProfR
    BY <2>1, <2>2, UartAssumption
  <2> QED
    BY <2>1, <2>3, <2>4 DEF RxInv, OctetsRx, CopieLue, TamponFidele, EnLecture
<1>3. CASE IsrEntree \/ IsrControle \/ IsrLirePlein \/ IsrLireVide \/ IsrEcrireOctet
              \/ IsrEcrireFin
  <2>1. UNCHANGED xvars
    BY <1>3 DEF IsrEntree, IsrControle, IsrLirePlein, IsrLireVide, IsrEcrireOctet, IsrEcrireFin,
         FinLecture, xvars, rxVars, appelVars, histRx
  <2> QED
    BY <2>1, RxInchangee
<1> QED
  BY <1>1, <1>2, <1>3 DEF Isr

LEMMA HoteRx ==
    ASSUME RxInv, Hote \/ Seconde
    PROVE  RxInv'
<1>1. CASE HoteEcrit
  <2>1. /\ UNCHANGED <<rx_buf, rx_in, rx_out, pc, n, count, tampon>> /\ Len(rfifo) < ProfR
        /\ rfifo' = Append(rfifo, prochain_rx) /\ prochain_rx' = (prochain_rx + 1) % K
    BY <1>1 DEF HoteEcrit, rxVars, appelVars
  <2>2. prochain_rx \in Octet /\ prochain_rx \in Int /\ rfifo \in Seq(Octet)
    BY DEF RxInv, OctetsRx, Octet
  <2>3. prochain_rx' \in Octet
    BY <2>1, <2>2, UartAssumption DEF Octet
  <2>4. rfifo' \in Seq(Octet) /\ Len(rfifo') <= ProfR
    BY <2>1, <2>2, UartAssumption
  <2> QED
    BY <2>1, <2>3, <2>4 DEF RxInv, OctetsRx, CopieLue, TamponFidele, EnLecture
<1>2. CASE Seconde \/ HoteBranche \/ HoteLit \/ HotePause
  <2>1. UNCHANGED xvars
    BY <1>2 DEF Seconde, HoteBranche, HoteLit, HotePause, xvars, rxVars, appelVars, histRx
  <2> QED
    BY <2>1, RxInchangee
<1> QED
  BY <1>1, <1>2 DEF Hote

LEMMA RxPas == RxInv /\ [Next]_vars => RxInv'
<1> SUFFICES ASSUME RxInv, [Next]_vars PROVE RxInv'
  OBVIOUS
<1>1. CASE UNCHANGED vars
  BY <1>1, RxInchangee DEF vars, xvars, rxVars, appelVars, histRx
<1> QED
  BY <1>1, AppelRx, LireRx, IsrRx, HoteRx DEF Next, Programme

LEMMA FileRx ==
    /\ file_rx = Anneau(rx_buf, rx_out, rx_in) \o rfifo
    /\ file_rx' = Anneau(rx_buf', rx_out', rx_in') \o rfifo'
BY DEF file_rx, Anneau

LEMMA RxImmobile ==
    ASSUME UNCHANGED <<rx_buf, rx_in, rx_out, rfifo, prochain_rx, sorti_rx>>
    PROVE  UNCHANGED RX!cvars
BY FileRx DEF RX!cvars

LEMMA ContenuRx ==
    ASSUME RxInv
    PROVE  /\ Anneau(rx_buf, rx_out, rx_in) \in Seq(Octet)
           /\ Len(Anneau(rx_buf, rx_out, rx_in)) = Occupe(rx_out, rx_in)
           /\ Occupe(rx_out, rx_in) \in Nat /\ Occupe(rx_out, rx_in) <= BUF_LEN - 1
           /\ file_rx \in Seq(Octet)
           /\ Len(file_rx) = Occupe(rx_out, rx_in) + Len(rfifo)
           /\ Len(rfifo) \in Nat /\ Len(rfifo) <= ProfR
           /\ BUF_LEN \in Nat /\ ProfR \in Nat
<1>1. /\ rx_buf \in [Index -> Octet] /\ rx_in \in Index /\ rx_out \in Index
      /\ rfifo \in Seq(Octet) /\ Len(rfifo) <= ProfR /\ ProfR \in Nat
  BY UartAssumption DEF RxInv, OctetsRx
<1>2. /\ Anneau(rx_buf, rx_out, rx_in) \in Seq(Octet)
      /\ Len(Anneau(rx_buf, rx_out, rx_in)) = Occupe(rx_out, rx_in)
  BY <1>1, AnneauDe
<1>3. Occupe(rx_out, rx_in) \in 0 .. BUF_LEN - 1 /\ BUF_LEN \in Nat
  BY <1>1, Modulos, Anneaux
<1>4. file_rx \in Seq(Octet) /\ Len(file_rx) = Occupe(rx_out, rx_in) + Len(rfifo)
  BY <1>1, <1>2, FileRx, Decolle
<1> QED
  BY <1>1, <1>2, <1>3, <1>4

\* A byte enters the FIFO, with its room left.
LEMMA EntreeAccepte ==
    ASSUME RxInv, Len(rfifo) < ProfR, UNCHANGED <<rx_buf, rx_in, rx_out, sorti_rx>>,
           rfifo' = Append(rfifo, prochain_rx), prochain_rx' = (prochain_rx + 1) % K
    PROVE  RX!CNext
<1> DEFINE a == Anneau(rx_buf, rx_out, rx_in)
<1>1. prochain_rx \in Octet /\ prochain_rx \in Int /\ rfifo \in Seq(Octet) /\ a \in Seq(Octet)
  BY ContenuRx DEF RxInv, OctetsRx, Octet
<1>2. file_rx = a \o rfifo /\ file_rx' = a \o Append(rfifo, prochain_rx)
  BY FileRx
<1> HIDE DEF a
<1>3. /\ <<prochain_rx>> \in Seq(Octet)
      /\ Append(rfifo, prochain_rx) = rfifo \o <<prochain_rx>>
  BY <1>1, AppendIsConcat
<1>4. file_rx' = file_rx \o <<prochain_rx>>
  BY <1>1, <1>2, <1>3, Associe
<1>5. RX!Lot(prochain_rx, 1) = <<prochain_rx>>
  <2>1. \A i \in 1 .. 1 : (prochain_rx + i - 1) % K = prochain_rx
    <3>1. /\ prochain_rx >= 0 /\ prochain_rx < K /\ K \in Nat \ {0}
          /\ \A i \in 1 .. 1 : prochain_rx + i - 1 = prochain_rx
      BY <1>1, UartAssumption DEF Octet
    <3>2. prochain_rx % K = prochain_rx
      BY <1>1, <3>1
    <3> QED
      BY <3>1, <3>2
  <2> QED
    BY <2>1 DEF RX!Lot
<1>6. 1 \in 1 .. BUF_LEN - 1 + ProfR /\ Len(file_rx) + 1 <= BUF_LEN - 1 + ProfR
  BY ContenuRx, Anneaux
<1>7. RX!Accepter(1)
  BY <1>4, <1>5, <1>6 DEF RX!Accepter
<1> QED
  BY <1>6, <1>7 DEF RX!CNext

LEMMA HoteAccepte ==
    ASSUME RxInv, HoteEcrit \/ IsrLireCroise
    PROVE  RX!CNext
<1>1. CASE HoteEcrit
  BY <1>1, EntreeAccepte DEF HoteEcrit, rxVars
<1>2. CASE IsrLireCroise
  <2>1. /\ rfifo = <<>> /\ rfifo' = <<prochain_rx>>
        /\ prochain_rx' = (prochain_rx + 1) % K
        /\ UNCHANGED <<rx_buf, rx_in, rx_out, sorti_rx>>
    BY <1>2 DEF IsrLireCroise, rxVars
  <2>2. Len(rfifo) = 0 /\ rfifo' = Append(rfifo, prochain_rx)
    BY <2>1
  <2>3. Len(rfifo) < ProfR
    BY <2>2, UartAssumption
  <2> QED
    BY <2>1, <2>2, <2>3, EntreeAccepte
<1> QED
  BY <1>1, <1>2

\* The bytes that the routine moves from the FIFO to the ring stay in order.
LEMMA DepotInvisible ==
    ASSUME RxInv, IsrLireOctet
    PROVE  UNCHANGED RX!cvars
<1> DEFINE a == Anneau(rx_buf, rx_out, rx_in)
           h == Head(rfifo)
           q == Tail(rfifo)
<1>1. /\ Suivant(rx_in) # rx_out /\ rfifo # <<>>
      /\ rx_buf' = [rx_buf EXCEPT ![rx_in] = h] /\ rx_in' = Suivant(rx_in)
      /\ rfifo' = q /\ UNCHANGED <<rx_out, prochain_rx, sorti_rx>>
  BY DEF IsrLireOctet, histRx
<1>2. /\ rx_buf \in [Index -> Octet] /\ rx_in \in Index /\ rx_out \in Index
      /\ rfifo \in Seq(Octet) /\ a \in Seq(Octet)
  BY ContenuRx DEF RxInv, OctetsRx
<1>3. h \in Octet /\ q \in Seq(Octet) /\ rfifo = <<h>> \o q
  BY <1>1, <1>2
<1>4. Anneau(rx_buf', rx_out', rx_in') = a \o <<h>>
  <2>1. /\ rx_buf' \in [Index -> Octet] /\ rx_buf'[rx_in] = h
        /\ \A i \in Index : i # rx_in => rx_buf'[i] = rx_buf[i]
    BY <1>1, <1>2, <1>3
  <2> HIDE DEF h, a
  <2>2. Anneau(rx_buf', rx_out, Suivant(rx_in))
            = Anneau(rx_buf, rx_out, rx_in) \o <<rx_buf'[rx_in]>>
    <3>1. /\ Suivant(rx_in) # rx_out /\ rx_buf \in [Index -> Octet]
          /\ rx_in \in Index /\ rx_out \in Index
      BY <1>1, <1>2
    <3> QED
      BY <2>1, <3>1, DernierOctet
  <2> QED
    BY <1>1, <2>1, <2>2 DEF a
<1> HIDE DEF h, q
<1>5. file_rx = a \o (<<h>> \o q) /\ file_rx' = (a \o <<h>>) \o q
  BY <1>1, <1>3, <1>4, FileRx
<1> HIDE DEF a
<1>6. (a \o <<h>>) \o q = a \o (<<h>> \o q)
  BY <1>2, <1>3, Associe
<1> QED
  BY <1>1, <1>5, <1>6 DEF RX!cvars

\* read frees the bytes that it has copied, the oldest.
LEMMA PublieLivre ==
    ASSUME RxInv, LirePublie
    PROVE  RX!CNext
<1> DEFINE b == Anneau(rx_buf, (rx_out + n) % BUF_LEN, rx_in)
           t == [i \in 1 .. n |-> rx_buf[rx_out + i - 1]]
<1>1. /\ rx_out' = (rx_out + n) % BUF_LEN /\ sorti_rx' = tampon /\ pc = "l_publie"
      /\ UNCHANGED <<rx_buf, rx_in, rfifo, prochain_rx>>
  BY DEF LirePublie
<1>2. /\ rx_buf \in [Index -> Octet] /\ rx_in \in Index /\ rx_out \in Index
      /\ rfifo \in Seq(Octet) /\ n \in Nat /\ n >= 1
      /\ rx_out + n <= BUF_LEN /\ n <= Occupe(rx_out, rx_in) /\ tampon = t
  BY <1>1 DEF RxInv, OctetsRx, CopieLue, TamponFidele, EnLecture
<1>3. /\ (rx_out + n) % BUF_LEN \in Index
      /\ Anneau(rx_buf, rx_out, rx_in) = t \o b /\ t \in Seq(Octet) /\ Len(t) = n
  BY <1>2, AnneauRaccourci
<1>4. b \in Seq(Octet)
  BY <1>2, <1>3, AnneauDe
<1>5. file_rx = (t \o b) \o rfifo /\ file_rx' = b \o rfifo
  BY <1>1, <1>3, FileRx
<1> HIDE DEF b, t
<1>6. file_rx = t \o (b \o rfifo) /\ b \o rfifo \in Seq(Octet)
  BY <1>2, <1>3, <1>4, <1>5, Associe, Decolle
<1>7. SubSeq(file_rx, 1, n) = t /\ SubSeq(file_rx, n + 1, Len(file_rx)) = b \o rfifo
  BY <1>3, <1>6, Decolle
<1>8. n \in 1 .. BUF_LEN - 1 + ProfR /\ n <= Len(file_rx)
  BY <1>2, ContenuRx
<1>9. RX!Livrer(n)
  BY <1>1, <1>2, <1>5, <1>7, <1>8 DEF RX!Livrer
<1> QED
  BY <1>8, <1>9 DEF RX!CNext

LEMMA RxRaffine == RxInv /\ [Next]_vars => [RX!CNext]_(RX!cvars)
<1> SUFFICES ASSUME RxInv, [Next]_vars PROVE RX!CNext \/ UNCHANGED RX!cvars
  OBVIOUS
<1>1. CASE Appel \/ Ecrire \/ FermerAttente \/ Seconde
  BY <1>1, RxImmobile DEF Appel, AppelEcrire, AppelLire, AppelFermer, Ioctl, Appeler, Ecrire,
       EcrireCalcul, EcrireCopie, EcrirePublie, EcrireIrq, EcrireAttente, EcrireVerif,
       FermerAttente, Seconde, rxVars, histRx
<1>2. CASE LireCalcul \/ LireCopie \/ LireAttente \/ LireVerif \/ LireEchec \/ LireIrq
  BY <1>2, RxImmobile DEF LireCalcul, LireCopie, LireAttente, LireVerif, LireEchec, LireIrq,
       rxVars, histRx
<1>3. CASE IsrEntree \/ IsrControle \/ IsrLirePlein \/ IsrLireVide \/ IsrEcrireOctet
              \/ IsrEcrireFin
  BY <1>3, RxImmobile DEF IsrEntree, IsrControle, IsrLirePlein, IsrLireVide, IsrEcrireOctet,
       IsrEcrireFin, FinLecture, rxVars, histRx
<1>4. CASE HoteBranche \/ HoteLit \/ HotePause \/ UNCHANGED vars
  BY <1>4, RxImmobile DEF HoteBranche, HoteLit, HotePause, vars, rxVars, histRx
<1> QED
  BY <1>1, <1>2, <1>3, <1>4, HoteAccepte, DepotInvisible, PublieLivre
     DEF Next, Programme, Lire, Isr, Hote

\* What the user types reaches the program once and in order.
THEOREM ReceptionEnOrdre == Spec => ReceptionFidele
<1>1. Init => RX!CInit
  <2> SUFFICES ASSUME Init PROVE RX!CInit
    OBVIOUS
  <2>1. PICK m \in 0 .. ProfR : rfifo = Lot(0, m) /\ prochain_rx = m % K
    BY DEF Init
  <2> DEFINE a == Anneau(rx_buf, rx_out, rx_in)
  <2>2. a = <<>> /\ rfifo \in Seq(Octet)
    <3>1. Occupe(rx_out, rx_in) = 0
      BY DEF Init, Occupe
    <3> QED
      BY <3>1, RxDebut, ContenuRx DEF RxInv, OctetsRx
  <2>3. file_rx = rfifo
    <3> HIDE DEF a
    <3> QED
      BY <2>2, FileRx DEF a
  <2>4. RX!Lot(0, m) = Lot(0, m) /\ m \in 0 .. BUF_LEN - 1 + ProfR
    BY UartAssumption DEF RX!Lot, Lot
  <2> QED
    BY <2>1, <2>3, <2>4 DEF Init, RX!CInit
<1> QED
  BY <1>1, RxDebut, RxPas, RxRaffine, PTL DEF Spec, ReceptionFidele, RX!CSpec

-----------------------------------------------------------------------------
(* Nobody waits on everybody.                                              *)

\* The program waits and what it has read gives it no reason to go on.
EnAttente ==
    \/ pc = "e_attente" /\ vu = tx_out
    \/ pc = "f_attente" /\ tx_in # tx_out
    \/ pc = "l_attente" /\ vu = rx_in

\* Another can move.  A write or a close waits for the host, which has bytes to
\* take, or for the routine, whose interrupt is asked for; a read for the host,
\* whose next bytes will raise an enabled interrupt and find room in the ring.
Servie ==
    IF pc = "l_attente"
    THEN "RE" \in irq_enable /\ Suivant(rx_in) # rx_out
    ELSE "WE" \in irq_enable /\ (WI \/ wfifo # <<>>)

\* The program, the routine and the host never all wait for one another.
THEOREM AttenteServie == Spec => [](EnAttente => Servie)
<1>1. TxInv /\ AttenteTx /\ Armee /\ RInv /\ EnAttente => Servie
  <2> SUFFICES ASSUME TxInv, AttenteTx, Armee, RInv, EnAttente PROVE Servie
    OBVIOUS
  <2>1. CASE pc = "l_attente"
    <3>1. rx_in = rx_out /\ "RE" \in irq_enable
      BY <2>1 DEF EnAttente, RInv, Rearme, AttenteRx
    <3> QED
      BY <2>1, <3>1, SuivantIndex DEF Servie, RInv, Rangs
  <2>2. CASE pc \in {"e_attente", "f_attente"}
    <3>1. tx_in # tx_out
      BY <2>2, SuivantIndex DEF EnAttente, AttenteTx, TxInv, OctetsTx
    <3>2. "WE" \in irq_enable
      BY <2>2, <3>1 DEF Armee
    <3>3. wfifo = <<>> => Len(wfifo) <= SeuilW
      BY UartAssumption
    <3> QED
      BY <2>2, <3>2, <3>3 DEF Servie, WI
  <2> QED
    BY <2>1, <2>2 DEF EnAttente
<1> QED
  BY <1>1, AttenteToujours, RInvToujours, PTL

\* Without a clock the driver never takes the host for gone.
HoteSuppose == ~horloge => timeout = INT_MAX /\ host_inactive = 0

LEMMA HoteSupposePas == HoteSuppose /\ [Next]_vars => HoteSuppose'
<1> SUFFICES ASSUME HoteSuppose, [Next]_vars PROVE HoteSuppose'
  OBVIOUS
<1>1. CASE Appel
  BY <1>1 DEF Appel, AppelEcrire, AppelLire, AppelFermer, Appeler, Ioctl, HoteSuppose,
     tempsVars, hoteVars
<1>2. CASE Programme
  BY <1>2 DEF Programme, Ecrire, EcrireCalcul, EcrireCopie, EcrirePublie, EcrireIrq,
     EcrireAttente, EcrireVerif, Lire, LireCalcul, LireCopie, LirePublie, LireAttente,
     LireVerif, LireEchec, LireIrq, FermerAttente, HoteSuppose, tempsVars, hoteVars
<1>3. CASE Isr
  BY <1>3 DEF Isr, IsrEntree, IsrControle, IsrLirePlein, IsrLireOctet, IsrLireVide,
     IsrLireCroise, IsrEcrireOctet, IsrEcrireFin, HoteSuppose, tempsVars, hoteVars
<1>4. CASE Seconde \/ Hote \/ UNCHANGED vars
  BY <1>4 DEF Seconde, Hote, HoteBranche, HoteLit, HoteEcrit, HotePause, vars, HoteSuppose,
     tempsVars, hoteVars
<1> QED
  BY <1>1, <1>2, <1>3, <1>4 DEF Next

\* A full FIFO over a ring that is full leaves the routine nothing to do for the
\* write, which has no other way out than the bytes that the host takes.
LEMMA SansFinPas ==
    ASSUME TxInv, HoteSuppose, [Next]_vars, SansFin PROVE SansFin' \/ HoteLit
<1>0. /\ ~horloge /\ pc = "e_attente" /\ vu = tx_out /\ Len(wfifo) = ProfW
      /\ ~Inactif /\ space = 0
  <2>1. host_inactive = 0 /\ timeout = INT_MAX /\ INT_MAX \in Nat /\ INT_MAX > 0
    BY UartAssumption DEF HoteSuppose, SansFin
  <2>2. space \in Nat /\ space + Len(wfifo) <= ProfW
    BY DEF TxInv, Espace
  <2>3. ProfW \in Nat
    BY UartAssumption
  <2>4. ~Inactif
    BY <2>1 DEF Inactif
  <2>5. space = 0
    BY <2>2, <2>3 DEF SansFin
  <2> QED
    BY <2>4, <2>5 DEF SansFin
<1>1. CASE Appel \/ Programme
  BY <1>0, <1>1 DEF Appel, AppelEcrire, AppelLire, AppelFermer, Appeler, Ioctl, Programme,
     Ecrire, EcrireCalcul, EcrireCopie, EcrirePublie, EcrireIrq, EcrireAttente, EcrireVerif,
     Lire, LireCalcul, LireCopie, LirePublie, LireAttente, LireVerif, LireEchec, LireIrq,
     FermerAttente
<1>2. CASE Isr
  <2>1. UNCHANGED <<tx_out, wfifo, pc, vu, horloge>>
    BY <1>0, <1>2 DEF Isr, IsrEntree, IsrControle, IsrLirePlein, IsrLireOctet, IsrLireVide,
       IsrLireCroise, IsrEcrireOctet, IsrEcrireFin, FinLecture, txVars, appelVars,
       hoteVars
  <2> QED
    BY <1>0, <2>1 DEF SansFin
<1>3. CASE HoteBranche \/ HoteEcrit \/ HotePause \/ Seconde \/ UNCHANGED vars
  <2>1. UNCHANGED <<tx_out, wfifo, pc, vu, horloge>>
    BY <1>0, <1>3 DEF HoteBranche, HoteEcrit, HotePause, Seconde, vars, txVars, appelVars,
       hoteVars
  <2> QED
    BY <1>0, <2>1 DEF SansFin
<1>4. CASE HoteLit
  BY <1>4
<1> QED
  BY <1>1, <1>2, <1>3, <1>4 DEF Next, Hote

\* On a BSP without a clock, as the final one, a write that waits over a full
\* FIFO goes on waiting until the host takes a byte, whatever else happens.
THEOREM SansHorloge == Spec => SansRetour
<1>1. Init => HoteSuppose
  BY DEF Init, HoteSuppose
<1>2. TxInv /\ HoteSuppose /\ [Next]_vars => [SansFin => SansFin' \/ HoteLit]_vars
  BY SansFinPas
<1> QED
  BY <1>1, <1>2, TxDebut, TxPas, HoteSupposePas, PTL DEF Spec, SansRetour

-----------------------------------------------------------------------------
(* Types.                                                                  *)

TypesCoeur ==
    /\ irq_enable \subseteq {"RE", "WE"}
    /\ host_inactive \in 0 .. INT_MAX - 2 /\ timeout \in 2 .. INT_MAX
    /\ ac \in BOOLEAN /\ pause_irq \in BOOLEAN /\ wi \in BOOLEAN /\ ravail \in BOOLEAN
    /\ connecte \in BOOLEAN /\ horloge \in BOOLEAN
    /\ isr \in {"repos", "controle", "lire", "ecrire"}

TypesAppel ==
    /\ rendu \in BOOLEAN /\ nonbloc \in BOOLEAN
    /\ pc = "libre" \/ pc = "f_attente" \/ EnEcriture \/ EnLecture
    /\ count \in 0 .. CompteMax
    /\ n \in 0 .. BUF_LEN - 1 /\ vu \in Index
    /\ tampon \in Seq(Octet) /\ Len(tampon) <= BUF_LEN

LEMMA TypesCoeurDebut == Init => TypesCoeur
<1> SUFFICES ASSUME Init PROVE TypesCoeur
  OBVIOUS
<1>1. /\ INT_MAX \in Nat /\ INT_MAX >= 3 /\ DEFAULT_TIMEOUT \in 2 .. INT_MAX
  BY UartAssumption
<1>2. timeout \in 2 .. INT_MAX
  BY <1>1 DEF Init
<1>3. host_inactive \in 0 .. INT_MAX - 2
  BY <1>1 DEF Init
<1> QED
  BY <1>2, <1>3 DEF Init, TypesCoeur

LEMMA TypesCoeurPas == TypesCoeur /\ [Next]_vars => TypesCoeur'
<1> SUFFICES ASSUME TypesCoeur, [Next]_vars PROVE TypesCoeur'
  OBVIOUS
<1> USE DEF TypesCoeur
<1>1. CASE AppelEcrire \/ AppelLire \/ AppelFermer
  BY <1>1 DEF AppelEcrire, AppelLire, AppelFermer, Appeler, tempsVars, coeurVars, isrVars,
       hoteVars
<1>2. CASE Ioctl
  <2>1. timeout' \in 2 .. INT_MAX
    BY <1>2, UartAssumption DEF Ioctl
  <2> QED
    BY <1>2, <2>1 DEF Ioctl, coeurVars, isrVars, hoteVars
<1>3. CASE Ecrire
  BY <1>3 DEF Ecrire, EcrireCalcul, EcrireCopie, EcrirePublie, EcrireIrq, EcrireAttente,
       EcrireVerif, tempsVars, coeurVars, isrVars, hoteVars
<1>4. CASE Lire \/ FermerAttente
  BY <1>4 DEF Lire, LireCalcul, LireCopie, LirePublie, LireAttente, LireVerif, LireEchec,
       LireIrq, FermerAttente, tempsVars, coeurVars, isrVars, hoteVars
<1>5. CASE IsrEntree \/ IsrControle
  BY <1>5 DEF IsrEntree, IsrControle, RI, WI, tempsVars, coeurVars, hoteVars
<1>6. CASE IsrLirePlein \/ IsrLireVide \/ IsrLireCroise
  BY <1>6 DEF IsrLirePlein, IsrLireVide, IsrLireCroise, FinLecture, tempsVars, coeurVars,
       hoteVars
<1>7. CASE IsrLireOctet \/ IsrEcrireOctet \/ IsrEcrireFin
  BY <1>7 DEF IsrLireOctet, IsrEcrireOctet, IsrEcrireFin, tempsVars, coeurVars, hoteVars
<1>8. CASE Seconde
  <2>1. host_inactive' \in 0 .. INT_MAX - 2
    BY <1>8, UartAssumption DEF Seconde
  <2> QED
    BY <1>8, <2>1 DEF Seconde, isrVars, hoteVars
<1>9. CASE Hote
  BY <1>9 DEF Hote, HoteBranche, HoteLit, HoteEcrit, HotePause, tempsVars, coeurVars, isrVars,
       hoteVars
<1>10. CASE UNCHANGED vars
  BY <1>10 DEF vars, tempsVars, coeurVars, isrVars, hoteVars
<1> QED
  BY <1>1, <1>2, <1>3, <1>4, <1>5, <1>6, <1>7, <1>8, <1>9, <1>10
     DEF Next, Appel, Programme, Isr

LEMMA TypesAppelDebut == Init => TypesAppel
<1> SUFFICES ASSUME Init PROVE TypesAppel
  OBVIOUS
<1>1. /\ tampon = <<>> /\ pc = "libre" /\ rendu = FALSE /\ nonbloc = FALSE
      /\ count = 0 /\ n = 0 /\ vu = 0
  BY DEF Init
<1>2. tampon \in Seq(Octet) /\ Len(tampon) = 0
  BY <1>1
<1>3. count \in 0 .. CompteMax /\ n \in 0 .. BUF_LEN - 1 /\ vu \in Index
      /\ Len(tampon) <= BUF_LEN
  BY <1>1, <1>2, UartAssumption DEF Index
<1> QED
  BY <1>1, <1>2, <1>3 DEF TypesAppel

\* The sizes of a copy.
LEMMA TaillesCopie ==
    ASSUME NEW in \in Index, NEW out \in Index, NEW c \in Nat
    PROVE  /\ Moindre(Place(in, out), c) \in 0 .. BUF_LEN - 1
           /\ Moindre(Dispo(in, out), c) \in 0 .. BUF_LEN - 1
BY Anneaux DEF Moindre, Place, Dispo, Index

LEMMA TypesAppelPas == TypesAppel /\ TxInv /\ RxInv /\ [Next]_vars => TypesAppel'
<1> SUFFICES ASSUME TypesAppel, TxInv, RxInv, [Next]_vars PROVE TypesAppel'
  OBVIOUS
<1>0. /\ tx_in \in Index /\ tx_out \in Index /\ rx_in \in Index /\ rx_out \in Index
      /\ count \in Nat /\ count <= CompteMax /\ CompteMax \in Nat
      /\ BUF_LEN \in Nat /\ BUF_LEN >= 2 /\ 0 \in Index
  BY Anneaux, UartAssumption DEF TxInv, OctetsTx, RxInv, OctetsRx, TypesAppel, Index
<1>1. ASSUME NEW debut \in {"e_calcul", "l_calcul", "f_attente"},
             NEW taille \in 0 .. CompteMax, NEW nb \in BOOLEAN, Appeler(debut, taille, nb)
      PROVE  TypesAppel'
  BY <1>1 DEF Appeler, TypesAppel, EnEcriture, EnLecture
<1>2. CASE AppelEcrire
  BY <1>1, <1>2 DEF AppelEcrire
<1>3. CASE AppelLire
  BY <1>0, <1>1, <1>3 DEF AppelLire
<1>4. CASE AppelFermer
  BY <1>0, <1>1, <1>4 DEF AppelFermer
<1>5. CASE Revenir
  <2>1. /\ pc' = "libre" /\ count' = 0 /\ rendu' = FALSE /\ n' = 0 /\ vu' = 0
        /\ tampon' = <<>> /\ nonbloc' = FALSE
    BY <1>5 DEF Revenir
  <2>2. tampon' \in Seq(Octet) /\ Len(tampon') <= BUF_LEN
    BY <1>0, <2>1
  <2>3. count' \in 0 .. CompteMax /\ n' \in 0 .. BUF_LEN - 1 /\ vu' \in Index
    BY <1>0, <2>1
  <2> QED
    BY <2>1, <2>2, <2>3 DEF TypesAppel
<1>6. CASE EcrireCalcul
  <2>1. /\ vu' = IF count > 0 THEN tx_out ELSE 0
        /\ n' = Moindre(Place(tx_in, tx_out), count)
        /\ pc' \in {"e_copie", "e_irq"} /\ UNCHANGED <<count, rendu, tampon, nonbloc>>
    BY <1>6 DEF EcrireCalcul
  <2>2. vu' \in Index /\ n' \in 0 .. BUF_LEN - 1
    BY <1>0, <2>1, TaillesCopie
  <2> QED
    BY <2>1, <2>2 DEF TypesAppel, EnEcriture
<1>7. CASE EcrireCopie
  BY <1>7 DEF EcrireCopie, TypesAppel, EnEcriture
<1>8. CASE EcrirePublie
  <2>1. /\ count' = count - n /\ n' = 0 /\ vu' = 0 /\ rendu' = TRUE /\ pc' = "e_calcul"
        /\ pc = "e_publie" /\ UNCHANGED <<tampon, nonbloc>>
    BY <1>8 DEF EcrirePublie
  <2>2. n \in 1 .. count
    BY <2>1 DEF TxInv, CopieEmise
  <2>3. count' \in 0 .. CompteMax
    BY <1>0, <2>1, <2>2
  <2> QED
    BY <1>0, <2>1, <2>3 DEF TypesAppel, EnEcriture
<1>9. CASE EcrireIrq \/ EcrireAttente \/ EcrireVerif
  BY <1>5, <1>9 DEF EcrireIrq, EcrireAttente, EcrireVerif, TypesAppel, EnEcriture
<1>10. CASE LireCalcul
  <2>1. /\ vu' = rx_in /\ n' = Moindre(Dispo(rx_in, rx_out), count)
        /\ pc' \in {"l_copie", "l_irq", "l_echec", "l_attente"}
        /\ UNCHANGED <<count, rendu, tampon, nonbloc>>
    BY <1>10 DEF LireCalcul
  <2>2. vu' \in Index /\ n' \in 0 .. BUF_LEN - 1
    BY <1>0, <2>1, TaillesCopie
  <2> QED
    BY <2>1, <2>2 DEF TypesAppel, EnLecture
<1>11. CASE LireCopie
  <2>1. /\ tampon' = [i \in 1 .. n |-> rx_buf[rx_out + i - 1]] /\ pc = "l_copie"
        /\ pc' = "l_publie" /\ UNCHANGED <<count, rendu, n, vu, nonbloc>>
    BY <1>11 DEF LireCopie
  <2>2. /\ n \in Nat /\ n <= BUF_LEN - 1 /\ rx_out + n <= BUF_LEN
        /\ rx_buf \in [Index -> Octet]
    BY <1>0, <2>1 DEF TypesAppel, RxInv, OctetsRx, CopieLue
  <2>3. \A i \in 1 .. n : rx_out + i - 1 \in Index
    BY <1>0, <2>2 DEF Index
  <2>4. tampon' \in Seq(Octet) /\ Len(tampon') = n
    BY <2>1, <2>2, <2>3
  <2> QED
    BY <1>0, <2>1, <2>2, <2>4 DEF TypesAppel, EnLecture
<1>12. CASE LirePublie
  <2>1. /\ count' = count - n /\ n' = 0 /\ vu' = 0 /\ rendu' = TRUE /\ tampon' = <<>>
        /\ pc' \in {"l_calcul", "l_irq"} /\ pc = "l_publie" /\ nonbloc' = nonbloc
    BY <1>12 DEF LirePublie
  <2>2. n \in 1 .. count
    BY <2>1 DEF RxInv, CopieLue
  <2>3. count' \in 0 .. CompteMax
    BY <1>0, <2>1, <2>2
  <2>4. tampon' \in Seq(Octet) /\ Len(tampon') = 0
    BY <2>1
  <2> QED
    BY <1>0, <2>1, <2>3, <2>4 DEF TypesAppel, EnLecture
<1>13. CASE LireAttente \/ LireVerif
  BY <1>13 DEF LireAttente, LireVerif, TypesAppel, EnLecture
<1>14. CASE LireEchec \/ LireIrq \/ FermerAttente
  BY <1>5, <1>14 DEF LireEchec, LireIrq, FermerAttente
<1>15. CASE Isr \/ Seconde \/ Hote \/ Ioctl \/ UNCHANGED vars
  <2>1. UNCHANGED appelVars
    BY <1>15 DEF Isr, IsrEntree, IsrControle, IsrLirePlein, IsrLireOctet, IsrLireVide,
         IsrLireCroise, IsrEcrireOctet, IsrEcrireFin, Seconde, Hote, HoteBranche, HoteLit,
         HoteEcrit, HotePause, Ioctl, vars
  <2> QED
    BY <2>1 DEF appelVars, TypesAppel, EnEcriture, EnLecture
<1> QED
  BY <1>2, <1>3, <1>4, <1>6, <1>7, <1>8, <1>9, <1>10, <1>11, <1>12, <1>13, <1>14, <1>15
     DEF Next, Appel, Programme, Ecrire, Lire

\* The indices, the FIFOs, the counts and the copies of the driver stay in
\* their bounds.
THEOREM TypesUart == Spec => []TypeOK
<1>1. Init => TypesCoeur /\ TypesAppel /\ TxInv /\ RxInv
  BY TypesCoeurDebut, TypesAppelDebut, TxDebut, RxDebut
<1>2. /\ TypesCoeur /\ TypesAppel /\ TxInv /\ RxInv /\ [Next]_vars
      => (TypesCoeur /\ TypesAppel /\ TxInv /\ RxInv)'
  BY TypesCoeurPas, TypesAppelPas, TxPas, RxPas
<1>3. TypesCoeur /\ TypesAppel /\ TxInv /\ RxInv => TypeOK
  <2> SUFFICES ASSUME TypesCoeur, TypesAppel, TxInv, RxInv PROVE TypeOK
    OBVIOUS
  <2>1. space \in 0 .. ProfW
    BY ContenuTx DEF TxInv, Espace
  <2> QED
    BY <2>1, ContenuTx, ContenuRx DEF TypeOK, TypesCoeur, TypesAppel, TxInv, OctetsTx, RxInv,
         OctetsRx
<1> QED
  BY <1>1, <1>2, <1>3, PTL DEF Spec
=============================================================================
