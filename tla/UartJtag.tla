------------------------------ MODULE UartJtag ------------------------------
(***************************************************************************)
(* The JTAG UART through which the programs print and read the keyboard:   *)
(* the interrupt-driven driver of the BSP (write, read, close, ioctl, the  *)
(* interrupt routine, the callback of each second), the registers and the  *)
(* two FIFOs of the core, and the host at the other end of the cable.      *)
(*                                                                         *)
(* The program and the driver routines share the rings without a lock: one *)
(* side moves tx_in and rx_out, the interrupt routine moves tx_out and     *)
(* rx_in.  A routine in progress keeps the program from running; the host  *)
(* acts between any two accesses of either.  A restart of the driver ends  *)
(* a behaviour and begins another, in one of the states of Init.           *)
(***************************************************************************)
EXTENDS Integers, Sequences

CONSTANTS
    BUF_LEN,            \* size of each ring; one slot stays empty
    ProfW, ProfR,       \* depths of the FIFOs of the core
    SeuilW, SeuilR,     \* their interrupt thresholds
    K,                  \* bytes are numbered modulo K
    CompteMax,          \* the longest call
    DEFAULT_TIMEOUT,
    INT_MAX,
    Delais              \* the arguments of TIOCSTIMEOUT

ASSUME UartAssumption ==
    /\ BUF_LEN \in Nat /\ BUF_LEN >= 2
    /\ ProfW \in Nat /\ SeuilW \in Nat /\ SeuilW < ProfW
    /\ ProfR \in Nat /\ SeuilR \in Nat /\ SeuilR < ProfR
    /\ K \in Nat \ {0}
    /\ CompteMax \in Nat \ {0}
    /\ INT_MAX \in Nat /\ DEFAULT_TIMEOUT \in 2 .. INT_MAX - 1
    /\ Delais \subseteq Int

VARIABLES
    tx_buf, tx_in, tx_out,
    rx_buf, rx_in, rx_out,
    irq_enable,             \* the driver's copy and the core's bits, always equal
    host_inactive, timeout,
    wfifo, rfifo,           \* to the host, from the host
    ac, pause_irq,          \* bits of the core
    isr,                    \* where the interrupt routine is
    wi, space, ravail,      \* its locals: WI of control, space, RAVAIL of data
    pc,                     \* where the program is
    count,                  \* bytes left (space in read)
    rendu,                  \* some byte is done: ptr # start
    n, vu,                  \* size of the copy; out (in) read by write (read)
    tampon,                 \* the bytes that read has copied
    nonbloc,                \* O_NONBLOCK
    connecte,               \* a host listens
    horloge,                \* the BSP has a system clock
    prochain_tx, prochain_rx, sorti_tx, sorti_rx    \* history: see Canal

txVars   == <<tx_buf, tx_in, tx_out>>
rxVars   == <<rx_buf, rx_in, rx_out>>
tempsVars == <<host_inactive, timeout>>
coeurVars == <<ac, pause_irq>>
isrVars  == <<isr, wi, space, ravail>>
appelVars == <<pc, count, rendu, n, vu, tampon, nonbloc>>
hoteVars == <<connecte, horloge>>
histTx   == <<prochain_tx, sorti_tx>>
histRx   == <<prochain_rx, sorti_rx>>
vars == <<txVars, rxVars, irq_enable, tempsVars, wfifo, rfifo, coeurVars,
          isrVars, appelVars, hoteVars, histTx, histRx>>

Index == 0 .. BUF_LEN - 1
Octet == 0 .. K - 1

Suivant(i) == (i + 1) % BUF_LEN

\* The bytes of a ring, the oldest first.
Anneau(buf, out, in) ==
    [i \in 1 .. (in - out) % BUF_LEN |-> buf[(out + i - 1) % BUF_LEN]]

Lot(debut, taille) == [i \in 1 .. taille |-> (debut + i - 1) % K]

\* The start of the driver.  A download does not empty the FIFOs: they hold what
\* the program before it and the host have left there.
Init ==
    /\ tx_buf = [i \in Index |-> 0] /\ tx_in = 0 /\ tx_out = 0
    /\ rx_buf = [i \in Index |-> 0] /\ rx_in = 0 /\ rx_out = 0
    /\ irq_enable = {"RE"}
    /\ horloge \in BOOLEAN
    /\ host_inactive = 0
    /\ timeout = IF horloge THEN DEFAULT_TIMEOUT ELSE INT_MAX
    /\ \E m \in 0 .. ProfW : wfifo = Lot(0, m) /\ prochain_tx = m % K
    /\ \E m \in 0 .. ProfR : rfifo = Lot(0, m) /\ prochain_rx = m % K
    /\ ac \in BOOLEAN /\ pause_irq \in {FALSE, rfifo # <<>>}
    /\ isr = "repos" /\ wi = FALSE /\ space = 0 /\ ravail = FALSE
    /\ pc = "libre" /\ count = 0 /\ rendu = FALSE /\ n = 0 /\ vu = 0
    /\ tampon = <<>> /\ nonbloc = FALSE
    /\ connecte \in BOOLEAN
    /\ sorti_tx = <<>> /\ sorti_rx = <<>>

-----------------------------------------------------------------------------
(* The calls of the program.                                               *)

Inactif == host_inactive >= timeout

\* Locals that no longer matter are put back to fixed values, here and below.
Revenir ==
    /\ pc' = "libre"
    /\ count' = 0 /\ rendu' = FALSE /\ n' = 0 /\ vu' = 0
    /\ tampon' = <<>> /\ nonbloc' = FALSE

Appeler(debut, taille, nb) ==
    /\ isr = "repos" /\ pc = "libre"
    /\ pc' = debut /\ count' = taille /\ nonbloc' = nb
    /\ UNCHANGED <<rendu, n, vu, tampon>>
    /\ UNCHANGED <<txVars, rxVars, irq_enable, tempsVars, wfifo, rfifo,
                   coeurVars, isrVars, hoteVars, histTx, histRx>>

AppelEcrire == \E c \in 0 .. CompteMax, nb \in BOOLEAN : Appeler("e_calcul", c, nb)
AppelLire   == \E c \in 1 .. CompteMax, nb \in BOOLEAN : Appeler("l_calcul", c, nb)
AppelFermer == \E nb \in BOOLEAN : Appeler("f_attente", 0, nb)

\* ioctl(TIOCSTIMEOUT): nothing when there is no clock.
Ioctl ==
    /\ isr = "repos" /\ pc = "libre" /\ timeout # INT_MAX
    /\ \E d \in Delais : timeout' = IF d >= 2 /\ d < INT_MAX THEN d ELSE INT_MAX - 1
    /\ UNCHANGED <<txVars, rxVars, irq_enable, host_inactive, wfifo, rfifo,
                   coeurVars, isrVars, appelVars, hoteVars, histTx, histRx>>

\* Mutant: the slot that tells a full ring from an empty one is used.
PlaceEntiere(in, out) == IF in < out THEN out - in ELSE BUF_LEN - in

\* The free slots that follow in without a wrap, one slot being kept empty.
Place(in, out) ==
    IF in < out THEN out - 1 - in
    ELSE IF out > 0 THEN BUF_LEN - in ELSE BUF_LEN - 1 - in

\* The bytes that follow out without a wrap.
Dispo(in, out) == IF in >= out THEN in - out ELSE BUF_LEN - out

Moindre(a, b) == IF a < b THEN a ELSE b

\* write: the ring is copied into as long as it has room.
EcrireCalcul ==
    /\ isr = "repos" /\ pc = "e_calcul"
    /\ vu' = IF count > 0 THEN tx_out ELSE 0
    /\ n' = Moindre(Place(tx_in, tx_out), count)
    /\ pc' = IF n' > 0 THEN "e_copie" ELSE "e_irq"
    /\ UNCHANGED <<count, rendu, tampon, nonbloc>>
    /\ UNCHANGED <<txVars, rxVars, irq_enable, tempsVars, wfifo, rfifo,
                   coeurVars, isrVars, hoteVars, histTx, histRx>>

EcrireCopie ==
    /\ isr = "repos" /\ pc = "e_copie"
    /\ tx_buf' = [i \in Index |->
           IF i \in tx_in .. tx_in + n - 1 THEN (prochain_tx + i - tx_in) % K
           ELSE tx_buf[i]]
    /\ pc' = "e_publie"
    /\ UNCHANGED <<count, rendu, n, vu, tampon, nonbloc, tx_in, tx_out>>
    /\ UNCHANGED <<rxVars, irq_enable, tempsVars, wfifo, rfifo,
                   coeurVars, isrVars, hoteVars, histTx, histRx>>

EcrirePublie ==
    /\ isr = "repos" /\ pc = "e_publie"
    /\ tx_in' = (tx_in + n) % BUF_LEN
    /\ count' = count - n
    /\ rendu' = TRUE
    /\ prochain_tx' = (prochain_tx + n) % K
    /\ pc' = "e_calcul"
    /\ n' = 0 /\ vu' = 0
    /\ UNCHANGED <<tampon, nonbloc, tx_buf, tx_out, sorti_tx>>
    /\ UNCHANGED <<rxVars, irq_enable, tempsVars, wfifo, rfifo,
                   coeurVars, isrVars, hoteVars, histRx>>

\* Mutant: the interrupt is enabled only if the ring had no room for all.
EcrireIrqSiReste ==
    /\ isr = "repos" /\ pc = "e_irq"
    /\ irq_enable' = IF count > 0 THEN irq_enable \cup {"WE"} ELSE irq_enable
    /\ IF count = 0 \/ nonbloc THEN Revenir
       ELSE /\ pc' = "e_attente"
            /\ UNCHANGED <<count, rendu, n, vu, tampon, nonbloc>>
    /\ UNCHANGED <<txVars, rxVars, tempsVars, wfifo, rfifo, coeurVars, isrVars,
                   hoteVars, histTx, histRx>>

\* The interrupt is enabled, with interrupts disabled for the two stores.
EcrireIrq ==
    /\ isr = "repos" /\ pc = "e_irq"
    /\ irq_enable' = irq_enable \cup {"WE"}
    /\ IF count = 0 \/ nonbloc THEN Revenir
       ELSE /\ pc' = "e_attente"
            /\ UNCHANGED <<count, rendu, n, vu, tampon, nonbloc>>
    /\ UNCHANGED <<txVars, rxVars, tempsVars, wfifo, rfifo, coeurVars, isrVars,
                   hoteVars, histTx, histRx>>

\* Mutant: the presence of the host is not looked at.
EcrireAttenteSansDelai ==
    /\ isr = "repos" /\ pc = "e_attente"
    /\ vu # tx_out
    /\ pc' = "e_verif"
    /\ UNCHANGED <<count, rendu, n, vu, tampon, nonbloc>>
    /\ UNCHANGED <<txVars, rxVars, irq_enable, tempsVars, wfifo, rfifo,
                   coeurVars, isrVars, hoteVars, histTx, histRx>>

\* The end of the busy wait: the ring has moved, or the host is taken for gone.
EcrireAttente ==
    /\ isr = "repos" /\ pc = "e_attente"
    /\ vu # tx_out \/ Inactif
    /\ pc' = "e_verif"
    /\ UNCHANGED <<count, rendu, n, vu, tampon, nonbloc>>
    /\ UNCHANGED <<txVars, rxVars, irq_enable, tempsVars, wfifo, rfifo,
                   coeurVars, isrVars, hoteVars, histTx, histRx>>

\* tx_out is read again: it may have moved since the wait ended.
EcrireVerif ==
    /\ isr = "repos" /\ pc = "e_verif"
    /\ IF vu = tx_out THEN Revenir
       ELSE /\ pc' = "e_calcul"
            /\ UNCHANGED <<count, rendu, n, vu, tampon, nonbloc>>
    /\ UNCHANGED <<txVars, rxVars, irq_enable, tempsVars, wfifo, rfifo,
                   coeurVars, isrVars, hoteVars, histTx, histRx>>

\* read: the bytes at hand are copied; with none, an error or a busy wait.
LireCalcul ==
    /\ isr = "repos" /\ pc = "l_calcul"
    /\ vu' = rx_in
    /\ n' = Moindre(Dispo(rx_in, rx_out), count)
    /\ pc' = IF n' > 0 THEN "l_copie"
             ELSE IF rendu THEN "l_irq"
             ELSE IF nonbloc THEN "l_echec" ELSE "l_attente"
    /\ UNCHANGED <<count, rendu, tampon, nonbloc>>
    /\ UNCHANGED <<txVars, rxVars, irq_enable, tempsVars, wfifo, rfifo,
                   coeurVars, isrVars, hoteVars, histTx, histRx>>

LireCopie ==
    /\ isr = "repos" /\ pc = "l_copie"
    /\ tampon' = [i \in 1 .. n |-> rx_buf[rx_out + i - 1]]
    /\ pc' = "l_publie"
    /\ UNCHANGED <<count, rendu, n, vu, nonbloc>>
    /\ UNCHANGED <<txVars, rxVars, irq_enable, tempsVars, wfifo, rfifo,
                   coeurVars, isrVars, hoteVars, histTx, histRx>>

LirePublie ==
    /\ isr = "repos" /\ pc = "l_publie"
    /\ rx_out' = (rx_out + n) % BUF_LEN
    /\ count' = count - n
    /\ rendu' = TRUE
    /\ sorti_rx' = tampon
    /\ tampon' = <<>> /\ n' = 0 /\ vu' = 0
    /\ pc' = IF count' > 0 THEN "l_calcul" ELSE "l_irq"
    /\ UNCHANGED <<nonbloc, rx_buf, rx_in, prochain_rx>>
    /\ UNCHANGED <<txVars, irq_enable, tempsVars, wfifo, rfifo,
                   coeurVars, isrVars, hoteVars, histTx>>

LireAttente ==
    /\ isr = "repos" /\ pc = "l_attente"
    /\ vu # rx_in \/ Inactif
    /\ pc' = "l_verif"
    /\ UNCHANGED <<count, rendu, n, vu, tampon, nonbloc>>
    /\ UNCHANGED <<txVars, rxVars, irq_enable, tempsVars, wfifo, rfifo,
                   coeurVars, isrVars, hoteVars, histTx, histRx>>

LireVerif ==
    /\ isr = "repos" /\ pc = "l_verif"
    /\ pc' = IF vu = rx_in THEN "l_echec" ELSE "l_calcul"
    /\ UNCHANGED <<count, rendu, n, vu, tampon, nonbloc>>
    /\ UNCHANGED <<txVars, rxVars, irq_enable, tempsVars, wfifo, rfifo,
                   coeurVars, isrVars, hoteVars, histTx, histRx>>

\* -EIO or -EWOULDBLOCK: the interrupt is left as it is.
LireEchec ==
    /\ isr = "repos" /\ pc = "l_echec"
    /\ Revenir
    /\ UNCHANGED <<txVars, rxVars, irq_enable, tempsVars, wfifo, rfifo,
                   coeurVars, isrVars, hoteVars, histTx, histRx>>

\* Mutant: receive interrupts stay off.
LireIrqSansRE ==
    /\ isr = "repos" /\ pc = "l_irq"
    /\ Revenir
    /\ UNCHANGED <<txVars, rxVars, irq_enable, tempsVars, wfifo, rfifo,
                   coeurVars, isrVars, hoteVars, histTx, histRx>>

LireIrq ==
    /\ isr = "repos" /\ pc = "l_irq"
    /\ irq_enable' = irq_enable \cup {"RE"}
    /\ Revenir
    /\ UNCHANGED <<txVars, rxVars, tempsVars, wfifo, rfifo, coeurVars, isrVars,
                   hoteVars, histTx, histRx>>

\* close: wait until the ring is empty, unless the call must not block.
FermerAttente ==
    /\ isr = "repos" /\ pc = "f_attente"
    /\ tx_out = tx_in \/ Inactif \/ nonbloc
    /\ Revenir
    /\ UNCHANGED <<txVars, rxVars, irq_enable, tempsVars, wfifo, rfifo,
                   coeurVars, isrVars, hoteVars, histTx, histRx>>

Ecrire == EcrireCalcul \/ EcrireCopie \/ EcrirePublie \/ EcrireIrq
             \/ EcrireAttente \/ EcrireVerif
Lire   == LireCalcul \/ LireCopie \/ LirePublie \/ LireAttente \/ LireVerif
             \/ LireEchec \/ LireIrq

-----------------------------------------------------------------------------
(* The interrupt routine and the callback of each second.                  *)

RI == "RE" \in irq_enable /\ (pause_irq \/ ProfR - Len(rfifo) <= SeuilR)
WI == "WE" \in irq_enable /\ Len(wfifo) <= SeuilW

IsrEntree ==
    /\ isr = "repos" /\ (RI \/ WI)
    /\ isr' = "controle"
    /\ UNCHANGED <<wi, space, ravail>>
    /\ UNCHANGED <<txVars, rxVars, irq_enable, tempsVars, wfifo, rfifo,
                   coeurVars, appelVars, hoteVars, histTx, histRx>>

\* Mutant: the routine does not suppose that there is data.
IsrControleSansRavail ==
    /\ isr = "controle"
    /\ wi' = WI
    /\ space' = IF WI THEN ProfW - Len(wfifo) ELSE 0
    /\ ravail' = FALSE
    /\ isr' = IF RI THEN "lire" ELSE IF WI THEN "ecrire" ELSE "repos"
    /\ UNCHANGED <<txVars, rxVars, irq_enable, tempsVars, wfifo, rfifo,
                   coeurVars, appelVars, hoteVars, histTx, histRx>>

\* One read of the control register decides what this turn does.
IsrControle ==
    /\ isr = "controle"
    /\ wi' = WI
    /\ space' = IF WI THEN ProfW - Len(wfifo) ELSE 0
    /\ ravail' = RI
    /\ isr' = IF RI THEN "lire" ELSE IF WI THEN "ecrire" ELSE "repos"
    /\ UNCHANGED <<txVars, rxVars, irq_enable, tempsVars, wfifo, rfifo,
                   coeurVars, appelVars, hoteVars, histTx, histRx>>

\* The end of the receive loop: with data left over, receive interrupts stop.
FinLecture(reste) ==
    /\ irq_enable' = IF reste THEN irq_enable \ {"RE"} ELSE irq_enable
    /\ isr' = IF wi THEN "ecrire" ELSE "controle"
    /\ ravail' = FALSE
    /\ UNCHANGED <<wi, space>>

IsrLirePlein ==
    /\ isr = "lire" /\ Suivant(rx_in) = rx_out
    /\ FinLecture(ravail)
    /\ UNCHANGED <<txVars, rxVars, tempsVars, wfifo, rfifo,
                   coeurVars, appelVars, hoteVars, histTx, histRx>>

\* Mutant: the room in the ring is not looked at.
IsrLireOctetSansPlace ==
    /\ isr = "lire" /\ rfifo # <<>>
    /\ rx_buf' = [rx_buf EXCEPT ![rx_in] = Head(rfifo)]
    /\ rx_in' = Suivant(rx_in)
    /\ rfifo' = Tail(rfifo)
    /\ pause_irq' = FALSE
    /\ ravail' = (Tail(rfifo) # <<>>)
    /\ UNCHANGED <<isr, wi, space, rx_out, ac>>
    /\ UNCHANGED <<txVars, irq_enable, tempsVars, wfifo, appelVars, hoteVars,
                   histTx, histRx>>

\* RVALID: the byte goes to the ring; RAVAIL says whether others remain.
IsrLireOctet ==
    /\ isr = "lire" /\ Suivant(rx_in) # rx_out /\ rfifo # <<>>
    /\ rx_buf' = [rx_buf EXCEPT ![rx_in] = Head(rfifo)]
    /\ rx_in' = Suivant(rx_in)
    /\ rfifo' = Tail(rfifo)
    /\ pause_irq' = FALSE
    /\ ravail' = (Tail(rfifo) # <<>>)
    /\ UNCHANGED <<isr, wi, space, rx_out, ac>>
    /\ UNCHANGED <<txVars, irq_enable, tempsVars, wfifo, appelVars, hoteVars,
                   histTx, histRx>>

\* No RVALID: the FIFO is empty.
IsrLireVide ==
    /\ isr = "lire" /\ Suivant(rx_in) # rx_out /\ rfifo = <<>>
    /\ pause_irq' = FALSE
    /\ FinLecture(FALSE)
    /\ UNCHANGED <<txVars, rxVars, tempsVars, wfifo, rfifo, ac,
                   appelVars, hoteVars, histTx, histRx>>

\* No RVALID, but a byte comes in the same cycle and RAVAIL counts it.
IsrLireCroise ==
    /\ isr = "lire" /\ Suivant(rx_in) # rx_out /\ rfifo = <<>> /\ connecte
    /\ rfifo' = <<prochain_rx>>
    /\ prochain_rx' = (prochain_rx + 1) % K
    /\ ac' = TRUE
    /\ pause_irq' = FALSE
    /\ FinLecture(TRUE)
    /\ UNCHANGED <<txVars, rxVars, tempsVars, wfifo,
                   appelVars, hoteVars, histTx, sorti_rx>>

IsrEcrireOctet ==
    /\ isr = "ecrire" /\ space > 0 /\ tx_out # tx_in
    /\ wfifo' = IF Len(wfifo) < ProfW THEN Append(wfifo, tx_buf[tx_out]) ELSE wfifo
    /\ tx_out' = Suivant(tx_out)
    /\ space' = space - 1
    /\ UNCHANGED <<isr, wi, ravail, tx_buf, tx_in>>
    /\ UNCHANGED <<rxVars, irq_enable, tempsVars, rfifo, coeurVars, appelVars,
                   hoteVars, histTx, histRx>>

\* Mutant: the transmit interrupt is turned off with data left.
IsrEcrireFinToujours ==
    /\ isr = "ecrire" /\ (space = 0 \/ tx_out = tx_in)
    /\ irq_enable' = irq_enable \ {"WE"}
    /\ isr' = "controle" /\ wi' = FALSE /\ space' = 0
    /\ UNCHANGED ravail
    /\ UNCHANGED <<txVars, rxVars, tempsVars, wfifo, rfifo, coeurVars, appelVars,
                   hoteVars, histTx, histRx>>

\* With space left there is nothing to send: the transmit interrupt stops.
IsrEcrireFin ==
    /\ isr = "ecrire" /\ (space = 0 \/ tx_out = tx_in)
    /\ irq_enable' = IF space > 0 THEN irq_enable \ {"WE"} ELSE irq_enable
    /\ isr' = "controle" /\ wi' = FALSE /\ space' = 0
    /\ UNCHANGED ravail
    /\ UNCHANGED <<txVars, rxVars, tempsVars, wfifo, rfifo, coeurVars, appelVars,
                   hoteVars, histTx, histRx>>

Isr == IsrEntree \/ IsrControle \/ IsrLirePlein \/ IsrLireOctet \/ IsrLireVide
          \/ IsrLireCroise \/ IsrEcrireOctet \/ IsrEcrireFin

\* Mutant: the count has no bound.
SecondeSansBorne ==
    /\ isr = "repos" /\ horloge
    /\ IF ac THEN ac' = FALSE /\ host_inactive' = 0
       ELSE /\ host_inactive' = host_inactive + 1
            /\ UNCHANGED ac
    /\ UNCHANGED <<txVars, rxVars, irq_enable, timeout, wfifo, rfifo, pause_irq,
                   isrVars, appelVars, hoteVars, histTx, histRx>>

\* altera_avalon_jtag_uart_timeout: has the host shown itself since last time?
Seconde ==
    /\ isr = "repos" /\ horloge
    /\ IF ac THEN ac' = FALSE /\ host_inactive' = 0
       ELSE /\ host_inactive' = IF host_inactive < INT_MAX - 2
                                THEN host_inactive + 1 ELSE host_inactive
            /\ UNCHANGED ac
    /\ UNCHANGED <<txVars, rxVars, irq_enable, timeout, wfifo, rfifo, pause_irq,
                   isrVars, appelVars, hoteVars, histTx, histRx>>

-----------------------------------------------------------------------------
(* The host, through the JTAG core.                                        *)

HoteBranche ==
    /\ connecte' = ~connecte
    /\ UNCHANGED <<txVars, rxVars, irq_enable, tempsVars, wfifo, rfifo,
                   coeurVars, isrVars, appelVars, horloge, histTx, histRx>>

HoteLit ==
    /\ connecte /\ wfifo # <<>>
    /\ wfifo' = Tail(wfifo)
    /\ sorti_tx' = <<Head(wfifo)>>
    /\ UNCHANGED <<txVars, rxVars, irq_enable, tempsVars, rfifo, coeurVars,
                   isrVars, appelVars, hoteVars, prochain_tx, histRx>>

HoteEcrit ==
    /\ connecte /\ Len(rfifo) < ProfR
    /\ rfifo' = Append(rfifo, prochain_rx)
    /\ prochain_rx' = (prochain_rx + 1) % K
    /\ ac' = TRUE
    /\ UNCHANGED <<txVars, rxVars, irq_enable, tempsVars, wfifo, pause_irq,
                   isrVars, appelVars, hoteVars, histTx, sorti_rx>>

\* t_pause: the host has nothing more to send for now.
HotePause ==
    /\ connecte
    /\ ac' = TRUE
    /\ pause_irq' = (pause_irq \/ rfifo # <<>>)
    /\ UNCHANGED <<txVars, rxVars, irq_enable, tempsVars, wfifo, rfifo,
                   isrVars, appelVars, hoteVars, histTx, histRx>>

Hote == HoteBranche \/ HoteLit \/ HoteEcrit \/ HotePause

Appel == AppelEcrire \/ AppelLire \/ AppelFermer \/ Ioctl

Programme == Ecrire \/ Lire \/ FermerAttente

Next == Appel \/ Programme \/ Isr \/ Seconde \/ Hote

\* The processor runs, interrupts are served, the clock ticks, and a host that
\* stays connected takes what is sent and signals its pauses.
Equite ==
    /\ WF_vars(Programme) /\ WF_vars(Isr) /\ WF_vars(Seconde)
    /\ WF_vars(HoteLit) /\ WF_vars(HotePause)

Spec == Init /\ [][Next]_vars /\ Equite

-----------------------------------------------------------------------------
(* Properties.                                                             *)

file_tx == wfifo \o Anneau(tx_buf, tx_out, tx_in)
file_rx == Anneau(rx_buf, rx_out, rx_in) \o rfifo

EnEcriture == pc \in {"e_calcul", "e_copie", "e_publie", "e_irq", "e_attente", "e_verif"}
EnLecture  == pc \in {"l_calcul", "l_copie", "l_publie", "l_attente", "l_verif",
                      "l_echec", "l_irq"}

TypeOK ==
    /\ tx_buf \in [Index -> Octet] /\ tx_in \in Index /\ tx_out \in Index
    /\ rx_buf \in [Index -> Octet] /\ rx_in \in Index /\ rx_out \in Index
    /\ irq_enable \subseteq {"RE", "WE"}
    /\ host_inactive \in 0 .. INT_MAX - 2 /\ timeout \in 2 .. INT_MAX
    /\ Len(wfifo) <= ProfW /\ Len(rfifo) <= ProfR
    /\ {ac, pause_irq, wi, ravail, rendu, nonbloc, connecte, horloge} \subseteq BOOLEAN
    /\ isr \in {"repos", "controle", "lire", "ecrire"} /\ space \in 0 .. ProfW
    /\ pc = "libre" \/ pc = "f_attente" \/ EnEcriture \/ EnLecture
    /\ count \in 0 .. CompteMax
    /\ n \in 0 .. BUF_LEN - 1 /\ vu \in Index /\ Len(tampon) <= BUF_LEN

\* No byte that a program has printed waits with nothing to send it: as long
\* as the ring holds one, the transmit interrupt is enabled, or the call that
\* put it there has yet to enable it.  A write that waits compares tx_out with
\* the value it has read before: as long as they are equal the ring is full,
\* even if the routine has moved it, and as soon as it has room they differ.
EmissionArmee ==
    /\ tx_in # tx_out => "WE" \in irq_enable \/ pc \in {"e_calcul", "e_copie", "e_publie", "e_irq"}
    /\ pc = "e_attente" => (vu = tx_out <=> Suivant(tx_in) = tx_out)

\* Receive interrupts are off only while the program has bytes to fetch, whose
\* reading turns them on again: a read that waits on an empty ring never waits
\* for an interrupt that is disabled, and it waits on no other ring.
ReceptionRearmee ==
    /\ "RE" \notin irq_enable => rx_in # rx_out \/ pc \in {"l_calcul", "l_irq"}
    /\ pc = "l_attente" => (vu = rx_in <=> rx_out = rx_in)

\* What the program prints reaches the host, what the user types reaches the
\* program, each byte once and in order, through the ring and the FIFO.
TX == INSTANCE Canal WITH Capacite <- BUF_LEN - 1 + ProfW, file <- file_tx,
                          prochain <- prochain_tx, sorti <- sorti_tx
RX == INSTANCE Canal WITH Capacite <- BUF_LEN - 1 + ProfR, file <- file_rx,
                          prochain <- prochain_rx, sorti <- sorti_rx
EmissionFidele  == TX!CSpec
ReceptionFidele == RX!CSpec

\* Without a clock nobody counts the seconds, and a write that waits on a full
\* ring over a full FIFO waits until the host takes a byte, for ever if there is
\* none: "behave as though the host is present" (init.c:93).
SansFin == ~horloge /\ pc = "e_attente" /\ vu = tx_out /\ Len(wfifo) = ProfW
SansRetour == [][SansFin => SansFin' \/ HoteLit]_vars

\* A printf or a close comes back if the host stays connected, or if it goes
\* for good while the BSP has a clock and the timeout can be reached; without a
\* clock it does not.
RetourEcriture ==
    /\ \/ <>[]connecte
       \/ <>[](horloge /\ ~connecte /\ timeout < INT_MAX - 1)
       => (EnEcriture \/ pc = "f_attente") ~> pc = "libre"
    /\ SansRetour

\* A read comes back once a byte is on its way, if the host stays connected.
RetourLecture == <>[]connecte => (EnLecture /\ file_rx # <<>>) ~> pc = "libre"

\* A host that stays connected is never left waiting for bytes that write has
\* accepted: it goes on taking them until none is left.
Livraison == <>[]connecte => []<>(file_tx = <<>>) \/ []<><<HoteLit>>_vars
=============================================================================
