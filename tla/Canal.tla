------------------------------- MODULE Canal -------------------------------
(***************************************************************************)
(* What one direction of the JTAG UART promises: a bounded channel that    *)
(* keeps the order.  Bytes are numbered modulo K as they are accepted, so  *)
(* that a lost, repeated or overtaken byte shows.                          *)
(***************************************************************************)
EXTENDS Integers, Sequences

CONSTANTS
    K,              \* numbers of bytes; loss shows when K > Capacite
    Capacite        \* the bytes it can hold

VARIABLES
    file,           \* the bytes accepted and not yet delivered
    prochain,       \* the number of the next byte
    sorti           \* the last bytes delivered together

cvars == <<file, prochain, sorti>>

Lot(debut, n) == [i \in 1 .. n |-> (debut + i - 1) % K]

\* The channel may hold bytes when it is opened.
CInit ==
    /\ \E n \in 0 .. Capacite : file = Lot(0, n) /\ prochain = n % K
    /\ sorti = <<>>

Accepter(n) ==
    /\ Len(file) + n <= Capacite
    /\ file' = file \o Lot(prochain, n)
    /\ prochain' = (prochain + n) % K
    /\ UNCHANGED sorti

Livrer(n) ==
    /\ n <= Len(file)
    /\ sorti' = SubSeq(file, 1, n)
    /\ file' = SubSeq(file, n + 1, Len(file))
    /\ UNCHANGED prochain

CNext == \E n \in 1 .. Capacite : Accepter(n) \/ Livrer(n)

CSpec == CInit /\ [][CNext]_cvars
=============================================================================
