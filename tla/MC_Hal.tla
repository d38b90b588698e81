------------------------------- MODULE MC_Hal -------------------------------
(* The two drivers of the HAL that run at interrupt level, one or the other.*)
(* Small rings and FIFOs.  To keep the two directions from multiplying each *)
(* other's states, a behaviour is that of a program that prints, whose user *)
(* does not type, or of one that reads the keyboard.                        *)
EXTENDS UartJtag, Alarmes

VARIABLE usage

MCInit ==
    /\ Init /\ AInit
    /\ usage \in {"affiche", "saisit", "alarmes"}
    /\ usage # "affiche" => wfifo = <<>>
    /\ usage # "saisit" => rfifo = <<>>
    /\ usage = "alarmes" => ~ac /\ ~connecte /\ ~horloge

UartNext ==
    \/ usage = "affiche" /\ (AppelEcrire \/ AppelFermer)
    \/ usage = "saisit" /\ (AppelLire \/ HoteEcrit \/ IsrLireCroise)
    \/ Ioctl \/ Programme
    \/ IsrEntree \/ IsrControle \/ IsrLirePlein \/ IsrLireOctet
    \/ IsrLireVide \/ IsrEcrireOctet \/ IsrEcrireFin
    \/ Seconde \/ HoteBranche \/ HoteLit \/ HotePause

MCNext ==
    /\ \/ usage # "alarmes" /\ UartNext /\ UNCHANGED avars
       \/ usage = "alarmes" /\ ANext /\ UNCHANGED vars
    /\ UNCHANGED usage

MCSpec == MCInit /\ [][MCNext]_<<vars, avars, usage>>
                 /\ (usage # "alarmes" => Equite)
=============================================================================
