----------------------------- MODULE MC_Moteurs -----------------------------
(* The three programs that drive the motors: a behaviour is that of one.    *)
EXTENDS MC_SuiviLigne, BancMoteurs, ControleurTP

VARIABLE programme

\* What the programs before may have left in the register.
Laisses == {[m \in {"L", "R"} |-> [go |-> 0, arriere |-> 0, vitesse |-> 0]],
            envoyer_commande_physique(-PWM_MAX, PWM_MAX)}

\* Bound: the errors 0, 1, 2 and 6 of each side, and no line.
LigneTP == {{}, {0}, {2}, {2, 3}, {3}, {3, 4}, {4}, {6}}

\* The constants of pid.c meet the conditions of its theorems.
ASSUME GainsTP ==
    /\ VirageDomine
    /\ MouvementDomine
    /\ TrimNum >= TrimDen

MCInit ==
    /\ Init /\ BInit /\ TPInit
    /\ programme \in {"hello_world", "calibration", "pid"}
    /\ programme # "calibration" => registre = CHOOSE r \in Laisses : TRUE
    /\ programme # "pid" => registreTP = CHOOSE r \in Laisses : TRUE

MCNext ==
    /\ \/ programme = "hello_world" /\ Next /\ UNCHANGED <<bvars, tpvars>>
       \/ programme = "calibration" /\ BNext /\ UNCHANGED <<vars, tpvars>>
       \/ programme = "pid" /\ TPNext /\ UNCHANGED <<vars, bvars>>
    /\ UNCHANGED programme

MCSpec == MCInit /\ [][MCNext]_<<vars, bvars, tpvars, programme>>
                 /\ WF_vars(programme = "hello_world" /\ Tour(val_capt))
=============================================================================
